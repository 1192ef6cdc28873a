---------------------------- MODULE ReduceKernel ----------------------------
(***************************************************************************)
(* A reduction from its shape to its output: the host cuts it into tiles,  *)
(* and every block runs its A tiles.  For each it loads the R tiles, two   *)
(* at a time, fills what a shorter one leaves open with a neutral value,   *)
(* reduces each in local memory, and adds the results up in a cache like   *)
(* the digits of a binary counter.  When the blocks of a group share an A  *)
(* tile they write to the workspace, and after all of them are done a      *)
(* second stage reduces that.                                              *)
(*                                                                         *)
(* The value of a cell is the set of elements of the input that it is the  *)
(* reduction of: {} the neutral value, Junk anything that is no reduction  *)
(* of elements, each at most once.                                         *)
(*                                                                         *)
(* Left out: what is computed before and after the reduction, cell by      *)
(* cell; operators that bring their own copies; an output of another       *)
(* element size than the input's; an axis named twice.                     *)
(***************************************************************************)
EXTENDS ReduceTiling

CONSTANT Reductions     \* the calls: shape, axes, operator and device

VARIABLES
    given,      \* [shape, axes, op]
    pass,       \* "given", "one", "two", "done" or "failed"
    tiling,     \* the tiling data
    blockId,    \* the block at hand
    workspace,  \* the cells of the workspace that were written
    reduced     \* for each element of the output the writes it got

reduceVars == <<given, pass, tiling, blockId, workspace, reduced>>

Junk == {-1}

Join(cells) ==
    LET all == UNION {cells[i] : i \in DOMAIN cells}
    IN  IF Junk \subseteq all \/ SumFunction([i \in DOMAIN cells |-> Cardinality(cells[i])]) # Cardinality(all)
        THEN Junk
        ELSE all

-----------------------------------------------------------------------------
(* A stage is what a pass over tiles needs: the tiling data with, for the  *)
(* source, its strides, its cells and its elements in a block.             *)

StageOne(t, op) ==
    [blk |-> UbBlock(op), vl |-> VRegSize \div op.maxBytes, pblk |-> UbBlockSize \div op.maxBytes,
     kindOp |-> op.kind,
     stride |-> [i \in DOMAIN t.dims |-> Product(From(t.dims, i + 1))]] @@ t

\* SetGroupTiling: groupR rows of the workspace are reduced to one.  The code
\* has R first here, which is the same as an axis A of length one before it.
StageTwo(t, op) ==
    LET vl == VRegSize \div op.maxBytes
        total == CeilDiv(t.outSize, vl)
    IN  [dims |-> <<1, t.groupR, t.outSize>>, stride |-> <<0, CeilAlign(t.outSize, vl), 1>>,
         idxA |-> 3, ubFactorA |-> vl, idxR |-> 2, ubFactorR |-> t.groupR,
         factorATotalCnt |-> total, factorACntPerCore |-> CeilDiv(total, op.cores),
         factorRTotalCnt |-> 1, factorRCntPerCore |-> 1, groupR |-> 1, outSize |-> t.outSize,
         kindOp |-> op.kind, blk |-> UbBlockSize \div op.maxBytes, vl |-> vl,
         pblk |-> UbBlockSize \div op.maxBytes, useNddma |-> FALSE]

\* The part of the given index of an axis that is cut into steps.
AxisRange(index, step, len) ==
    [start |-> index * step, repeat |-> Min({step, len - index * step})]

\* The range of tile k along the axes of S, cut at axis idx into parts of
\* factor: CalculateIterA, CalculateInnerIterR, CalculateIterR.
TileRange(s, S, idx, factor, k) ==
    LET Step(i) == IF i = idx THEN factor ELSE IF i < idx THEN 1 ELSE s.dims[i]
        loops == [i \in S |-> IF Step(i) = 0 THEN 1 ELSE CeilDiv(s.dims[i], Step(i))]
    IN  [i \in S |->
            AxisRange((k \div Times(loops, {j \in S : j > i})) % loops[i], Step(i), s.dims[i])]

\* The view of A tile a and R tile r.
InitView(s, a, r) ==
    LET n == Len(s.dims)
    IN  TileRange(s, AAxes(n), s.idxA, s.ubFactorA, a) @@ TileRange(s, RAxes(n), s.idxR, s.ubFactorR, r)

Repeats(view) == [i \in DOMAIN view |-> view[i].repeat]

\* A tile with but one row and column of the outer axes is copied row by row
\* after all.
IsBlockAligned(s, view) ==
    ~ s.useNddma \/ Times(Repeats(view), 1 .. Len(s.dims) - 2) = 1

\* The layout of a tile: the axes of the last one's kind inside, then the
\* others.  R tiles of different lengths have the layout of a whole one.
CalculateView(s, view) ==
    LET n == Len(s.dims)
        ext == [i \in 1 .. n |-> IF i = s.idxR THEN s.ubFactorR ELSE view[i].repeat]
        same == {i \in 1 .. n - 1 : IsAxisA(i) <=> IsAxisA(n)}
        other == (1 .. n - 1) \ same
        inner == CeilAlign(ext[n], IF s.useNddma THEN 1 ELSE s.blk)
        full == inner * Times(ext, same)
        row == CeilAlign(full, s.blk)
    IN  [ext |-> ext, same |-> same, inner |-> inner, row |-> row,
         rows |-> Times(ext, other),
         dst |-> [i \in 1 .. n |->
                    IF i = n THEN 1
                    ELSE IF i \in same THEN inner * Times(ext, {j \in same : j > i})
                    ELSE row * Times(ext, {j \in other : j > i})]]

\* Memory src at address x; outside of it there may be anything.
At(src, x) == IF x \in DOMAIN src THEN src[x] ELSE Junk

\* Copying row by row fills a row with zeros up to a block.
CopyInAux(s, view, lay, src) ==
    LET n == Len(s.dims)
        aligned == IsBlockAligned(s, view)
        addr == Dot([i \in 1 .. n |-> view[i].start], s.stride)
        zero == IF s.kindOp = "sum" THEN {} ELSE Junk
        Cell(c) ==
            LET in == c % lay.row
                index == [i \in 1 .. n |->
                            IF i = n THEN in % lay.inner
                            ELSE ((IF i \in lay.same THEN in ELSE c) \div lay.dst[i]) % lay.ext[i]]
                inside == {i \in 1 .. n : index[i] < view[i].repeat}
                pad == IF s.useNddma THEN in ELSE index[n]
                rest == (1 .. n - 1) \ (IF s.useNddma THEN lay.same ELSE {})
            IN  IF inside = 1 .. n /\ Dot(index, lay.dst) = c THEN At(src, addr + Dot(index, s.stride))
                ELSE IF /\ aligned /\ rest \subseteq inside
                        /\ pad \in view[n].repeat .. CeilAlign(view[n].repeat, s.blk) - 1
                THEN zero
                ELSE Junk
    IN  [c \in 0 .. lay.rows * lay.row - 1 |-> Cell(c)]

\* As BurstPaddingStart, but every operator leaves the zeros of the copy.
PaddingFromBlock(s, repeat, main) == CeilAlign(repeat, s.blk)

\* Where the filling of a row starts.  The zeros that the copy leaves at the
\* end of the last block are neutral only for a sum.
BurstPaddingStart(s, repeat, main) ==
    IF s.kindOp # "sum" /\ main > repeat THEN repeat ELSE CeilAlign(repeat, s.blk)

\* CalculatePadding and PadValue: which cells of a tile are filled.
PaddingAR(s, view, lay) ==
    LET n == Len(s.dims)
        main == CeilAlign(lay.ext[n], IF IsBlockAligned(s, view) THEN s.blk ELSE 1)
        mainBurst == CeilAlign(main, s.blk)
        bursts == Times(Repeats(view), RAxes(n - 1))
    IN  {in \in 0 .. lay.row - 1 :
            \/ in < bursts * mainBurst /\ in % mainBurst >= BurstPaddingStart(s, view[n].repeat, main)
            \/ in >= bursts * main}

PaddingRA(s, view, lay) ==
    LET inner == Times(Repeats(view), {i \in RAxes(Len(s.dims)) : i > s.idxR})
    IN  IF s.idxR = 0 THEN {}
        ELSE view[s.idxR].repeat * inner * lay.row .. s.ubFactorR * inner * lay.row - 1

\* CalculataRDetails: how many elements of a row are real, in how many bursts.
RDetails(s, views, lay) ==
    LET n == Len(s.dims)
        longest == Max({views[k][n].repeat : k \in DOMAIN views})
        Bursts(v) == Times(Repeats(v), RAxes(n - 1))
    IN  IF IsBlockAligned(s, views[Len(views)])
        THEN [innerR |-> longest, outerR |-> lay.row \div CeilAlign(longest, s.blk)]
        ELSE [innerR |-> Max({Bursts(views[k]) * lay.ext[n] : k \in DOMAIN views}), outerR |-> 1]

\* Short rows of many are multiplied by a way that fills them itself.
LessBlock(s, d, dimA) == s.kindOp = "prod" /\ d.innerR <= 2 * s.pblk /\ 2 * dimA >= s.vl

PadValueAux(s, view, lay, d, cells) ==
    LET tailA == IsAxisA(Len(s.dims))
        skip == /\ ~ tailA /\ LessBlock(s, d, lay.rows)
                /\ Times(Repeats(view), RAxes(Len(s.dims) - 1)) = 1
        ar == IF tailA \/ skip THEN {} ELSE PaddingAR(s, view, lay)
        ra == IF tailA THEN PaddingRA(s, view, lay) ELSE {}
    IN  [c \in DOMAIN cells |-> IF c % lay.row \in ar \/ c \in ra THEN {} ELSE cells[c]]

\* Compute: one cell for each row (the last axis is reduced) or column.
ComputeAux(s, lay, d, cells) ==
    IF IsAxisA(Len(s.dims))
    THEN [a \in 0 .. lay.row - 1 |-> Join([r \in 0 .. lay.rows - 1 |-> cells[r * lay.row + a]])]
    ELSE LET length == IF LessBlock(s, d, lay.rows) /\ d.outerR = 1 THEN d.innerR ELSE lay.row
         IN  [a \in 0 .. lay.rows - 1 |-> Join([r \in 0 .. length - 1 |-> cells[a * lay.row + r]])]

-----------------------------------------------------------------------------
(* The R tiles of an A tile.                                               *)

\* The largest power of two below n, or 1.
FindNearestPower2(n) == Max({1} \cup {p \in {2 ^ k : k \in 0 .. n} : p < n})
CalLog2(p) == CHOOSE k \in 0 .. p : 2 ^ k = p

\* The ones at the end of the binary form of i.
GetCacheID(i) == CHOOSE k \in 0 .. i + 1 : i % 2 ^ k = 2 ^ k - 1 /\ (i \div 2 ^ k) % 2 = 0

\* The tile of the tensors: one, or two that are merged cell by cell.
BisectionPreHandle(tensors) ==
    IF Len(tensors) = 1 THEN tensors[1]
    ELSE [c \in DOMAIN tensors[1] |-> Join([k \in {1, 2} |-> tensors[k][c]])]

\* Loading, filling and reducing the tiles of the views.
ReduceComputeMerge(s, lay, views, d, src) ==
    ComputeAux(s, lay, d,
        BisectionPreHandle([k \in DOMAIN views |->
            PadValueAux(s, views[k], lay, d, CopyInAux(s, views[k], lay, src))]))

ReduceCompute(s, lay, views, src) == ReduceComputeMerge(s, lay, views, RDetails(s, views, lay), src)

\* A result takes in all levels below its own.
UpdateCache(cache, id, result) ==
    (id :> [c \in DOMAIN result |->
               Join([k \in 0 .. id |-> IF k = id THEN result[c] ELSE cache[k][c]])]) @@ cache

\* The tiles rStart to rStart + count - 1 of A tile a: the first count - pos
\* are each merged with the one pos later.
LinearComputeR(s, a, rStart, count, src) ==
    LET pos == FindNearestPower2(count)
        lay == CalculateView(s, InitView(s, a, rStart))
        Views(tiles) == [k \in DOMAIN tiles |-> InitView(s, a, rStart + tiles[k])]
        Update(cache, i) ==
            UpdateCache(cache, GetCacheID(i),
                        ReduceCompute(s, lay, Views(IF i < count - pos THEN <<i, i + pos>> ELSE <<i>>), src))
    IN  [result |-> FoldLeft(Update, <<>>, [k \in 1 .. pos |-> k - 1])[CalLog2(pos)],
         last |-> InitView(s, a, rStart + (IF count = 2 * pos THEN count ELSE pos) - 1)]

\* CalculateOutView and CopyOutAux: the writes of an A tile, from address
\* addr on.  The rows of A lie side by side in the output.
CopyOut(s, done, addr) ==
    LET n == Len(s.dims)
        rows == Times(Repeats(done.last), AAxes(n - 1))
        packed == ~ IsBlockAligned(s, done.last)
        outLen == IF packed THEN done.last[n].repeat * rows ELSE done.last[n].repeat
        pitch == CeilAlign(outLen, s.blk)
    IN  IF ~ IsAxisA(n) THEN [e \in addr .. addr + rows - 1 |-> done.result[e - addr]]
        ELSE [e \in addr .. addr + done.last[n].repeat * rows - 1 |->
                 done.result[((e - addr) \div outLen) * pitch + ((e - addr) % outLen)]]

\* PostReduce: where A tile a starts in the output.
OutAddr(s, a) ==
    LET view == InitView(s, a, 0)
        axes == AAxes(Len(s.dims))
    IN  SumFunction([i \in axes |-> view[i].start * Times(s.dims, {j \in axes : j > i})])

\* CopyOutGroup: where block b starts in the workspace.
GroupAddr(s, b) ==
    LET n == Len(s.dims)
        axisStep == CeilDiv(s.dims[s.idxA], s.ubFactorA)
        innerA == Times(s.dims, {i \in AAxes(n) : i > s.idxA})
    IN  (b % s.groupR) * CeilAlign(s.outSize, s.vl)
            + (b \div (s.groupR * axisStep)) * s.dims[s.idxA] * innerA
            + ((b \div s.groupR) % axisStep) * s.ubFactorA * innerA

\* The A tiles of block b of a stage without groups.
ATiles(s, b) ==
    {a \in b * s.factorACntPerCore .. (b + 1) * s.factorACntPerCore - 1 : a < s.factorATotalCnt}

\* What block b writes to the output.
BlockWrites(s, b, src) ==
    FoldSet(LAMBDA a, acc : CopyOut(s, LinearComputeR(s, a, 0, s.factorRCntPerCore, src), OutAddr(s, a)) @@ acc,
            <<>>, ATiles(s, b))

\* Block b of a group: its share of the R tiles of A tile b \div groupR.
GroupWrites(s, b, src) ==
    LET rStart == (b % s.groupR) * s.factorRCntPerCore
        count == Min({s.factorRCntPerCore, s.factorRTotalCnt - rStart})
    IN  IF count <= 0 THEN <<>>
        ELSE CopyOut(s, LinearComputeR(s, b \div s.groupR, rStart, count, src), GroupAddr(s, b))

\* ReduceTensorEmpty and ReduceTensorMove: one range of the output per tile.
LinearWrites(s, b, src) ==
    LET first == b * s.factorACntPerCore
        last == Min({first + s.factorACntPerCore, s.factorATotalCnt}) - 1
    IN  [e \in first * s.ubFactorA .. Min({(last + 1) * s.ubFactorA, s.outSize}) - 1 |-> At(src, e)]

-----------------------------------------------------------------------------
ReduceInit ==
    /\ given \in Reductions
    /\ pass = "given" /\ tiling = Failed /\ blockId = 0
    /\ workspace = <<>> /\ reduced = <<>>

\* Tiling4ReduceOp, and the launch.  Only the axes may be refused: when the
\* local memory is too small the launch is reported a success as well.
DoReduceTiling ==
    /\ pass = "given"
    /\ \E t \in DoReduceTilings(given.shape, given.axes, given.op) :
         /\ tiling' = t
         /\ pass' = IF t.fails THEN "failed" ELSE "one"
         /\ reduced' = IF t.fails THEN <<>> ELSE [e \in 0 .. t.outSize - 1 |-> <<>>]
    /\ UNCHANGED <<given, blockId, workspace>>

LastReduceBlock == blockId = tiling.blockDim - 1

\* The output with the writes w added.
Written(w) ==
    [e \in DOMAIN reduced \cup DOMAIN w |->
        (IF e \in DOMAIN reduced THEN reduced[e] ELSE <<>>)
            \o (IF e \in DOMAIN w THEN <<w[e]>> ELSE <<>>)]

\* One block of the kernel; of a group kernel its first stage.
RunBlock ==
    /\ pass = "one"
    /\ LET s == StageOne(tiling, given.op)
           input == [x \in 0 .. Product(given.shape) - 1 |-> {x}]
       IN  CASE tiling.kind = "group" ->
                  /\ LET w == GroupWrites(s, blockId, input)
                     IN  workspace' = [c \in DOMAIN w \cup DOMAIN workspace |->
                                          IF c \notin DOMAIN w THEN workspace[c]
                                          ELSE IF c \in DOMAIN workspace THEN Junk ELSE w[c]]
                  /\ UNCHANGED reduced
             [] tiling.kind = "normal" ->
                  reduced' = Written(BlockWrites(s, blockId, input)) /\ UNCHANGED workspace
             [] tiling.kind = "move" ->
                  reduced' = Written(LinearWrites(s, blockId, input)) /\ UNCHANGED workspace
             [] tiling.kind = "empty" ->
                  /\ reduced' = IF tiling.outSize = 0 THEN reduced
                                ELSE Written(LinearWrites(tiling, blockId, [e \in 0 .. tiling.outSize - 1 |-> {}]))
                  /\ UNCHANGED workspace
    /\ blockId' = IF LastReduceBlock THEN 0 ELSE blockId + 1
    /\ pass' = IF ~ LastReduceBlock THEN "one"
                ELSE IF tiling.kind = "group" THEN "two" ELSE "done"
    /\ UNCHANGED <<given, tiling>>

\* After SyncAll one block of the second stage of a group kernel.
RunGroupBlock ==
    /\ pass = "two"
    /\ reduced' = Written(BlockWrites(StageTwo(tiling, given.op), blockId, workspace))
    /\ blockId' = IF LastReduceBlock THEN 0 ELSE blockId + 1
    /\ pass' = IF LastReduceBlock THEN "done" ELSE "two"
    /\ UNCHANGED <<given, tiling, workspace>>

ReduceNext == DoReduceTiling \/ RunBlock \/ RunGroupBlock

-----------------------------------------------------------------------------
(* Properties.                                                             *)

\* The element of the output that element x of the input belongs to.
Place(x) ==
    LET axes == MakeWrapDim(given.shape, given.axes)
        kept == SelectSeq([i \in DOMAIN given.shape |-> i], LAMBDA i : i - 1 \notin axes)
        index == Digits(x, given.shape)
    IN  FoldLeft(LAMBDA a, i : a * given.shape[i] + index[i], 0, kept)

\* A product leaves out the filling of a tile whose real part is short, but
\* multiplies all of it unless it is short as a whole (reduce_operator.h,
\* lines 1391 and 819): it takes in whatever was in memory.
UnfilledProduct ==
    LET s == StageOne(tiling, given.op)
    IN  /\ given.op.kind = "prod" /\ ~ IsAxisA(Len(s.dims))
        /\ \E a \in 0 .. s.factorATotalCnt - 1, r \in 0 .. s.factorRTotalCnt - 1 :
              LET view == InitView(s, a, r)
                  lay == CalculateView(s, view)
                  d == RDetails(s, <<view>>, lay)
              IN  LessBlock(s, d, lay.rows) /\ d.outerR # 1
                  /\ Times(Repeats(view), RAxes(Len(s.dims) - 1)) = 1

\* The local memory holds a register of elements in each buffer.
RoomForBlocks ==
    \A b \in CalcBasicBlock(PadDimOne(TransformShape(given.shape, given.axes)), given.op) : ~ b.fails

\* The elements of the output.
Places ==
    Times(given.shape, {i \in DOMAIN given.shape : i - 1 \notin MakeWrapDim(given.shape, given.axes)})

\* The output is the reduction: every element of it is written once, from the
\* elements of the input that belong to it, each taken once, and nothing else
\* is written.  This holds however the tiles fall on axes, blocks and groups,
\* and whatever memory holds beside the elements that were loaded.  A local
\* memory without room for the blocks, of which the caller is told nothing
\* (reduce_tiling.cpp, line 378), leaves the whole output as it was.
ReductionRight ==
    /\ pass = "done" /\ ~ RoomForBlocks => reduced = <<>>
    /\ pass = "done" /\ RoomForBlocks /\ (tiling.kind \in {"normal", "group"} => ~ UnfilledProduct) =>
        /\ DOMAIN reduced = 0 .. Places - 1
        /\ \A e \in DOMAIN reduced : Len(reduced[e]) = 1 /\ reduced[e] # <<Junk>>
        /\ \A e \in DOMAIN reduced : \A x \in reduced[e][1] : Place(x) = e
        /\ \A x \in 0 .. Product(given.shape) - 1 : x \in reduced[Place(x)][1]

\* The memory that the kernel uses is there: a tile fits a basic block, its
\* result a result block, the levels of the cache fit the cache buffer, all
\* buffers fit the local memory, no more blocks run than there are cores, and
\* the groups write inside the workspace the host asked for.
ReductionFits ==
    pass \in {"one", "two"} /\ blockId = 0 /\ tiling.kind \in {"normal", "group"} =>
        LET o == given.op
            Fit(s, count) ==
                \A a \in 0 .. s.factorATotalCnt - 1, r \in 0 .. s.factorRTotalCnt - 1 :
                    LET lay == CalculateView(s, InitView(s, a, r))
                        dimA == IF IsAxisA(Len(s.dims)) THEN lay.row ELSE lay.rows
                        levels == CalLog2(FindNearestPower2(count)) + 1
                    IN  /\ lay.rows * lay.row <= BBlockNum(o, tiling.basicBlock)
                        /\ dimA * o.maxBytes <= tiling.resultBlock
                        /\ Len(s.dims) = 1 \/ levels * CeilAlign(dimA, s.vl) * o.maxBytes <= CacheBufSize
        IN  /\ tiling.blockDim <= o.cores /\ tiling.ubFactorA > 0 /\ tiling.ubFactorR > 0
            /\ Fit(StageOne(tiling, o), tiling.factorRCntPerCore)
            /\ tiling.kind = "group" => Fit(StageTwo(tiling, o), 1)
            /\ tiling.basicBlock * (PreInputBufferNum(o) + o.preRest * Ratio(o))
                 + tiling.resultBlock * PostBufferNum(o) <= UbAvailable(o)
            /\ \A c \in DOMAIN workspace : (c + 1) * o.maxBytes <= CalcUserWorkSpace(tiling, o)

=============================================================================
