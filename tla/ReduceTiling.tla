---------------------------- MODULE ReduceTiling ----------------------------
(***************************************************************************)
(* How the host cuts a reduction into tiles.  The axes are merged until    *)
(* kept ("A") and reduced ("R") axes alternate, A first: an axis of odd    *)
(* index is kept.  A tile is a range of one A axis and of one R axis with  *)
(* everything inside of them.  First comes what one cache line holds, then *)
(* as much of A as keeps the cores busy, then as much of R as fits, and if *)
(* all of R did, more of A.                                                *)
(*                                                                         *)
(* op is what the host knows of the operator and the device: cores,        *)
(* ubSize, the bytes of an element of the input (dSize) and of the widest  *)
(* node (maxBytes), whether buffers scale with that (level2), the buffers  *)
(* before (preInput, preRest) and after (postTemp, postRest) the           *)
(* reduction, whether it comes right after the copy (first), and its kind. *)
(* Sizes are in bytes, factors and counts in elements.                     *)
(***************************************************************************)
EXTENDS BroadcastTiling

CONSTANTS
    UbBlockSize,    \* ubBlockSize
    CacheLineSize,  \* cacheLineSize
    VRegSize,       \* vRegSize
    MaxInnerA,      \* MAX_INNER_A
    CacheBufSize,   \* CACHE_BUF_SIZE
    AStepLen        \* A_STEP_LEN

ASSUME ReduceAssumption ==
    /\ {UbBlockSize, CacheLineSize, VRegSize, MaxInnerA, CacheBufSize, AStepLen} \subseteq Nat \ {0}
    /\ VRegSize % UbBlockSize = 0 /\ CacheLineSize % UbBlockSize = 0

CeilAlign(a, b) == CeilDiv(a, b) * b
Times(f, S) == FoldFunctionOnSet(LAMBDA a, b : a * b, 1, f, S)

IsAxisA(i) == i % 2 = 1
AAxes(n) == {i \in 1 .. n : IsAxisA(i)}
RAxes(n) == {i \in 1 .. n : ~ IsAxisA(i)}

\* More than, and at least, 95% (THRES_HOLD) of n.
Busy(k, n) == 20 * k > 19 * n
BusyOrEqual(k, n) == 20 * k >= 19 * n

-----------------------------------------------------------------------------
(* The axes.                                                               *)

MakeWrapDim(shape, axes) == {IF a < 0 THEN a + Len(shape) ELSE a : a \in axes}

AxesCheck(shape, axes) ==
    /\ Cardinality(axes) <= Len(shape)
    /\ MakeWrapDim(shape, axes) \subseteq 0 .. Len(shape) - 1

\* A kept axis of one element in front, no other axis of one element, and
\* neighbours of the same kind merged.
TransformShape(shape, axes) ==
    LET kept == SelectSeq([i \in DOMAIN shape |-> i], LAMBDA i : shape[i] # 1)
        Step(dims, i) ==
            IF i - 1 \notin MakeWrapDim(shape, axes) <=> IsAxisA(Len(dims))
            THEN [dims EXCEPT ![Len(dims)] = @ * shape[i]]
            ELSE Append(dims, shape[i])
    IN  FoldLeft(Step, <<1>>, kept)

\* Five axes and more are brought to eight or nine.
PadDimOne(dims) ==
    LET n == Len(dims)
    IN  IF n < 5 THEN dims
        ELSE [i \in 1 .. (IF IsAxisA(n) THEN 9 ELSE 8) - n |-> 1] \o dims

OutSize(dims) == Times(dims, AAxes(Len(dims)))

-----------------------------------------------------------------------------
(* The buffers: a basic block for each one before the reduction, a result  *)
(* block for each one after it.                                            *)

Ratio(op) == IF op.level2 THEN CeilDiv(op.maxBytes, op.dSize) ELSE 1
UbBlock(op) == UbBlockSize \div op.dSize
PreInputBufferNum(op) == op.preInput * 2 * (IF op.first THEN 2 ELSE 1)
PostBufferNum(op) == op.postRest + op.postTemp + 1
UbAvailable(op) == op.ubSize - CacheBufSize

\* The elements reduced to one, the last axis rounded up to a block.
CaculateReduceSize(dims, op) ==
    LET n == Len(dims)
    IN  Times([i \in RAxes(n) |-> IF i = n THEN CeilAlign(dims[i], UbBlock(op)) ELSE dims[i]], RAxes(n))

\* Sizes that the result of a whole reduction may be given.  With nothing to
\* reduce the code divides zero by zero and converts that to an integer.
TryGetReduceBlock(dims, op) ==
    LET r == CaculateReduceSize(dims, op)
        ratio == Ratio(op)
        pre == PreInputBufferNum(op) + op.preRest * ratio
    IN  IF r = 0 THEN {0, CacheBufSize}
        ELSE {(UbAvailable(op) * ratio) \div (r * pre + PostBufferNum(op) * ratio)}

\* The basic and the result block, in each way the code may set them.
CalcBasicBlock(dims, op) ==
    LET ratio == Ratio(op)
        post == PostBufferNum(op)
        avail == UbAvailable(op)
        Blocks(basic, result) ==
            IF basic < VRegSize THEN Failed
            ELSE [fails |-> FALSE, basicBlock |-> basic, resultBlock |-> result]
        all == RoundDown(avail \div (PreInputBufferNum(op) + (op.preRest + post) * ratio), VRegSize)
        Clamp(size) == Min({Max({RoundDown(size, CacheLineSize), MaxInnerA}), CacheBufSize})
        Left(result) ==
            RoundDown((avail - result * post) \div (PreInputBufferNum(op) + op.preRest * ratio), VRegSize)
    IN  IF avail <= 0 THEN {Failed}
        ELSE IF Len(dims) = 1 THEN {Blocks(all, all * ratio)}
        ELSE {IF avail <= result * post THEN Failed ELSE Blocks(Left(result), result) :
                  result \in {Clamp(size) : size \in TryGetReduceBlock(dims, op)}}

\* The elements of the widest dtype that fit a basic block.
BBlockNum(op, basicBlock) == (basicBlock * Ratio(op)) \div op.maxBytes

-----------------------------------------------------------------------------
(* The tiles.                                                              *)

\* The axis a cache line ends in, its part of that axis, how often that fits,
\* and what the line holds of A and of R.
ComputeCacheLineBlock(dims, op) ==
    LET n == Len(dims)
        cacheSize == CacheLineSize \div op.dSize
        over == {i \in 1 .. n : Product(From(dims, i)) > cacheSize}
        axis == Max(over \cup {1})
        step == IF over = {} THEN dims[1] ELSE CeilDiv(cacheSize, Product(From(dims, axis + 1)))
        Inner(i) ==
            CASE i = axis -> step
              [] i # axis /\ i = n -> CeilAlign(dims[i], UbBlock(op))
              [] OTHER -> dims[i]
        Size(S) == Times([i \in axis .. n |-> Inner(i)], S \cap (axis .. n))
    IN  [axis |-> axis, step |-> step, outer |-> IF over = {} THEN 1 ELSE CeilDiv(dims[axis], step),
         aSize |-> Size(AAxes(n)), rSize |-> Size(RAxes(n))]

\* The length of axis i counted in cache lines.
AxisLen(dims, c, i) == IF i = c.axis THEN c.outer ELSE dims[i]

\* InitUnit: how often the cache line fits along the axes of S.
Outer(dims, c, S) == Times([i \in 1 .. c.axis |-> AxisLen(dims, c, i)], S \cap (1 .. c.axis))

\* Cutting axis i into steps of s changes the number of parts.
Recut(outer, len, s) == (outer \div len) * (IF s = 0 THEN len ELSE CeilDiv(len, s))

\* How many cores get the same number of tiles, whole rows of R tiles each.
CoresUsed(outerA, outerR, cores) ==
    LET used == (outerA * outerR) \div CeilDiv(outerA * outerR, cores)
    IN  IF used > outerA THEN RoundDown(used, outerA) ELSE used

\* The axes of S from index i outwards.
Inward(S, i) == SetToSortSeq(S \cap (1 .. i), LAMBDA a, b : a > b)

Unit(idx, inner, outer, step) ==
    [idx |-> idx, inner |-> inner, outer |-> outer, step |-> step, done |-> FALSE]

\* Along the A axes, from the cache line outwards: the step that keeps most
\* cores busy, if any keeps enough; a whole axis if that is best and fits.
ComputeUnitA(dims, op, c, basicBlock) ==
    LET patternA == Len(dims) = 1
        bBlockNum == BBlockNum(op, basicBlock)
        maxInnerA == IF patternA THEN bBlockNum ELSE MaxInnerA \div op.maxBytes
        stepLen == IF patternA THEN AStepLen ELSE 1
        outerR == Outer(dims, c, RAxes(Len(dims)))
        Step(u, i) ==
            LET len == AxisLen(dims, c, i)
                last == len \div stepLen
                ASize(s) == IF i = c.axis THEN (c.aSize \div c.step) * Min({c.step * s, dims[i]})
                            ELSE u.inner * s * c.aSize
                Fits(t) == /\ ASize(t * stepLen) <= maxInnerA
                           /\ ASize(t * stepLen) * c.rSize <= bBlockNum
                stop == Min({last + 1} \cup {t \in 2 .. last : ~ Fits(t)})
                Used(t) == CoresUsed(Recut(u.outer, len, t * stepLen), outerR, op.cores)
                most == Max({0} \cup {Used(t) : t \in 2 .. stop - 1})
                maxStep == IF Busy(most, op.cores) THEN Min({t \in 2 .. stop - 1 : Used(t) = most}) ELSE 0
                step == IF maxStep = 0 THEN 1 ELSE maxStep * stepLen
            IN  IF u.done THEN u
                ELSE IF stop <= last \/ maxStep # last \/ i = 1
                THEN [Unit(i, u.inner * step, Recut(u.outer, len, step), step) EXCEPT !.done = TRUE]
                ELSE Unit(i, u.inner * len, u.outer \div len, 1)
    IN  FoldLeft(Step, Unit(0, 1, Outer(dims, c, AAxes(Len(dims))), 1), Inward(AAxes(Len(dims)), c.axis))

\* As LongestStep, rounded up.
LongestStepUp(bBlockNum, line, len) == Min({CeilDiv(bBlockNum, line), len})

\* How many lines along an axis fit a basic block.
LongestStep(bBlockNum, line, len) == Min({bBlockNum \div line, len})

\* Along the R axes: whole axes while they fit, then a part of one.
ComputeUnitR(dims, op, c, unitA, basicBlock) ==
    LET bBlockNum == BBlockNum(op, basicBlock)
        Step(u, i) ==
            LET len == AxisLen(dims, c, i)
                line == unitA.inner * u.inner * c.aSize * c.rSize
                top == LongestStep(bBlockNum, line, len)
                busy == {s \in 2 .. top :
                            Busy(CoresUsed(unitA.outer, Recut(u.outer, len, s), op.cores), op.cores)}
                step == IF busy = {} THEN top ELSE Max(busy)
            IN  IF u.done THEN u
                ELSE IF line * len <= bBlockNum THEN Unit(0, u.inner * len, u.outer \div len, 1)
                ELSE [Unit(i, u.inner * step, Recut(u.outer, len, step), step) EXCEPT !.done = TRUE]
    IN  FoldLeft(Step, Unit(0, 1, Outer(dims, c, RAxes(Len(dims))), 1), Inward(RAxes(Len(dims)), c.axis))

\* All of R is loaded: more of A, up to what the result block holds.
ComputeProgressUnitA(dims, op, c, unitA, unitR, block) ==
    LET bBlockNum == BBlockNum(op, block.basicBlock)
        len0 == AxisLen(dims, c, unitA.idx)
        Step(u, i) ==
            LET len == AxisLen(dims, c, i)
                base == IF i = unitA.idx THEN unitA.step ELSE 1
                ASize(s) == u.inner * s * c.aSize
                Fits(s) == /\ ASize(s) * unitR.inner * c.rSize <= bBlockNum
                           /\ ASize(s) <= block.resultBlock \div op.maxBytes
                stop == Min({len + 1} \cup {s \in base + 1 .. len : ~ Fits(s)})
                Parts(s) == Recut(u.outer, len, s)
                step == Max({base} \cup {s \in base + 1 .. stop - 1 :
                                \/ ASize(s) <= CacheLineSize \div op.dSize
                                \/ BusyOrEqual(Parts(s), CeilAlign(Parts(s), op.cores))})
            IN  IF u.done THEN u
                ELSE IF stop <= len \/ i = 1
                THEN [Unit(i, u.inner * step, Parts(step), step) EXCEPT !.done = TRUE]
                ELSE Unit(i, u.inner * len, u.outer \div len, 1)
    IN  IF unitR.idx # 0 THEN unitA
        ELSE FoldLeft(Step,
                      Unit(0, unitA.inner \div unitA.step,
                           (unitA.outer \div CeilDiv(len0, unitA.step)) * len0, 1),
                      Inward(AAxes(Len(dims)), unitA.idx))

\* Whether a tile is copied by the instruction that walks many axes, which
\* packs the rows, or row by row, each rounded up to a block.
IsUseNddma(dims, op, c, idxA, ubFactorA, idxR, ubFactorR) ==
    LET n == Len(dims)
        inside == IF IsAxisA(n) THEN ubFactorA * Times(dims, {i \in AAxes(n) : i > idxA})
                  ELSE ubFactorR * Times(dims, {i \in RAxes(n) : i > idxR})
    IN  /\ dims[n] < UbBlock(op)
        /\ \/ n - c.axis > 2 \/ (n - c.axis = 2 /\ c.step # 1)
           \/ inside <= UbBlock(op)

\* Tiles to blocks: every block gets the same number of A tiles with all of
\* their R tiles, or, when there are fewer A tiles than cores, groupR blocks
\* share the R tiles of one A tile.
SetTilingData(dims, op, c, unitA, unitR, block) ==
    LET Factor(u) == IF u.idx = c.axis THEN u.step * c.step ELSE u.step
        total == unitA.outer * unitR.outer
        needed == CeilDiv(total, CeilDiv(total, op.cores))
        blockDim == IF unitA.outer >= needed THEN needed
                    ELSE IF CeilAlign(needed, unitA.outer) <= op.cores
                    THEN CeilAlign(needed, unitA.outer)
                    ELSE RoundDown(needed, unitA.outer)
        aPerCore == CeilDiv(unitA.outer, blockDim)
        rPerCore == CeilDiv(unitR.outer, CeilDiv(blockDim, unitA.outer))
        groupR == CeilDiv(unitR.outer, rPerCore)
    IN  [fails |-> FALSE, dims |-> dims,
         idxA |-> unitA.idx, ubFactorA |-> Factor(unitA),
         idxR |-> unitR.idx, ubFactorR |-> Factor(unitR),
         factorATotalCnt |-> unitA.outer, factorACntPerCore |-> aPerCore,
         factorRTotalCnt |-> unitR.outer, factorRCntPerCore |-> rPerCore, groupR |-> groupR,
         outSize |-> OutSize(dims), basicBlock |-> block.basicBlock, resultBlock |-> block.resultBlock,
         useNddma |-> IsUseNddma(dims, op, c, unitA.idx, Factor(unitA), unitR.idx, Factor(unitR)),
         blockDim |-> CeilDiv(unitA.outer, aPerCore) * groupR]

\* Nothing to reduce: the output is cut like an input with no R axis.  The
\* tiling key stays zero, which stands for this case.
ComputeEmptyTiling(dims, op, resultBlock) ==
    LET size == OutSize(dims)
        basic == RoundDown(UbAvailable(op) \div 2, VRegSize)
        c == ComputeCacheLineBlock(<<size>>, op)
        unitA == ComputeUnitA(<<size>>, op, c, basic)
    IN  IF size = 0 THEN [fails |-> FALSE, kind |-> "empty", outSize |-> 0, blockDim |-> op.cores]
        ELSE [kind |-> "empty"]
                 @@ SetTilingData(<<size>>, op, c, unitA, Unit(0, 1, 1, 1),
                                  [basicBlock |-> basic, resultBlock |-> resultBlock])

\* The kernel that the key selects.
SetTilingKey(t, op) ==
    [kind |-> IF Len(t.dims) = 1 /\ op.first /\ op.postTemp = 0 THEN "move"
              ELSE IF t.groupR = 1 THEN "normal" ELSE "group"] @@ t

\* What is left when the blocks have no room in the local memory: all of the
\* tiling data is zero, and so is the key, which selects the kernel for an
\* empty input.  The number of blocks is not set; one stands for any.
Zeroed == [fails |-> FALSE, kind |-> "empty", outSize |-> 0, basicBlock |-> 0, blockDim |-> 1]

\* DoReduceTiling drops the status that this returns.
ComputeTiling(dims, op, block) ==
    LET c == ComputeCacheLineBlock(dims, op)
        unitA == ComputeUnitA(dims, op, c, block.basicBlock)
        unitR == ComputeUnitR(dims, op, c, unitA, block.basicBlock)
        more == ComputeProgressUnitA(dims, op, c, unitA, unitR, block)
    IN  IF block.fails THEN Zeroed
        ELSE IF 0 \in {dims[i] : i \in DOMAIN dims} THEN ComputeEmptyTiling(dims, op, block.resultBlock)
        ELSE SetTilingKey(SetTilingData(dims, op, c, more, unitR, block), op)

\* The tilings that the code may give a reduction.
DoReduceTilings(shape, axes, op) ==
    LET dims == PadDimOne(TransformShape(shape, axes))
    IN  IF ~ AxesCheck(shape, axes) THEN {Failed}
        ELSE {ComputeTiling(dims, op, block) : block \in CalcBasicBlock(dims, op)}

CalcUserWorkSpace(t, op) ==
    IF t.kind = "group" THEN op.cores * CeilAlign(t.outSize * op.maxBytes, CacheLineSize) ELSE 0

=============================================================================
