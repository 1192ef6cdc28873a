-------------------------- MODULE BroadcastKernel ---------------------------
(***************************************************************************)
(* A broadcast or elementwise operator f(x, y) from its shapes to its      *)
(* output: the host infers the output shape and cuts it into tiles, and    *)
(* every core runs its block of tiles.  A tile loads what it needs of the  *)
(* inputs into local memory, or finds it there from an earlier tile, and   *)
(* copies its part of the result out.  The model keeps, for every element  *)
(* of the output, which elements of the inputs each write was made from.   *)
(*                                                                         *)
(* Four kernels: "nddma" and "ub" for two and more axes, "onedim" for a    *)
(* single one, "elewise".  A position before the first axis, that of       *)
(* index 0, stands for what lies before the array axesIndices.             *)
(*                                                                         *)
(* Left out: the node Brc, scalar nodes and outputs of one bit.            *)
(***************************************************************************)
EXTENDS BroadcastTiling

CONSTANTS
    Ranks, Dims,    \* the ranks and dimensions of the inputs
    Cores,          \* the numbers of cores
    Rooms,          \* what there may be of local memory
    NddmaMaxDims    \* NDDMA_MAX_DIMS: axes one copy instruction can walk

ASSUME KernelAssumption == NddmaMaxDims \in Nat \ {0}

VARIABLES
    ins,        \* the shapes of x and y
    kernel,     \* the kernel the host picks
    phase,      \* "given", "run", "done" or "failed"
    op,         \* the cores and the local memory, and the inputs loaded by CopyIn
    plan,       \* the tiling data
    block,      \* the block at hand
    ubLoop,     \* ubLoopIdx, its tile
    axes,       \* axesIndices
    local,      \* what each half of the buffers of x and y holds
    out         \* for each element of the output the writes it got

kernelVars == <<ins, kernel, phase, op, plan, block, ubLoop, axes, local, out>>

Inputs == {1, 2}
Shapes == UNION {[1 .. r -> Dims] : r \in Ranks}
OutShape == EnsureNotScalar(BroadcastShape(ins[1], ins[2]))
Nowhere == -1

-----------------------------------------------------------------------------
(* The position of a tile.                                                 *)

LastBlock == block = plan.blockNum - 1
UbLoopNum ==
    IF kernel = "elewise"
    THEN IF LastBlock THEN plan.ubLoopOfTailBlock ELSE plan.ubLoopOfFormerBlock
    ELSE IF LastBlock THEN plan.blockTail ELSE plan.blockFormer
LastTile == ubLoop = UbLoopNum - 1

\* The indices of tile number prodIdx: those of the axes before the split one
\* and, along it, the number of the tile.
BroadcastGetAxesIndices(p, prodIdx) ==
    LET Below(j) == p.dimProductBeforeUbInner \div Product(SubSeq(p.outDims, 1, j))
    IN  [j \in 0 .. p.ubSplitAxis |->
            IF j = 0 THEN 0
            ELSE LET rest == IF j = 1 THEN prodIdx ELSE prodIdx % Below(j - 1)
                 IN  IF j = p.ubSplitAxis THEN rest ELSE rest \div Below(j)]

\* One step on: an index that reaches its bound carries to the one before.
Carry(ax, dims, end) ==
    FoldLeft(LAMBDA a, k :
                 LET j == end + 1 - k
                 IN  IF a[j] = dims[j] THEN [a EXCEPT ![j] = 0, ![j - 1] = @ + 1] ELSE a,
             [ax EXCEPT ![end] = @ + 1], [k \in 1 .. end |-> k])

BroadcastUpdateAxesIndices(ax) ==
    Carry(ax, [plan.outDims EXCEPT ![plan.ubSplitAxis] = plan.ubOuter], plan.ubSplitAxis)

KernelRealIdx == (block * plan.blockFormer + ubLoop) % plan.ubOuter

UbSplitSize ==
    IF axes[plan.ubSplitAxis] = plan.ubOuter - 1 THEN plan.ubTail ELSE plan.ubFormer

\* Where the tile starts in a tensor.
BroadcastGetGmOffset(strides) ==
    Dot([axes EXCEPT ![plan.ubSplitAxis] = @ * plan.ubFormer],
        SubSeq(strides, 1, plan.ubSplitAxis))

LinearOffset ==
    ubLoop * plan.ubFormer
        + block * plan.blockFormer * (IF kernel = "onedim" THEN plan.ubFormer ELSE 1)

LinearLength ==
    IF ~ LastTile THEN plan.ubFormer
    ELSE IF kernel = "onedim"
    THEN IF LastBlock THEN plan.ubTail ELSE plan.ubFormer
    ELSE IF LastBlock THEN plan.ubTailOfTailBlock ELSE plan.ubTailOfFormerBlock

Linear == kernel \in {"onedim", "elewise"}
TileOffset == IF Linear THEN LinearOffset ELSE BroadcastGetGmOffset(plan.outStrides)
TileLength ==
    IF Linear THEN LinearLength ELSE UbSplitSize * plan.outStrides[plan.ubSplitAxis]

-----------------------------------------------------------------------------
(* Loading an input.  The content of a buffer is a function from positions *)
(* in it to elements of the input.                                         *)

\* A copy of n elements that lie side by side.
DataCopyPad(start, n) == [k \in 0 .. n - 1 |-> start + k]

\* The copy instruction: a nest of loops, each with a stride on both sides.
MultiCopy(sizes, dstStrides, srcStrides, dst, src) ==
    LET Dst(k) == dst + Dot(Digits(k, sizes), dstStrides)
        all == 0 .. Product(sizes) - 1
    IN  [d \in {Dst(k) : k \in all} |->
            src + Dot(Digits(CHOOSE k \in all : Dst(k) = d, sizes), srcStrides)]

BroadcastNddmaWithoutLoop(strides, start) ==
    MultiCopy([From(plan.outDims, plan.ubSplitAxis) EXCEPT ![1] = UbSplitSize],
              From(plan.outStrides, plan.ubSplitAxis), From(strides, plan.ubSplitAxis), 0, start)

\* More axes than the instruction has loops: the outer ones are walked here.
BroadcastNddmaWithLoop(strides, start) ==
    LET inner == Len(plan.outDims) - NddmaMaxDims + 1
        Outer(s) == SubSeq(s, plan.ubSplitAxis, inner - 1)
        count == UbSplitSize * Product(Tail(Outer(plan.outDims)))
        Index(t) == FoldLeft(LAMBDA a, k : Carry(a, Outer(plan.outDims), inner - plan.ubSplitAxis),
                             [j \in 0 .. inner - plan.ubSplitAxis |-> 0], [k \in 1 .. t |-> k])
        Copy(t) == MultiCopy(From(plan.outDims, inner), From(plan.outStrides, inner),
                             From(strides, inner),
                             Dot(Index(t), Outer(plan.outStrides)),
                             start + Dot(Index(t), Outer(strides)))
    IN  FoldLeft(LAMBDA acc, t : Copy(t - 1) @@ acc, <<>>, [t \in 1 .. count |-> t])

BroadcastNddma(i) ==
    LET strides == plan.inStrides[i]
        start == BroadcastGetGmOffset(strides)
    IN  IF strides[plan.ubSplitAxis] = plan.outStrides[plan.ubSplitAxis]
        THEN DataCopyPad(start, UbSplitSize * strides[plan.ubSplitAxis])
        ELSE IF Len(plan.outDims) - plan.ubSplitAxis + 1 > NddmaMaxDims
        THEN BroadcastNddmaWithLoop(strides, start)
        ELSE BroadcastNddmaWithoutLoop(strides, start)

\* The shape of a tile in local memory.
UbShape(dims) ==
    [From(dims, plan.ubSplitAxis) EXCEPT ![1] =
        IF @ = 1 THEN 1
        ELSE IF KernelRealIdx = plan.ubOuter - 1 THEN plan.ubTail ELSE plan.ubFormer]

\* The vector instruction: src, of shape srcShape, spread over dstShape.
VecBrc(src, dstShape, srcShape) ==
    [k \in 0 .. Product(dstShape) - 1 |->
        LET digit == Digits(k, dstShape)
            at == Dot([j \in DOMAIN srcShape |-> IF srcShape[j] = 1 THEN 0 ELSE digit[j]],
                      [j \in DOMAIN srcShape |-> Product(From(srcShape, j + 1))])
        IN  IF at \in DOMAIN src THEN src[at] ELSE Nowhere]

CopyInAndVecBrc(i) ==
    LET strides == plan.inStrides[i]
        shape == UbShape(plan.inDims[i])
        length == IF strides[plan.ubSplitAxis] # 0 THEN UbSplitSize * strides[plan.ubSplitAxis]
                  ELSE Product(shape)
    IN  VecBrc(DataCopyPad(BroadcastGetGmOffset(strides), length), UbShape(plan.outDims), shape)

CopyIn(i) ==
    DataCopyPad(BroadcastGetGmOffset(plan.inStrides[i]), Product(UbShape(plan.inDims[i])))

OneDimCopyIn(i) ==
    IF plan.inDims[i][1] = 1 THEN [k \in 0 .. TileLength - 1 |-> 0]
    ELSE DataCopyPad(TileOffset, TileLength)

\* As LoadsInput, but "nddma" takes the second tile of a row for loaded.
LoadsInputOnce(i) ==
    IF Linear THEN kernel = "elewise" \/ plan.inDims[i][1] # 1 \/ ubLoop <= 1
    ELSE plan.inStrides[i][plan.ubSplitAxis] # 0 \/ ubLoop <= 1 \/ KernelRealIdx = 0

\* An input that does not move along the split axis is kept: "nddma" loads it
\* into both halves, "ub" into the one buffer both share.
LoadsInput(i) ==
    \/ kernel = "elewise"
    \/ i \in op.plain
    \/ /\ kernel = "onedim"
       /\ plan.inDims[i][1] # 1 \/ Min({ubLoop, UbLoopNum - 2}) <= 1
    \/ /\ ~ Linear
       /\ \/ plan.inStrides[i][plan.ubSplitAxis] # 0
          \/ kernel = "nddma" /\ (ubLoop <= 1 \/ KernelRealIdx <= 1)
          \/ kernel = "ub" /\ (ubLoop = 0 \/ KernelRealIdx = 0)

UbHalf == IF kernel = "ub" THEN 0 ELSE ubLoop % 2

Loaded(i) ==
    CASE kernel = "elewise" -> DataCopyPad(TileOffset, TileLength)
      [] kernel = "onedim" -> OneDimCopyIn(i)
      [] ~ Linear /\ i \in op.plain -> CopyIn(i)
      [] kernel = "nddma" /\ i \notin op.plain -> BroadcastNddma(i)
      [] kernel = "ub" /\ i \notin op.plain -> CopyInAndVecBrc(i)

-----------------------------------------------------------------------------
NoPlan == Failed
EmptyBuffers == [i \in Inputs |-> [h \in {0, 1} |-> <<>>]]

KernelInit ==
    /\ ins \in Shapes \X Shapes
    /\ BroadcastShape(ins[1], ins[2]) # Rejected
    /\ kernel = "none" /\ phase = "given" /\ op = NoPlan /\ plan = NoPlan
    /\ block = 0 /\ ubLoop = 0 /\ axes = <<>>
    /\ local = EmptyBuffers /\ out = <<>>

\* A tiling function returned: it failed, or the kernel is started.
Launch(k, p, cores, room, plain) ==
    /\ kernel' = k /\ plan' = p
    /\ op' = [cores |-> cores, room |-> room, plain |-> plain]
    /\ phase' = IF p.fails THEN "failed" ELSE "run"
    /\ axes' = IF p.fails \/ k \in {"onedim", "elewise"} THEN <<>>
               ELSE BroadcastGetAxesIndices(p, 0)
    /\ out' = IF p.fails THEN <<>> ELSE [e \in 0 .. Product(OutShape) - 1 |-> <<>>]
    /\ UNCHANGED <<ins, block, ubLoop, local>>

\* The tiling data: merged axes c and the cuts t.
Joined(c, t) == IF t.fails THEN Failed ELSE c @@ t

\* BroadcastBaseTiling::DoTiling.  Which of "nddma" and "ub" it takes depends
\* on dtypes and on what the operator asks for.  An input that is not
\* broadcast may be a CopyIn node.
DoTiling(cores, room) ==
    /\ phase = "given"
    /\ LET c == DimensionCollapse([i \in Inputs |-> EnsureNotScalar(ins[i])], OutShape)
       IN  IF c.fails THEN Launch("none", Failed, cores, room, {})
           ELSE IF Len(c.outDims) = 1
           THEN Launch("onedim", Joined(c, DoOneDimTiling(c.outDims[1], room, cores)), cores, room, {})
           ELSE \E k \in {"nddma", "ub"},
                   plain \in {{}, {i \in Inputs : c.inDims[i] = c.outDims}} :
                    Launch(k, Joined(c, DoBroadcastTiling(c.outDims, room, cores)),
                           cores, room, plain)

\* ElewiseBaseTiling::DoTiling, for inputs of one shape.
DoElewiseTiling(cores, room) ==
    /\ phase = "given" /\ ins[1] = ins[2]
    /\ Launch("elewise", ElewiseTiling(Product(OutShape), room, cores), cores, room, {})

\* The node list for one tile, and on to the next tile or block.
RunKernelTile ==
    /\ phase = "run"
    /\ local' = [i \in Inputs |->
                    IF LoadsInput(i) THEN [local[i] EXCEPT ![UbHalf] = Loaded(i) @@ @] ELSE local[i]]
    /\ LET tile == TileOffset .. TileOffset + TileLength - 1
           Read(i, e) == LET b == local'[i][UbHalf]
                         IN  IF e - TileOffset \in DOMAIN b THEN b[e - TileOffset] ELSE Nowhere
           Writes(e) == IF e \in DOMAIN out THEN out[e] ELSE <<>>
       IN  out' = [e \in DOMAIN out \cup tile |->
                      IF e \in tile THEN Append(Writes(e), <<Read(1, e), Read(2, e)>>) ELSE out[e]]
    /\ IF ~ LastTile
       THEN /\ ubLoop' = ubLoop + 1 /\ UNCHANGED <<block, phase>>
            /\ axes' = IF Linear THEN axes ELSE BroadcastUpdateAxesIndices(axes)
       ELSE /\ ubLoop' = 0 /\ block' = block + 1
            /\ phase' = IF LastBlock THEN "done" ELSE "run"
            /\ axes' = IF Linear \/ LastBlock THEN axes
                       ELSE BroadcastGetAxesIndices(plan, (block + 1) * plan.blockFormer)
    /\ UNCHANGED <<ins, kernel, op, plan>>

KernelNext ==
    \/ \E cores \in Cores, room \in Rooms : DoTiling(cores, room) \/ DoElewiseTiling(cores, room)
    \/ RunKernelTile

KernelSpec == KernelInit /\ [][KernelNext]_kernelVars

-----------------------------------------------------------------------------
\* The element of input i that element e of the output is made from.
Source(i, e) ==
    LET shape == Padded(EnsureNotScalar(ins[i]), Len(OutShape))
        index == Digits(e, OutShape)
    IN  Dot([j \in DOMAIN shape |-> IF shape[j] = 1 THEN 0 ELSE index[j]],
            [j \in DOMAIN shape |-> Product(From(shape, j + 1))])

\* Every element of the output is written once, from the elements the
\* broadcast of the shapes says, and nothing else is written: merging axes,
\* splitting into tiles and blocks, carrying indices from tile to tile and
\* reusing an input that was loaded for an earlier tile lose, repeat or shift
\* no element, for any shape, number of cores and size of local memory.
OutputRight ==
    phase = "done" =>
        \A e \in DOMAIN out : e < Product(OutShape) /\ out[e] = <<[i \in Inputs |-> Source(i, e)]>>

\* What a tile loads fits its buffer, all buffers fit the local memory, no
\* more blocks are started than there are cores, and no index leaves its axis.
TilesFit ==
    phase \in {"run", "done"} =>
        /\ plan.elemNum * op.room.maxBytes * op.room.bufferNum <= op.room.ubSize
        /\ \A i \in Inputs, h \in {0, 1} : DOMAIN local[i][h] \subseteq 0 .. plan.elemNum - 1
        /\ plan.blockNum \in 1 .. op.cores
        /\ ~ Linear /\ phase = "run" =>
               /\ axes[0] = 0 /\ axes[plan.ubSplitAxis] < plan.ubOuter
               /\ \A j \in 1 .. plan.ubSplitAxis - 1 : axes[j] < plan.outDims[j]

=============================================================================
