-------------------------- MODULE BroadcastTiling ---------------------------
(***************************************************************************)
(* How the host cuts an elementwise or broadcast operator into tiles that  *)
(* fit the local memory of a core, and into blocks of tiles, one per core. *)
(*                                                                         *)
(* Sizes are in bytes; dtypes of whole bytes.  room is what the host knows *)
(* of the local memory: [ubSize, bufferNum, maxBytes, minBytes], with the  *)
(* extra space an operator reserves already taken off.                     *)
(***************************************************************************)
EXTENDS ShapeInference, FiniteSetsExt

CONSTANTS
    RepeatBytes,        \* BROADCAST_REPEAT_BYTES, REPEAT_BYTES
    CacheLine,          \* CACHE_LINE
    PerCoreMinUbByte,   \* PER_CORE_MIN_UB_BYTE
    MinBytesPerCore,    \* MIN_TILING_BITS_SIZE_PER_CORE / 8
    BlockAlign          \* elements a block of an elementwise kernel is a multiple of

ASSUME TilingAssumption ==
    {RepeatBytes, CacheLine, PerCoreMinUbByte, MinBytesPerCore, BlockAlign} \subseteq Nat \ {0}

Failed == [fails |-> TRUE]

CeilDiv(a, b) == (a + b - 1) \div b
RoundDown(a, b) == (a \div b) * b
Product(s) == FoldLeft(LAMBDA a, b : a * b, 1, s)
From(s, i) == SubSeq(s, i, Len(s))

\* The index along each axis of element k, and the place of an index.
Digits(k, dims) == [j \in DOMAIN dims |-> (k \div Product(From(dims, j + 1))) % dims[j]]
Dot(index, strides) == FoldLeft(LAMBDA a, j : a + index[j] * strides[j], 0, [j \in DOMAIN strides |-> j])

-----------------------------------------------------------------------------
(* Merging the axes that all tensors treat alike.                          *)

EnsureNotScalar(shape) == IF shape = <<>> THEN <<1>> ELSE shape

Padded(shape, n) == [i \in 1 .. n |-> Aligned(shape, i, n)]

\* The inputs that are broadcast, or 1, along axis j (one bit per input).
Flag(ins, j) == {i \in DOMAIN ins : ins[i][j] = 1}

\* The axes that each merged axis stands for.
MergedAxes(ins, out) ==
    LET target == DOMAIN ins
        Step(acc, j) ==
            LET flag == Flag(ins, j)
            IN  IF acc.prev = flag \/ (acc.prev = target /\ out[j - 1] = 1)
                THEN [axes |-> [acc.axes EXCEPT ![Len(acc.axes)] = Append(@, j)], prev |-> flag]
                ELSE IF flag = target /\ out[j] = 1 THEN acc
                ELSE [axes |-> Append(acc.axes, <<j>>), prev |-> flag]
    IN  FoldLeft(Step, [axes |-> <<<<1>>>>, prev |-> Flag(ins, 1)],
                 [k \in 1 .. Len(out) - 1 |-> k + 1]).axes

MergedDims(shape, axes) ==
    [g \in DOMAIN axes |-> Product([k \in DOMAIN axes[g] |-> shape[axes[g][k]]])]

\* A broadcast axis has stride 0: the index along it does not move the input.
Strides(dims, outDims) ==
    [j \in DOMAIN dims |->
        IF dims[j] = 1 /\ outDims[j] # 1 THEN 0 ELSE Product(From(dims, j + 1))]

\* DimensionCollapse: the merged dimensions and strides of inputs and output.
DimensionCollapse(shapes, out) ==
    LET n == Len(out)
        ins == [i \in DOMAIN shapes |-> Padded(shapes[i], n)]
        axes == MergedAxes(ins, out)
        outDims == MergedDims(out, axes)
        inDims == [i \in DOMAIN ins |-> MergedDims(ins[i], axes)]
    IN  IF \/ \E i \in DOMAIN shapes : Len(shapes[i]) > n
           \/ \E i \in DOMAIN shapes, j \in 1 .. n :
                  ins[i][j] \notin {1, out[j]} \/ ins[i][j] <= 0
        THEN Failed
        ELSE [fails |-> FALSE, outDims |-> outDims, inDims |-> inDims,
              outStrides |-> [j \in DOMAIN outDims |-> Product(From(outDims, j + 1))],
              inStrides |-> [i \in DOMAIN ins |-> Strides(inDims[i], outDims)]]

-----------------------------------------------------------------------------
(* Tiles and blocks.                                                       *)

\* How many elements of every buffer fit the local memory at once.
GetMaxElemNum(room) ==
    RoundDown(room.ubSize \div (room.bufferNum * room.maxBytes),
              RepeatBytes \div room.minBytes)

\* The axis that is split: the last one from which on the output does not fit.
SplitAxis(dims, maxElem) ==
    Max({1} \cup {i \in DOMAIN dims : Product(From(dims, i)) > maxElem})

\* Tiles are ubFormer long along the split axis, the last one ubTail; a core
\* runs blockFormer tiles, the last one blockTail.
DoBroadcastTiling(dims, room, coreNum) ==
    LET maxElem == GetMaxElemNum(room)
        axis == SplitAxis(dims, maxElem)
        ubFormer == IF Len(dims) = 1 THEN maxElem ELSE maxElem \div Product(From(dims, axis + 1))
        ubOuter == CeilDiv(dims[axis], ubFormer)
        tiles == ubOuter * Product(SubSeq(dims, 1, axis - 1))
        blockFormer == CeilDiv(tiles, coreNum)
        blockNum == CeilDiv(tiles, blockFormer)
    IN  IF maxElem = 0 THEN Failed
        ELSE [fails |-> FALSE, ubSplitAxis |-> axis,
              ubFormer |-> ubFormer, ubOuter |-> ubOuter,
              ubTail |-> dims[axis] - (ubOuter - 1) * ubFormer,
              blockFormer |-> blockFormer, blockNum |-> blockNum,
              blockTail |-> tiles - (blockNum - 1) * blockFormer,
              dimProductBeforeUbInner |-> tiles, elemNum |-> maxElem]

\* The tail of cutting n into parts of size k; a whole part counts as one.
TailOf(n, k) == IF n % k = 0 THEN k ELSE n % k

\* One axis: length elements are cut into tiles of ubFormer.
OneDimBlocks(length, ubFormer, coreNum) ==
    LET ubOuter == CeilDiv(length, ubFormer)
        blockFormer == CeilDiv(ubOuter, coreNum)
    IN  [fails |-> FALSE, ubFormer |-> ubFormer, ubTail |-> TailOf(length, ubFormer),
         blockFormer |-> blockFormer, blockTail |-> TailOf(ubOuter, blockFormer),
         blockNum |-> CeilDiv(ubOuter, blockFormer), elemNum |-> ubFormer]

GetOneDimUBFormer(room) ==
    RoundDown(room.ubSize \div room.bufferNum, CacheLine) \div room.maxBytes

\* As HalfTheCores, but the smallest tile worth a core is not reduced to what
\* one of the buffers may take.
HalfTheCoresAllBuffers(length, room, coreNum, ubFormer) ==
    Max({Min({ubFormer, (length * 2) \div coreNum}), PerCoreMinUbByte \div room.maxBytes})

\* Smaller tiles, so that half of the cores get one, but none below the least
\* size that is worth a core.
HalfTheCores(length, room, coreNum, ubFormer) ==
    LET perCore == (length * 2) \div coreNum
        aligned == (CeilDiv(perCore * room.maxBytes, CacheLine) * CacheLine) \div room.maxBytes
        lowest == RoundDown(PerCoreMinUbByte \div room.bufferNum, CacheLine) \div room.maxBytes
    IN  Max({Min({ubFormer, aligned}), lowest})

DoOneDimTiling(length, room, coreNum) ==
    LET ubFormer == GetOneDimUBFormer(room)
        blocks == OneDimBlocks(length, ubFormer, coreNum)
    IN  IF ubFormer = 0 THEN Failed
        ELSE IF /\ blocks.blockNum < coreNum \div 2
                /\ ubFormer * room.maxBytes * room.bufferNum > PerCoreMinUbByte
        THEN OneDimBlocks(length, HalfTheCores(length, room, coreNum, ubFormer), coreNum)
        ELSE blocks

\* Elementwise: blocks first, then the tiles of a block.
ElewiseTiling(length, room, cores) ==
    LET coreNum == Min({cores, CeilDiv(length * room.minBytes, MinBytesPerCore)})
        blockFormer == CeilDiv(CeilDiv(length, coreNum), BlockAlign) * BlockAlign
        blockNum == CeilDiv(length, blockFormer)
        blockTail == length - (blockNum - 1) * blockFormer
        ubFormer == GetMaxElemNum(room)
        Loops(n) == CeilDiv(n, ubFormer)
    IN  IF length = 0 \/ ubFormer = 0 THEN Failed
        ELSE [fails |-> FALSE, blockFormer |-> blockFormer, blockNum |-> blockNum,
              ubFormer |-> ubFormer, elemNum |-> ubFormer,
              ubLoopOfFormerBlock |-> Loops(blockFormer), ubLoopOfTailBlock |-> Loops(blockTail),
              ubTailOfFormerBlock |-> blockFormer - (Loops(blockFormer) - 1) * ubFormer,
              ubTailOfTailBlock |-> blockTail - (Loops(blockTail) - 1) * ubFormer]

=============================================================================
