--------------------------- MODULE ShapeInference ---------------------------
(***************************************************************************)
(* Shape inference for broadcasts and reductions: the output shape an      *)
(* operator announces before it runs.  A shape is a sequence of dimensions *)
(* in which -1 stands for one that is not known yet; <<-2>> is a shape of  *)
(* which not even the rank is known.  Rejected stands for GRAPH_FAILED.    *)
(***************************************************************************)
EXTENDS Integers, Sequences, FiniteSets, SequencesExt

UnknownDim == -1
UnknownRank == <<-2>>
Rejected == <<-3>>

-----------------------------------------------------------------------------
(* Broadcast of two shapes.                                                *)

\* As BroadcastDim, but an unknown dimension wins over a known one.
BroadcastDimKeepsUnknown(dim1, dim2) ==
    IF dim1 = dim2 \/ dim2 = 1 THEN dim1
    ELSE IF dim1 = 1 THEN dim2
    ELSE IF UnknownDim \in {dim1, dim2} /\ 0 \notin {dim1, dim2} THEN UnknownDim
    ELSE Rejected[1]

BroadcastDim(dim1, dim2) ==
    IF dim1 = dim2 THEN dim1
    ELSE IF dim1 # 1 /\ dim2 # 1
    THEN IF dim1 = UnknownDim THEN dim2
         ELSE IF dim2 = UnknownDim THEN dim1
         ELSE Rejected[1]
    ELSE IF dim1 = 1 THEN dim2 ELSE dim1

\* The longer shape with the shorter one laid over its last dimensions.
BroadcastShapeToOutShape(shape, out) ==
    LET long == IF Len(shape) > Len(out) THEN shape ELSE out
        short == IF Len(shape) > Len(out) THEN out ELSE shape
        lenSub == Len(long) - Len(short)
        dims == [i \in DOMAIN long |->
                    IF i <= lenSub THEN long[i] ELSE BroadcastDim(long[i], short[i - lenSub])]
    IN  IF UnknownRank \in {shape, out} THEN UnknownRank
        ELSE IF Rejected[1] \in ToSet(dims) THEN Rejected
        ELSE dims

BroadcastShape(in1, in2) == BroadcastShapeToOutShape(in2, in1)

-----------------------------------------------------------------------------
(* Reduction of a shape along axes, which may be counted from the end.     *)

CheckAxisBounds(dimNum, axis) ==
    IF dimNum = 0 THEN axis = 0 ELSE -dimNum <= axis /\ axis < dimNum

\* The dimension an axis names, counted from 1.
DimOf(dimNum, axis) == (IF axis < 0 THEN axis + dimNum ELSE axis) + 1

ReduceDimsWithKeepDims(x, axes) ==
    LET dimNum == IF x = <<>> THEN 1 ELSE Len(x)
    IN  IF \E i \in DOMAIN axes : ~ CheckAxisBounds(dimNum, axes[i]) THEN Rejected
        ELSE [j \in DOMAIN x |->
                IF \E i \in DOMAIN axes : DimOf(dimNum, axes[i]) = j THEN 1 ELSE x[j]]

\* As ReduceDimsWithoutKeepDims, but axes are not counted from the end.
ReduceDimsNoNegative(x, axes) ==
    LET kept == [j \in DOMAIN x |-> \A i \in DOMAIN axes : axes[i] + 1 # j]
    IN  IF \E i \in DOMAIN axes : ~ CheckAxisBounds(Len(x), axes[i]) THEN Rejected
        ELSE FlattenSeq([j \in DOMAIN x |-> IF kept[j] THEN <<x[j]>> ELSE <<>>])

\* Each dimension looks through the axes until it finds itself; an axis out
\* of bounds is noticed by a dimension that gets that far.
ReduceDimsWithoutKeepDims(x, axes) ==
    LET Names(i, j) == DimOf(Len(x), axes[i]) = j
        Reads(i, j) == \A k \in 1 .. i - 1 : ~ Names(k, j)
        Kept(j) == \A i \in DOMAIN axes : ~ Names(i, j)
    IN  IF \E j \in DOMAIN x, i \in DOMAIN axes :
                Reads(i, j) /\ ~ CheckAxisBounds(Len(x), axes[i])
        THEN Rejected
        ELSE FlattenSeq([j \in DOMAIN x |-> IF Kept(j) THEN <<x[j]>> ELSE <<>>])

\* A shape of unknown rank is not told from one of rank one.
InferShape4Reduce(x, axes, keepDims) ==
    IF axes = <<>> THEN x
    ELSE IF keepDims THEN ReduceDimsWithKeepDims(x, axes)
    ELSE ReduceDimsWithoutKeepDims(x, axes)

-----------------------------------------------------------------------------
(* What the inferred shapes are compared with.                             *)

\* The shapes a partly unknown one may turn out to be, with dimensions in D
\* and, if its rank is not known, a rank of at most r.
Outcomes(shape, D, r) ==
    IF shape = UnknownRank THEN UNION {[1 .. n -> D] : n \in 0 .. r}
    ELSE {s \in [DOMAIN shape -> D \cup ToSet(shape)] :
            \A i \in DOMAIN shape :
                IF shape[i] = UnknownDim THEN s[i] \in D ELSE s[i] = shape[i]}

\* Is `out` what inferring announced?
Announced(inferred, out) ==
    \/ inferred = UnknownRank
    \/ /\ Len(inferred) = Len(out)
       /\ \A i \in DOMAIN out : inferred[i] \in {UnknownDim, out[i]}

\* Dimension i of a shape of rank n; missing ones count as 1.
Aligned(s, i, n) == IF i <= n - Len(s) THEN 1 ELSE s[i - (n - Len(s))]

\* Is `out` the broadcast of two known shapes?
IsBroadcastOf(out, s1, s2) ==
    /\ Len(out) \in {Len(s1), Len(s2)} /\ Len(s1) <= Len(out) /\ Len(s2) <= Len(out)
    /\ \A i \in DOMAIN out :
           LET dims == {Aligned(s1, i, Len(out)), Aligned(s2, i, Len(out))}
           IN  out[i] \in dims /\ dims \subseteq {1, out[i]}

=============================================================================
