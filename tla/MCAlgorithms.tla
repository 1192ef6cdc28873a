---------------------------- MODULE MCAlgorithms ----------------------------
(***************************************************************************)
(* The algorithms of op_common on a small instance.  A behaviour explores  *)
(* one of them: the buffers of a kernel ("dag"), a broadcast from shapes   *)
(* to output ("kernel"), a reduction likewise ("reduction"), or one        *)
(* question ("query") put to shape inference or to half precision          *)
(* arithmetic.                                                             *)
(***************************************************************************)
EXTENDS DagBuffers, BroadcastKernel, ReduceKernel, EngineFp16, BFloat16

CONSTANTS
    MaxQueryRank,   \* bound on the rank of an input of shape inference
    KnownDims,      \* the dimensions a shape may have
    MaxAxes         \* bound on the axes of a reduction

VARIABLES
    mode,   \* what is explored
    query   \* the question; its kind "none" when there is none

vars == <<mode, query, dagVars, kernelVars, reduceVars>>

Room(size, buffers, bytes) ==
    [ubSize |-> size, bufferNum |-> buffers, maxBytes |-> bytes, minBytes |-> 1]

MCRooms == {Room(7, 2, 1), Room(17, 4, 1), Room(11, 1, 2), Room(25, 2, 2), Room(16, 1, 1), Room(1, 2, 1)}

-----------------------------------------------------------------------------
(* The reductions: every small shape, and shapes that are cut along one or *)
(* two axes, into tiles that fill the last one or not; and devices whose   *)
(* local memory is too small.                                              *)

Plain(cores, kind) ==
    [cores |-> cores, kind |-> kind, ubSize |-> 1312, dSize |-> 1, maxBytes |-> 2, level2 |-> TRUE,
     preInput |-> 1, preRest |-> 0, postTemp |-> 0, postRest |-> 0, first |-> TRUE]

Operators ==
    {Plain(c[1], c[2]) : c \in {<<1, "prod">>, <<2, "sum">>, <<4, "max">>, <<4, "prod">>}}
        \cup {[Plain(3, "sum") EXCEPT !.ubSize = 2336, !.maxBytes = 1, !.level2 = FALSE]}
        \cup {[Plain(4, "max") EXCEPT !.ubSize = 1968, !.level2 = FALSE, !.preRest = 1,
                                      !.postTemp = 1, !.postRest = 1, !.first = FALSE]}

\* The calls with the given shapes and operators, and any axes.
Calls(shapes, operators) ==
    UNION {[shape : {s}, axes : SUBSET (0 .. Len(s) - 1), op : operators] : s \in shapes}

MCReductions ==
    Calls(UNION {[1 .. r -> {0, 1, 2, 7}] : r \in {1, 2}} \cup {<<a, 3, c>> : a, c \in {2, 7}}
              \cup {<<6, 50>>, <<9, 65>>, <<50, 2, 6>>, <<12, 7, 7>>, <<2, 64, 9>>,
                    <<9, 9, 2, 3>>, <<2, 2, 2, 2, 2, 2>>}, Operators)
        \cup Calls({<<1100>>, <<170, 3>>, <<40, 5, 3>>, <<2, 5, 2, 6, 3>>}, {Plain(1, "sum"), Plain(2, "max")})
        \cup [shape : {<<2, 3>>}, axes : {{-1}, {2}}, op : Operators]
        \cup Calls({<<7>>, <<2, 7>>, <<0, 7>>}, {[Plain(2, "sum") EXCEPT !.ubSize = u] : u \in {192, 224, 250}})

-----------------------------------------------------------------------------
(* The questions: each is asked in parts.                                  *)

Finite == {x \in Half16 : ~ Fp16IsInvalid(x)}
ShapesOf(dims) == UNION {[1 .. r -> dims] : r \in 0 .. MaxQueryRank}
QueryShapes == ShapesOf(KnownDims \cup {UnknownDim}) \cup {UnknownRank}

BfNumbers == {v \in 0 .. 2 * BfSign - 1 : IsNumber(v, BfManLen)}

\* Every float of the lengths of mantissa, from too small to too large.
Floats(len) ==
    {Wide(s, exp, man) : s \in {0, 1}, exp \in - Bias - ManLen - 2 .. Bias + 2, man \in 0 .. 2 ^ len - 1}

QueryKinds == {"half", "broadcast", "reduce", "float", "int", "bfloat", "bits"}

FirstPart ==
    CASE query.kind = "half" -> Half16
      [] query.kind = "broadcast" -> QueryShapes
      [] query.kind = "reduce" -> QueryShapes
      [] query.kind = "float" -> Floats(FloatManLen)
      [] query.kind = "int" -> - 2 ^ (Int32Len - 1) - 1 .. 2 ^ Int32Len
      [] query.kind = "bfloat" -> BfNumbers
      [] query.kind = "bits" -> 0 .. 2 ^ (1 + BfExpLen + BfFloatLen) - 1

SecondPart ==
    CASE query.kind = "half" -> Finite
      [] query.kind = "bfloat" -> BfNumbers
      [] query.kind = "broadcast" -> QueryShapes
      [] query.kind = "reduce" ->
             UNION {[1 .. n -> - MaxQueryRank - 1 .. MaxQueryRank] : n \in 0 .. MaxAxes}
      [] OTHER -> {}

Ask ==
    /\ mode = "query"
    /\ \/ /\ "a" \notin DOMAIN query
          /\ \E a \in FirstPart : query' = [kind |-> query.kind, a |-> a]
       \/ /\ "a" \in DOMAIN query /\ "b" \notin DOMAIN query
          /\ \E b \in SecondPart : query' = [kind |-> query.kind, a |-> query.a, b |-> b]
    /\ UNCHANGED <<mode, dagVars, kernelVars, reduceVars>>

-----------------------------------------------------------------------------
NoKernel ==
    /\ ins = <<<<>>, <<>>>> /\ kernel = "none" /\ phase = "none" /\ op = NoPlan /\ plan = NoPlan
    /\ block = 0 /\ ubLoop = 0 /\ axes = <<>> /\ local = EmptyBuffers /\ out = <<>>

NoReduction ==
    /\ given = NoPlan /\ pass = "none" /\ tiling = NoPlan /\ blockId = 0
    /\ workspace = <<>> /\ reduced = <<>>

Init ==
    /\ DagInit
    /\ \/ mode = "dag" /\ NoKernel /\ NoReduction /\ query = [kind |-> "none"]
       \/ mode = "kernel" /\ KernelInit /\ NoReduction /\ query = [kind |-> "none"]
       \/ mode = "reduction" /\ NoKernel /\ ReduceInit /\ query = [kind |-> "none"]
       \/ mode = "query" /\ NoKernel /\ NoReduction /\ query \in [kind : QueryKinds]

Next ==
    \/ mode = "dag" /\ DagNext /\ UNCHANGED <<mode, query, kernelVars, reduceVars>>
    \/ mode = "kernel" /\ KernelNext /\ UNCHANGED <<mode, query, dagVars, reduceVars>>
    \/ mode = "reduction" /\ ReduceNext /\ UNCHANGED <<mode, query, dagVars, kernelVars>>
    \/ Ask

Spec == Init /\ [][Next]_vars

-----------------------------------------------------------------------------
(* Kernels.                                                                *)

\* Every element of the output of a broadcast, an elementwise operator or a
\* reduction is written once, from the elements of the inputs it is made of,
\* however the host cuts the work.
KernelsRight == OutputRight /\ ReductionRight

\* The local memory suffices: for the buffers that live at the same time, and
\* for the tiles of broadcasts and reductions the host cuts; and the cores
\* for their blocks.
MemoryFits == PlanFits /\ TilesFit /\ ReductionFits

-----------------------------------------------------------------------------
(* Shape inference.                                                        *)

\* BroadcastShape promises no less than what will be known at run time:
\* whatever the unknown dimensions turn out to be, if the inputs broadcast at
\* all, their broadcast has the inferred rank and every inferred dimension;
\* and the inference is refused only for inputs that never broadcast.
InferenceCovers ==
    query.kind = "broadcast" /\ "b" \in DOMAIN query =>
        LET inferred == BroadcastShape(query.a, query.b)
        IN  \A s1 \in Outcomes(query.a, KnownDims, MaxQueryRank),
               s2 \in Outcomes(query.b, KnownDims, MaxQueryRank),
               o \in ShapesOf(KnownDims) :
                IsBroadcastOf(o, s1, s2) => inferred # Rejected /\ Announced(inferred, o)

\* Reducing with and without keeping dimensions agree: both take exactly the
\* named dimensions away, from either end, however often an axis is repeated,
\* known or not, and leave what is known and what is unknown of the others;
\* and an axis out of bounds is refused.  The second form overlooks one when
\* the other axes leave no dimension to compare it with.  Nothing is said of
\* an input of unknown rank, which the code takes for one of rank one.
ReductionsAgree ==
    query.kind = "reduce" /\ "b" \in DOMAIN query =>
        LET x == query.a
            n == Len(x)
            named == {(query.b[i] % n) + 1 : i \in DOMAIN query.b}
            kept == SelectSeq([j \in DOMAIN x |-> j], LAMBDA j : j \notin named)
            inside == \A i \in DOMAIN query.b : query.b[i] \in -n .. n - 1
            with == InferShape4Reduce(x, query.b, TRUE)
            without == InferShape4Reduce(x, query.b, FALSE)
        IN  x # UnknownRank =>
            /\ x # <<>> /\ inside /\ query.b # <<>> =>
                 /\ with = [j \in DOMAIN x |-> IF j \in named THEN 1 ELSE x[j]]
                 /\ without = [k \in DOMAIN kept |-> x[kept[k]]]
            /\ x # <<>> /\ ~ inside => with = Rejected /\ without \in {Rejected, <<>>}
            /\ x = <<>> /\ with # Rejected => with = without

\* What shape inference announces is the shape that the operator will have,
\* for broadcasts of inputs of which dimensions or the rank are unknown, and
\* for reductions of inputs of known rank.
InferenceRight == InferenceCovers /\ ReductionsAgree

-----------------------------------------------------------------------------
(* Half precision: the type of op_common, the type of the engine and       *)
(* bfloat16.                                                               *)

\* r is the number nearest to num / den units.  What exceeds the largest one
\* keeps its sign and becomes the largest number, as the code of op_common has
\* it, or an infinity, as the comments there say (fp16.cpp, lines 1293 and
\* 1520).
IsNearest(r, s, num, den) ==
    IF Exceeds(num, den) THEN r \in {Largest(s), Infinity(s)} ELSE r = Nearest(s, num, den)

\* The sum, difference, product and quotient of two finite numbers are the
\* exact result rounded to the nearest number, a tie to the even one; a zero
\* divided is +0.  A division by zero is left out: the code gives the largest
\* number where its comment (fp16.cpp, line 1076) says "result is inf".  The
\* comparisons are those of the values.
HalfRounds(a, b) ==
    LET sign == (a.s + b.s) % 2
        IsSum(r, v, zero) == IF v = 0 THEN r = zero ELSE IsNearest(r, SignOf(v), AbsOf(v), 1)
        IsScaled(r, num, den, exp) ==
            IsNearest(r, sign, num * 2 ^ Max({0, exp}), den * 2 ^ Max({0, - exp}))
        Zero(s) == Fp16Constructor(s, 0, 0)
    IN  /\ IsSum(fp16Add(a, b), ValueOf(a) + ValueOf(b), Zero(IF a.s = b.s THEN a.s ELSE 0))
        /\ IsSum(fp16Sub(a, b), ValueOf(a) - ValueOf(b), Zero(IF a.s # b.s THEN a.s ELSE 0))
        /\ IsScaled(fp16Mul(a, b), ExtractMan(a) * ExtractMan(b), 1,
                    NormExp(a) + NormExp(b) - 2 - UnitLen)
        /\ ~ Fp16IsZero(b) =>
             IF Fp16IsZero(a) THEN fp16Div(a, b) = Zero(0)
             ELSE IsScaled(fp16Div(a, b), ExtractMan(a), ExtractMan(b), NormExp(a) - NormExp(b) + UnitLen)
        /\ Eq(a, b) <=> ValueOf(a) = ValueOf(b)
        /\ Gt(a, b) <=> ValueOf(a) > ValueOf(b)
        /\ Ge(a, b) <=> ValueOf(a) >= ValueOf(b)
        /\ Lt(a, b) <=> ValueOf(a) < ValueOf(b)
        /\ Le(a, b) <=> ValueOf(a) <= ValueOf(b)

\* The type of the engine agrees with that of op_common wherever the exact
\* result does not exceed the largest number; where it does, the result has
\* its sign and is an infinity, or for sums and products a NaN.  A division
\* by zero is left out here too (fp16_t.cpp, line 727).
EngineRounds(a, b) ==
    LET sign == (a.s + b.s) % 2
        exp == NormExp(a) + NormExp(b) - 2 - UnitLen
        quo == NormExp(a) - NormExp(b) + UnitLen
        Agrees(r, s, num, den, half) ==
            IF Exceeds(num, den) THEN r.s = s /\ Fp16IsInvalid(r) ELSE r = half
        OfSum(r, v, half) == Agrees(r, IF v < 0 THEN 1 ELSE 0, AbsOf(v), 1, half)
    IN  /\ OfSum(EngineAdd(a, b), ValueOf(a) + ValueOf(b), fp16Add(a, b))
        /\ OfSum(EngineSub(a, b), ValueOf(a) - ValueOf(b), fp16Sub(a, b))
        /\ Agrees(EngineMul(a, b), sign, ExtractMan(a) * ExtractMan(b) * 2 ^ Max({0, exp}),
                  2 ^ Max({0, - exp}), fp16Mul(a, b))
        /\ ~ Fp16IsZero(b) =>
             LET num == ExtractMan(a) * 2 ^ Max({0, quo})
                 den == ExtractMan(b) * 2 ^ Max({0, - quo})
             IN  IF Exceeds(num, den) THEN EngineDiv(a, b) = Infinity(sign)
                 ELSE EngineDiv(a, b) = fp16Div(a, b)
        /\ EngineNe(a, b) <=> ~ EngineEq(a, b)
        /\ EngineLt(a, b) <=> ValueOf(a) < ValueOf(b)
        /\ EngineLe(a, b) <=> ValueOf(a) <= ValueOf(b)

\* Rounding a bfloat16 result to a float first makes no difference: it is the
\* exact result rounded to the nearest bfloat16, or an infinity.
BfRounds(a, b) ==
    /\ BfAdd(a, b) = ExactAdd(a, b, BfManLen)
    /\ BfSub(a, b) = ExactAdd(a, BfNeg(b), BfManLen)
    /\ BfMul(a, b) = ExactMul(a, b, BfManLen)
    /\ BfUnits(b, BfManLen) # 0 => BfDiv(a, b) = ExactDiv(a, b, BfManLen)
    /\ BfLt(a, b) <=> BfValue(a, BfManLen) < BfValue(b, BfManLen)
    /\ BfLe(a, b) <=> BfLt(a, b) \/ BfValue(a, BfManLen) = BfValue(b, BfManLen)

\* Arithmetic on finite numbers of 16 bits is rounded once, to the nearest
\* number, a tie to the even one, in all three types; divisions by zero are
\* left out.
ArithmeticRounds ==
    "b" \in DOMAIN query =>
        /\ query.kind = "half" /\ ~ Fp16IsInvalid(query.a) =>
             HalfRounds(query.a, query.b) /\ EngineRounds(query.a, query.b)
        /\ query.kind = "bfloat" => BfRounds(query.a, query.b)

\* From half precision, to floats and back, and to integers; an infinity and
\* a NaN of the engine stay what they are.
HalfConverts(a) ==
    LET ToInt(lo, hi) == NearestInt(a.s, Units(a), UnitLen, lo, hi)
    IN  IF Fp16IsInvalid(a)
        THEN /\ \A r \in {EngineAssignFloat(EngineToFloat(a)), EngineAssignDouble(EngineToDouble(a))} :
                    r.s = a.s /\ (IsInf(r) <=> IsInf(a)) /\ (IsNan(r) <=> IsNan(a))
             /\ EngineToInt32(a) = IF a.s = 1 THEN - 2 ^ (Int32Len - 1) ELSE 2 ^ (Int32Len - 1) - 1
        ELSE /\ AssignFloat(fp16ToFloat(a)) = a /\ AssignDouble(fp16ToDouble(a)) = a
             /\ EngineAssignFloat(EngineToFloat(a)) = a /\ EngineAssignDouble(EngineToDouble(a)) = a
             /\ {fp16ToInt8(a), EngineToInt8(a)} = {ToInt(- 2 ^ (Int8Len - 1), 2 ^ (Int8Len - 1) - 1)}
             /\ {fp16ToInt16(a), EngineToInt16(a)} = {ToInt(- 2 ^ (Int16Len - 1), 2 ^ (Int16Len - 1) - 1)}
             /\ {fp16ToInt32(a), EngineToInt32(a)} = {ToInt(- 2 ^ (Int32Len - 1), 2 ^ (Int32Len - 1) - 1)}
             /\ {fp16ToUInt8(a), EngineToUInt8(a)} = {ToInt(0, 2 ^ Int8Len - 1)}
             /\ {fp16ToUInt16(a), EngineToUInt16(a)} = {ToInt(0, 2 ^ Int16Len - 1)}
             /\ {fp16ToUInt32(a), EngineToUInt32(a)} = {ToInt(0, 2 ^ Int32Len - 1)}

\* From a float.  What is too large becomes an infinity in the engine.
FloatConverts(a) ==
    LET exp == a.exp + UnitLen - FloatManLen
        num == (a.man + 2 ^ FloatManLen) * 2 ^ Max({0, exp})
        den == 2 ^ Max({0, - exp})
    IN  /\ IsNearest(AssignFloat(a), a.s, num, den)
        /\ EngineAssignFloat(a) = NearestOrInfinity(a.s, num, den)

\* From an integer, of each width that it fits.
IntConverts(v) ==
    LET FromInt == Nearest(SignOf(v), AbsOf(v) * 2 ^ UnitLen, 1)
        OrInfinity == NearestOrInfinity(SignOf(v), AbsOf(v) * 2 ^ UnitLen, 1)
        top == (4 * HideBit - 1) * 2 ^ (Bias - ManLen - 1)
    IN  /\ v \in 0 .. 2 ^ Int8Len - 1 => {AssignUInt8(v), EngineAssignUInt8(v)} = {FromInt}
        /\ v \in 0 .. Min({2 ^ Int16Len, top}) - 1 => AssignUInt16(v) = FromInt
        /\ v \in 0 .. 2 ^ Int16Len - 1 => EngineAssignUInt16(v) = OrInfinity
        /\ v \in 0 .. 2 ^ Int32Len - 1 => AssignUInt32(v) = FromInt /\ EngineAssignUInt32(v) = OrInfinity
        /\ v \in - 2 ^ (Int8Len - 1) .. 2 ^ (Int8Len - 1) - 1 => AssignInt8(v) = FromInt
        /\ v \in 1 - 2 ^ (Int8Len - 1) .. 2 ^ (Int8Len - 1) - 1 => EngineAssignInt8(v) = FromInt
        /\ v \in - 2 ^ (Int16Len - 1) .. 2 ^ (Int16Len - 1) - 1 =>
             AssignInt16(v) = FromInt /\ EngineAssignInt16(v) = OrInfinity
        /\ v \in 1 - 2 ^ (Int32Len - 1) .. 2 ^ (Int32Len - 1) - 1 =>
             AssignInt32(v) = FromInt /\ EngineAssignInt32(v) = OrInfinity
        /\ v # - 2 ^ (Int32Len - 1) => EngineAssignInt64(v) = OrInfinity
        /\ v >= 0 => EngineAssignUInt64(v) = OrInfinity

\* From a float to a bfloat16.
BitsConvert(v) ==
    RoundToBFloat16(v) =
        IF FloatIsNan(v, BfFloatLen) THEN BfNan
        ELSE NearestBits(SignBit(v, BfFloatLen), BfUnits(v, BfFloatLen), 2 ^ BfCut, BfManLen)

\* From a bfloat16 to an integer and back: a whole number stays what it is,
\* another one loses its fraction and no more.
BfTruncates(a) ==
    LET r == BfFromInt(BfToInt(a))
        Abs(bits) == BfUnits(bits, BfManLen)
    IN  /\ Abs(a) % One(BfManLen) = 0 => BfValue(r, BfManLen) = BfValue(a, BfManLen)
        /\ Abs(r) <= Abs(a) /\ Abs(a) < Abs(r) + One(BfManLen)
        /\ Abs(r) # 0 => SignBit(r, BfManLen) = SignBit(a, BfManLen)

\* A conversion rounds to the nearest value of its target, a tie to the even
\* one, and is cut to its range: from floats, from and to integers of each
\* width; and a float gives the number it was made from.  Only the integer of
\* a bfloat16 is its whole part.  A float beyond the largest number of
\* op_common's type may become that number or an infinity: comments and code
\* disagree.  The exceptions: an
\* unsigned short beyond the largest number becomes an infinity, and the most
\* negative integer is not kept, that of 32 bits becoming 0 in op_common and
\* one half in the engine, that of 8 bits -0 in the engine.  The engine turns
\* what is too large into infinities.
ConversionsRound ==
    "a" \in DOMAIN query /\ "b" \notin DOMAIN query =>
        /\ query.kind = "half" => HalfConverts(query.a)
        /\ query.kind = "float" => FloatConverts(query.a)
        /\ query.kind = "int" => IntConverts(query.a)
        /\ query.kind = "bits" => BitsConvert(query.a)
        /\ query.kind = "bfloat" => BfTruncates(query.a)

=============================================================================
