----------------------------- MODULE EngineFp16 -----------------------------
(***************************************************************************)
(* The half precision type of the engine (fp16_t.cpp).  Its algorithms are *)
(* those of Fp16 and its results differ where a number is too large or     *)
(* too negative: it has infinities and NaNs, and overflowing sums and      *)
(* products become either.                                                 *)
(***************************************************************************)
EXTENDS Fp16

\* The exponent of the infinities and NaNs among the wider floats
\* (FP32_MAX_EXP, FP64_MAX_EXP), here beyond that of any number.
WideMaxExp == 2 * MaxExp

Infinity(s) == Fp16Constructor(s, MaxExp, 0)
IsInf(x) == x.e = MaxExp /\ x.m = 0
IsNan(x) == x.e = MaxExp /\ x.m # 0

\* As EngineNormalize, but a denormal that was rounded up stays one.
EngineNormalizeNoCarry(f) == IF f.e >= MaxExp THEN [f EXCEPT !.e = MaxExp] ELSE f

\* The mantissa is left as it is when the exponent is too large.
EngineNormalize(f) ==
    IF f.e >= MaxExp THEN [f EXCEPT !.e = MaxExp]
    ELSE IF f.e = 0 /\ f.m = HideBit THEN [f EXCEPT !.e = 1, !.m = 0]
    ELSE f

EngineAdd(v1, v2) == Packed(EngineNormalize(RoundedSum(v1, v2)))
EngineSub(v1, v2) == EngineAdd(v1, [v2 EXCEPT !.s = 1 - @])
EngineMul(v1, v2) == Packed(EngineNormalize(RoundedProduct(v1, v2)))

-----------------------------------------------------------------------------
(* Floats.                                                                 *)

EngineWidened(x, len) ==
    IF x.e = MaxExp THEN Wide(x.s, WideMaxExp, x.m * 2 ^ (len - ManLen)) ELSE Widened(x, len)

EngineToFloat(x) == EngineWidened(x, FloatManLen)
EngineToDouble(x) == EngineWidened(x, DoubleManLen)

EngineNarrowed(f, len) ==
    IF f.zero THEN Fp16Constructor(f.s, 0, 0)
    ELSE IF f.exp > Bias
    THEN Fp16Constructor(f.s, MaxExp, IF f.exp = WideMaxExp /\ f.man # 0 THEN HideBit - 1 ELSE 0)
    ELSE Packed(EngineNormalize(Narrowed(f, len)))

EngineAssignFloat(f) == EngineNarrowed(f, FloatManLen)
EngineAssignDouble(f) == EngineNarrowed(f, DoubleManLen)

EngineDiv(v1, v2) ==
    LET s == (v1.s + v2.s) % 2
    IN  IF Fp16IsZero(v2) THEN Largest(s)
        ELSE IF Fp16IsZero(v1) THEN Fp16Constructor(0, 0, 0)
        ELSE [EngineAssignFloat(QuotientOf(v1, v2)) EXCEPT !.s = s]

-----------------------------------------------------------------------------
(* Comparisons.                                                            *)

EngineEq(a, b) == Eq(a, b)
EngineNe(a, b) == ~ (Fp16IsZero(a) /\ Fp16IsZero(b)) /\ a # b
EngineGt(a, b) == Gt(a, b)
EngineGe(a, b) == EngineGt(a, b) \/ EngineEq(a, b)
EngineLt(a, b) == ~ EngineGe(a, b)
EngineLe(a, b) == ~ EngineGt(a, b)

-----------------------------------------------------------------------------
(* Integers.  What is negative, an infinity too, becomes 0 as an unsigned  *)
(* integer.                                                                *)

EngineToInt8(x) == ToSigned(x, Int8Len)
EngineToInt16(x) == ToSigned(x, Int16Len)

\* No exponent is too large for the widest integer.
EngineToInt32(x) ==
    LET max == 2 ^ (Int32Len - 1) - 1
        v == Whole(x) + (IF RoundsUp(x) /\ Whole(x) < max THEN 1 ELSE 0)
    IN  IF Fp16IsInvalid(x) THEN IF x.s = 1 THEN - max - 1 ELSE max
        ELSE IF x.s = 1 THEN - v ELSE v

EngineToUnsigned(x, len) ==
    IF x.s = 1 THEN 0 ELSE IF Fp16IsInvalid(x) THEN 2 ^ len - 1 ELSE ToUnsigned(x, len)

EngineToUInt8(x) == EngineToUnsigned(x, Int8Len)
EngineToUInt16(x) == EngineToUnsigned(x, Int16Len)
EngineToUInt32(x) == EngineToUnsigned(x, Int32Len)

\* The sign bit is masked away before the opposite is taken: the most
\* negative integer becomes -0.
EngineAssignInt8(v) ==
    IF v = - 2 ^ (Int8Len - 1) THEN Fp16Constructor(1, 0, 0) ELSE EncodeSmall(SignOf(v), AbsOf(v))

EngineAssignUInt8(v) == EncodeSmall(0, v)

\* A long integer is cut and rounded, and may round up to an infinity.
EngineEncode(s, v) ==
    LET r == EncodeLong(s, v)
    IN  IF v = 0 THEN Fp16Constructor(0, 0, 0)
        ELSE IF v < 2 * HideBit THEN EncodeSmall(s, v)
        ELSE IF r.e >= MaxExp THEN Infinity(s)
        ELSE Packed(r)

EngineAssignInt16(v) == EngineEncode(SignOf(v), AbsOf(v))
EngineAssignUInt16(v) == EngineEncode(0, v)
EngineAssignUInt32(v) == EngineEncode(0, v)

\* The most negative integer has no opposite; its masked mantissa is 0 and of
\* length 0, which gives the exponent of one half.
EngineAssignInt32(v) ==
    IF v = - 2 ^ (Int32Len - 1) THEN Fp16Constructor(1, Bias - 1, 0)
    ELSE EngineEncode(SignOf(v), AbsOf(v))

EngineAssignInt64(v) ==
    IF v < - 2 ^ (Int32Len - 1) THEN Infinity(1)
    ELSE IF v > 2 ^ (Int32Len - 1) - 1 THEN Infinity(0)
    ELSE EngineAssignInt32(v)

EngineAssignUInt64(v) == IF v > 2 ^ Int32Len - 1 THEN Infinity(0) ELSE EngineAssignUInt32(v)

-----------------------------------------------------------------------------
\* num / den units round to more than the largest number.
Exceeds(num, den) == 2 * num >= den * (4 * HideBit - 1) * 2 ^ (MaxExp - 2)

NearestOrInfinity(s, num, den) ==
    IF Exceeds(num, den) THEN Infinity(s) ELSE Nearest(s, num, den)

=============================================================================
