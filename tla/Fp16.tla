-------------------------------- MODULE Fp16 --------------------------------
(***************************************************************************)
(* Half precision arithmetic and conversions done in integers (fp16.cpp),  *)
(* for a format of ExpLen exponent and ManLen mantissa bits, and integers  *)
(* of three widths.  A number is a record of sign, exponent field and      *)
(* mantissa field; a wider float is one with an exponent without bounds.   *)
(*                                                                         *)
(* Values are compared in units of the least positive number.              *)
(***************************************************************************)
EXTENDS Integers, Sequences, FiniteSets, FiniteSetsExt

CONSTANTS
    ExpLen, ManLen,                 \* 5 and FP16_MAN_LEN = 10
    TruncLen,                       \* bits kept of what is shifted out: 32
    FloatManLen, DoubleManLen,      \* FP32_MAN_LEN = 23, FP64_MAN_LEN = 52
    Int8Len, Int16Len, Int32Len     \* 8, 16 and 32

ASSUME Fp16Assumption ==
    /\ {ExpLen, ManLen, TruncLen, FloatManLen, DoubleManLen, Int8Len, Int16Len, Int32Len}
           \subseteq Nat \ {0}
    /\ TruncLen >= 2 ^ ExpLen /\ FloatManLen >= ManLen + 2 /\ DoubleManLen >= FloatManLen
    /\ Int8Len < Int16Len /\ Int16Len < Int32Len

Bias == 2 ^ (ExpLen - 1) - 1        \* FP16_EXP_BIAS
MaxExp == 2 ^ ExpLen - 1            \* FP16_MAX_EXP
HideBit == 2 ^ ManLen               \* FP16_MAN_HIDE_BIT
Half16 == [s : {0, 1}, e : 0 .. MaxExp, m : 0 .. HideBit - 1]

Fp16Constructor(s, e, m) == [s |-> s, e |-> e, m |-> m % HideBit]
Packed(f) == Fp16Constructor(f.s, f.e, f.m)
Fp16IsZero(x) == x.e = 0 /\ x.m = 0
Fp16IsDenorm(x) == x.e = 0
Fp16IsInvalid(x) == x.e = MaxExp
Largest(s) == Fp16Constructor(s, MaxExp - 1, HideBit - 1)

\* Fp16ExtractMan: the mantissa with its hidden bit.
ExtractMan(x) == x.m + (IF x.e > 0 THEN HideBit ELSE 0)

\* ExtractFP16Norm: the exponent a mantissa without hidden bit counts for.
NormExp(x) == IF x.e = 0 THEN 1 ELSE x.e

\* An integer, of any sign, shifted right, and the bits that fall out.
RightShift(m, n) == m \div 2 ^ n
ShiftedOut(m, n) == (m % 2 ^ n) * 2 ^ (TruncLen - n)

\* As ManRoundToNearest, but a tie is always rounded up.
ManRoundHalfUp(man, trunc) == man + (IF trunc >= 2 ^ (TruncLen - 1) THEN 1 ELSE 0)

\* To the nearest, a tie to the even one.
ManRoundToNearest(man, trunc) ==
    LET half == 2 ^ (TruncLen - 1)
    IN  man + (IF trunc > half \/ (trunc = half /\ man % 2 = 1) THEN 1 ELSE 0)

\* IsRoundOne: is man to be rounded up when len bits are cut off?
IsRoundOne(man, len) ==
    LET half == 2 ^ (len - 1)
        cut == man % 2 ^ len
    IN  cut > half \/ (cut = half /\ (man \div 2 ^ len) % 2 = 1)

Rounded(man, len) == man \div 2 ^ len + (IF IsRoundOne(man, len) THEN 1 ELSE 0)

RECURSIVE GetManBitLength(_)
GetManBitLength(man) == IF man = 0 THEN 0 ELSE 1 + GetManBitLength(man \div 2)

\* Too large an exponent gives the largest number; a denormal that was
\* rounded up to the hidden bit becomes normal.
Fp16Normalize(f) ==
    IF f.e >= MaxExp THEN [f EXCEPT !.e = MaxExp - 1, !.m = HideBit - 1]
    ELSE IF f.e = 0 /\ f.m = HideBit THEN [f EXCEPT !.e = 1, !.m = 0]
    ELSE f

-----------------------------------------------------------------------------
(* Addition, subtraction, multiplication.  f is a mantissa with its        *)
(* exponent and, as t, the bits that were shifted out of it.               *)

ShiftLeft(f) ==
    [m |-> f.m * 2 + f.t \div 2 ^ (TruncLen - 1), e |-> f.e - 1, t |-> (f.t * 2) % 2 ^ TruncLen]
ShiftRight(f) ==
    [m |-> f.m \div 2, e |-> f.e + 1, t |-> f.t \div 2 + (f.m % 2) * 2 ^ (TruncLen - 1)]

RECURSIVE LeftUntil(_, _, _)
LeftUntil(f, min, low) == IF f.m < min /\ f.e > low THEN LeftUntil(ShiftLeft(f), min, low) ELSE f

RECURSIVE RightUntil(_, _, _)
RightUntil(f, max, low) ==
    IF f.m >= max \/ f.e < low THEN RightUntil(ShiftRight(f), max, low) ELSE f

\* NormalizeMantissa, up to the normalization of the result.
AlignMantissa(f, shiftOut) ==
    LET min == HideBit * 2 ^ shiftOut
        max == min * 2
        g == RightUntil(LeftUntil(f, min, 0), max, -1)
        up == ManRoundToNearest(g.m, g.t) - g.m
        h == RightUntil([g EXCEPT !.m = @ \div 2 ^ shiftOut + up], max, -1)
    IN  IF h.e = 0 THEN [h EXCEPT !.m = @ \div 2] ELSE h

\* The smaller operand is shifted to the exponent of the larger one.  When
\* nothing is left of the sum both are given three more bits.
RoundedSum(v1, v2) ==
    LET eA == NormExp(v1)
        eB == NormExp(v2)
        dA == Max({0, eB - eA})
        dB == Max({0, eA - eB})
        Signed(v) == IF v1.s # v2.s /\ v.s = 1 THEN - ExtractMan(v) ELSE ExtractMan(v)
        sum == RightShift(Signed(v1), dA) + RightShift(Signed(v2), dB)
        sRet == IF v1.s = v2.s THEN v1.s ELSE IF sum < 0 THEN 1 ELSE 0
        shiftOut == IF sum = 0 THEN 3 ELSE 0
        Man(v) == (IF v1.s # v2.s /\ sRet = 1 THEN - Signed(v) ELSE Signed(v)) * 2 ^ shiftOut
        trunc == IF dA > 0 THEN ShiftedOut(Man(v1), dA) ELSE ShiftedOut(Man(v2), dB)
        f == [m |-> RightShift(Man(v1), dA) + RightShift(Man(v2), dB),
              e |-> Max({eA, eB}), t |-> trunc % 2 ^ TruncLen]
        r == AlignMantissa(f, shiftOut)
    IN  [s |-> sRet, e |-> r.e, m |-> r.m]

fp16Add(v1, v2) == Packed(Fp16Normalize(RoundedSum(v1, v2)))

fp16Sub(v1, v2) == fp16Add(v1, [v2 EXCEPT !.s = 1 - @])

RoundedProduct(v1, v2) ==
    LET f == [m |-> ExtractMan(v1) * ExtractMan(v2),
              e |-> NormExp(v1) + NormExp(v2) - Bias - ManLen, t |-> 0]
        g == RightUntil(LeftUntil(f, HideBit, 1), 2 * HideBit, 1)
        h == RightUntil([g EXCEPT !.m = ManRoundToNearest(g.m, g.t)], 2 * HideBit, 0)
    IN  [s |-> (v1.s + v2.s) % 2, e |-> IF h.e = 1 /\ h.m < HideBit THEN 0 ELSE h.e, m |-> h.m]

fp16Mul(v1, v2) == Packed(Fp16Normalize(RoundedProduct(v1, v2)))

-----------------------------------------------------------------------------
(* Wider floats: a sign, an exponent counted from 0 and a mantissa field,  *)
(* or zero.                                                                *)

WideZero(s) == [s |-> s, zero |-> TRUE]
Wide(s, exp, man) == [s |-> s, zero |-> FALSE, exp |-> exp, man |-> man]

\* fp16ToFloat, fp16ToDouble: a denormal is shifted up to its hidden bit.
Widened(x, len) ==
    LET up == ManLen + 1 - GetManBitLength(ExtractMan(x))
    IN  IF ExtractMan(x) = 0 THEN WideZero(x.s)
        ELSE Wide(x.s, NormExp(x) - up - Bias,
                  ((ExtractMan(x) * 2 ^ up) % HideBit) * 2 ^ (len - ManLen))

fp16ToFloat(x) == Widened(x, FloatManLen)
fp16ToDouble(x) == Widened(x, DoubleManLen)

\* A wider float that is neither zero nor too large, of mantissa length len.
Narrowed(f, len) ==
    LET least == - (Bias + ManLen - 1)
        regular == Rounded(f.man, len - ManLen)
    IN  IF f.exp >= 1 - Bias
        THEN [s |-> f.s, e |-> f.exp + Bias + (IF regular = HideBit THEN 1 ELSE 0), m |-> regular]
        ELSE IF f.exp >= least
        THEN [s |-> f.s, e |-> 0, m |-> Rounded((f.man + 2 ^ len) * 2 ^ (f.exp - least), len)]
        ELSE [s |-> f.s, e |-> 0, m |-> IF f.exp = least - 1 /\ f.man > 0 THEN 1 ELSE 0]

\* The assignments from float and double.
NarrowedTo(f, len) ==
    IF f.zero THEN Fp16Constructor(f.s, 0, 0)
    ELSE IF f.exp > Bias + 1 THEN Largest(f.s)
    ELSE Packed(Fp16Normalize(Narrowed(f, len)))

AssignFloat(f) == NarrowedTo(f, FloatManLen)
AssignDouble(f) == NarrowedTo(f, DoubleManLen)

\* The division of floats: a / b, rounded to a float.
FloatQuotient(a, b) ==
    LET len == GetManBitLength(a) - GetManBitLength(b)
        exp == IF a * 2 ^ Max({0, -len}) >= b * 2 ^ Max({0, len}) THEN len ELSE len - 1
        num == a * 2 ^ (Max({0, -exp}) + FloatManLen)
        den == b * 2 ^ Max({0, exp})
        q == num \div den
        up == IF 2 * (num % den) > den \/ (2 * (num % den) = den /\ q % 2 = 1) THEN 1 ELSE 0
    IN  IF q + up = 2 ^ (FloatManLen + 1) THEN Wide(0, exp + 1, 0)
        ELSE Wide(0, exp, q + up - 2 ^ FloatManLen)

\* The quotient of the absolute values, as a float.
QuotientOf(v1, v2) ==
    LET d == NormExp(v1) - NormExp(v2)
    IN  FloatQuotient(ExtractMan(v1) * 2 ^ Max({0, d}), ExtractMan(v2) * 2 ^ Max({0, - d}))

\* The division is left to floats; a division by zero gives the largest
\* number and a zero divided by anything +0.
fp16Div(v1, v2) ==
    LET s == (v1.s + v2.s) % 2
    IN  IF Fp16IsZero(v2) THEN Largest(s)
        ELSE IF Fp16IsZero(v1) THEN Fp16Constructor(0, 0, 0)
        ELSE [AssignFloat(QuotientOf(v1, v2)) EXCEPT !.s = s]

-----------------------------------------------------------------------------
(* Comparisons.                                                            *)

Eq(a, b) == (Fp16IsZero(a) /\ Fp16IsZero(b)) \/ a = b

Gt(a, b) ==
    LET Above(x, y) == x.e > y.e \/ (x.e = y.e /\ ExtractMan(x) > ExtractMan(y))
    IN  CASE a.s = 0 /\ b.s = 1 -> ~ (Fp16IsZero(a) /\ Fp16IsZero(b))
          [] a.s = 0 /\ b.s = 0 -> Above(a, b)
          [] a.s = 1 /\ b.s = 1 -> Above(b, a)
          [] OTHER -> FALSE

Ge(a, b) == Gt(a, b) \/ Eq(a, b)
Lt(a, b) == ~ Ge(a, b)
Le(a, b) == ~ Gt(a, b)

-----------------------------------------------------------------------------
(* To integers.  Aligned to exponent 0 the number is man / 2 ^ len.        *)

AlignedMan(x) == ExtractMan(x) * 2 ^ Max({0, x.e - Bias})
AlignedLen(x) == ManLen + Max({0, Bias - x.e})
Whole(x) == AlignedMan(x) \div 2 ^ AlignedLen(x)
RoundsUp(x) == IsRoundOne(AlignedMan(x), AlignedLen(x))

\* As ToSigned, but rounding up is not held back at the largest integer.
ToSignedWraps(x, len) ==
    LET max == 2 ^ (len - 1) - 1
        v == Whole(x) + (IF RoundsUp(x) THEN 1 ELSE 0)
    IN  IF Fp16IsDenorm(x) THEN 0
        ELSE IF Fp16IsInvalid(x) \/ Whole(x) > max + 1 THEN IF x.s = 1 THEN -max - 1 ELSE max
        ELSE IF v > max /\ x.s = 0 THEN v - 2 ^ len ELSE IF x.s = 1 THEN - v ELSE v

\* fp16ToInt8, fp16ToInt16 and fp16ToInt32: cut, round unless that leaves the
\* range, negate; Inf and NaN give the ends of the range.
ToSigned(x, len) ==
    LET max == 2 ^ (len - 1) - 1
        over == Fp16IsInvalid(x) \/ Whole(x) > max
        v == Whole(x) + (IF RoundsUp(x) /\ (Whole(x) < max \/ (x.s = 1 /\ len = Int8Len))
                         THEN 1 ELSE 0)
    IN  IF Fp16IsDenorm(x) THEN 0
        ELSE IF over THEN IF x.s = 1 THEN -max - 1 ELSE max
        ELSE IF x.s = 1 THEN - v ELSE v

fp16ToInt8(x) == ToSigned(x, Int8Len)
fp16ToInt16(x) == ToSigned(x, Int16Len)
fp16ToInt32(x) == ToSigned(x, Int32Len)

\* fp16ToUInt8, fp16ToUInt16, fp16ToUInt32 of what is neither Inf nor NaN.
ToUnsigned(x, len) ==
    LET max == 2 ^ len - 1
    IN  IF x.s = 1 \/ Fp16IsDenorm(x) THEN 0
        ELSE IF Whole(x) > max THEN max
        ELSE Whole(x) + (IF RoundsUp(x) /\ Whole(x) # max THEN 1 ELSE 0)

fp16ToUInt8(x) == IF Fp16IsInvalid(x) THEN 2 ^ Int8Len - 1 ELSE ToUnsigned(x, Int8Len)
fp16ToUInt16(x) == IF Fp16IsInvalid(x) THEN 2 ^ Int16Len - 1 ELSE ToUnsigned(x, Int16Len)
fp16ToUInt32(x) ==
    IF Fp16IsInvalid(x) /\ x.s = 0 THEN 2 ^ Int32Len - 1
    ELSE IF Fp16IsInvalid(x) THEN 0 ELSE ToUnsigned(x, Int32Len)

-----------------------------------------------------------------------------
(* From integers.                                                          *)

\* An integer that fits the mantissa is shifted up to the hidden bit.
EncodeSmall(s, v) ==
    LET len == GetManBitLength(v)
    IN  IF v = 0 THEN Fp16Constructor(s, 0, 0)
        ELSE Fp16Constructor(s, Bias + len - 1, v * 2 ^ (ManLen + 1 - len))

EncodeFp16FromUint8(s, v) == EncodeSmall(s, v)

\* A longer one is cut to the mantissa and rounded.
EncodeLong(s, v) ==
    LET cut == GetManBitLength(v) - (ManLen + 1)
        f == RightUntil([m |-> ManRoundToNearest(v \div 2 ^ cut, ShiftedOut(v, cut)),
                         e |-> Bias + ManLen + cut, t |-> 0], 2 * HideBit, 0)
    IN  [s |-> s, e |-> f.e, m |-> f.m]

EncodeFp16FromUint16(s, v) ==
    LET r == EncodeLong(s, v)
    IN  IF v = 0 THEN Fp16Constructor(0, 0, 0)
        ELSE IF v < 2 * HideBit THEN EncodeSmall(s, v)
        ELSE Fp16Constructor(r.s, r.e, r.m)

EncodeFp16FromUint32(s, v) ==
    LET r == EncodeLong(s, v)
    IN  IF v = 0 THEN Fp16Constructor(0, 0, 0)
        ELSE IF v < 2 * HideBit THEN EncodeSmall(s, v)
        ELSE IF r.e >= MaxExp THEN Largest(s)
        ELSE Fp16Constructor(r.s, r.e, r.m)

SignOf(v) == IF v < 0 THEN 1 ELSE 0
AbsOf(v) == IF v < 0 THEN - v ELSE v

AssignUInt8(v) == EncodeFp16FromUint8(0, v)
AssignUInt16(v) == EncodeFp16FromUint16(0, v)
AssignUInt32(v) == EncodeFp16FromUint32(0, v)
AssignInt8(v) == EncodeFp16FromUint8(SignOf(v), AbsOf(v))
AssignInt16(v) == EncodeFp16FromUint16(SignOf(v), AbsOf(v))

\* The most negative integer has no opposite: masking its sign leaves 0.
AssignInt32(v) == EncodeFp16FromUint32(SignOf(v), AbsOf(v) % 2 ^ (Int32Len - 1))

-----------------------------------------------------------------------------
(* What the results are compared with.                                     *)

\* The absolute value, in units of the least positive number.
Units(x) == ExtractMan(x) * 2 ^ (NormExp(x) - 1)
ValueOf(x) == IF x.s = 1 THEN - Units(x) ELSE Units(x)
UnitLen == Bias + ManLen - 1

\* The number nearest to num / den units, a tie to the even one; the largest
\* one for what is larger.
Nearest(s, num, den) ==
    LET e == Max({1, GetManBitLength(num \div den) - ManLen})
        step == den * 2 ^ (e - 1)
        q == num \div step
        r == num % step
        n == q + (IF 2 * r > step \/ (2 * r = step /\ q % 2 = 1) THEN 1 ELSE 0)
        exp == IF n = 2 * HideBit THEN e + 1 ELSE IF n < HideBit THEN 0 ELSE e
    IN  IF exp >= MaxExp THEN Largest(s) ELSE Fp16Constructor(s, exp, n)

\* The integer nearest to num / 2 ^ len, a tie to the even one, within lo .. hi.
NearestInt(s, num, len, lo, hi) ==
    LET v == Rounded(num, len)
    IN  Max({lo, Min({hi, IF s = 1 THEN - v ELSE v})})

=============================================================================
