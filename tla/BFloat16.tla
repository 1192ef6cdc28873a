------------------------------ MODULE BFloat16 ------------------------------
(***************************************************************************)
(* bfloat16 (bfloat16.h): the upper half of the bits of a float.  Numbers  *)
(* are their bits, as natural numbers; operations are done on floats and   *)
(* rounded to the upper half, so every result is rounded twice.            *)
(***************************************************************************)
EXTENDS Integers, FiniteSets, FiniteSetsExt

CONSTANTS
    BfExpLen, BfManLen,     \* 8 and 7
    BfCut                   \* bits of a float that are cut off: 16

ASSUME BFloat16Assumption ==
    {BfExpLen, BfManLen, BfCut} \subseteq Nat \ {0} /\ BfCut >= BfManLen + 3

BfSign == 2 ^ (BfExpLen + BfManLen)             \* 0x8000
BfInfinity == (2 ^ BfExpLen - 1) * 2 ^ BfManLen \* 0x7F80
BfNan == BfInfinity + 2 ^ (BfManLen - 1)        \* NAN_VALUE, 0x7FC0

\* The fields of a number whose mantissa has len bits.
SignBit(bits, len) == bits \div 2 ^ (BfExpLen + len)
ExpField(bits, len) == (bits \div 2 ^ len) % 2 ^ BfExpLen
ManField(bits, len) == bits % 2 ^ len
IsNumber(bits, len) == ExpField(bits, len) < 2 ^ BfExpLen - 1
FloatIsNan(bits, len) == ~ IsNumber(bits, len) /\ ManField(bits, len) # 0

\* Converting to float puts zeros below the bits.
ToFloat(v) == v * 2 ^ BfCut

\* As RoundToBFloat16, but a tie is rounded up.
RoundToBFloat16HalfUp(input) == (input + 2 ^ (BfCut - 1)) \div 2 ^ BfCut

\* round_to_bfloat16: half of the last place, less one unless the last bit is
\* set, carries into it; out of the mantissa it carries into the exponent.
RoundToBFloat16(input) ==
    LET lsb == (input \div 2 ^ BfCut) % 2
    IN  IF FloatIsNan(input, BfManLen + BfCut) THEN BfNan
        ELSE (input + 2 ^ (BfCut - 1) - 1 + lsb) \div 2 ^ BfCut

-----------------------------------------------------------------------------
(* The floats that the arithmetic is done in.                              *)

\* The absolute value, in units of the least positive number.
BfUnits(bits, len) ==
    LET exp == ExpField(bits, len)
    IN  IF exp = 0 THEN ManField(bits, len) ELSE (2 ^ len + ManField(bits, len)) * 2 ^ (exp - 1)
BfValue(bits, len) == IF SignBit(bits, len) = 1 THEN - BfUnits(bits, len) ELSE BfUnits(bits, len)

RECURSIVE BitLength(_)
BitLength(n) == IF n = 0 THEN 0 ELSE 1 + BitLength(n \div 2)

\* The number nearest to num / den units, a tie to the even one, and an
\* infinity beyond the largest: how floats are rounded.
NearestBits(sign, num, den, len) ==
    LET e == Max({0, BitLength(num \div den) - len - 1})
        step == den * 2 ^ e
        q == num \div step
        r == num % step
        n == q + (IF 2 * r > step \/ (2 * r = step /\ q % 2 = 1) THEN 1 ELSE 0)
    IN  sign * 2 ^ (BfExpLen + len)
            + Min({n + e * 2 ^ len, (2 ^ BfExpLen - 1) * 2 ^ len})

\* What exact arithmetic of two bfloat16 gives, rounded to a mantissa of len
\* bits, whose unit is smaller by UnitScale binary places.
BfFloatLen == BfManLen + BfCut
BfBias == 2 ^ (BfExpLen - 1) - 1
UnitScale(len) == len - BfManLen

ExactAdd(a, b, len) ==
    LET v == BfValue(a, BfManLen) + BfValue(b, BfManLen)
        abs == IF v < 0 THEN - v ELSE v
        sign == IF v = 0 THEN Min({SignBit(a, BfManLen), SignBit(b, BfManLen)})
                ELSE IF v < 0 THEN 1 ELSE 0
    IN  NearestBits(sign, abs * 2 ^ UnitScale(len), 1, len)

SignOfProduct(a, b) == (SignBit(a, BfManLen) + SignBit(b, BfManLen)) % 2

\* A unit is 2 ^ (1 - bias - BfManLen).
ExactMul(a, b, len) ==
    NearestBits(SignOfProduct(a, b), BfUnits(a, BfManLen) * BfUnits(b, BfManLen) * 2 ^ UnitScale(len),
                2 ^ (BfBias + BfManLen - 1), len)

ExactDiv(a, b, len) ==
    NearestBits(SignOfProduct(a, b),
                BfUnits(a, BfManLen) * 2 ^ (BfBias + BfManLen - 1 + UnitScale(len)),
                BfUnits(b, BfManLen), len)

-----------------------------------------------------------------------------
(* Integers: both ways lead over the float, which the compiler's cast cuts *)
(* to the whole number towards zero.                                       *)

One(len) == 2 ^ (BfBias + len - 1)      \* the units of 1
BfToInt(a) ==
    LET whole == BfUnits(ToFloat(a), BfFloatLen) \div One(BfFloatLen)
    IN  IF SignBit(a, BfManLen) = 1 THEN - whole ELSE whole
BfFromInt(i) ==
    RoundToBFloat16(NearestBits(IF i < 0 THEN 1 ELSE 0, (IF i < 0 THEN - i ELSE i) * One(BfFloatLen),
                                1, BfFloatLen))

-----------------------------------------------------------------------------
BfNeg(a) == IF a >= BfSign THEN a - BfSign ELSE a + BfSign
BfAdd(a, b) == RoundToBFloat16(ExactAdd(a, b, BfFloatLen))
BfSub(a, b) == RoundToBFloat16(ExactAdd(a, BfNeg(b), BfFloatLen))
BfMul(a, b) == RoundToBFloat16(ExactMul(a, b, BfFloatLen))
BfDiv(a, b) == RoundToBFloat16(ExactDiv(a, b, BfFloatLen))

\* The order is that of the floats, equality that of the bits.
BfLt(a, b) == BfValue(ToFloat(a), BfFloatLen) < BfValue(ToFloat(b), BfFloatLen)
BfLe(a, b) == BfValue(ToFloat(a), BfFloatLen) <= BfValue(ToFloat(b), BfFloatLen)
BfEq(a, b) == a = b

=============================================================================
