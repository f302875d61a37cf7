------------------------------- MODULE BigInt -------------------------------
(***************************************************************************)
(* Arbitrary-precision integers: an array of digits and a width in bits.   *)
(* The digits hold the two's complement pattern in their low width bits;   *)
(* the bits of the last digit above the width, and the digits behind it,   *)
(* hold whatever earlier operations left there.                            *)
(*                                                                         *)
(* An operation takes the digit array d (indices from 0) and yields the    *)
(* array it leaves.  DigitBit and ValueBit are the widths of a digit and   *)
(* of the machine integers the operations exchange (8 and 64 in the code). *)
(***************************************************************************)
EXTENDS Integers, Sequences, SequencesExt, FiniteSets, Bitwise, TLC

CONSTANT DigitBit, ValueBit  \* the first divides the second

Base == 2 ^ DigitBit
BitsToDigits(w) == (w + DigitBit - 1) \div DigitBit

Smaller(a, b) == IF a < b THEN a ELSE b

\* Where bit number n of the array is: the digit's index and the place in it.
DigitOf(n) == n \div DigitBit
OffsetOf(n) == n % DigitBit
BitAt(d, n) == (d[DigitOf(n)] \div 2 ^ OffsetOf(n)) % 2

\* Digit x with every bit from off on set to s.
Fill(x, off, s) == (x % 2 ^ off) + (IF s = 1 THEN Base - 2 ^ off ELSE 0)

\* The array as it is stored: a table, not an expression to evaluate at every access.
Stored(d) == d @@ <<>>

\* Array d with the digits in from..to set to x.
SetDigits(d, from, to, x) == Stored([i \in DOMAIN d |-> IF i \in from..to THEN x ELSE d[i]])

(***************************************************************************)
(* Changes of width.                                                       *)
(***************************************************************************)
CastSigned(d, current, desired) ==
    LET last == DigitOf(desired - 1)
        c == DigitOf(current - 1)
        msb == BitAt(d, current - 1)
    IN  IF desired <= current
        THEN [d EXCEPT ![last] = Fill(@, OffsetOf(desired - 1), BitAt(d, desired - 1))]
        ELSE IF current = 0 THEN SetDigits(d, 0, last, 0)
        ELSE SetDigits([d EXCEPT ![c] = Fill(@, OffsetOf(current - 1), msb)],
                       c + 1, last, IF msb = 1 THEN Base - 1 ELSE 0)

CastUnsigned(d, current, desired) ==
    LET last == DigitOf(desired - 1)
        c == DigitOf(current - 1)
        Kept(w, i) == 2 ^ (w - i * DigitBit)
    IN  IF desired <= current THEN [d EXCEPT ![last] = @ % Kept(desired, last)]
        ELSE IF current = 0 THEN SetDigits(d, 0, last, 0)
        ELSE SetDigits([d EXCEPT ![c] = @ % Kept(current, c)], c + 1, last, 0)

\* The digits of a machine integer, given as its unsigned pattern.
SetValue(d, w, value) ==
    Stored([i \in DOMAIN d |-> IF i < BitsToDigits(Smaller(w, ValueBit)) THEN (value \div Base ^ i) % Base
                               ELSE d[i]])

SetSignedInteger(d, w, value) ==
    IF w > ValueBit THEN CastSigned(SetValue(d, w, value), ValueBit, w) ELSE SetValue(d, w, value)
SetUnsignedInteger(d, w, value) ==
    IF w > ValueBit THEN CastUnsigned(SetValue(d, w, value), ValueBit, w) ELSE SetValue(d, w, value)

Zero(d, w) == SetDigits(d, 0, BitsToDigits(w) - 1, 0)

(***************************************************************************)
(* Bit fields, read and written digit by digit.                            *)
(***************************************************************************)
ChunkEnd(iter, end) ==
    Smaller(IF iter % DigitBit # 0 THEN ((iter + DigitBit - 1) \div DigitBit) * DigitBit
            ELSE iter + DigitBit, end)

RECURSIVE GetChunks(_, _, _)
GetChunks(d, iter, end) ==
    IF iter >= end THEN 0
    ELSE LET next == ChunkEnd(iter, end)
             chunk == (d[DigitOf(iter)] \div 2 ^ OffsetOf(iter)) % 2 ^ (next - iter)
         IN  chunk + 2 ^ (next - iter) * GetChunks(d, next, end)

GetBits(d, offset, length, w) == GetChunks(d, offset, Smaller(offset + length, w))

RECURSIVE SetChunks(_, _, _, _)
SetChunks(d, value, iter, end) ==
    IF iter >= end THEN d
    ELSE LET next == ChunkEnd(iter, end)
             span == 2 ^ (next - iter)
             off == 2 ^ OffsetOf(iter)
             old == d[DigitOf(iter)]
             new == (old % off) + (value % span) * off + (old \div (off * span)) * off * span
         IN  SetChunks([d EXCEPT ![DigitOf(iter)] = new], value \div span, next, end)

SetBits(d, value, offset, length, w) ==
    IF offset >= w THEN d ELSE SetChunks(d, value, offset, Smaller(offset + length, w))

(***************************************************************************)
(* Values and queries.                                                     *)
(***************************************************************************)
RECURSIVE DigitsValue(_, _)
DigitsValue(d, n) == IF n = 0 THEN 0 ELSE DigitsValue(d, n - 1) + d[n - 1] * Base ^ (n - 1)

GetUnsignedValue(d, w) ==
    LET v == DigitsValue(d, BitsToDigits(Smaller(w, ValueBit))) % 2 ^ ValueBit
    IN  IF w < ValueBit THEN v % 2 ^ w ELSE v

GetSignedValue(d, w) ==
    LET v == DigitsValue(d, BitsToDigits(Smaller(w, ValueBit))) % 2 ^ ValueBit
        low == v % 2 ^ w
        sign == (v \div 2 ^ (w - 1)) % 2
    IN  IF w >= ValueBit THEN v
        ELSE IF sign = 1 THEN low + 2 ^ ValueBit - 2 ^ w ELSE low

GetSign(d, w) == IF w = 0 THEN 0 ELSE BitAt(d, w - 1)

\* The last digit is compared under the mask of the width.
Masked(d, w) ==
    Stored([i \in 0..BitsToDigits(w) - 1 |->
               IF i + 1 = BitsToDigits(w) THEN d[i] % 2 ^ (OffsetOf(w - 1) + 1) ELSE d[i]])

IsZeroUnmasked(d, w) == \A i \in DOMAIN d : d[i] = 0
IsZero(d, w) == LET masked == Masked(d, w) IN \A i \in DOMAIN masked : masked[i] = 0

\* -1, 0 or 1: the most significant digits that differ decide.
UnsignedCompare(d, e, w) ==
    LET a == Masked(d, w)
        b == Masked(e, w)
        differ == {i \in DOMAIN a : a[i] # b[i]}
        top == CHOOSE i \in differ : \A k \in differ : k <= i
    IN  IF differ = {} THEN 0 ELSE IF a[top] > b[top] THEN 1 ELSE -1

SignedCompare(d, e, w) ==
    LET s == BitAt(d, w - 1)
        t == BitAt(e, w - 1)
    IN  IF s = 1 /\ t = 0 THEN -1 ELSE IF s = 0 /\ t = 1 THEN 1 ELSE UnsignedCompare(d, e, w)

\* The width the value needs: leading zero bits are dropped down to one bit.
GetMinUnsignedWidth(d, w) ==
    IF \E n \in 1..w - 1 : BitAt(d, n) = 1
    THEN 1 + CHOOSE n \in 1..w - 1 : BitAt(d, n) = 1 /\ \A k \in n + 1..w - 1 : BitAt(d, k) = 0
    ELSE 1

(***************************************************************************)
(* Addition and subtraction ripple a carry through the digits.             *)
(***************************************************************************)
RECURSIVE AddFrom(_, _, _, _, _)
AddFrom(d, r, n, i, carry) ==
    LET value == carry + d[i] + r[i]
    IN  IF i = n THEN d ELSE AddFrom([d EXCEPT ![i] = value % Base], r, n, i + 1, value \div Base)
AddDigits(d, r, n) == AddFrom(d, r, n, 0, 0)

RECURSIVE SubtractFrom(_, _, _, _, _)
SubtractFrom(d, r, n, i, borrow) ==
    LET value == d[i] - r[i] - borrow
    IN  IF i = n THEN d
        ELSE SubtractFrom([d EXCEPT ![i] = value % Base], r, n, i + 1, IF value < 0 THEN 1 ELSE 0)
SubtractDigits(d, r, n) == SubtractFrom(d, r, n, 0, 0)

\* An operand of rhs_width bits read as one of more bits: zeros above its width.
ZeroExtended(d, r, rw) ==
    LET masked == Masked(r, rw)
    IN  Stored([i \in DOMAIN d |-> IF i < BitsToDigits(rw) THEN masked[i] ELSE 0])

AddDigit(d, x, w) == AddDigits(d, [i \in DOMAIN d |-> IF i = 0 THEN x ELSE 0], BitsToDigits(w))
Add(d, r, w) == AddDigits(d, r, BitsToDigits(w))
Subtract(d, r, w) == SubtractDigits(d, r, BitsToDigits(w))

\* The right operand is extended already: a division does so once.
AddZeroExtend(d, extended, w) == AddDigits(d, extended, BitsToDigits(w))
SubtractZeroExtend(d, extended, w) == SubtractDigits(d, extended, BitsToDigits(w))

OnDigits(d, r, w, Op(_, _)) ==
    Stored([i \in DOMAIN d |-> IF i < BitsToDigits(w) THEN Op(d[i], r[i]) ELSE d[i]])
Invert(d, w) == OnDigits(d, d, w, LAMBDA x, y : Base - 1 - x)
BitAnd(d, r, w) == OnDigits(d, r, w, LAMBDA x, y : x & y)
BitOr(d, r, w) == OnDigits(d, r, w, LAMBDA x, y : x | y)
BitXor(d, r, w) == OnDigits(d, r, w, LAMBDA x, y : x ^^ y)
Negate(d, w) == AddDigit(Invert(d, w), 1, w)

(***************************************************************************)
(* Shifts move whole digits first and the remaining bits afterwards.       *)
(***************************************************************************)
LeftShift(d, amount, w) ==
    LET shift == Smaller(amount, w)
        n == BitsToDigits(w)
        whole == shift \div DigitBit
        bits == shift % DigitBit
        moved == Stored([i \in DOMAIN d |-> IF i >= n THEN d[i] ELSE IF i < whole THEN 0 ELSE d[i - whole]])
        below(i) == IF i = 0 THEN 0 ELSE moved[i - 1] \div 2 ^ (DigitBit - bits)
    IN  Stored([i \in DOMAIN d |-> IF i >= n THEN d[i] ELSE (moved[i] * 2 ^ bits + below(i)) % Base])

RightShiftDigits(d, whole, sign, w) ==
    LET n == BitsToDigits(w)
    IN  Stored([i \in DOMAIN d |->
                   IF i >= n THEN d[i]
                   ELSE IF i < n - whole THEN d[i + whole] ELSE IF sign = 1 THEN Base - 1 ELSE 0])

\* Digit i of moved, shifted right by bits with the low bits of the digit above it.
RightBits(moved, i, bits) ==
    (moved[i] \div 2 ^ bits) + ((moved[i + 1] * 2 ^ (DigitBit - bits)) % Base)

RightShift(d, amount, w) ==
    LET shift == Smaller(amount, w)
        n == BitsToDigits(w)
        top == 2 ^ (w - (n - 1) * DigitBit)
        bits == shift % DigitBit
        moved == RightShiftDigits([d EXCEPT ![n - 1] = @ % top], shift \div DigitBit, 0, w)
    IN  IF bits = 0 THEN moved
        ELSE Stored([i \in DOMAIN d |->
                IF i >= n THEN d[i]
                ELSE IF i < n - 1 THEN RightBits(moved, i, bits) ELSE (moved[i] % top) \div 2 ^ bits])

ArithmeticRightShiftUnfilled(d, amount, w) ==
    LET shift == Smaller(amount, w)
        n == BitsToDigits(w)
        sign == BitAt(d, w - 1)
        bits == shift % DigitBit
        moved == RightShiftDigits(d, shift \div DigitBit, sign, w)
    IN  IF bits = 0 THEN moved
        ELSE Stored([i \in DOMAIN d |->
                IF i >= n THEN d[i]
                ELSE IF i < n - 1 THEN RightBits(moved, i, bits)
                ELSE Fill(moved[i] \div 2 ^ bits, DigitBit - bits, sign)])

ArithmeticRightShift(d, amount, w) ==
    LET shift == Smaller(amount, w)
        n == BitsToDigits(w)
        off == OffsetOf(w - 1)
        sign == BitAt(d, w - 1)
        bits == shift % DigitBit
        kept == IF off >= bits THEN off - bits + 1 ELSE 0
        moved == RightShiftDigits([d EXCEPT ![n - 1] = Fill(@, off, sign)], shift \div DigitBit, sign, w)
    IN  IF bits = 0 THEN moved
        ELSE Stored([i \in DOMAIN d |->
                IF i >= n THEN d[i]
                ELSE IF i < n - 1 THEN RightBits(moved, i, bits)
                ELSE Fill(moved[i] \div 2 ^ bits, kept, sign)])

(***************************************************************************)
(* Multiplication and division.                                            *)
(***************************************************************************)
\* One row of the school method: digit x of the right operand, at place j.
RECURSIVE MultiplyRow(_, _, _, _, _, _, _)
MultiplyRow(res, l, x, j, i, carry, rn) ==
    LET n == Cardinality(DOMAIN l)
        value == res[i + j] + carry + l[i] * x
    IN  IF i + j >= rn THEN res
        ELSE IF i = n THEN [res EXCEPT ![j + n] = carry]
        ELSE MultiplyRow([res EXCEPT ![i + j] = value % Base], l, x, j, i + 1, value \div Base, rn)

RECURSIVE MultiplyRows(_, _, _, _, _)
MultiplyRows(res, l, r, j, rn) ==
    IF j \notin DOMAIN r THEN res
    ELSE MultiplyRows(MultiplyRow(res, l, r[j], j, 0, 0, rn), l, r, j + 1, rn)

UnsignedMultiply(res, l, r, rw, w) ==
    MultiplyRows(Zero(res, rw), Masked(l, w), Masked(r, w), 0, BitsToDigits(rw))

\* Booth's method: the product grows in acc and, bit by bit, in the place of l.
RECURSIVE BoothSteps(_, _, _, _, _, _)
BoothSteps(acc, l, r, previous, k, w) ==
    LET bit == l[0] % 2
        sum == IF bit = 1 /\ previous = 0 THEN Subtract(acc, r, w)
               ELSE IF bit = 0 /\ previous = 1 THEN Add(acc, r, w) ELSE acc
        shifted == [RightShift(l, 1, w) EXCEPT
                       ![DigitOf(w - 1)] = @ | ((sum[0] % 2) * 2 ^ OffsetOf(w - 1))]
    IN  IF k = w THEN [acc |-> acc, l |-> l]
        ELSE BoothSteps(ArithmeticRightShift(sum, 1, w), shifted, r, bit, k + 1, w)

SignedMultiply(res, acc, l, r, rw, w) ==
    LET b == BoothSteps(Zero(acc, w), l, r, 0, 0, w)
        high == LeftShift(BitOr(Zero(res, rw), b.acc, w), w, rw)
    IN  CastSigned(BitOr(high, b.l, w), 2 * w, rw)

\* Restoring division: the quotient replaces the left operand, the remainder is in acc.
RECURSIVE DivisionSteps(_, _, _, _, _)
DivisionSteps(d, acc, r, k, w) ==
    LET next == LeftShift(acc, 1, w)
        trial == SubtractZeroExtend([next EXCEPT ![0] = @ | BitAt(d, w - 1)], r, w)
        moved == LeftShift(d, 1, w)
    IN  IF k = w THEN [quotient |-> d, remainder |-> acc]
        ELSE IF BitAt(trial, w - 1) = 1
        THEN DivisionSteps([moved EXCEPT ![0] = @ - (@ % 2)], AddZeroExtend(trial, r, w), r, k + 1, w)
        ELSE DivisionSteps([moved EXCEPT ![0] = @ | 1], trial, r, k + 1, w)

\* Both divisions expect a divisor that is not zero; the callers turn zero into an error.
UnsignedDivide(d, acc, r, w, rw) == DivisionSteps(d, Zero(acc, w), ZeroExtended(d, r, rw), 0, w)

SignedDivide(d, acc, r, w, rw) ==
    LET s == GetSign(d, w)
        t == GetSign(r, rw)
        q == UnsignedDivide(IF s = 1 THEN Negate(d, w) ELSE d, acc,
                            IF t = 1 THEN Negate(r, rw) ELSE r, w, rw)
    IN  [quotient |-> IF s # t THEN Negate(q.quotient, w) ELSE q.quotient,
         remainder |-> IF s = 1 THEN Negate(q.remainder, w) ELSE q.remainder]

(***************************************************************************)
(* Counting bits: loops over the digits, up from digit i or down from it,  *)
(* that look at the bits of a digit inside the width only.                 *)
(***************************************************************************)
DigitWidth(i, w) == IF i + 1 < BitsToDigits(w) THEN DigitBit ELSE w - i * DigitBit
BitsOf(x, width, b) == {j \in 0..width - 1 : (x \div 2 ^ j) % 2 = b}
Lowest(S) == CHOOSE j \in S : \A k \in S : j <= k
Highest(S) == CHOOSE j \in S : \A k \in S : j >= k

RECURSIVE NonzeroFrom(_, _, _)
NonzeroFrom(d, w, i) ==
    LET ones == BitsOf(d[i], DigitWidth(i, w), 1)
    IN  IF i = BitsToDigits(w) THEN 0
        ELSE IF ones = {} THEN NonzeroFrom(d, w, i + 1) ELSE i * DigitBit + Lowest(ones) + 1
LeastSignificantNonzero(d, w) == NonzeroFrom(d, w, 0)

RECURSIVE ZerosFrom(_, _, _, _, _)
ZerosFrom(d, w, default, i, count) ==
    LET ones == BitsOf(d[i], DigitWidth(i, w), 1)
    IN  IF i = BitsToDigits(w) THEN default
        ELSE IF d[i] = 0 THEN ZerosFrom(d, w, default, i + 1, count + DigitBit)
        ELSE IF ones = {} THEN ZerosFrom(d, w, default, i + 1, count + DigitWidth(i, w))
        ELSE count + Lowest(ones)
TrailingZeros(d, w, default) == ZerosFrom(d, w, default, 0, 0)

\* The bits equal to b at the top, from digit i down.
RECURSIVE RunBelow(_, _, _, _)
RunBelow(d, w, b, i) ==
    LET others == BitsOf(d[i], DigitWidth(i, w), 1 - b)
    IN  IF i < 0 THEN 0
        ELSE IF others = {} THEN DigitWidth(i, w) + RunBelow(d, w, b, i - 1)
        ELSE DigitWidth(i, w) - 1 - Highest(others)
LeadingZeros(d, w, default) ==
    LET count == RunBelow(d, w, 0, BitsToDigits(w) - 1) IN IF count = w THEN default ELSE count
RedundantSignBits(d, w) == RunBelow(d, w, BitAt(d, w - 1), BitsToDigits(w) - 1) - 1

RECURSIVE OnesFrom(_, _, _)
OnesFrom(d, w, i) ==
    IF i = BitsToDigits(w) THEN 0
    ELSE Cardinality(BitsOf(d[i], DigitWidth(i, w), 1)) + OnesFrom(d, w, i + 1)
NonzeroCount(d, w) == OnesFrom(d, w, 0)
=============================================================================
