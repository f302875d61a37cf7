-------------------------- MODULE BigIntCalculator --------------------------
(***************************************************************************)
(* Programs over two big integers: any sequence of the operations of the   *)
(* library, with the number each integer should hold kept beside it.  The  *)
(* arrays are as long as the width needs, so an access behind the end      *)
(* stops the model checker.                                                *)
(***************************************************************************)
EXTENDS BigInt

(***************************************************************************)
(* Conversions between big integers and binary floating point.  A floating *)
(* point number is [neg, exp, frac]: its sign, its unbiased exponent and   *)
(* the MantDig - 1 bits behind the leading one; exponent MaxExp is         *)
(* infinity.                                                               *)
(***************************************************************************)

CONSTANT MantDig,   \* bits of the significand, the leading one included
         MaxExp     \* the exponent of infinity

WithoutSticky(d, tmp, w, significant) ==
    IF significant = MantDig + 1 THEN LeftShift(d, 1, w)
    ELSE RightShift(d, significant - (MantDig + 2), w)

\* An operand with more bits than fit, brought to MantDig + 2 bits: the last bit is sticky.
WithSticky(d, tmp, w, significant) ==
    LET ones == SetSignedInteger(tmp, w, 2 ^ ValueBit - 1)
        dropped == BitAnd(RightShift(ones, w + MantDig + 2 - significant, w), d, w)
        sticky == SetUnsignedInteger(dropped, w, IF IsZero(dropped, w) THEN 0 ELSE 1)
    IN  IF significant = MantDig + 1 THEN LeftShift(d, 1, w)
        ELSE IF significant = MantDig + 2 THEN d
        ELSE BitOr(RightShift(d, significant - (MantDig + 2), w), sticky, w)

\* Rounding to even: the third lowest bit is or-ed in before one is added.
Rounded(d, tmp, w) ==
    LET third == (GetUnsignedValue(d, w) \div 4) % 2
        up == AddDigit(BitOr(d, SetUnsignedInteger(tmp, w, third), w), 1, w)
    IN  RightShift(up, 2, w)

ToFloat(d, tmp, w, signed) ==
    LET neg == signed /\ GetSign(d, w) = 1
        abs == IF neg THEN Negate(d, w) ELSE d
        significant == GetMinUnsignedWidth(abs, w)
        rounded == Rounded(WithSticky(abs, tmp, w, significant), tmp, w)
        carried == GetBits(rounded, MantDig, 1, w) = 1
        mantissa == IF significant > MantDig
                    THEN IF carried THEN RightShift(rounded, 1, w) ELSE rounded
                    ELSE LeftShift(abs, MantDig - significant, w)
        exp == significant - 1 + (IF significant > MantDig /\ carried THEN 1 ELSE 0)
    IN  IF IsZero(d, w) THEN [zero |-> TRUE]
        ELSE [zero |-> FALSE, neg |-> neg, exp |-> Smaller(exp, MaxExp),
              frac |-> IF exp >= MaxExp THEN 0 ELSE GetUnsignedValue(mantissa, w) % 2 ^ (MantDig - 1)]

\* The smallest integer of the width: what the conversion instructions yield out of range.
Indefinite(d, w) == LeftShift(SetUnsignedInteger(d, w, 1), w - 1, w)

FromFloat(d, f, w, signed) ==
    LET mantissa == 2 ^ (MantDig - 1) + f.frac
        shift == f.exp - (MantDig - 1)
        n == IF shift < 0 THEN SetUnsignedInteger(d, w, mantissa \div 2 ^ (-shift))
             ELSE LeftShift(SetUnsignedInteger(d, w, mantissa), shift, w)
    IN  IF f.exp < 0 THEN Zero(d, w)
        ELSE IF f.exp >= w THEN IF signed \/ f.neg THEN Indefinite(d, w) ELSE Zero(d, w)
        ELSE IF f.neg THEN Negate(n, w) ELSE n


CONSTANT Width,     \* the widths the integers take, in bits
         Value      \* the machine integers stored into them, as unsigned patterns

VARIABLES x, y      \* the integers: [width, digits, value], value being the number meant
vars == <<x, y>>

SignedOf(v, w) == IF v >= 2 ^ (w - 1) THEN v - 2 ^ w ELSE v
Denoted(d, w) == DigitsValue(d, BitsToDigits(w)) % 2 ^ w

\* Fresh memory for w bits, as an allocator may return it.
Filled(w, u) == Stored([i \in 0..BitsToDigits(w) - 1 |-> u])
Fresh(w) == {Filled(w, u) : u \in {0, Base - 1}}

\* kefir_bigint_resize_nocast: what the array holds, and whatever is in the new memory.
ResizeNocast(d, w, u) == Stored([i \in 0..BitsToDigits(w) - 1 |-> IF i \in DOMAIN d THEN d[i] ELSE u])

ResizeCastSigned(d, w, new, u) ==
    IF new > w THEN CastSigned(ResizeNocast(d, new, u), w, new)
    ELSE IF new < w THEN ResizeNocast(CastSigned(d, w, new), new, u) ELSE d

ResizeCastUnsigned(d, w, new, u) ==
    IF new > w THEN CastUnsigned(ResizeNocast(d, new, u), w, new)
    ELSE IF new < w THEN ResizeNocast(CastUnsigned(d, w, new), new, u) ELSE d

Resized(d, w, new, u, signed) ==
    IF signed THEN ResizeCastSigned(d, w, new, u) ELSE ResizeCastUnsigned(d, w, new, u)

Init ==
    \E w \in Width :
        LET Arrays == [0..BitsToDigits(w) - 1 -> 0..Base - 1]
        IN  /\ x \in {[width |-> w, digits |-> d, value |-> Denoted(d, w)] : d \in Arrays}
            /\ y \in {[width |-> w, digits |-> d, value |-> Denoted(d, w)] : d \in Arrays}

\* The operation leaves digits d in x, which should then denote the number n.
Put(d, n) == /\ x' = [x EXCEPT !.digits = d, !.value = n % 2 ^ x.width]
             /\ UNCHANGED y

W == x.width

Arithmetic ==
    \/ Put(Add(x.digits, y.digits, W), x.value + y.value)
    \/ Put(Subtract(x.digits, y.digits, W), x.value - y.value)
    \/ Put(Negate(x.digits, W), -x.value)

Bitwise ==
    \/ Put(Invert(x.digits, W), -1 - x.value)
    \/ Put(BitAnd(x.digits, y.digits, W), x.value & y.value)
    \/ Put(BitOr(x.digits, y.digits, W), x.value | y.value)
    \/ Put(BitXor(x.digits, y.digits, W), x.value ^^ y.value)

Shift(amount) ==
    \/ Put(LeftShift(x.digits, amount, W), x.value * 2 ^ amount)
    \/ Put(RightShift(x.digits, amount, W), x.value \div 2 ^ amount)
    \/ Put(ArithmeticRightShift(x.digits, amount, W), SignedOf(x.value, W) \div 2 ^ amount)

\* The product of the width of the operands, in fresh memory.
Multiply ==
    \E u \in {0, Base - 1} :
        \/ Put(UnsignedMultiply(Filled(W, u), x.digits, y.digits, W, W), x.value * y.value)
        \/ Put(SignedMultiply(Filled(W, u), Filled(2 * W + 1, u), x.digits, y.digits, W, W), x.value * y.value)

\* Quotients and remainders that round toward zero.
Quotient(a, b) == LET q == (IF a < 0 THEN -a ELSE a) \div (IF b < 0 THEN -b ELSE b)
                  IN  IF (a < 0) # (b < 0) THEN -q ELSE q
Remainder(a, b) == a - b * Quotient(a, b)

\* The dividend is widened to twice its width and one bit first, as the callers do.
Divided(signed, u) ==
    LET wide == 2 * W + 1
        d == Resized(x.digits, W, wide, u, signed)
        acc == [i \in DOMAIN d |-> u]
    IN  IF signed THEN SignedDivide(d, acc, y.digits, wide, W)
        ELSE UnsignedDivide(d, acc, y.digits, wide, W)

Divide(signed) ==
    LET Of(r) == IF signed THEN SignedOf(r.value, W) ELSE r.value
    IN  /\ ~IsZero(y.digits, W)
        /\ \E u \in {0, Base - 1} : \E result \in {Divided(signed, u)} :
                \/ Put(ResizeNocast(result.quotient, W, u), Quotient(Of(x), Of(y)))
                \/ Put(ResizeNocast(result.remainder, W, u), Remainder(Of(x), Of(y)))

SetInteger(v) ==
    \/ Put(SetSignedInteger(x.digits, W, v), SignedOf(v, ValueBit))
    \/ Put(SetUnsignedInteger(x.digits, W, v), v)

SetField(v, offset, length) ==
    LET kept == IF offset + length < W THEN length ELSE W - offset
        old == (x.value \div 2 ^ offset) % 2 ^ kept
    IN  Put(SetBits(x.digits, v, offset, length, W),
            x.value + ((v % 2 ^ kept) - old) * 2 ^ offset)

\* Both operands are brought to another width.
Resize(new, signed, u) ==
    LET Cast(r) == [width |-> new, digits |-> Resized(r.digits, r.width, new, u, signed),
                    value |-> (IF signed THEN SignedOf(r.value, r.width) ELSE r.value) % 2 ^ new]
    IN  x' = Cast(x) /\ y' = Cast(y)

\* kefir_bigint_copy_resize
Copy == y' = x /\ UNCHANGED x

Next == \/ Arithmetic \/ Bitwise \/ Multiply \/ Copy
        \/ \E amount \in 0..W + 1 : Shift(amount)
        \/ \E signed \in BOOLEAN : Divide(signed)
        \/ \E v \in Value : SetInteger(v)
        \/ \E v \in Value, offset \in 0..W - 1, length \in 1..ValueBit : SetField(v, offset, length)
        \/ \E new \in Width, signed \in BOOLEAN, u \in {0, Base - 1} : Resize(new, signed, u)

Spec == Init /\ [][Next]_vars

-----------------------------------------------------------------------------
\* The arrays have the digits their width needs.
TypeOK ==
    \A r \in {x, y} :
        /\ r.width \in Width
        /\ r.value \in 0..2 ^ r.width - 1
        /\ DOMAIN r.digits = 0..BitsToDigits(r.width) - 1
        /\ \A i \in DOMAIN r.digits : r.digits[i] \in 0..Base - 1

\* Whatever was computed before, and whatever the operations left above the width or found in
\* fresh memory, the low bits of the digits are the number the operations should have produced:
\* sums, products, quotients, shifts and conversions of bigint.c modulo two to the width.
Denotes == \A r \in {x, y} : Denoted(r.digits, r.width) = r.value

\* A product may be wider than its operands: it is then the whole product, or its low bits.  Booth's
\* accumulator has no bit to spare for the opposite of the smallest integer, so the signed product
\* is claimed for any other right operand (the tests of the library make the operands a bit wider).
ProductsExact ==
    \A rw \in {W + 1, 2 * W}, u \in {0, Base - 1} :
        /\ Denoted(UnsignedMultiply(Filled(rw, u), x.digits, y.digits, rw, W), rw) = (x.value * y.value) % 2 ^ rw
        /\ SignedOf(y.value, W) # -(2 ^ (W - 1)) =>
              Denoted(SignedMultiply(Filled(rw, u), Filled(W, u), x.digits, y.digits, rw, W), rw)
                  = (SignedOf(x.value, W) * SignedOf(y.value, W)) % 2 ^ rw

BitLength(v) == CHOOSE k \in 0..v + 1 : v < 2 ^ k /\ (k = 0 \/ v >= 2 ^ (k - 1))

\* The queries of bigint.c answer for the number, not for what is above the width: zero tests,
\* machine values, bit fields, least widths and bit counts.
QueriesExact ==
    LET d == x.digits
        v == x.value
        s == SignedOf(v, W)
        low == v % 2 ^ ValueBit
    IN  /\ IsZero(d, W) <=> v = 0
        /\ GetSign(d, W) = 1 <=> s < 0
        /\ GetUnsignedValue(d, W) = low
        /\ GetSignedValue(d, W) = s % 2 ^ ValueBit
        /\ GetMinUnsignedWidth(d, W) = IF v = 0 THEN 1 ELSE BitLength(v)
        /\ LeadingZeros(d, W, -1) = IF v = 0 THEN -1 ELSE W - BitLength(v)
        /\ RedundantSignBits(d, W) = W - 1 - BitLength(IF s < 0 THEN -1 - s ELSE s)
        /\ v # 0 => LET k == TrailingZeros(d, W, -1) IN v % 2 ^ k = 0 /\ v % 2 ^ (k + 1) # 0
        /\ LeastSignificantNonzero(d, W) = IF v = 0 THEN 0 ELSE 1 + TrailingZeros(d, W, -1)
        /\ NonzeroCount(d, W) = Cardinality({k \in 0..W - 1 : (v \div 2 ^ k) % 2 = 1})
        /\ \A offset \in 0..W, length \in 0..ValueBit :
              GetBits(d, offset, length, W) = (v \div 2 ^ offset) % 2 ^ length

\* Comparisons of two integers of one width order the numbers.
ComparesExact ==
    LET Order(a, b) == IF a < b THEN -1 ELSE IF a > b THEN 1 ELSE 0
    IN  /\ UnsignedCompare(x.digits, y.digits, W) = Order(x.value, y.value)
        /\ SignedCompare(x.digits, y.digits, W) = Order(SignedOf(x.value, W), SignedOf(y.value, W))

\* The wrappers require room for the rounding bits.
WideEnough == W >= MantDig + 3

\* The number n > 0 rounded to MantDig bits, ties to even.
Nearest(n) ==
    LET ulp == 2 ^ (IF BitLength(n) > MantDig THEN BitLength(n) - MantDig ELSE 0)
        q == n \div ulp
        r == n % ulp
    IN  ulp * (IF 2 * r > ulp \/ (2 * r = ulp /\ q % 2 = 1) THEN q + 1 ELSE q)

\* Conversion to floating point rounds to the nearest number of MantDig bits, ties to even, and
\* saturates at infinity; the sticky bit of float.h stands for all the bits shifted out.
RoundsToNearest ==
    WideEnough =>
    \A signed \in BOOLEAN, tmp \in Fresh(W) :
        LET v == IF signed THEN SignedOf(x.value, W) ELSE x.value
            f == ToFloat(x.digits, tmp, W, signed)
            near == Nearest(IF v < 0 THEN -v ELSE v)
        IN  IF v = 0 THEN f.zero
            ELSE /\ f.neg = (v < 0)
                 /\ f.exp = MaxExp => near >= 2 ^ MaxExp
                 /\ f.exp < MaxExp => (2 ^ (MantDig - 1) + f.frac) * 2 ^ f.exp = near * 2 ^ (MantDig - 1)

\* Conversion from floating point truncates toward zero whenever the result fits the width.
TruncatesToInteger ==
    \A signed \in BOOLEAN, neg \in BOOLEAN, exp \in -1..MaxExp - 1, frac \in 0..2 ^ (MantDig - 1) - 1 :
        LET f == [neg |-> neg, exp |-> exp, frac |-> frac]
            abs == ((2 ^ (MantDig - 1) + frac) * 2 ^ (exp + 1)) \div 2 ^ MantDig
            n == IF neg THEN -abs ELSE abs
        IN  n \in (IF signed THEN -(2 ^ (W - 1))..2 ^ (W - 1) - 1 ELSE 0..2 ^ W - 1)
                => Denoted(FromFloat(x.digits, f, W, signed), W) = n % 2 ^ W
=============================================================================
