------------------------------- MODULE OptWide -------------------------------
(***************************************************************************)
(* The meaning of the operations of the optimizer's representation whose   *)
(* values do not fit a 64-bit register: bit-precise integers, 128-bit      *)
(* integers, floating-point, decimal and complex numbers.  A bit-precise   *)
(* integer is the number its w bits stand for; a 128-bit integer likewise; *)
(* a complex number is the code of a pair.                                 *)
(*                                                                         *)
(* A floating-point format keeps Precision significant digits in its base  *)
(* and no magnitude above FloatMax; integers stand for its finite values.  *)
(* Arithmetic with an infinity or a NaN yields a NaN here.                 *)
(***************************************************************************)
EXTENDS Integers, Sequences, Bitwise

Undefined == 2 ^ 24 \* a result the operation does not define; no register holds it

Float32 == 232
Float64 == 264
LongDouble == 280
Decimal32 == 1032
Decimal64 == 1064
Decimal128 == 1128
BinaryFormats == {Float32, Float64, LongDouble}
DecimalFormats == {Decimal32, Decimal64, Decimal128}

FloatMax == 61
Infinity == 62
NaN == 63

FloatBase(f) == IF f \in BinaryFormats THEN 2 ELSE 10
Precision(f) ==
    CASE f = Float32 -> 2 [] f = Float64 -> 3 [] f = LongDouble -> 5
      [] f = Decimal32 -> 1 [] f \in {Decimal64, Decimal128} -> 2

Magnitude(x) == IF x < 0 THEN -x ELSE x
Finite(x) == Magnitude(x) <= FloatMax

\* The unit of the last digit that format f keeps of m, and the multiple of a unit nearest
\* to m, the even one when two are.
LastPlace(f, m) ==
    FloatBase(f) ^ (CHOOSE k \in 0..16 :
                      /\ m < FloatBase(f) ^ (Precision(f) + k)
                      /\ k = 0 \/ m >= FloatBase(f) ^ (Precision(f) + k - 1))
RoundsUp(m, unit) == 2 * (m % unit) > unit \/ (2 * (m % unit) = unit /\ (m \div unit) % 2 = 1)
Nearest(m, unit) == (m \div unit + IF RoundsUp(m, unit) THEN 1 ELSE 0) * unit
Capped(n) == IF n > FloatMax THEN Infinity ELSE n

\* The value of format f nearest to x.
RoundTo(f, x) ==
    LET c == Capped(Nearest(Magnitude(x), LastPlace(f, Magnitude(x)))) IN IF x < 0 THEN -c ELSE c

Converted(f, x) == IF Finite(x) THEN RoundTo(f, x) ELSE x
Negated64(x) == IF x = NaN THEN NaN ELSE -x

Quotient(n, d) == LET q == Magnitude(n) \div Magnitude(d) IN IF (n < 0) # (d < 0) THEN -q ELSE q

FloatOp(op, f, a, b) ==
    CASE ~Finite(a) \/ ~Finite(b) -> NaN
      [] op = "div" /\ b = 0 -> IF a = 0 THEN NaN ELSE IF a < 0 THEN -Infinity ELSE Infinity
      [] OTHER -> RoundTo(f, CASE op = "add" -> a + b
                               [] op = "sub" -> a - b
                               [] op = "mul" -> a * b
                               [] op = "div" -> Quotient(a, b))

FloatHolds(c, a, b) ==
    LET ordered == a # NaN /\ b # NaN
    IN  CASE c = "feq" -> ordered /\ a = b
          [] c = "fne" -> ~(ordered /\ a = b)
          [] c = "fgt" -> ordered /\ a > b
          [] c = "fngt" -> ~(ordered /\ a > b)
          [] c = "fge" -> ordered /\ a >= b
          [] c = "fnge" -> ~(ordered /\ a >= b)
          [] c = "flt" -> ordered /\ a < b
          [] c = "fnlt" -> ~(ordered /\ a < b)
          [] c = "fle" -> ordered /\ a <= b
          [] c = "fnle" -> ~(ordered /\ a <= b)

\* Complex numbers: the code of a pair of floating-point values, and its parts.
Pair(re, im) == (re + 64) * 128 + im + 64
Real(c) == c \div 128 - 64
Imaginary(c) == (c % 128) - 64

ComplexOp(op, f, x, y) ==
    LET a == Real(x)
        b == Imaginary(x)
        c == Real(y)
        d == Imaginary(y)
        P(m, n) == FloatOp("mul", f, m, n)
        norm == FloatOp("add", f, P(c, c), P(d, d))
    IN  CASE op \in {"add", "sub"} -> Pair(FloatOp(op, f, a, c), FloatOp(op, f, b, d))
          [] op = "mul" -> Pair(FloatOp("sub", f, P(a, c), P(b, d)), FloatOp("add", f, P(a, d), P(b, c)))
          [] op = "div" -> Pair(FloatOp("div", f, FloatOp("add", f, P(a, c), P(b, d)), norm),
                                FloatOp("div", f, FloatOp("sub", f, P(b, c), P(a, d)), norm))

(***************************************************************************)
(* Integers of any width.                                                  *)
(***************************************************************************)
SignedIn(n, bits) == LET m == n % 2 ^ bits IN IF 2 * m >= 2 ^ bits THEN m - 2 ^ bits ELSE m

BitintBinary == {"bitint_add", "bitint_sub", "bitint_imul", "bitint_umul", "bitint_idiv", "bitint_udiv",
                 "bitint_imod", "bitint_umod", "bitint_and", "bitint_or", "bitint_xor"}
BitintShifts == {"bitint_lshift", "bitint_rshift", "bitint_arshift"}
BitintRelational == {"bitint_equal", "bitint_greater", "bitint_less", "bitint_above", "bitint_below"}

BitintOps ==
    BitintBinary \union BitintShifts \union BitintRelational \union
    {"bitint_from_signed", "bitint_from_unsigned", "bitint_get_signed", "bitint_get_unsigned",
     "bitint_cast_signed", "bitint_cast_unsigned", "bitint_to_bool", "bitint_bool_not",
     "bitint_invert", "bitint_negate"}
Int128Ops ==
    {"int128_from", "int128_sign_extend", "int128_zero_extend", "int128_truncate", "int128_to_bool",
     "int128_bool_not", "int128_neg", "int128_not", "int128_signed_to_bitint", "int128_unsigned_to_bitint",
     "int128_from_bitint_signed", "int128_from_bitint_unsigned"}
IntFloatOps ==
    {"bitint_signed_to_float", "bitint_unsigned_to_float", "float_to_bitint_signed",
     "float_to_bitint_unsigned", "int128_signed_to_float", "int128_unsigned_to_float",
     "int128_signed_from_float", "int128_unsigned_from_float"}
FloatOps ==
    {"float_neg", "float_add", "float_sub", "float_mul", "float_div", "float_to_int", "float_to_uint",
     "int_to_float", "uint_to_float", "float_to_float", "float_isnan", "float_compare"}
ComplexOps ==
    {"complex_from", "complex_real", "complex_imaginary", "complex_neg", "complex_add", "complex_sub",
     "complex_mul", "complex_div"}
Arithmetic == [float_add |-> "add", float_sub |-> "sub", float_mul |-> "mul", float_div |-> "div",
               complex_add |-> "add", complex_sub |-> "sub", complex_mul |-> "mul", complex_div |-> "div"]
FloatBinaryOps == {"float_add", "float_sub", "float_mul", "float_div"}
ComplexBinaryOps == {"complex_add", "complex_sub", "complex_mul", "complex_div"}
WideConsts == {"bitint", "float"}
WideOps == BitintOps \union Int128Ops \union IntFloatOps \union FloatOps \union ComplexOps

\* The integer a floating-point value is converted to: the fraction is discarded, and a
\* value outside the range is not defined.
Integral(x, low, high, bits) ==
    IF Finite(x) /\ x \in low..high THEN x % 2 ^ bits ELSE Undefined

BitintCompute(i, v, q) ==
    LET w == i.w
        a == v[1] % 2 ^ w
        b == v[2] % 2 ^ w
        s == SignedIn(v[1], w)
        t == SignedIn(v[2], w)
        shift == IF v[2] >= w THEN Undefined ELSE v[2]
    IN  CASE i.op = "bitint_add" -> a + b
          [] i.op = "bitint_sub" -> a - b
          [] i.op \in {"bitint_imul", "bitint_umul"} -> a * b
          [] i.op = "bitint_idiv" -> IF b = 0 THEN Undefined ELSE Quotient(s, t)
          [] i.op = "bitint_udiv" -> IF b = 0 THEN Undefined ELSE a \div b
          [] i.op = "bitint_imod" -> IF b = 0 THEN Undefined ELSE s - t * Quotient(s, t)
          [] i.op = "bitint_umod" -> IF b = 0 THEN Undefined ELSE a % b
          [] i.op = "bitint_and" -> a & b
          [] i.op = "bitint_or" -> a | b
          [] i.op = "bitint_xor" -> a ^^ b
          [] i.op = "bitint_lshift" -> IF shift = Undefined THEN Undefined ELSE a * 2 ^ shift
          [] i.op = "bitint_rshift" -> IF shift = Undefined THEN Undefined ELSE a \div 2 ^ shift
          [] i.op = "bitint_arshift" -> IF shift = Undefined THEN Undefined ELSE s \div 2 ^ shift
          [] i.op = "bitint_invert" -> -a - 1
          [] i.op = "bitint_negate" -> -a
          [] i.op = "bitint_equal" -> IF a = b THEN 1 ELSE 0
          [] i.op = "bitint_greater" -> IF s > t THEN 1 ELSE 0
          [] i.op = "bitint_less" -> IF s < t THEN 1 ELSE 0
          [] i.op = "bitint_above" -> IF a > b THEN 1 ELSE 0
          [] i.op = "bitint_below" -> IF a < b THEN 1 ELSE 0
          [] i.op = "bitint_to_bool" -> IF a # 0 THEN 1 ELSE 0
          [] i.op = "bitint_bool_not" -> IF a = 0 THEN 1 ELSE 0
          [] i.op = "bitint_from_signed" -> SignedIn(v[1], q)
          [] i.op = "bitint_from_unsigned" -> v[1]
          [] i.op = "bitint_get_signed" -> s
          [] i.op = "bitint_get_unsigned" -> a
          [] i.op = "bitint_cast_signed" -> SignedIn(v[1], i.imm)
          [] i.op = "bitint_cast_unsigned" -> v[1] % 2 ^ i.imm

Int128Compute(i, v, q) ==
    LET n == v[1]
        bitint == IF i.op = "int128_from_bitint_signed" THEN SignedIn(n, i.imm) ELSE n % 2 ^ i.imm
    IN  CASE i.op = "int128_from" -> v[1] + v[2] * 2 ^ q
          [] i.op = "int128_sign_extend" -> SignedIn(n, q)
          [] i.op = "int128_zero_extend" -> n
          [] i.op = "int128_truncate" -> n
          [] i.op = "int128_to_bool" -> IF n # 0 THEN 1 ELSE 0
          [] i.op = "int128_bool_not" -> IF n = 0 THEN 1 ELSE 0
          [] i.op = "int128_neg" -> -n
          [] i.op = "int128_not" -> -n - 1
          [] i.op = "int128_signed_to_bitint" -> SignedIn(n, 2 * q)
          [] i.op = "int128_unsigned_to_bitint" -> n
          [] i.op \in {"int128_from_bitint_signed", "int128_from_bitint_unsigned"} -> bitint

IntFloatCompute(i, v, q) ==
    LET n == v[1]
        bits == IF i.op \in {"bitint_signed_to_float", "bitint_unsigned_to_float"} THEN i.imm ELSE 2 * q
        into == IF i.op \in {"float_to_bitint_signed", "float_to_bitint_unsigned"} THEN i.w ELSE 2 * q
    IN  CASE i.op \in {"bitint_signed_to_float", "int128_signed_to_float"} -> RoundTo(i.w, SignedIn(n, bits))
          [] i.op \in {"bitint_unsigned_to_float", "int128_unsigned_to_float"} -> RoundTo(i.w, n % 2 ^ bits)
          [] i.op \in {"float_to_bitint_signed", "int128_signed_from_float"} ->
               Integral(n, -(2 ^ (into - 1)), 2 ^ (into - 1) - 1, into)
          [] i.op \in {"float_to_bitint_unsigned", "int128_unsigned_from_float"} ->
               Integral(n, 0, 2 ^ into - 1, into)

FloatCompute(i, v, q) ==
    CASE i.op = "float_neg" -> Negated64(v[1])
      [] i.op \in FloatBinaryOps -> FloatOp(Arithmetic[i.op], i.w, v[1], v[2])
      [] i.op = "float_to_int" -> Integral(v[1], -(2 ^ (q - 1)), 2 ^ (q - 1) - 1, q)
      [] i.op = "float_to_uint" -> Integral(v[1], 0, 2 ^ q - 1, q)
      [] i.op = "int_to_float" -> RoundTo(i.w, SignedIn(v[1], q))
      [] i.op = "uint_to_float" -> RoundTo(i.w, v[1])
      [] i.op = "float_to_float" -> Converted(i.w, v[1])
      [] i.op = "float_isnan" -> IF v[1] = NaN THEN 1 ELSE 0
      [] i.op = "float_compare" -> IF FloatHolds(i.cmp, v[1], v[2]) THEN 1 ELSE 0

ComplexCompute(i, v) ==
    CASE i.op = "complex_from" -> Pair(v[1], v[2])
      [] i.op = "complex_real" -> Real(v[1])
      [] i.op = "complex_imaginary" -> Imaginary(v[1])
      [] i.op = "complex_neg" -> Pair(Negated64(Real(v[1])), Negated64(Imaginary(v[1])))
      [] i.op \in ComplexBinaryOps -> ComplexOp(Arithmetic[i.op], i.w, v[1], v[2])

\* How many bits the result of an integer operation keeps.
ResultBits(i, q) ==
    CASE i.op \in {"bitint_get_signed", "bitint_get_unsigned", "int128_truncate"} -> q
      [] i.op \in Int128Ops \ {"int128_signed_to_bitint", "int128_unsigned_to_bitint"} -> 2 * q
      [] OTHER -> i.w

\* What operation i computes from its operand values v, q being the bits of a register.
WideCompute(i, v, q) ==
    IF i.op \in BitintOps \union Int128Ops
    THEN LET n == IF i.op \in BitintOps THEN BitintCompute(i, v, q) ELSE Int128Compute(i, v, q)
         IN  IF n = Undefined THEN n ELSE n % 2 ^ ResultBits(i, q)
    ELSE IF i.op \in IntFloatOps THEN IntFloatCompute(i, v, q)
    ELSE IF i.op \in FloatOps THEN FloatCompute(i, v, q)
    ELSE ComplexCompute(i, v)
=============================================================================
