----------------------------- MODULE ConstFold ------------------------------
(***************************************************************************)
(* Constant folding of operations on bit-precise, 128-bit, floating-point, *)
(* decimal and complex constants.  Each rule yields the tree that replaces *)
(* the instruction, or Keep.  A bit-precise constant is an instruction     *)
(* "bitint" with its width, value and declared signedness; the arithmetic  *)
(* on its digits is that of BigInt.  A 128-bit constant is an int128_from  *)
(* over two integer constants.                                             *)
(***************************************************************************)
EXTENDS OptIR

CONSTANT DfpBitint  \* kefir_dfp_bitint_conv_is_supported: a property of the host

Q == Bits[64]

BitintConst(sign, w, n) == Instr("bitint", w, <<>>, n % 2 ^ w, sign, <<>>)
FloatConst(f, x) == Instr("float", f, <<>>, x, "", <<>>)
Flag(b) == IntConst(Bit(b))

Operand(F, i, k) == F.ins[i.refs[k]]
IsInt(a) == a.op \in ConstOps
IsBitint(a) == a.op = "bitint"
IsFloat(a, f) == a.op = "float" /\ a.w = f

IsSignedOp(i) ==
    i.op \in {"bitint_from_signed", "bitint_get_signed", "bitint_cast_signed", "float_to_bitint_signed",
              "bitint_signed_to_float", "int128_signed_to_float", "int128_signed_from_float",
              "int128_signed_to_bitint", "int128_from_bitint_signed"}
SignOf(i) == IF IsSignedOp(i) THEN "signed" ELSE "unsigned"

(***************************************************************************)
(* Bit-precise integers.                                                   *)
(***************************************************************************)
FoldBitintFrom(F, i) ==
    LET a == Operand(F, i, 1)
        value == IF IsSignedOp(i) THEN SignedIn(a.imm, Q) ELSE a.imm
    IN  IF IsInt(a) THEN BitintConst(SignOf(i), i.w, value) ELSE Keep

FoldBitintFromFloat(F, i) ==
    LET a == Operand(F, i, 1)
    IN  IF IsFloat(a, i.imm) THEN BitintConst(SignOf(i), i.w, IF Finite(a.imm) THEN a.imm ELSE 0) ELSE Keep

\* The constant's own width decides where its sign bit is.
FoldBitintToInt(F, i) ==
    LET a == Operand(F, i, 1)
    IN  IF ~IsBitint(a) THEN Keep
        ELSE IF IsSignedOp(i) THEN IntConst(SignedIn(a.imm, a.w)) ELSE UintConst(a.imm)

\* The value is widened to the larger of the two widths, cast from the source width, and cut.
FoldBitintCast(F, i) ==
    LET a == Operand(F, i, 1)
        cast == IF IsSignedOp(i) THEN SignedIn(a.imm, i.imm) ELSE a.imm % 2 ^ i.imm
    IN  IF IsBitint(a) THEN BitintConst(SignOf(i), i.w, cast) ELSE Keep

FoldBitintToFloat(F, i) ==
    LET a == Operand(F, i, 1)
        value == IF IsSignedOp(i) THEN SignedIn(a.imm, a.w) ELSE a.imm
    IN  IF IsBitint(a) THEN FloatConst(i.w, RoundTo(i.w, value)) ELSE Keep

FoldBitintToBool(F, i) ==
    LET a == Operand(F, i, 1) IN IF IsBitint(a) THEN Flag(a.imm # 0) ELSE Keep

FoldBitintBoolNot(F, i) ==
    LET a == Operand(F, i, 1) IN IF IsBitint(a) THEN Flag(a.imm = 0) ELSE Keep

FoldBitintUnary(F, i) ==
    LET a == Operand(F, i, 1)
    IN  IF IsBitint(a) THEN BitintConst(a.cmp, a.w, IF i.op = "bitint_invert" THEN -a.imm - 1 ELSE -a.imm)
        ELSE Keep

\* The digit division's results for a zero divisor: a quotient of ones, the dividend left.
DivideOr(n, d) == IF d = 0 THEN -1 ELSE Quotient(n, d)

\* Division works on the dividend extended to 2 w + 1 bits.
BitintDivision(op, a, b) ==
    LET s == SignedIn(a.imm, a.w)
        t == SignedIn(b.imm, b.w)
        u == a.imm
        v == b.imm
    IN  CASE op = "bitint_idiv" -> DivideOr(s, t)
          [] op = "bitint_udiv" -> DivideOr(u, v)
          [] op = "bitint_imod" -> s - t * DivideOr(s, t)
          [] op = "bitint_umod" -> u - v * DivideOr(u, v)

FoldBitintBinary(F, i) ==
    LET a == Operand(F, i, 1)
        b == Operand(F, i, 2)
        n == CASE i.op = "bitint_add" -> a.imm + b.imm
               [] i.op = "bitint_sub" -> a.imm - b.imm
               [] i.op = "bitint_and" -> a.imm & b.imm
               [] i.op = "bitint_or" -> a.imm | b.imm
               [] i.op = "bitint_xor" -> a.imm ^^ b.imm
               [] i.op = "bitint_imul" -> SignedIn(a.imm, a.w) * SignedIn(b.imm, b.w)
               [] i.op = "bitint_umul" -> a.imm * b.imm
               [] OTHER -> BitintDivision(i.op, a, b)
    IN  IF IsBitint(a) /\ IsBitint(b) THEN BitintConst("signed", a.w, n) ELSE Keep

FoldBitintShift(F, i) ==
    LET a == Operand(F, i, 1)
        b == Operand(F, i, 2)
        n == CASE i.op = "bitint_lshift" -> IF b.imm >= a.w THEN 0 ELSE a.imm * 2 ^ b.imm
               [] i.op = "bitint_rshift" -> IF b.imm >= a.w THEN 0 ELSE a.imm \div 2 ^ b.imm
               [] i.op = "bitint_arshift" ->
                    SignedIn(a.imm, a.w) \div 2 ^ (IF b.imm >= a.w THEN a.w ELSE b.imm)
    IN  IF IsBitint(a) /\ IsInt(b) THEN BitintConst("signed", a.w, n) ELSE Keep

FoldBitintRelational(F, i) ==
    LET a == Operand(F, i, 1)
        b == Operand(F, i, 2)
        s == SignedIn(a.imm, a.w)
        t == SignedIn(b.imm, b.w)
    IN  IF ~IsBitint(a) \/ ~IsBitint(b) THEN Keep
        ELSE CASE i.op = "bitint_equal" -> Flag(s = t)
               [] i.op = "bitint_greater" -> Flag(s > t)
               [] i.op = "bitint_less" -> Flag(s < t)
               [] i.op = "bitint_above" -> Flag(a.imm > b.imm)
               [] i.op = "bitint_below" -> Flag(a.imm < b.imm)

(***************************************************************************)
(* Floating-point numbers, computed by the host.                           *)
(***************************************************************************)
FoldFloatUnary(F, i) ==
    LET a == Operand(F, i, 1) IN IF IsFloat(a, i.w) THEN FloatConst(i.w, Negated64(a.imm)) ELSE Keep

FoldFloatBinary(F, i) ==
    LET a == Operand(F, i, 1)
        b == Operand(F, i, 2)
    IN  IF IsFloat(a, i.w) /\ IsFloat(b, i.w)
        THEN FloatConst(i.w, FloatOp(Arithmetic[i.op], i.w, a.imm, b.imm)) ELSE Keep

FoldFloatCompare(F, i) ==
    LET a == Operand(F, i, 1)
        b == Operand(F, i, 2)
    IN  IF IsFloat(a, i.w) /\ IsFloat(b, i.w) THEN Flag(FloatHolds(i.cmp, a.imm, b.imm)) ELSE Keep

\* Long doubles and decimals are only tested for equal, greater and less.
FoldLongDoubleCompare(F, i) ==
    IF i.cmp \in {"feq", "fgt", "flt"} THEN FoldFloatCompare(F, i) ELSE Keep

FoldFloatConv(F, i) ==
    LET a == Operand(F, i, 1)
        value == IF Finite(a.imm) THEN a.imm ELSE 0
    IN  CASE i.op = "int_to_float" ->
               IF IsInt(a) THEN FloatConst(i.w, RoundTo(i.w, SignedIn(a.imm, Q))) ELSE Keep
          [] i.op = "uint_to_float" -> IF IsInt(a) THEN FloatConst(i.w, RoundTo(i.w, a.imm)) ELSE Keep
          [] i.op = "float_to_float" -> IF IsFloat(a, i.imm) THEN FloatConst(i.w, Converted(i.w, a.imm)) ELSE Keep
          [] i.op = "float_to_int" -> IF IsFloat(a, i.imm) THEN IntConst(value) ELSE Keep
          [] i.op = "float_to_uint" -> IF IsFloat(a, i.imm) THEN UintConst(value) ELSE Keep

(***************************************************************************)
(* Decimal numbers, computed by the host's decimal library.                *)
(***************************************************************************)
FoldDecimalBinary(F, i) ==
    IF i.op = "float_compare" THEN FoldLongDoubleCompare(F, i) ELSE FoldFloatBinary(F, i)

\* A long double becomes a decimal by way of a double.
LongDoubleToDecimal(f, x) == Converted(f, Converted(Float64, x))

FoldDecimalUnary(F, i) ==
    LET a == Operand(F, i, 1)
    IN  CASE i.op = "float_neg" -> FoldFloatUnary(F, i)
          [] i.op = "float_isnan" -> IF IsFloat(a, i.w) THEN Flag(a.imm = NaN) ELSE Keep
          [] i.op = "float_to_float" /\ i.imm = LongDouble ->
               IF IsFloat(a, i.imm) THEN FloatConst(i.w, LongDoubleToDecimal(i.w, a.imm)) ELSE Keep
          [] OTHER -> FoldFloatConv(F, i)

FoldDecimalToBitint(F, i) == FoldBitintFromFloat(F, i)
FoldDecimalFromBitint(F, i) == FoldBitintToFloat(F, i)

(***************************************************************************)
(* Complex numbers: a pair of constants of the operation's format.         *)
(***************************************************************************)
IsComplex(F, a, f) ==
    a.op = "complex_from" /\ a.w = f /\ \A k \in 1..2 : IsFloat(Operand(F, a, k), f)
PairOf(F, a) == Pair(Operand(F, a, 1).imm, Operand(F, a, 2).imm)
ComplexConst(f, c) == Op("complex_from", f, <<FloatConst(f, Real(c)), FloatConst(f, Imaginary(c))>>)

FoldComplexUnary(F, i) ==
    LET a == Operand(F, i, 1)
        c == PairOf(F, a)
    IN  IF IsComplex(F, a, i.w)
        THEN ComplexConst(i.w, Pair(Negated64(Real(c)), Negated64(Imaginary(c)))) ELSE Keep

\* Products and quotients come from the compiler's own softfloat routines, whose results are
\* taken to be the reference's.
SoftfloatComplex(op, f, x, y) == ComplexOp(op, f, x, y)
ComplexSum(op, f, x, y) ==
    Pair(FloatOp(op, f, Real(x), Real(y)), FloatOp(op, f, Imaginary(x), Imaginary(y)))

FoldComplexBinary(F, i) ==
    LET a == Operand(F, i, 1)
        b == Operand(F, i, 2)
        x == PairOf(F, a)
        y == PairOf(F, b)
        op == Arithmetic[i.op]
    IN  IF ~IsComplex(F, a, i.w) \/ ~IsComplex(F, b, i.w) THEN Keep
        ELSE ComplexConst(i.w, IF op \in {"mul", "div"} THEN SoftfloatComplex(op, i.w, x, y)
                               ELSE ComplexSum(op, i.w, x, y))

(***************************************************************************)
(* 128-bit integers.                                                       *)
(***************************************************************************)
Int128Const(n) == Op("int128_from", 128, <<UintConst(n % 2 ^ Q), UintConst((n \div 2 ^ Q) % 2 ^ Q)>>)

\* Both kinds of bit-precise operand are extended by their top bit.
FromBitint(i, a) == SignedIn(a.imm, a.w)

\* The rules for an operand that is an int128_from of two constants, n being its value.
FoldInt128Const(i, n) ==
    CASE i.op = "int128_to_bool" -> Flag(n # 0)
      [] i.op = "int128_bool_not" -> Flag(n = 0)
      [] i.op = "int128_neg" -> Int128Const((-n) % 2 ^ (2 * Q))
      [] i.op = "int128_not" -> Int128Const((-n - 1) % 2 ^ (2 * Q))
      [] i.op = "int128_signed_to_float" -> FloatConst(i.w, RoundTo(i.w, SignedIn(n, 2 * Q)))
      [] i.op = "int128_unsigned_to_float" -> FloatConst(i.w, RoundTo(i.w, n))
      [] i.op = "int128_signed_to_bitint" -> BitintConst("signed", i.w, SignedIn(n, 2 * Q))
      [] i.op = "int128_unsigned_to_bitint" -> BitintConst("signed", i.w, n)
      [] OTHER -> Keep

\* The rules for a floating-point or decimal constant.
FoldInt128FromFloat(i, a) ==
    IF IsFloat(a, i.imm) THEN Int128Const((IF Finite(a.imm) THEN a.imm ELSE 0) % 2 ^ (2 * Q)) ELSE Keep

FoldInt128Unary(F, i) ==
    LET a == Operand(F, i, 1)
        low == Operand(F, a, 1)
        high == Operand(F, a, 2)
        upper == IF a.imm * 2 >= 2 ^ Q THEN UintConst(-1) ELSE UintConst(0)
    IN  CASE i.op = "int128_sign_extend" /\ IsInt(a) -> Op("int128_from", 128, <<Leaf(i.refs[1]), upper>>)
          [] i.op = "int128_zero_extend" /\ IsInt(a) -> Op("int128_from", 128, <<Leaf(i.refs[1]), UintConst(0)>>)
          [] i.op = "int128_truncate" /\ a.op = "int128_from" -> Leaf(a.refs[1])
          [] i.op # "int128_truncate" /\ a.op = "int128_from" ->
               IF IsInt(low) /\ IsInt(high) THEN FoldInt128Const(i, low.imm + high.imm * 2 ^ Q) ELSE Keep
          [] i.op \in {"int128_from_bitint_signed", "int128_from_bitint_unsigned"} /\ IsBitint(a) ->
               Int128Const(FromBitint(i, a) % 2 ^ (2 * Q))
          [] i.op \in {"int128_signed_from_float", "int128_unsigned_from_float"} -> FoldInt128FromFloat(i, a)
          [] OTHER -> Keep
(***************************************************************************)
(* Integers.  An operation on w bits computes on operands cast to w bits;  *)
(* what it leaves above them is not cut off.                               *)
(***************************************************************************)
Placeholder == Instr("placeholder", 64, <<>>, 0, "", <<>>)
Constant(unsigned, n) == IF unsigned THEN UintConst(n) ELSE IntConst(n)

UnaryResult(op, w, x) ==
    CASE op = "bool" -> Bit(Low(x, w) # 0)
      [] op = "bnot" -> Bit(Low(x, w) = 0)
      [] op = "neg" -> IF w = 64 THEN -Signed(x, 64) ELSE -Low(x, w)
      [] op = "not" -> -x - 1
      [] op = "zext" -> Low(x, w)
      [] op = "sext" -> Signed(x, w)

FoldIntUnary(F, i) ==
    LET a == Operand(F, i, 1)
    IN  CASE a.op = "placeholder" -> Placeholder
          [] IsInt(a) -> Constant(a.op = "uint", UnaryResult(i.op, i.w, a.imm))
          [] OTHER -> Keep

FoldExtractBits(F, i) ==
    LET a == Operand(F, i, 1)
        len == i.tgt[2]
        value == a.imm \div 2 ^ i.tgt[1]
        negative == i.op = "bitss" /\ len > 0 /\ (value \div 2 ^ (len - 1)) % 2 = 1
        cut == value % 2 ^ len
    IN  IF ~IsInt(a) THEN Keep
        ELSE IF len >= Q THEN UintConst(value)
        ELSE UintConst(IF negative THEN cut - 2 ^ len ELSE cut)

\* A division that would trap when executed is left alone.
DivisionFolds(w, l, r) ==
    Signed(r, w) # 0 /\ (Signed(l, w) # -(Span(w) \div 2) \/ Signed(r, w) # -1)

BinaryFolds(op, w, l, r) ==
    CASE op \in {"div", "mod"} -> DivisionFolds(w, l, r)
      [] op \in {"udiv", "umod"} -> Low(r, w) # 0
      [] OTHER -> TRUE

\* The host shifts by the whole right operand; past the width it may do anything.
ShiftResult(op, w, l, r) ==
    IF r >= Bits[w] THEN 0
    ELSE CASE op = "shl" -> Low(l, w) * 2 ^ r
           [] op = "shr" -> ShiftRight(Low(l, w), r)
           [] op = "sar" -> ShiftRight(Signed(l, w), r)

LogicalResult(op, w, l, r) ==
    IF op = "bor" THEN Bit(Low(l, w) # 0 \/ Low(r, w) # 0) ELSE Bit(Low(l, w) # 0 /\ Low(r, w) # 0)

CompareResult(c, w, l, r) == Bit(Holds(c, l, r, w))

BinaryResult(op, w, l, r) ==
    CASE op = "add" -> Low(l, w) + Low(r, w)
      [] op = "sub" -> Low(l, w) - Low(r, w)
      [] op \in {"mul", "umul"} -> Low(l, w) * Low(r, w)
      [] op = "div" -> Truncated(Signed(l, w), Signed(r, w))
      [] op = "mod" -> Signed(l, w) - Signed(r, w) * Truncated(Signed(l, w), Signed(r, w))
      [] op = "udiv" -> Low(l, w) \div Low(r, w)
      [] op = "umod" -> Low(l, w) % Low(r, w)
      [] op = "and" -> l & r
      [] op = "or" -> l | r
      [] op = "xor" -> l ^^ r
      [] op \in {"shl", "shr", "sar"} -> ShiftResult(op, w, l, r)
      [] op \in {"bor", "band"} -> LogicalResult(op, w, l, r)

FoldIntBinary(F, i) ==
    LET a == Operand(F, i, 1)
        b == Operand(F, i, 2)
        r == IF b.op = "placeholder" THEN 0 ELSE b.imm
        unsigned == a.op = "uint" \/ b.op = "uint"
    IN  CASE a.op = "placeholder" -> Placeholder
          [] IsInt(a) /\ (IsInt(b) \/ b.op = "placeholder") ->
               IF i.op = "cmp" THEN Constant(unsigned, CompareResult(i.cmp, i.w, a.imm, r))
               ELSE IF BinaryFolds(i.op, i.w, a.imm, r)
                    THEN Constant(unsigned, BinaryResult(i.op, i.w, a.imm, r)) ELSE Keep
          [] OTHER -> Keep

(***************************************************************************)
(* The walk.                                                               *)
(***************************************************************************)
IntUnaryOps == {"neg", "not", "bnot", "bool", "sext", "zext"}
IntBinaryOps == {"add", "sub", "mul", "umul", "div", "udiv", "mod", "umod", "and", "or", "xor",
                 "shl", "shr", "sar", "bor", "band", "cmp"}

IsDecimal(i) == i.w \in DecimalFormats \/ i.imm \in DecimalFormats

\* Which floating-point folds the function's flags (fp: no access to the floating-point
\* environment, contraction allowed) and the host permit.
Permitted(F, i) ==
    CASE i.op \in FloatOps \union ComplexOps -> F.fp
      [] i.op \in IntFloatOps ->
           F.fp /\ (DfpBitint \/ ~IsDecimal(i))
      [] OTHER -> TRUE

FoldBitint(F, i) ==
    CASE i.op \in {"bitint_from_signed", "bitint_from_unsigned"} -> FoldBitintFrom(F, i)
      [] i.op \in {"bitint_get_signed", "bitint_get_unsigned"} -> FoldBitintToInt(F, i)
      [] i.op \in {"bitint_cast_signed", "bitint_cast_unsigned"} -> FoldBitintCast(F, i)
      [] i.op = "bitint_to_bool" -> FoldBitintToBool(F, i)
      [] i.op = "bitint_bool_not" -> FoldBitintBoolNot(F, i)
      [] i.op \in {"bitint_invert", "bitint_negate"} -> FoldBitintUnary(F, i)
      [] i.op \in BitintBinary -> FoldBitintBinary(F, i)
      [] i.op \in BitintShifts -> FoldBitintShift(F, i)
      [] i.op \in BitintRelational -> FoldBitintRelational(F, i)

FoldFloating(F, i) ==
    CASE i.op = "complex_neg" -> FoldComplexUnary(F, i)
      [] i.op \in ComplexBinaryOps -> FoldComplexBinary(F, i)
      [] i.op \in ComplexOps -> Keep
      [] i.op = "float_neg" -> FoldFloatUnary(F, i)
      [] i.op \in FloatBinaryOps -> FoldFloatBinary(F, i)
      [] i.op = "float_compare" ->
           IF i.w = LongDouble THEN FoldLongDoubleCompare(F, i) ELSE FoldFloatCompare(F, i)
      [] OTHER -> FoldFloatConv(F, i)

FoldDecimal(F, i) ==
    IF i.op \in FloatBinaryOps \union {"float_compare"} THEN FoldDecimalBinary(F, i) ELSE FoldDecimalUnary(F, i)

FoldIntFloat(F, i) ==
    CASE i.op \in {"float_to_bitint_signed", "float_to_bitint_unsigned"} ->
           IF IsDecimal(i) THEN FoldDecimalToBitint(F, i) ELSE FoldBitintFromFloat(F, i)
      [] i.op \in {"bitint_signed_to_float", "bitint_unsigned_to_float"} ->
           IF IsDecimal(i) THEN FoldDecimalFromBitint(F, i) ELSE FoldBitintToFloat(F, i)
      [] OTHER -> FoldInt128Unary(F, i)

Fold(F, r) ==
    LET i == F.ins[r]
        op == i.op
    IN  IF ~Permitted(F, i) THEN Keep
        ELSE CASE op \in IntUnaryOps -> FoldIntUnary(F, i)
               [] op \in IntBinaryOps -> FoldIntBinary(F, i)
               [] op \in {"bitsu", "bitss"} -> FoldExtractBits(F, i)
               [] op \in BitintOps -> FoldBitint(F, i)
               [] op \in FloatOps \union ComplexOps -> IF IsDecimal(i) THEN FoldDecimal(F, i) ELSE FoldFloating(F, i)
               [] op \in IntFloatOps -> FoldIntFloat(F, i)
               [] op \in Int128Ops \ {"int128_from"} -> FoldInt128Unary(F, i)
               [] OTHER -> Keep
=============================================================================
