---------------------------- MODULE MCOptimizer -----------------------------
(***************************************************************************)
(* Functions for the optimizer passes.                                     *)
(***************************************************************************)
EXTENDS Optimizer

(***************************************************************************)
(* Straight-line functions for op-simplify: an expression of two or three  *)
(* operations over two arguments and constants, stored with some width or  *)
(* returned.                                                               *)
(***************************************************************************)
\* Arguments x and y, a symbol, and one constant instruction shared by its uses.
Base == [ins |-> [r \in 1..4 |->
                    [(CASE r = 1 -> Instr("arg", 64, <<>>, 1, "", <<>>)
                       [] r = 2 -> Instr("arg", 64, <<>>, 2, "", <<>>)
                       [] r = 3 -> Instr("sym", 64, <<>>, 0, "", <<>>)
                       [] r = 4 -> IntConst(3)) EXCEPT !.blk = Entry]],
         content |-> <<<<1, 2, 3, 4>>>>, control |-> <<<<>>>>, next |-> 5]

X == Leaf(1)
Y == Leaf(2)
Symbol == Leaf(3)
Shared == Leaf(4)

Finish(f, i) == LET g == NewInstruction(f, Entry, i) IN AddControl(g, Entry, f.next)

\* The value is stored at width w and x is returned, or (w = 0) the value is returned
\* at the width it has.
Program(t, w) ==
    LET e == Build(Base, Entry, t)
        stored == Finish(e.fn, Op("store", w, <<3, e.id>>))
    IN  IF w = 0 THEN Finish(e.fn, Op("ret", IF t.op \in FullOps THEN 64 ELSE t.w, <<e.id>>)) ELSE Finish(stored, Op("ret", 64, <<1>>))

Ext(op, w, t) == Op(op, w, <<t>>)

SumAtoms == {X, IntConst(0), IntConst(5), IntConst(-2)}
Inner(ops, w, atoms) == {Op(o, w, <<a, b>>) : o \in ops, a \in atoms, b \in atoms}

\* Both operand orders of an operation over an operand of each set.
Over(o, w, S, T) == {Op(o, w, <<s, t>>) : s \in S, t \in T} \union {Op(o, w, <<t, s>>) : s \in S, t \in T}

SumTrees(w) ==
    UNION {Over(o, w, Inner({"add", "sub"}, w, SumAtoms), SumAtoms) : o \in {"add", "sub"}}
Sums == {Program(t, s) : t \in SumTrees(16), s \in {0, 8}}

Products ==
    LET atoms == {X, IntConst(0), IntConst(1), IntConst(3), UintConst(2)}
    IN  {Program(t, s) : s \in {0, 16}, t \in
           UNION {Over(o, 16, Inner({o}, 16, atoms), atoms) : o \in {"mul", "umul"}}
             \union Over("div", 32, Inner({"mul"}, 32, atoms), atoms)}

Masks == {UintConst(Span(8) - 1), UintConst(Span(32) - 1), IntConst(6), UintConst(0), IntConst(-1)}
Bitwise2 ==
    {Program(t, s) : s \in {0, 8}, t \in
        UNION {Over(o, w, Inner({o}, w, {X} \union Masks), {X} \union Masks) :
                  o \in {"and", "or", "xor"}, w \in {16}}}

Shifts ==
    {Program(Op(o, w, <<Op(p, w, <<X, IntConst(a)>>), UintConst(b)>>), s) :
        o \in {"shl", "shr", "sar"}, p \in {"shl", "shr", "sar"}, w \in {8, 16, 64},
        a \in {0, 1, 2, 4}, b \in {0, 1, 2, 3}, s \in {0, 64}}
      \union
    {Program(Op(o, w, <<Ext(e, v, X), IntConst(1)>>), 64) :
        o \in {"shl", "shr", "sar"}, w \in Widths, e \in Extensions, v \in {8, 16, 32}}

\* Extensions under every operation that may drop them, and two-level extensions.
Extended ==
    {Program(Op(o, w, <<Ext(e, v, Op("add", 64, <<X, Y>>)), Y>>), s) :
        o \in {"add", "sub", "mul", "umul", "and", "or", "xor"}, w \in {8, 16, 32, 64},
        e \in Extensions, v \in {8, 16, 32}, s \in {0, 8, 64}}
      \union
    {Program(Op(o, w, <<Ext(e, v, X)>>), s) :
        o \in {"not", "neg", "bool"} \union Extensions, w \in {8, 16, 32}, e \in Extensions,
        v \in {8, 16, 32}, s \in {8, 16, 64}}
      \union
    {Program(Op(o, w, <<[Op("load", v, <<Symbol>>) EXCEPT !.cmp = c]>>), 64) :
        o \in Extensions, w \in {8, 16, 32}, v \in {8, 16, 32}, c \in {"none", "sign", "zero"}}

Fields == {<<off, len>> \in (0..3) \X (1..4) : off + len <= Bits[64]}
BitFields ==
    {Program([Op(o, 64, <<[Op(p, 64, <<X>>) EXCEPT !.tgt = g]>>) EXCEPT !.tgt = f], 64) :
        o \in {"bitsu", "bitss"}, p \in {"bitsu", "bitss"}, f \in Fields, g \in Fields}

Addresses ==
    {Program(Op("add", 64, <<Op("add", 64, p), c>>), 64) :
        p \in {<<Symbol, IntConst(3)>>, <<UintConst(3), Symbol>>, <<Symbol, X>>},
        c \in {IntConst(-1), UintConst(4)}}

(***************************************************************************)
(* Functions of up to four blocks for op-simplify: a branch on some        *)
(* condition over the arguments, with what the rewrites of conditions,     *)
(* guards, phis and unreachable blocks look for on its ways.               *)
(***************************************************************************)
\* Four empty blocks; the entry has the arguments and a symbol.
Blank ==
    LET empty == [ins |-> <<>>, content |-> <<<<>>, <<>>, <<>>, <<>>>>,
                  control |-> <<<<>>, <<>>, <<>>, <<>>>>, next |-> 1]
        base == BuildAll(empty, Entry, <<Instr("arg", 64, <<>>, 1, "", <<>>),
                                         Instr("arg", 64, <<>>, 2, "", <<>>),
                                         Instr("sym", 64, <<>>, 0, "", <<>>)>>)
    IN  base.fn

\* One instruction at the end of block b's control flow, its operands built before it.
Do(F, b, t) == LET g == Build(F, b, t) IN AddControl(g.fn, b, g.id)

Jump(F, b, t) == Do(F, b, Instr("jump", 64, <<>>, 0, "", <<t>>))
Return(F, b, t) == Do(F, b, Op("ret", 8, <<t>>))
Branch(F, c, w, variant, t, e) == Do(F, Entry, Instr("br", w, <<c>>, variant, "", <<t, e>>))
Store(F, b, t) == Do(F, b, Op("store", 8, <<Symbol, t>>))
Mark(F, b) == Do(F, b, Op("mark", 64, <<>>))
Unreachable(F, b) == Do(F, b, Op("unreachable", 64, <<>>))

Variants == {Direct, Negated}
BoolTrees(w) ==
    {ToBool(w, X), Op("bnot", w, <<X>>), Compare("gt", w, X, Y), Compare("flt", w, X, Y)}
Booleans == UNION {BoolTrees(w) : w \in {8, 32}}

\* Boolean expressions over one another, in one block.
Expressions ==
    LET operands == Booleans \union {X, IntConst(0), UintConst(Span(8))}
        nots == {Op("bnot", w, <<b>>) : w \in {8, 32}, b \in Booleans \union {Op("bnot", 8, <<Op("bnot", 32, <<X>>)>>)}}
        pairs == {Op(o, w, <<a, b>>) : o \in {"bor", "band"}, w \in {8, 32}, a \in operands, b \in operands}
        fusions == {Op("bor", 8, <<Compare(c, 16, X, Y), Compare(e, w, p[1], p[2])>>) :
                      c \in {"gt", "lt", "ab", "bl", "fgt", "flt", "ge"}, e \in {"eq", "feq"}, w \in {16, 32},
                      p \in {<<X, Y>>, <<Y, X>>}}
                   \union {Op("bor", 8, <<Compare("feq", 16, X, Y), Compare("fgt", 16, Y, X)>>)}
    IN  {Return(Blank, Entry, t) : t \in nots \union pairs \union fusions}

\* An operation repeated over an instruction that both use, and selects.
Repeated ==
    {LET inner == Build(Blank, Entry, Op(o, w, <<X, Y>>))
     IN  Return(inner.fn, Entry, Op(p, v, IF k = 1 THEN <<Leaf(inner.id), z>> ELSE <<z, Leaf(inner.id)>>)) :
        o \in {"bor", "band"}, p \in {"bor", "band"}, v \in {8, 32}, w \in {8, 32}, k \in 1..2, z \in {X, Y}}

Selects ==
    {LET c == Build(Blank, Entry, b)
         other == Build(c.fn, Entry, d)
     IN  Return(other.fn, Entry, Instr("select", w, <<Leaf(c.id), Leaf(IF k = 1 THEN c.id ELSE other.id),
                                                      Leaf(IF k = 3 THEN c.id ELSE other.id)>>, v, "", <<>>)) :
        b \in Booleans \union {Op("add", 8, <<X, Y>>)}, d \in BoolTrees(32), w \in {8, 32}, v \in Variants, k \in 1..3}
      \union
    {LET c == Build(Blank, Entry, Compare(a, 16, X, Y))
     IN  Return(c.fn, Entry, Instr("selcmp", w, <<X, Y, Leaf(c.id), d>>, 0, e, <<>>)) :
        a \in {"gt", "le", "fgt"}, e \in {"gt", "le", "fngt", "eq"}, w \in {16, 32}, d \in {ToBool(8, Y), X, Leaf(4)}}

\* Block 3 tests again what the branch to it tested.
Guarded(c, w, variant, op, v) ==
    LET cond == Build(Blank, Entry, c)
        tested == IF op = "band" /\ variant = Direct THEN Op("bnot", w, <<Leaf(cond.id)>>) ELSE Leaf(cond.id)
        branch == Branch(cond.fn, tested, w, variant, 2, 3)
    IN  Return(Return(branch, 2, IntConst(3)), 3, Op(op, v, <<Leaf(cond.id), Y>>))

Guards ==
    {Guarded(c, 8, v, "band", 8) : c \in Booleans \union {Op("add", 8, <<X, Y>>)}, v \in Variants}
      \union {Guarded(c, w, Direct, "bor", w) : c \in Booleans \union {Op("add", 8, <<X, Y>>)}, w \in {8, 32}}

\* The guard leads to the test when the operand is true, and the disjunction is folded.
NegatedGuards == {Guarded(Op("add", 8, <<X, Y>>), 8, Negated, "bor", 8)}

\* Block 4, not reached from the entry directly, selects on an operand of the entry.
SelectOn(c, w, variant, op) ==
    LET cond == Build(Blank, Entry, c)
        f == Jump(Jump(Branch(cond.fn, Y, 8, Direct, 2, 3), 2, 4), 3, 4)
        again == Build(f, 4, Op(op, w, <<Leaf(cond.id), Y>>))
    IN  Return(again.fn, 4, Instr("select", w, <<Leaf(cond.id), Leaf(cond.id), Leaf(again.id)>>, variant, "", <<>>))

SelectGuards ==
    {SelectOn(Op("add", 8, <<X, Y>>), 8, IF o = "bor" THEN Direct ELSE Negated, o) : o \in {"bor", "band"}}

(***************************************************************************)
(* A branch whose ways join in a phi.  A way has a value of its own, a     *)
(* value the entry computed, or something that must stay on it.            *)
(***************************************************************************)
Conditions4 == {Op("bnot", 32, <<X>>), Compare("lt", 16, X, Y), Compare("fgt", 16, X, Y), X}

\* What block b computes on the way: [fn, id].
Way(F, b, kind) ==
    CASE kind = "sum" -> Build(F, b, Op("add", 8, <<Op("mul", 8, <<X, IntConst(3)>>), Y>>))
      [] kind = "twice" -> LET m == Build(F, b, Op("sub", 8, <<X, Y>>))
                           IN  Build(m.fn, b, Op("xor", 8, <<Leaf(m.id), Op("shl", 8, <<Leaf(m.id), Leaf(m.id)>>)>>))
      [] kind = "divide" -> Build(F, b, Op("add", 8, <<Op("div", 8, <<X, Y>>), X>>))
      [] kind = "outer" -> [fn |-> F, id |-> 1]
      [] kind = "store" -> LET g == Store(F, b, Y) IN Build(g, b, IntConst(6))

Phi(a, b, from, to) == Instr("phi", 64, <<Leaf(a), Leaf(b)>>, 0, "", <<from, to>>)

Diamond(c, variant, k1, k2) ==
    LET f == Branch(Blank, c, 8, variant, 2, 3)
        one == Way(f, 2, k1)
        two == Way(one.fn, 3, k2)
        joined == Build(Jump(Jump(two.fn, 2, 4), 3, 4), 4, Phi(one.id, two.id, 2, 3))
    IN  Return(joined.fn, 4, Leaf(joined.id))

\* The entry leads to the join directly as well.
Triangle(c, variant, k1, k, kind) ==
    LET pre == Way(Blank, Entry, k1)
        f == Branch(pre.fn, c, 8, variant, IF k = 1 THEN 2 ELSE 3, IF k = 1 THEN 3 ELSE 2)
        two == Way(f, 2, kind)
        joined == Build(Jump(two.fn, 2, 3), 3, Phi(pre.id, two.id, Entry, 2))
    IN  Return(joined.fn, 3, Leaf(joined.id))

Kinds == {"sum", "twice", "divide", "outer", "store"}
Joins4 ==
    {Diamond(c, v, a, b) : c \in Conditions4, v \in Variants, a \in Kinds, b \in Kinds}
      \union {Triangle(c, v, a, k, b) : c \in Conditions4, v \in Variants, k \in 1..2,
                 a \in {"sum", "outer"}, b \in Kinds}

\* One way of the branch ends in an unreachable point.
DeadEnd(c, variant, k, body) ==
    LET f == Branch(Blank, c, 8, variant, IF k = 1 THEN 2 ELSE 3, IF k = 1 THEN 3 ELSE 2)
        local == Build(f, 2, Op("add", 8, <<X, Y>>))
        way == CASE body = "none" -> local.fn
                 [] body = "mark" -> Mark(local.fn, 2)
                 [] body = "store" -> Mark(Store(local.fn, 2, Leaf(local.id)), 2)
                 [] body = "volatile" -> Store(Do(Store(local.fn, 2, X), 2,
                       Instr("store", 8, <<Symbol, Leaf(local.id)>>, 0, "", <<"volatile">>)), 2, Y)
    IN  Return(Unreachable(way, 2), 3, Op("add", 8, <<X, X>>))

DeadEnds ==
    {DeadEnd(c, v, k, b) : c \in Conditions4 \union {IntConst(0), UintConst(Span(16))}, v \in Variants, k \in 1..2,
        b \in {"none", "mark", "store", "volatile"}}

\* Branches with the same target twice, on constants, and on wide booleans.
Certain ==
    {Return(Return(Branch(Blank, c, w, v, 2, e), 2, X), 3, Y) :
        c \in {IntConst(0), UintConst(Span(8)), IntConst(1)} \union Booleans, w \in {8, 16}, v \in Variants, e \in 2..3}
      \union
    {Return(Return(Do(Blank, Entry, Instr("brcmp", 16, <<X, Y>>, 0, "ab", <<2, e>>)), 2, X), 3, Y) : e \in 2..3}

(***************************************************************************)
(* Functions for constant-fold: one operation over constants of every      *)
(* kind and of values at the edges of their widths, its result brought     *)
(* into a register and returned, so that folds feed other folds.           *)
(***************************************************************************)
Empty(permit) == [ins |-> <<>>, content |-> <<<<>>>>, control |-> <<<<>>>>, next |-> 1, fp |-> permit]

\* The function that returns the low w bits of t.
Returning(permit, t, w) ==
    LET e == Build(Empty(permit), Entry, Op("ret", w, <<t>>)) IN AddControl(e.fn, Entry, e.id)

IntEdges == {IntConst(0), IntConst(-1), IntConst(2), UintConst(3), IntConst(-(Span(64) \div 2)), UintConst(Span(8) \div 2)}
FewInts == {IntConst(-1), IntConst(1), UintConst(Span(16)), UintConst(6)}

Unary ==
    {Returning(TRUE, Op(o, w, <<a>>), w) :
        o \in IntUnaryOps, w \in Widths, a \in IntEdges \union {Placeholder}}
FoldedExtensions ==
    {Returning(TRUE, Op(o, w, <<Op(p, v, <<a>>)>>), 64) :
        o \in {"sext", "zext"}, w \in {8, 16, 32}, p \in {"neg", "not", "sext"}, v \in {8, 16, 32}, a \in IntEdges}
Binary ==
    {Returning(TRUE, Op(o, w, <<a, b>>), w) :
        o \in IntBinaryOps \ {"cmp"}, w \in Widths, a \in IntEdges, b \in IntEdges}
      \union {Returning(TRUE, Op(o, 32, <<a, b>>), 32) :
                o \in {"add", "band"}, a \in {IntConst(3), Placeholder}, b \in {Placeholder}}
Comparisons ==
    {Returning(TRUE, Compare(c, w, a, b), 64) :
        c \in IntComparisons, w \in {8, 32, 64}, a \in FewInts, b \in FewInts}
Extracts ==
    {Returning(TRUE, [Op(o, 64, <<a>>) EXCEPT !.tgt = f], 64) :
        o \in {"bitsu", "bitss"}, a \in IntEdges, f \in {<<0, 1>>, <<1, 3>>, <<4, 3>>, <<0, Q>>}}

\* Bit-precise integers narrower and wider than a register.
BitintWidths == {3, Q + 2}
Edges(w) == {BitintConst("signed", w, n) : n \in {0, 1, -1, -(2 ^ (w - 1)), 5}}
GetS(w, t) == Op("bitint_get_signed", w, <<t>>)

Bitints ==
    UNION {{Returning(TRUE, GetS(w, Op(o, w, <<a, b>>)), 64) : o \in BitintBinary, a \in Edges(w), b \in Edges(w)}
             \union {Returning(TRUE, GetS(w, Op(o, w, <<a, b>>)), 64) :
                       o \in BitintShifts, a \in Edges(w), b \in {IntConst(0), IntConst(2), UintConst(4)}}
             \union {Returning(TRUE, Op(o, w, <<a, b>>), 64) : o \in BitintRelational, a \in Edges(w), b \in Edges(w)}
             \union {Returning(TRUE, Op(o, w, <<a>>), 64) :
                       o \in {"bitint_to_bool", "bitint_bool_not", "bitint_get_unsigned"}, a \in Edges(w)}
             \union {Returning(TRUE, GetS(w, Op(o, w, <<a>>)), 64) : o \in {"bitint_invert", "bitint_negate"}, a \in Edges(w)}
             \union {Returning(TRUE, GetS(w, Op(o, w, <<a>>)), 64) : o \in {"bitint_from_signed", "bitint_from_unsigned"}, a \in IntEdges}
           : w \in BitintWidths}
      \union {Returning(TRUE, GetS(v, [Op(o, v, <<a>>) EXCEPT !.imm = w]), 64) :
                o \in {"bitint_cast_signed", "bitint_cast_unsigned"}, v \in BitintWidths, <<w, a>> \in
                UNION {{w} \X Edges(w) : w \in BitintWidths}}

FloatValues(f) == {FloatConst(f, RoundTo(f, n)) : n \in {0, 3, -20}} \union {FloatConst(f, NaN), FloatConst(f, -Infinity)}
Formats == BinaryFormats \union DecimalFormats
AsInt(f, t) == [Op("float_to_int", 64, <<t>>) EXCEPT !.imm = f]

Floats ==
    UNION {{Returning(p, Op(o, f, <<a, b>>), 64) :
               o \in FloatBinaryOps, a \in FloatValues(f), b \in FloatValues(f), p \in BOOLEAN}
             \union {Returning(TRUE, Instr("float_compare", f, <<a, b>>, 0, c, <<>>), 64) :
                       c \in {"feq", "fne", "fgt", "fnge", "flt", "fnle"}, a \in FloatValues(f), b \in FloatValues(f)}
             \union {Returning(TRUE, Op("float_neg", f, <<a>>), 64) : a \in FloatValues(f)}
             \union {Returning(TRUE, Op("float_isnan", f, <<a>>), 64) : a \in IF f \in DecimalFormats THEN FloatValues(f) ELSE {}}
             \union {Returning(TRUE, AsInt(f, Op(o, f, <<a>>)), 64) : o \in {"int_to_float", "uint_to_float"}, a \in IntEdges}
             \union {Returning(TRUE, [Op("float_to_uint", 64, <<a>>) EXCEPT !.imm = f], 64) : a \in FloatValues(f)}
           : f \in Formats}
Conversions(pairs) ==
    {Returning(TRUE, [Op("float_to_float", p[2], <<FloatConst(p[1], RoundTo(p[1], n))>>) EXCEPT !.imm = p[1]], 64) :
        p \in pairs, n \in {21, -13, 7}}
DirectPairs == {p \in Formats \X Formats : p[1] # p[2] /\ ~(p[1] = LongDouble /\ p[2] \in DecimalFormats)}

Complex(f, a, b) == Op("complex_from", f, <<FloatConst(f, a), FloatConst(f, b)>>)
Complexes ==
    {Returning(TRUE, Op(part, f, <<Op(o, f, <<Complex(f, 3, 1), Complex(f, a, b)>>)>>), 64) :
        part \in {"complex_real", "complex_imaginary"}, o \in ComplexBinaryOps, f \in BinaryFormats,
        a \in {-2, 4}, b \in {-3, 1}}
      \union {Returning(TRUE, Op(part, f, <<Op("complex_neg", f, <<Complex(f, 3, -2)>>)>>), 64) :
                part \in {"complex_real", "complex_imaginary"}, f \in BinaryFormats}

(***************************************************************************)
(* 128-bit integers: both halves of the result are returned.               *)
(***************************************************************************)
Halves(t) ==
    {t, Op("bitint_get_unsigned", 2 * Q,
           <<Op("bitint_rshift", 2 * Q, <<Op("int128_unsigned_to_bitint", 2 * Q, <<t>>), IntConst(Q)>>)>>)}
Wide(l, h) == Op("int128_from", 128, <<l, h>>)
Wides == {Wide(a, b) : a \in FewInts, b \in {IntConst(0), IntConst(-1), UintConst(5)}}
FromBitintOf(o, w, a) == [Op(o, 128, <<a>>) EXCEPT !.imm = w]

Int128s ==
    UNION {{Returning(TRUE, h, 64) : h \in Halves(t)} : t \in
        {Op(o, 128, <<a>>) : o \in {"int128_sign_extend", "int128_zero_extend"}, a \in IntEdges}
          \union {Op(o, 128, <<a>>) : o \in {"int128_neg", "int128_not"}, a \in Wides}
          \union {FromBitintOf("int128_from_bitint_signed", 3, a) : a \in Edges(3)}
          \union {FromBitintOf("int128_from_bitint_unsigned", 4, BitintConst("unsigned", 4, n)) : n \in {0, 5, 7}}
          \union {[Op(o, 128, <<FloatConst(f, n)>>) EXCEPT !.imm = f] :
                    o \in {"int128_signed_from_float", "int128_unsigned_from_float"}, f \in Formats, n \in {0, 6, -2, NaN}}}
      \union {Returning(TRUE, Op(o, 128, <<a>>), 64) :
                o \in {"int128_to_bool", "int128_bool_not", "int128_truncate"}, a \in Wides}
      \union {Returning(TRUE, GetS(w, Op(o, w, <<a>>)), 64) :
                o \in {"int128_signed_to_bitint", "int128_unsigned_to_bitint"}, w \in BitintWidths, a \in Wides}
      \union {Returning(p, AsInt(f, Op(o, f, <<a>>)), 64) :
                o \in {"int128_signed_to_float", "int128_unsigned_to_float"}, f \in Formats, p \in BOOLEAN,
                a \in {Wide(IntConst(-3), IntConst(-1)), Wide(IntConst(9), IntConst(0))}}
      \union {Returning(TRUE, AsInt(f, [Op(o, f, <<BitintConst("signed", 4, n)>>) EXCEPT !.imm = 4]), 64) :
                o \in {"bitint_signed_to_float", "bitint_unsigned_to_float"}, f \in Formats, n \in {-3, 7}}
      \union {Returning(TRUE, GetS(4, [Op(o, 4, <<FloatConst(f, n)>>) EXCEPT !.imm = f]), 64) :
                o \in {"float_to_bitint_signed", "float_to_bitint_unsigned"}, f \in Formats, n \in {-3, 6, 40}}

Simplify2(F) == [pass |-> "op-simplify", fns |-> F]
Fold2(F) == [pass |-> "constant-fold", fns |-> F]

MCSuites == <<
    Simplify2(Sums), Simplify2(Addresses), Simplify2(Bitwise2), Simplify2(Products), Simplify2(Shifts),
    Simplify2(Extended), Simplify2(BitFields), Simplify2(Expressions), Simplify2(Repeated),
    Simplify2(Selects), Simplify2(Guards), Simplify2(SelectGuards), Simplify2(Joins4),
    Simplify2(DeadEnds), Simplify2(Certain),
    Fold2(Unary), Fold2(FoldedExtensions), Fold2(Binary), Fold2(Comparisons), Fold2(Extracts),
    Fold2(Bitints), Fold2(Floats), Fold2(Conversions(DirectPairs)), Fold2(Complexes), Fold2(Int128s) >>

\* Programs on which op-simplify goes wrong.
DeviatingSuites == << Simplify2(NegatedGuards) >>

MCBits == [w \in Widths |-> CASE w = 8 -> 2 [] w = 16 -> 3 [] w = 32 -> 4 [] w = 64 -> 7]

MCEnvironments == {[a \in 0..2 |-> IF a = 1 THEN x ELSE IF a = 2 THEN y ELSE 21] :
                      x \in {0, 1, 6, 19, 127}, y \in {0, 1, 27}}
=============================================================================
