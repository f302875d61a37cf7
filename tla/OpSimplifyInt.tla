--------------------------- MODULE OpSimplifyInt ----------------------------
(***************************************************************************)
(* The op-simplify pass, integer operations: what each simplify_* function *)
(* of the pass rewrites an instruction of function F into.  The result is  *)
(* a tree (see OptIR), or Keep.  The tests are in the order of the code;   *)
(* the first one that holds decides, even when it then rewrites nothing.   *)
(***************************************************************************)
EXTENDS OptIR

Arg(F, i, k) == F.ins[i.refs[k]]
IsConst(i) == i.op \in ConstOps
IsConstOf(i, n) == IsConst(i) /\ i.imm = n
IsBool(i) == i.op \in BoolOps \/ (IsConst(i) /\ i.imm \in {0, 1})
Extensions == {"sext", "zext"}

\* An operand that extends at least w bits has the low w bits of what it extends.
Extends(i, w) == i.op \in Extensions /\ i.w >= w

Unwrapped(F, i, k) ==
    LET a == Arg(F, i, k)
    IN  Leaf(IF Extends(a, i.w) THEN a.refs[1] ELSE i.refs[k])

CanUnwrap(F, i) == \E k \in DOMAIN i.refs : Extends(Arg(F, i, k), i.w)
UnwrapOperands(F, i) == Op(i.op, i.w, [k \in DOMAIN i.refs |-> Unwrapped(F, i, k)])

\* INSTR_USE_OF_WIDTH: the operations that read only the low w bits of instruction r.
NarrowUses == {"add", "sub", "mul", "umul", "div", "udiv", "mod", "umod", "and", "or", "xor", "neg", "not"}
UseWidth(F, r) ==
    LET u == SoleUse(F, r)
    IN  IF u = NoId THEN 64
        ELSE IF F.ins[u].op \in NarrowUses THEN F.ins[u].w
        ELSE IF F.ins[u].op = "store" /\ F.ins[u].refs[1] # r THEN F.ins[u].w
        ELSE 64

NarrowToUse(F, r) ==
    LET i == F.ins[r]
    IN  IF UseWidth(F, r) < i.w THEN Op(i.op, UseWidth(F, r), [k \in DOMAIN i.refs |-> Leaf(i.refs[k])])
        ELSE Keep

\* The last two steps most integer operations share.
UnwrapOrNarrow(F, r) ==
    IF CanUnwrap(F, F.ins[r]) THEN UnwrapOperands(F, F.ins[r]) ELSE NarrowToUse(F, r)

(***************************************************************************)
(* op(op(x, k), c) with both constants known.                              *)
(***************************************************************************)
Folded(op, a, b) ==
    CASE op = "add" -> a + b
      [] op \in {"mul", "umul"} -> a * b
      [] op = "and" -> a & b
      [] op = "or" -> a | b
      [] op = "xor" -> a ^^ b

\* Operand k repeats the operation and the other operand is a constant.
IsNested(F, i, k) == Arg(F, i, k).op = i.op /\ Arg(F, i, k).w = i.w /\ IsConst(Arg(F, i, 3 - k))

\* The position of inner's constant operand; the first one if both are.
ConstOperand(F, inner) ==
    IF IsConst(Arg(F, inner, 1)) THEN 1 ELSE IF IsConst(Arg(F, inner, 2)) THEN 2 ELSE 0

CombineNested(F, i, k, const) ==
    LET inner == Arg(F, i, k)
        n == ConstOperand(F, inner)
    IN  IF n = 0 THEN Keep
        ELSE Op(i.op, i.w, <<Leaf(inner.refs[3 - n]),
                             ConstOf(const, Folded(i.op, Arg(F, i, 3 - k).imm, Arg(F, inner, n).imm))>>)

\* Mutant: two constants are swapped as well, again in every walk.
ConstFirstAlways(F, i) == IsConst(Arg(F, i, 1))

ConstFirst(F, i) == IsConst(Arg(F, i, 1)) /\ ~IsConst(Arg(F, i, 2))
Swapped(i) == Op(i.op, i.w, <<Leaf(i.refs[2]), Leaf(i.refs[1])>>)

(***************************************************************************)
(* Unary operations.                                                       *)
(***************************************************************************)
SimplifyNot(F, r) == UnwrapOrNarrow(F, r)
SimplifyNeg(F, r) == UnwrapOrNarrow(F, r)

SimplifyToBool(F, r) ==
    LET i == F.ins[r]
    IN  IF CanUnwrap(F, i) THEN UnwrapOperands(F, i)
        ELSE IF IsBool(Arg(F, i, 1)) THEN Leaf(i.refs[1])
        ELSE Keep

(***************************************************************************)
(* Bitwise operations.                                                     *)
(***************************************************************************)
MaskWidths(i) == {w \in {8, 16, 32} : i.op = "uint" /\ i.imm = Span(w) - 1}

\* Mutant: a zero operand of either side is dropped, as for a disjunction.
SimplifyAndZeroKeeps(F, r) ==
    LET i == F.ins[r]
    IN  IF IsConstOf(Arg(F, i, 2), 0) THEN Leaf(i.refs[1]) ELSE UnwrapOrNarrow(F, r)

SimplifyAnd(F, r) ==
    LET i == F.ins[r]
    IN  IF MaskWidths(Arg(F, i, 2)) # {}
        THEN Op("zext", CHOOSE w \in MaskWidths(Arg(F, i, 2)) : TRUE, <<Leaf(i.refs[1])>>)
        ELSE IF IsNested(F, i, 1) THEN CombineNested(F, i, 1, "uint")
        ELSE IF IsNested(F, i, 2) THEN CombineNested(F, i, 2, "uint")
        ELSE IF ConstFirst(F, i) THEN Swapped(i)
        ELSE IF \E k \in 1..2 : IsConstOf(Arg(F, i, k), 0) THEN IntConst(0)
        ELSE UnwrapOrNarrow(F, r)

OrLike(F, r) ==
    LET i == F.ins[r]
    IN  IF IsNested(F, i, 1) THEN CombineNested(F, i, 1, "uint")
        ELSE IF IsNested(F, i, 2) THEN CombineNested(F, i, 2, "uint")
        ELSE IF ConstFirst(F, i) THEN Swapped(i)
        ELSE IF IsConstOf(Arg(F, i, 1), 0) THEN Leaf(i.refs[2])
        ELSE IF IsConstOf(Arg(F, i, 2), 0) THEN Leaf(i.refs[1])
        ELSE UnwrapOrNarrow(F, r)

SimplifyOr(F, r) == OrLike(F, r)
SimplifyXor(F, r) == OrLike(F, r)

(***************************************************************************)
(* Addition and subtraction.                                               *)
(***************************************************************************)
\* An address plus a constant is the address at a larger offset.
SymbolOperand(F, i) ==
    {k \in 1..2 : Arg(F, i, k).op = "sym" /\ IsConst(Arg(F, i, 3 - k))}
OffsetSymbol(F, i) ==
    LET k == CHOOSE n \in SymbolOperand(F, i) : TRUE
    IN  [Arg(F, i, k) EXCEPT !.imm = Pattern(@ + Arg(F, i, 3 - k).imm)]

Counterpart(op) == IF op = "add" THEN "sub" ELSE "add"
IsCounterpart(F, i, k) ==
    Arg(F, i, k).op = Counterpart(i.op) /\ Arg(F, i, k).w = i.w /\ IsConst(Arg(F, i, 3 - k))

\* The code tells on which side of a subtraction the operand stood by comparing the
\* reference it kept with the first operand's, not by which operand was constant.
KeptFirst(inner, n) == inner.refs[3 - n] = inner.refs[1]

\* c + (x - k) and c + (k - x); operand k of i is the subtraction.
AddOfSub(F, i, k) ==
    LET inner == Arg(F, i, k)
        n == ConstOperand(F, inner)
        c == Arg(F, i, 3 - k).imm
        kept == Leaf(inner.refs[3 - n])
        d == IntConst(IF n = 1 THEN c + Arg(F, inner, 1).imm ELSE Arg(F, inner, 2).imm - c)
    IN  IF n = 0 THEN Keep
        ELSE IF KeptFirst(inner, n) THEN Op("sub", i.w, <<kept, d>>) ELSE Op("sub", i.w, <<d, kept>>)

SimplifyAdd(F, r) ==
    LET i == F.ins[r]
    IN  IF SymbolOperand(F, i) # {} THEN OffsetSymbol(F, i)
        ELSE IF IsConstOf(Arg(F, i, 1), 0) THEN Leaf(i.refs[2])
        ELSE IF IsConstOf(Arg(F, i, 2), 0) THEN Leaf(i.refs[1])
        ELSE IF IsNested(F, i, 1) THEN CombineNested(F, i, 1, "int")
        ELSE IF IsNested(F, i, 2) THEN CombineNested(F, i, 2, "int")
        ELSE IF IsCounterpart(F, i, 1) THEN AddOfSub(F, i, 1)
        ELSE IF IsCounterpart(F, i, 2) THEN AddOfSub(F, i, 2)
        ELSE IF ConstFirst(F, i) THEN Swapped(i)
        ELSE UnwrapOrNarrow(F, r)

\* (x + k) - c and c - (x + k)
SubOfAdd(F, i, k) ==
    LET inner == Arg(F, i, k)
        n == ConstOperand(F, inner)
        kept == Leaf(inner.refs[3 - n])
        d == IntConst(Arg(F, i, 3 - k).imm - Arg(F, inner, n).imm)
    IN  IF n = 0 THEN Keep
        ELSE Op("sub", i.w, IF k = 1 THEN <<kept, d>> ELSE <<d, kept>>)

\* (k - x) - c and (x - k) - c
SubFromSub(F, i) ==
    LET inner == Arg(F, i, 1)
        n == ConstOperand(F, inner)
        c == Arg(F, i, 2).imm
        kept == Leaf(inner.refs[3 - n])
        d == IntConst(IF n = 1 THEN Arg(F, inner, 1).imm - c ELSE c + Arg(F, inner, 2).imm)
    IN  IF n = 0 THEN Keep
        ELSE IF KeptFirst(inner, n) THEN Op("sub", i.w, <<kept, d>>) ELSE Op("sub", i.w, <<d, kept>>)

\* c - (k - x), built as a 64-bit addition whatever the width, and c - (x - k)
SubOfSub(F, i) ==
    LET inner == Arg(F, i, 2)
        n == ConstOperand(F, inner)
        c == Arg(F, i, 1).imm
        kept == Leaf(inner.refs[3 - n])
        d == IntConst(IF n = 1 THEN c - Arg(F, inner, 1).imm ELSE c + Arg(F, inner, 2).imm)
    IN  IF n = 0 THEN Keep
        ELSE IF KeptFirst(inner, n) THEN Op("sub", i.w, <<d, kept>>) ELSE Op("add", 64, <<d, kept>>)

SimplifySub(F, r) ==
    LET i == F.ins[r]
    IN  IF IsConstOf(Arg(F, i, 2), 0) THEN Leaf(i.refs[1])
        ELSE IF IsCounterpart(F, i, 1) THEN SubOfAdd(F, i, 1)
        ELSE IF IsCounterpart(F, i, 2) THEN SubOfAdd(F, i, 2)
        ELSE IF IsNested(F, i, 1) THEN SubFromSub(F, i)
        ELSE IF IsNested(F, i, 2) THEN SubOfSub(F, i)
        ELSE UnwrapOrNarrow(F, r)

(***************************************************************************)
(* Multiplication and division; only the signed multiplication unwraps.    *)
(***************************************************************************)
SimplifyMul(F, r) ==
    LET i == F.ins[r]
    IN  IF IsConstOf(Arg(F, i, 1), 1) THEN Leaf(i.refs[2])
        ELSE IF IsConstOf(Arg(F, i, 2), 1) THEN Leaf(i.refs[1])
        ELSE IF \E k \in 1..2 : IsConstOf(Arg(F, i, k), 0) THEN IntConst(0)
        ELSE IF IsNested(F, i, 1) THEN CombineNested(F, i, 1, "int")
        ELSE IF IsNested(F, i, 2) THEN CombineNested(F, i, 2, "int")
        ELSE IF ConstFirst(F, i) THEN Swapped(i)
        ELSE IF i.op = "mul" /\ CanUnwrap(F, i) THEN UnwrapOperands(F, i)
        ELSE Keep

SimplifyDiv(F, r) ==
    LET i == F.ins[r]
    IN  IF IsConstOf(Arg(F, i, 2), 1) THEN Leaf(i.refs[1]) ELSE Keep

(***************************************************************************)
(* Shifts.  Constants are signed here: a negative amount is below the      *)
(* width, and only an INT_CONST can be negative.                           *)
(***************************************************************************)
Amount(i) == IF i.op = "int" THEN Signed(i.imm, 64) ELSE i.imm
TooFar(F, i) == IsConst(Arg(F, i, 2)) /\ Amount(Arg(F, i, 2)) >= Bits[i.w]

\* The amount of an arithmetic shift saturates: a sign bit shifted out leaves sign bits.
Saturated(op, w, outer, sum) ==
    IF op = "sar" /\ outer < Bits[w] /\ sum >= Bits[w] THEN Bits[w] - 1 ELSE sum

CombineShifts(F, i) ==
    LET inner == Arg(F, i, 1)
        outer == Signed(Arg(F, i, 2).imm, 64)
    IN  IF ~IsConst(Arg(F, inner, 2)) THEN Keep
        ELSE Op(i.op, i.w, <<Leaf(inner.refs[1]),
                IntConst(Saturated(i.op, i.w, outer, outer + Signed(Arg(F, inner, 2).imm, 64)))>>)

ShiftLike(F, i) ==
    IF IsConstOf(Arg(F, i, 2), 0) THEN Leaf(i.refs[1])
    ELSE IF IsNested(F, i, 1) THEN CombineShifts(F, i)
    ELSE IF TooFar(F, i) THEN IntConst(0)
    ELSE IF Extends(Arg(F, i, 1), i.w) THEN Op(i.op, i.w, <<Unwrapped(F, i, 1), Leaf(i.refs[2])>>)
    ELSE Keep

SimplifyShl(F, r) == ShiftLike(F, F.ins[r])
SimplifyShr(F, r) == ShiftLike(F, F.ins[r])
SimplifySar(F, r) == ShiftLike(F, F.ins[r])

(***************************************************************************)
(* Extensions, bit fields, stores and loads.                               *)
(***************************************************************************)
\* Extending a again to w bits or more changes nothing.
AlreadyExtended(a, i) ==
    \/ a.op = "load" /\ a.w = i.w /\ a.cmp = (IF i.op = "sext" THEN "sign" ELSE "zero")
    \/ a.op = "zext" /\ a.w < 32 /\ a.w <= i.w /\ (i.op = "zext" \/ a.w < i.w)
    \/ a.op = "sext" /\ a.w < 32 /\ a.w <= i.w /\ i.op = "sext"

SimplifyExtend(F, r) ==
    LET i == F.ins[r]
        a == Arg(F, i, 1)
    IN  IF AlreadyExtended(a, i) THEN Leaf(i.refs[1])
        ELSE IF a.op \in Extensions /\ (a.w > i.w \/ (a.w = 32 /\ i.w = 32))
             THEN Op(i.op, i.w, <<Leaf(a.refs[1])>>)
        ELSE Keep

Lesser(a, b) == IF a < b THEN a ELSE b

\* imm = <<offset, length>>
SimplifyBitsExtract(F, r) ==
    LET i == F.ins[r]
        a == Arg(F, i, 1)
        off == i.tgt[1]
        len == i.tgt[2]
        inside == off < a.tgt[2]
        within == inside /\ off + len <= a.tgt[2]
        Extract(n) == [Op(i.op, 64, <<Leaf(a.refs[1])>>) EXCEPT !.tgt = <<a.tgt[1] + off, n>>]
    IN  IF a.op \notin {"bitsu", "bitss"} THEN Keep
        ELSE IF a.op = i.op /\ inside THEN Extract(Lesser(len, a.tgt[2] - off))
        ELSE IF a.op # i.op /\ within THEN Extract(len)
        ELSE Keep

SimplifyStore(F, r) ==
    LET i == F.ins[r]
    IN  IF Extends(Arg(F, i, 2), i.w) THEN Op("store", i.w, <<Leaf(i.refs[1]), Unwrapped(F, i, 2)>>)
        ELSE Keep

\* A load whose only use extends it absorbs the extension, and replaces it too.
ExtensionOf(F, r) ==
    LET u == SoleUse(F, r)
    IN  IF u = NoId THEN NoId
        ELSE IF F.ins[u].op \in Extensions /\ F.ins[u].w = F.ins[r].w /\ F.ins[r].cmp = "none"
             THEN u ELSE NoId

SimplifyLoad(F, r) ==
    LET i == F.ins[r]
        u == ExtensionOf(F, r)
        made == Build(F, i.blk, [Op("load", i.w, <<Leaf(i.refs[1])>>)
                                    EXCEPT !.cmp = IF F.ins[u].op = "sext" THEN "sign" ELSE "zero"])
    IN  IF u = NoId THEN [fn |-> F, id |-> NoId]
        ELSE [fn |-> ReplaceReferences(made.fn, made.id, u), id |-> made.id]
(***************************************************************************)
(* The op-simplify pass, boolean operations and selects.  C is the         *)
(* function as the pass received it: its control flow graph is built once, *)
(* before the first rewrite.                                               *)
(***************************************************************************)

ToBool(w, t) == Op("bool", w, <<t>>)
FirstRefs(i, n) == [k \in 1..n |-> Leaf(i.refs[k])]

SimplifyBoolNot(F, r) ==
    LET i == F.ins[r]
        a == Arg(F, i, 1)
    IN  IF i.w # 8 /\ IsBool(a) THEN Op("bnot", 8, FirstRefs(i, 1))
        ELSE IF a.op = "cmp"
             THEN Compare(ComparisonInverse(a.cmp), a.w, Leaf(a.refs[1]), Leaf(a.refs[2]))
        ELSE IF a.op = "bnot"
             THEN IF Arg(F, a, 1).op \in BoolOps THEN Leaf(a.refs[1])
                  ELSE ToBool(a.w, Leaf(a.refs[1]))
        ELSE Keep

(***************************************************************************)
(* What disjunction and conjunction share.  Neutral is the truth value of  *)
(* an operand that leaves the other one.                                   *)
(***************************************************************************)
Neutral(i) == i.op = "band"
ConstTruth(i, a) == Low(a.imm, i.w) # 0

\* Operand k is a constant.
BoolOfConst(F, i, k) ==
    IF ConstTruth(i, Arg(F, i, k)) = Neutral(i) THEN ToBool(i.w, Leaf(i.refs[3 - k]))
    ELSE IntConst(Bit(~Neutral(i)))

\* Operand k converts a wider or narrower value to a boolean and the operation tests
\* the eight-bit boolean: test the value itself, in its width.
IsHalf(F, i, k) == i.w = 8 /\ Arg(F, i, k).op = "bool" /\ IsBool(Arg(F, i, 3 - k))
IsSameWidthHalf(F, i, k) == Arg(F, i, k).op = "bool" /\ Arg(F, i, k).w = i.w
Stripped(F, i, k) ==
    Op(i.op, Arg(F, i, k).w, [n \in 1..2 |-> Leaf(IF n = k THEN Arg(F, i, k).refs[1] ELSE i.refs[n])])

\* x || (x || y) and x && (x && y); a disjunction looks for its own first operand in both.
Absorbed(F, i, k) ==
    /\ Arg(F, i, k).op = i.op
    /\ Arg(F, i, k).w = i.w
    /\ i.refs[IF k = 1 /\ i.op = "band" THEN 2 ELSE 1] \in Range(Arg(F, i, k).refs)

BoolOperation(F, i) ==
    LET First(P(_)) == CHOOSE k \in 1..2 : P(k) /\ (k = 1 \/ ~P(1))
        Const(k) == IsConst(Arg(F, i, k))
        Half(k) == IsHalf(F, i, k)
        SameHalf(k) == IsSameWidthHalf(F, i, k)
        Absorb(k) == Absorbed(F, i, k)
    IN  IF \E k \in 1..2 : Const(k) THEN BoolOfConst(F, i, First(Const))
        ELSE IF i.w # 8 /\ \A k \in 1..2 : IsBool(Arg(F, i, k)) THEN Op(i.op, 8, FirstRefs(i, 2))
        ELSE IF \E k \in 1..2 : Half(k) THEN Stripped(F, i, First(Half))
        ELSE IF \E k \in 1..2 : SameHalf(k) THEN Stripped(F, i, First(SameHalf))
        ELSE IF \E k \in 1..2 : Absorb(k) THEN Leaf(i.refs[First(Absorb)])
        ELSE IF i.refs[1] = i.refs[2] THEN ToBool(i.w, Leaf(i.refs[1]))
        ELSE Keep

(***************************************************************************)
(* An operand whose value the way to the instruction already decides: the  *)
(* block it is computed in ends in a branch on it and is the only one that *)
(* leads here, or the only use is a select on it.                          *)
(***************************************************************************)
BranchesHere(C, F, r) ==
    LET i == F.ins[r]
        t == ControlTail(F, Arg(F, i, 1).blk)
    IN  /\ IsExclusiveDirectPredecessor(C, i.blk, Arg(F, i, 1).blk)
        /\ t # NoId
        /\ F.ins[t].op = "br"
        /\ F.ins[t].tgt[2] = i.blk

SelectedHere(F, r) ==
    LET i == F.ins[r]
        u == SoleUse(F, r)
    IN  u # NoId /\ F.ins[u].op = "select" /\ F.ins[u].refs = <<i.refs[1], i.refs[1], r>>

\* The branch is taken to lead here when the operand is false, whatever its variant.
OrCandidate(C, F, r) ==
    LET i == F.ins[r]
        a == Arg(F, i, 1)
    IN  IF IsExclusiveDirectPredecessor(C, i.blk, a.blk)
        THEN BranchesHere(C, F, r) /\ F.ins[ControlTail(F, a.blk)].refs[1] = i.refs[1]
        ELSE SelectedHere(F, r)

AndCandidate(C, F, r) ==
    LET i == F.ins[r]
        a == Arg(F, i, 1)
        branch == F.ins[ControlTail(F, a.blk)]
        condition == F.ins[branch.refs[1]]
    IN  /\ a.blk # i.blk
        /\ IF IsExclusiveDirectPredecessor(C, i.blk, a.blk)
           THEN /\ BranchesHere(C, F, r)
                /\ IF branch.imm = Direct
                   THEN condition.op = "bnot" /\ condition.w = 8 /\ condition.refs[1] = i.refs[1]
                   ELSE branch.refs[1] = i.refs[1]
           ELSE SelectedHere(F, r)

\* x > y || x == y is x >= y, with the operands of the equality in either order.
OrEqual == [gt |-> "ge", lt |-> "le", ab |-> "ae", bl |-> "be", fgt |-> "fge", flt |-> "fle"]
Equality(c) == IF c \in {"fgt", "flt"} THEN "feq" ELSE "eq"
Fuses(F, i, k) ==
    LET a == Arg(F, i, k)
        b == Arg(F, i, 3 - k)
    IN  /\ a.cmp \in DOMAIN OrEqual
        /\ b.cmp = Equality(a.cmp)
        /\ a.w = b.w
        /\ b.refs = a.refs \/ b.refs = Reverse(a.refs)

Fused(F, i) ==
    LET k == CHOOSE n \in 1..2 : Fuses(F, i, n)
        a == Arg(F, i, k)
    IN  Compare(OrEqual[a.cmp], a.w, Leaf(a.refs[1]), Leaf(a.refs[2]))

SimplifyBoolOr(C, F, r) ==
    LET i == F.ins[r]
    IN  IF OrCandidate(C, F, r) THEN ToBool(i.w, Leaf(i.refs[2]))
        ELSE IF BoolOperation(F, i).op # "keep" THEN BoolOperation(F, i)
        ELSE IF Arg(F, i, 1).op = "cmp" /\ Arg(F, i, 2).op = "cmp" /\ \E k \in 1..2 : Fuses(F, i, k)
             THEN Fused(F, i)
        ELSE Keep

SimplifyBoolAnd(C, F, r) ==
    LET i == F.ins[r]
    IN  IF BoolOperation(F, i).op # "keep" THEN BoolOperation(F, i)
        ELSE IF AndCandidate(C, F, r) THEN ToBool(i.w, Leaf(i.refs[2]))
        ELSE Keep

(***************************************************************************)
(* Selects.                                                                *)
(***************************************************************************)
SimplifySelect(F, r) ==
    LET i == F.ins[r]
        refs == FirstRefs(i, 3)
    IN  IF i.refs[2] = i.refs[3] THEN Leaf(i.refs[2])
        ELSE IF i.refs[1] = i.refs[2] /\ IsBool(Arg(F, i, 2)) /\ IsBool(Arg(F, i, 3))
             THEN Op(IF i.imm = Direct THEN "bor" ELSE "band", 8, <<refs[2], refs[3]>>)
        ELSE IF IsBool(Arg(F, i, 1)) /\ i.w # 8 THEN [i EXCEPT !.w = 8, !.refs = refs]
        ELSE Keep

SimplifySelectCompare(F, r) ==
    LET i == F.ins[r]
        a == Arg(F, i, 3)
        refs == FirstRefs(i, 4)
        sameOperands == a.op = "cmp" /\ a.w = i.w /\ a.refs = <<i.refs[1], i.refs[2]>>
    IN  IF i.refs[3] = i.refs[4] THEN Leaf(i.refs[3])
        ELSE IF sameOperands /\ IsBool(Arg(F, i, 4)) /\ ComparisonInverse(a.cmp) = i.cmp
             THEN Op("band", 8, <<refs[3], refs[4]>>)
        ELSE IF sameOperands /\ IsBool(Arg(F, i, 4)) /\ a.cmp = i.cmp
             THEN Op("bor", 8, <<refs[3], refs[4]>>)
        ELSE Keep
=============================================================================
