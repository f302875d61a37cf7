----------------------------- MODULE CodegenInt -----------------------------
(***************************************************************************)
(* The AMD64 code generated for the integer operations of the optimizer:   *)
(* constants, arithmetic, shifts, division, extension, truth values, bit   *)
(* fields and comparisons.  Translate(P, r) is the code of instruction r.*)
(***************************************************************************)
EXTENDS Amd64

CONSTANT Suites         \* a sequence of sets of functions (fns) whose code is generated, and
                        \* the values their arguments take (args)

VARIABLES F,            \* the function
          env,          \* its argument values
          m,            \* the machine that runs the code as it is generated
          at            \* the next instruction to generate code for

vars == <<F, env, m, at>>

V(r) == <<r, "v">>
Tmp(r) == <<r, "tmp">>

Int32Range(n) == Fits(n, 32)
Int8Max == 2 ^ (Bits[8] - 1) - 1

\* A constant that fits 32 bits gets an immediate virtual register, which no code computes.
IsImmediate(P, r) == P.ins[r].op \in ConstOps /\ Int32Range(Signed(P.ins[r].imm, 64))

\* Operand k of instruction r, w bits of its virtual register.
Arg(P, r, k, w) ==
    LET a == P.ins[r].refs[k]
    IN  IF IsImmediate(P, a) THEN Imm(Signed(P.ins[a].imm, 64), w) ELSE R(V(a), w)

\* Linking copies a whole register.
Link(v, o) == <<"mov", R(v, 64), o>>
LinkArg(P, r, v, k) == Link(v, Arg(P, r, k, 64))

TranslateConst(P, r) ==
    IF IsImmediate(P, r) THEN <<>> ELSE << <<"mov", R(V(r), 64), Imm(P.ins[r].imm, 64)>> >>

(***************************************************************************)
(* Arithmetic.                                                             *)
(***************************************************************************)
Mnemonic(op) == IF op \in {"mul", "umul"} THEN "imul" ELSE op

BinaryOp(P, r, w) ==
    << LinkArg(P, r, V(r), 1), <<Mnemonic(P.ins[r].op), R(V(r), w), Arg(P, r, 2, w)>> >>

\* The amount is an immediate when it fits a byte, and goes to rcx otherwise.
ShiftOperation(P, r, w) ==
    LET a == P.ins[r].refs[2]
        immediate == IsImmediate(P, a) /\ Signed(P.ins[a].imm, 64) \in 0..Int8Max
        op == P.ins[r].op
    IN  << LinkArg(P, r, V(r), 1) >> \o
        (IF immediate THEN << <<op, R(V(r), w), Arg(P, r, 2, 8)>> >>
         ELSE << LinkArg(P, r, Rcx, 2), <<op, R(V(r), w), R(Rcx, 8)>> >>)

UnaryOp(P, r, w) == << LinkArg(P, r, V(r), 1), <<P.ins[r].op, R(V(r), w)>> >>

MulOp(P, r, w) ==
    IF w = 8
    THEN << LinkArg(P, r, Rax, 1), <<"imul1", Arg(P, r, 2, 8)>>, Link(V(r), R(Rax, 64)) >>
    ELSE IF w \in {32, 64} /\ IsImmediate(P, P.ins[r].refs[2])
    THEN << <<"imul3", R(V(r), w), Arg(P, r, 1, w), Arg(P, r, 2, 32)>> >>
    ELSE BinaryOp(P, r, w)

(***************************************************************************)
(* Division: the dividend goes to rdx:rax, bytes to ax.                    *)
(***************************************************************************)
SignExtension(w) == CASE w = 16 -> <<"cwd">> [] w = 32 -> <<"cdq">> [] w = 64 -> <<"cqo">>

IntDivide(P, r, w) ==
    IF w = 8
    THEN << <<"movsx", R(Rax, 16), Arg(P, r, 1, 8)>>, <<"idiv", Arg(P, r, 2, 8)>> >>
    ELSE << LinkArg(P, r, Rax, 1), SignExtension(w), <<"idiv", Arg(P, r, 2, w)>> >>

UintDivide(P, r, w) ==
    IF w = 8
    THEN << <<"movzx", R(Rax, 16), Arg(P, r, 1, 8)>>, <<"div", Arg(P, r, 2, 8)>> >>
    ELSE << LinkArg(P, r, Rax, 1), <<"mov", R(Rdx, w), Imm(0, w)>>, <<"div", Arg(P, r, 2, w)>> >>

QuotientOf(r, w) ==
    IF w = 8 THEN << <<"mov", R(V(r), 8), R(Rax, 8)>> >> ELSE << Link(V(r), R(Rax, 64)) >>
\* A mistake: the remainder of bytes is looked for in rdx, as for wider operands.
RemainderInRdx(r, w) == << Link(V(r), R(Rdx, 64)) >>

RemainderOf(r, w) ==
    IF w = 8 THEN << <<"mov", R(V(r), 8), High8(Rax)>> >> ELSE << Link(V(r), R(Rdx, 64)) >>

IntDiv(P, r, w) == IntDivide(P, r, w) \o QuotientOf(r, w)
IntMod(P, r, w) == IntDivide(P, r, w) \o RemainderOf(r, w)
UintDiv(P, r, w) == UintDivide(P, r, w) \o QuotientOf(r, w)
UintMod(P, r, w) == UintDivide(P, r, w) \o RemainderOf(r, w)

(***************************************************************************)
(* Extension and truth values.  A truth value is computed in 8 bits; the   *)
(* rest of the register is cleared unless the one instruction that uses it *)
(* looks at 8 bits only.                                                   *)
(***************************************************************************)
ZeroExtend(P, r, w) ==
    CASE w \in {8, 16} -> << <<"movzx", R(V(r), 64), Arg(P, r, 1, w)>> >>
      [] w = 32 -> << <<"mov", R(V(r), 32), Arg(P, r, 1, 32)>> >>
SignExtend(P, r, w) == << <<"movsx", R(V(r), 64), Arg(P, r, 1, w)>> >>

IsBoolOpcode(op) == op \in BoolOps

\* KEFIR_AMD64_CODEGEN_INSTR_CONSUMES_8BIT_BOOL
Consumes8BitBool(P, u, r) ==
    LET i == P.ins[u]
    IN  /\ i.w = 8
        /\ \/ i.op \in {"band", "bor", "bnot", "br"}
           \/ /\ i.op = "select"
              /\ i.refs[1] = r
              /\ i.refs[2] # r
              /\ i.refs[3] # r

ByteSuffices(P, r) == SoleUse(P, r) # NoId /\ Consumes8BitBool(P, SoleUse(P, r), r)

Widen(r) == <<"movzx", R(V(r), 64), R(V(r), 8)>>
Test(o) == <<"test", o, o>>

IntToBool(P, r, w) ==
    IF IsBoolOpcode(P.ins[P.ins[r].refs[1]].op) THEN << LinkArg(P, r, V(r), 1) >>
    ELSE << Test(Arg(P, r, 1, w)), <<"set", "ne", R(V(r), 8)>>, Widen(r) >>

IntBoolNot(P, r, w) ==
    (IF ByteSuffices(P, r) THEN <<>> ELSE << <<"mov", R(V(r), 64), Imm(0, 64)>> >>) \o
    << Test(Arg(P, r, 1, w)), <<"set", "e", R(V(r), 8)>> >>

IntBoolOr(P, r, w) ==
    << LinkArg(P, r, V(r), 1), <<"or", R(V(r), w), Arg(P, r, 2, w)>>, <<"set", "ne", R(V(r), 8)>> >> \o
    (IF ByteSuffices(P, r) THEN <<>> ELSE << Widen(r) >>)

\* An operand that is a truth value already is used as it is.
TruthOf(P, r, v, k, w) ==
    IF IsBoolOpcode(P.ins[P.ins[r].refs[k]].op) THEN << LinkArg(P, r, v, k) >>
    ELSE << Test(Arg(P, r, k, w)), <<"set", "ne", R(v, 8)>> >>

IntBoolAnd(P, r, w) ==
    TruthOf(P, r, V(r), 1, w) \o TruthOf(P, r, Tmp(r), 2, w) \o
    (IF ByteSuffices(P, r) THEN << <<"and", R(V(r), 8), R(Tmp(r), 8)>> >>
     ELSE << <<"and", R(Tmp(r), 8), R(V(r), 8)>>, <<"movzx", R(V(r), 64), R(Tmp(r), 8)>> >>)

ConditionCode ==
    [eq |-> "e", ne |-> "ne", gt |-> "g", ge |-> "ge", lt |-> "l", le |-> "le",
     ab |-> "a", ae |-> "ae", bl |-> "b", be |-> "be"]

IntComparison(P, r, w) ==
    << <<"mov", R(V(r), 64), Imm(0, 64)>>,
       <<"cmp", Arg(P, r, 1, w), Arg(P, r, 2, w)>>,
       <<"set", ConditionCode[P.ins[r].cmp], R(V(r), 8)>> >>

(***************************************************************************)
(* Bit fields: tgt holds the offset and the length.                        *)
(***************************************************************************)
Shift64(op, v, k) == <<op, R(v, 64), Imm(k, 8)>>

BitsExtract(P, r, op) ==
    LET off == P.ins[r].tgt[1]
        len == P.ins[r].tgt[2]
    IN  << LinkArg(P, r, V(r), 1), Shift64("shl", V(r), Bits[64] - (len + off)),
           Shift64(op, V(r), Bits[64] - len) >>

BitsInsert(P, r) ==
    LET off == P.ins[r].tgt[1]
        len == P.ins[r].tgt[2]
    IN  << LinkArg(P, r, V(r), 2),
           <<"mov", R(Tmp(r), 64), Imm(-1 - (2 ^ len - 1) * 2 ^ off, 64)>>,
           <<"and", R(Tmp(r), 64), Arg(P, r, 1, 64)>>,
           Shift64("shl", V(r), Bits[64] - len),
           Shift64("shr", V(r), Bits[64] - (len + off)),
           <<"or", R(V(r), 64), R(Tmp(r), 64)>> >>

(***************************************************************************)
(* Dispatch on the opcode.                                                 *)
(***************************************************************************)
Translate(P, r) ==
    LET op == P.ins[r].op
        w == P.ins[r].w
    IN  CASE op = "arg" -> <<>>
          [] op \in ConstOps -> TranslateConst(P, r)
          [] op \in {"add", "sub", "and", "or", "xor"} -> BinaryOp(P, r, w)
          [] op \in {"shl", "shr", "sar"} -> ShiftOperation(P, r, w)
          [] op \in {"not", "neg"} -> UnaryOp(P, r, w)
          [] op \in {"mul", "umul"} -> MulOp(P, r, w)
          [] op = "div" -> IntDiv(P, r, w)
          [] op = "mod" -> IntMod(P, r, w)
          [] op = "udiv" -> UintDiv(P, r, w)
          [] op = "umod" -> UintMod(P, r, w)
          [] op = "zext" -> ZeroExtend(P, r, w)
          [] op = "sext" -> SignExtend(P, r, w)
          [] op = "bool" -> IntToBool(P, r, w)
          [] op = "bnot" -> IntBoolNot(P, r, w)
          [] op = "bor" -> IntBoolOr(P, r, w)
          [] op = "band" -> IntBoolAnd(P, r, w)
          [] op = "cmp" -> IntComparison(P, r, w)
          [] op = "bitsu" -> BitsExtract(P, r, "shr")
          [] op = "bitss" -> BitsExtract(P, r, "sar")
          [] op = "bitsi" -> BitsInsert(P, r)

(***************************************************************************)
(* Code is generated for one instruction after another, and run as it is.  *)
(***************************************************************************)
Init ==
    /\ \E k \in DOMAIN Suites :
         /\ F \in Suites[k].fns
         /\ env \in [{F.ins[r].imm : r \in {q \in DOMAIN F.ins : F.ins[q].op = "arg"}} -> Suites[k].args]
    /\ \E junk \in {0, 1} :
         m = [Machine(junk) EXCEPT
                !.reg = [v \in {V(r) : r \in {q \in DOMAIN F.ins : F.ins[q].op = "arg"}} |-> env[F.ins[v[1]].imm]]]
    /\ at = 1

TranslateInstruction ==
    /\ at < F.next
    /\ ~m.fault
    /\ m' = Run(Translate(F, at), 1, m)
    /\ at' = at + 1
    /\ UNCHANGED <<F, env>>

Next == TranslateInstruction

Spec == Init /\ [][Next]_vars

(***************************************************************************)
(* Properties.                                                             *)
(***************************************************************************)
\* The value instruction r has in the function.
Meaning(r) == Value(F, <<>>, env, 0, r)

\* The bits of a register that instruction r gives a value to.
Defined(r) ==
    LET i == F.ins[r]
    IN  IF i.op \in BoolOps /\ ByteSuffices(F, r) THEN 8
        ELSE IF i.op \in FullOps \union {"arg"} THEN 64
        ELSE i.w

\* Every virtual register the generated code has filled holds the value of its
\* instruction, in all the bits that instruction defines, and keeps holding it while the
\* code of later instructions runs (the operands of an instruction are never its scratch
\* space).
HoldsValues ==
    ~m.fault =>
        \A r \in 1..(at - 1) :
            \/ IsImmediate(F, r)
            \/ Meaning(r) \in {Undefined, Trap}
            \/ Low(Get(m, V(r)), Defined(r)) = Low(Meaning(r), Defined(r))

\* The machine raises a divide error only for a division by zero and for the quotient that
\* does not fit, which C leaves undefined.
FaultsOnlyWhenUndefined ==
    m.fault =>
        LET i == F.ins[at - 1]
            d == Meaning(i.refs[2])
        IN  /\ i.op \in {"div", "mod", "udiv", "umod"}
            /\ \/ Low(d, i.w) = 0
               \/ /\ i.op \in {"div", "mod"}
                  /\ Signed(d, i.w) = -1
                  /\ Low(Meaning(i.refs[1]), i.w) = 2 ^ (Bits[i.w] - 1)
=============================================================================
