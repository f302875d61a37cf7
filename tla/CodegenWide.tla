---------------------------- MODULE CodegenWide ----------------------------
(***************************************************************************)
(* The AMD64 code generated for 128-bit integers, which live in a pair of  *)
(* general purpose registers, and for the overflow-checking arithmetic,    *)
(* which takes operands of any width and signedness and yields a result    *)
(* and an overflow flag.                                                   *)
(*                                                                         *)
(* A case has an operation and, for overflow-checking arithmetic, the      *)
(* types of the two operands and of the result: <<width, signed>>.         *)
(***************************************************************************)
EXTENDS Amd64

CONSTANTS Cases,        \* the operations whose code is generated
          Halves        \* the values the registers of the operands take

VARIABLES case,         \* the operation
          args,         \* the four registers of the operands: low and high half of each
          m,            \* the machine
          ran           \* whether the code has been generated and run

vars == <<case, args, m, ran>>

Lo1 == <<1, "lo">>
Hi1 == <<1, "hi">>
Lo2 == <<2, "lo">>
Hi2 == <<2, "hi">>
Lo == <<3, "lo">>
Hi == <<3, "hi">>
T == <<3, "tmp">>
T2 == <<3, "tmp2">>

Link(v, u) == <<"mov", R(v, 64), R(u, 64)>>
Both(op, v, u) == <<op, R(v, 64), R(u, 64)>>
Clear(v) == <<"xor", R(v, 32), R(v, 32)>>
Widen(v) == <<"movzx", R(v, 64), R(v, 8)>>
Shift(op, v, k) == <<op, R(v, 64), Imm(k, 8)>>

(***************************************************************************)
(* 128-bit integers.                                                       *)
(***************************************************************************)
Int128ToBool == << Link(Lo, Lo1), Both("or", Lo, Hi1), <<"set", "ne", R(Lo, 8)>>, Widen(Lo) >>
Int128BoolNot == << Link(Lo, Lo1), Both("or", Lo, Hi1), <<"set", "e", R(Lo, 8)>>, Widen(Lo) >>
Int128Truncate == << Link(Lo, Lo1) >>
Int128ZeroExtend == << Link(Lo, Lo1), Clear(Hi) >>
Int128SignExtend == << Link(Lo, Lo1), Link(Hi, Lo1), Shift("sar", Hi, Bits[64] - 1) >>
Int128From == << Link(Lo, Lo1), Link(Hi, Lo2) >>

Int128Pairwise(low, high) ==
    << Link(Lo, Lo1), Link(Hi, Hi1), Both(low, Lo, Lo2), Both(high, Hi, Hi2) >>
Int128Add == Int128Pairwise("add", "adc")
Int128Sub == Int128Pairwise("sub", "sbb")
Int128And == Int128Pairwise("and", "and")
Int128Or == Int128Pairwise("or", "or")
Int128Xor == Int128Pairwise("xor", "xor")

Int128Mul ==
    << Link(Hi, Hi1), Link(T, Hi2), Both("imul", Hi, Lo2), Both("imul", T, Lo1),
       Link(Rax, Lo1), Link(Rdx, Lo2), <<"mul", R(Rdx, 64)>>, Link(Lo, Rax),
       Both("add", Hi, T), Both("add", Hi, Rdx) >>

\* The amount is in rcx; a shift by at least one register moves whole registers, while the
\* shifts themselves take the amount modulo the width of a register.
WholeRegister == <<"test", R(Rcx, 8), Imm(Bits[64], 8)>>
Choose(cc, v, u) == <<"cmov", cc, R(v, 64), R(u, 64)>>

Int128Lshift ==
    << Link(Rcx, Lo2), Link(Hi, Hi1), Link(T2, Lo1), <<"shld", R(Hi, 64), R(Lo1, 64), R(Rcx, 8)>>,
       <<"shl", R(T2, 64), R(Rcx, 8)>>, Clear(Lo), WholeRegister, Choose("ne", Hi, T2), Choose("e", Lo, T2) >>

\* Filling the upper half before it is moved to the lower one.
ArshiftFillFirst ==
    << Link(Rcx, Lo2), Link(Lo, Lo1), Link(Hi, Hi1), Link(T2, Hi1),
       <<"shrd", R(Lo, 64), R(Hi1, 64), R(Rcx, 8)>>, <<"sar", R(Hi, 64), R(Rcx, 8)>>,
       Shift("sar", T2, Bits[64] - 1), WholeRegister, Choose("ne", Hi, T2), Choose("ne", Lo, Hi) >>

Int128Arshift ==
    << Link(Rcx, Lo2), Link(Lo, Lo1), Link(Hi, Hi1), Link(T2, Hi1),
       <<"shrd", R(Lo, 64), R(Hi1, 64), R(Rcx, 8)>>, <<"sar", R(Hi, 64), R(Rcx, 8)>>,
       Shift("sar", T2, Bits[64] - 1), WholeRegister, Choose("ne", Lo, Hi), Choose("ne", Hi, T2) >>

Int128Rshift ==
    << Link(Rcx, Lo2), Link(Lo, Lo1), Link(T2, Hi1), <<"shrd", R(Lo, 64), R(Hi1, 64), R(Rcx, 8)>>,
       <<"shr", R(T2, 64), R(Rcx, 8)>>, Clear(Hi), WholeRegister, Choose("ne", Lo, T2), Choose("e", Hi, T2) >>

Int128Equal ==
    << Link(T, Lo1), Link(T2, Hi1), Both("xor", T, Lo2), Both("xor", T2, Hi2), Clear(Lo),
       Both("or", T, T2), <<"set", "e", R(Lo, 8)>> >>

\* Compare the low halves, then subtract the high halves with the borrow.
Int128Relation(low1, high1, low2, high2, cc) ==
    << Link(T, high1), Both("cmp", low1, low2), Both("sbb", T, high2), <<"set", cc, R(Lo, 8)>>, Widen(Lo) >>
Int128Greater == Int128Relation(Lo2, Hi2, Lo1, Hi1, "l")
Int128Less == Int128Relation(Lo1, Hi1, Lo2, Hi2, "l")
Int128Above == Int128Relation(Lo2, Hi2, Lo1, Hi1, "b")
Int128Below == Int128Relation(Lo1, Hi1, Lo2, Hi2, "b")

Int128Neg == << Link(Lo, Lo1), Clear(Hi), <<"neg", R(Lo, 64)>>, Both("sbb", Hi, Hi1) >>
Int128Not == << Link(Lo, Lo1), Link(Hi, Hi1), <<"not", R(Lo, 64)>>, <<"not", R(Hi, 64)>> >>

Int128Load == << <<"mov", R(Lo, 64), Mem(Lo1, 0, 64)>>, <<"mov", R(Hi, 64), Mem(Lo1, 8, 64)>> >>
Int128Store == << <<"mov", Mem(Lo1, 0, 64), R(Lo2, 64)>>, <<"mov", Mem(Lo1, 8, 64), R(Hi2, 64)>> >>

(***************************************************************************)
(* Overflow-checking arithmetic: both operands are extended to 64 bits     *)
(* according to their types; what is computed from them depends on which   *)
(* of them is an unsigned 64-bit integer.                                  *)
(***************************************************************************)
E1 == <<3, "arg1">>
E2 == <<3, "arg2">>
Flag == <<3, "flag">>
TFlag == <<3, "tmpflag">>
Out == <<3, "out">>

Ulong(t) == t[1] = 64 /\ ~t[2]

Extended(v, u, t) ==
    IF t[2] THEN <<"movsx", R(v, 64), R(u, t[1])>>
    ELSE IF t[1] = 32 THEN <<"mov", R(v, 32), R(u, 32)>>
    ELSE <<"movzx", R(v, 64), R(u, t[1])>>
ExpandArg(v, u, t) == << IF t[1] = 64 THEN Link(v, u) ELSE Extended(v, u, t) >>

\* A result narrower than 64 bits has also overflowed when extending it changes it.
SaveResult(t, tmp, result) ==
    IF t[1] = 64 THEN <<>>
    ELSE << Extended(tmp, result, t), Both("cmp", result, tmp), <<"set", "ne", R(TFlag, 8)>>,
            <<"or", R(Flag, 8), R(TFlag, 8)>> >>

Finish(t, tmp, result) ==
    SaveResult(t, tmp, result) \o << <<"and", R(Flag, 32), Imm(1, 32)>>, Link(Out, result) >>

Expand(c) == ExpandArg(E1, Lo1, c.t1) \o ExpandArg(E2, Lo2, c.t2)

TopBit == 2 ^ (Bits[64] - 1)
SetFlag(cc) == <<"set", cc, R(Flag, 8)>>
LoadTop(v) == <<"mov", R(v, 64), Imm(TopBit, 64)>>

AddSignedResult(left, right) ==
    << Link(Lo, E1), Both("add", Lo, E2) >> \o
    (CASE left /\ right ->
            << SetFlag("s"), Both("cmp", Lo, E2), <<"set", "b", R(TFlag, 8)>>, <<"or", R(Flag, 8), R(TFlag, 8)>> >>
       [] left /\ ~right -> << LoadTop(T), Both("add", T, Lo), Both("cmp", T, E1), SetFlag("b") >>
       [] ~left /\ right -> << LoadTop(T), Both("add", T, Lo), Both("cmp", T, E2), SetFlag("b") >>
       [] ~left /\ ~right -> << SetFlag("o") >>)

\* One unsigned operand: move both into the signed range and back.
AddMixed(signed, unsigned) ==
    << Link(Lo, signed), Clear(Flag), LoadTop(T), Both("add", unsigned, T), Both("add", Lo, unsigned),
       SetFlag("o"), Both("add", Lo, T) >>

AddUnsignedResult(left, right) ==
    CASE left /\ right -> << Link(Lo, E1), Both("add", Lo, E2), SetFlag("c") >>
      [] ~left /\ right -> AddMixed(E1, E2)
      [] left /\ ~right -> AddMixed(E2, E1)
      [] ~left /\ ~right ->
           << Link(Lo, E1), Link(T, E1), Shift("sar", T, Bits[64] - 1), Link(Flag, E2),
              Shift("sar", Flag, Bits[64] - 1), Both("add", Lo, E2), <<"adc", R(Flag, 8), R(T, 8)>> >>

SignedPath(t) == t[2] \/ t[1] # 64

AddOverflow(c) ==
    Expand(c) \o
    (IF SignedPath(c.t3) THEN AddSignedResult(Ulong(c.t1), Ulong(c.t2))
     ELSE AddUnsignedResult(Ulong(c.t1), Ulong(c.t2))) \o
    Finish(c.t3, T, Lo)

SubSignedResult(left, right) ==
    << Link(Lo, E1) >> \o
    (CASE left /\ right ->
            << Clear(Flag), Both("sub", Lo, E2), Both("sbb", Flag, Flag), Link(T, Lo),
               Shift("shr", T, Bits[64] - 1), <<"xor", R(Flag, 32), R(T, 32)>> >>
       [] left /\ ~right ->
            << Both("sub", Lo, E2), LoadTop(T), Both("add", E2, T), Both("cmp", E1, E2), SetFlag("nb") >>
       [] ~left /\ right ->
            << Both("sub", Lo, E2), LoadTop(T), Both("add", E1, T), Both("cmp", E1, E2), SetFlag("b") >>
       [] ~left /\ ~right -> << Both("sub", Lo, E2), SetFlag("o") >>)

SubUnsignedResult(left, right) ==
    << Link(Lo, E1) >> \o
    (CASE left /\ right -> << Both("sub", Lo, E2), SetFlag("b") >>
       [] left /\ ~right ->
            << Clear(Flag), LoadTop(T), Both("add", Lo, T), Both("sub", Lo, E2), SetFlag("o"), Both("add", Lo, T) >>
       [] ~left /\ right ->
            << Both("sub", Lo, E2), Both("test", E1, E1), SetFlag("s"), Both("cmp", E1, E2),
               <<"set", "b", R(TFlag, 8)>>, <<"or", R(Flag, 8), R(TFlag, 8)>> >>
       [] ~left /\ ~right ->
            << Link(Flag, E1), Shift("sar", Flag, Bits[64] - 1), Link(T, E2), Shift("sar", T, Bits[64] - 1),
               Both("sub", Lo, E2), <<"sbb", R(Flag, 8), R(T, 8)>> >>)

SubOverflow(c) ==
    Expand(c) \o
    (IF SignedPath(c.t3) THEN SubSignedResult(Ulong(c.t1), Ulong(c.t2))
     ELSE SubUnsignedResult(Ulong(c.t1), Ulong(c.t2))) \o
    Finish(c.t3, T, Lo)

\* An unsigned operand u times the magnitude of a signed operand s; rdx holds the flag.
Magnitudes(s, u) ==
    << Link(Rax, s), <<"neg", R(Rax, 64)>>, Choose("s", Rax, s), <<"mul", R(u, 64)>>, <<"set", "o", R(u, 8)>> >>

MulMixedSigned(s, u) ==
    Magnitudes(s, u) \o
    << Link(Rdx, s), Shift("shr", Rdx, Bits[64] - 1), <<"mov", R(TFlag, 64), Imm(TopBit - 1, 64)>>,
       Both("add", TFlag, Rdx), Both("cmp", Rax, TFlag), <<"set", "a", R(Rdx, 8)>>, <<"or", R(Rdx, 8), R(u, 8)>>,
       Link(Lo, Rax), <<"neg", R(Lo, 64)>>, Both("test", s, s), Choose("ns", Lo, Rax), Link(Flag, Rdx) >>

MulSignedResult(left, right) ==
    CASE left /\ right ->
           << Link(Rax, E1), <<"mul", R(E2, 64)>>, <<"set", "o", R(E2, 8)>>, Both("test", Rax, Rax),
              <<"set", "s", R(Rdx, 8)>>, <<"or", R(Rdx, 8), R(E2, 8)>>, Link(Flag, Rdx), Link(Lo, Rax) >>
      [] left /\ ~right -> MulMixedSigned(E2, E1)
      [] ~left /\ right -> MulMixedSigned(E1, E2)
      [] ~left /\ ~right -> << Link(Lo, E1), Both("imul", Lo, E2), SetFlag("o") >>

MulMixedUnsigned(s, u) ==
    Magnitudes(s, u) \o
    << Link(Lo, Rax), <<"neg", R(Lo, 64)>>, <<"set", "b", R(T2, 8)>>, Both("test", s, s),
       <<"set", "s", R(Rdx, 8)>>, Choose("ns", Lo, Rax), <<"and", R(Rdx, 8), R(T2, 8)>>,
       <<"or", R(Rdx, 8), R(u, 8)>>, Link(Flag, Rdx) >>

\* Two signed operands and an unsigned result: a negative product overflows.
MulBothSigned ==
    << Clear(Flag), Link(Rax, E1), Both("test", E1, E2), <<"j", "s", "both_sign">>, Link(Rdx, E1),
       Both("xor", Rdx, E2), <<"j", "s", "single_sign">>,
       <<"label", "multiply">>, <<"mul", R(E2, 64)>>, <<"j", "o", "set_sign">>, <<"jmp", "end">>,
       <<"label", "both_sign">>, <<"neg", R(Rax, 64)>>, <<"neg", R(E2, 64)>>, <<"jmp", "multiply">>,
       <<"label", "set_sign">>, <<"mov", R(Flag, 64), Imm(1, 64)>>, <<"jmp", "end">>,
       <<"label", "single_sign">>, Both("test", E1, E1), <<"j", "e", "multiply">>, Clear(Flag),
       Both("test", E2, E2), SetFlag("ne"), <<"jmp", "multiply">>,
       <<"label", "end">> >>

MulUnsignedResult(left, right) ==
    CASE left /\ right -> << Link(Rax, E1), <<"mul", R(E2, 64)>>, SetFlag("o") >>
      [] left /\ ~right -> MulMixedUnsigned(E2, E1)
      [] ~left /\ right -> MulMixedUnsigned(E1, E2)
      [] ~left /\ ~right -> MulBothSigned

\* The temporary and the result are the registers the multiplication left them in.
MulOverflow(c) ==
    LET left == Ulong(c.t1)
        right == Ulong(c.t2)
        inRax == ~SignedPath(c.t3) /\ left = right
        tmp == IF inRax THEN Rdx ELSE IF left \/ right THEN Rax ELSE T
    IN  Expand(c) \o
        (IF SignedPath(c.t3) THEN MulSignedResult(left, right) ELSE MulUnsignedResult(left, right)) \o
        Finish(c.t3, tmp, IF inRax THEN Rax ELSE Lo)

(***************************************************************************)
(* The code of a case, run on its arguments.                               *)
(***************************************************************************)
Translate(c) ==
    CASE c.op = "to_bool" -> Int128ToBool
      [] c.op = "bool_not" -> Int128BoolNot
      [] c.op = "truncate" -> Int128Truncate
      [] c.op = "zero_extend" -> Int128ZeroExtend
      [] c.op = "sign_extend" -> Int128SignExtend
      [] c.op = "from" -> Int128From
      [] c.op = "add" -> Int128Add
      [] c.op = "sub" -> Int128Sub
      [] c.op = "and" -> Int128And
      [] c.op = "or" -> Int128Or
      [] c.op = "xor" -> Int128Xor
      [] c.op = "mul" -> Int128Mul
      [] c.op = "shl" -> Int128Lshift
      [] c.op = "shr" -> Int128Rshift
      [] c.op = "sar" -> Int128Arshift
      [] c.op = "equal" -> Int128Equal
      [] c.op = "greater" -> Int128Greater
      [] c.op = "less" -> Int128Less
      [] c.op = "above" -> Int128Above
      [] c.op = "below" -> Int128Below
      [] c.op = "neg" -> Int128Neg
      [] c.op = "not" -> Int128Not
      [] c.op = "load" -> Int128Load
      [] c.op = "store" -> Int128Store
      [] c.op = "add_overflow" -> AddOverflow(c)
      [] c.op = "sub_overflow" -> SubOverflow(c)
      [] c.op = "mul_overflow" -> MulOverflow(c)

OverflowOps == {"add_overflow", "sub_overflow", "mul_overflow"}
Shifts == {"shl", "shr", "sar"}

\* The operands of checked arithmetic and the amount of a shift are in one register; C
\* defines a shift by every amount below the width of the integer.
Arguments(c) ==
    LET Operands(hi1, lo2, hi2) ==
            {(Lo1 :> p) @@ (Hi1 :> q) @@ (Lo2 :> u) @@ (Hi2 :> v) : p \in Halves, q \in hi1, u \in lo2, v \in hi2}
    IN  IF c.op \in OverflowOps THEN Operands({0}, Halves, {0})
        ELSE IF c.op \in Shifts THEN Operands(Halves, 0..(2 * Bits[64] - 1), {0})
        ELSE Operands(Halves, Halves, Halves)

Init ==
    /\ case \in Cases
    /\ args \in Arguments(case)
    /\ \E junk \in {0, 1} :
         LET start == [Machine(junk) EXCEPT !.reg = args]
         IN  m = IF case.op = "load"
                 THEN StoreAt(StoreAt(start, args[Lo1], 64, args[Lo2]), Pattern(args[Lo1] + 8), 64, args[Hi2])
                 ELSE start
    /\ ran = FALSE

Generate ==
    /\ ~ran
    /\ m' = Run(Translate(case), 1, m)
    /\ ran' = TRUE
    /\ UNCHANGED <<case, args>>

Next == Generate

Spec == Init /\ [][Next]_vars

(***************************************************************************)
(* Properties.                                                             *)
(***************************************************************************)
Wide(lo, hi) == lo + hi * Span(64)
WideSpan == Span(64) * Span(64)
SignedWide(n) == IF 2 * n >= WideSpan THEN n - WideSpan ELSE n

\* The product modulo 2^128, without leaving TLC's integers.
WideProduct(a, b) ==
    LET low == (a % Span(64)) * b
        high == ((a \div Span(64)) * (b % Span(64))) % Span(64)
    IN  (low + high * Span(64)) % WideSpan

\* What the 128-bit operations compute from the operands a and b.
Reference(op, a, b) ==
    LET s == SignedWide(a)
        t == SignedWide(b)
        half == a % Span(64)
        n == b % Span(64)
    IN  CASE op = "to_bool" -> Bit(a # 0)
          [] op = "bool_not" -> Bit(a = 0)
          [] op \in {"truncate", "zero_extend"} -> half
          [] op = "sign_extend" -> Signed(half, 64)
          [] op = "from" -> half + n * Span(64)
          [] op = "add" -> a + b
          [] op = "sub" -> a - b
          [] op = "and" -> a & b
          [] op = "or" -> a | b
          [] op = "xor" -> a ^^ b
          [] op = "mul" -> WideProduct(a, b)
          [] op = "shl" -> WideProduct(a, 2 ^ n)
          [] op = "shr" -> a \div 2 ^ n
          [] op = "sar" -> s \div 2 ^ n
          [] op = "equal" -> Bit(a = b)
          [] op = "greater" -> Bit(s > t)
          [] op = "less" -> Bit(s < t)
          [] op = "above" -> Bit(a > b)
          [] op = "below" -> Bit(a < b)
          [] op = "neg" -> -a
          [] op = "not" -> -a - 1
          [] op = "load" -> b

Arg1 == Wide(args[Lo1], args[Hi1])
Arg2 == Wide(args[Lo2], args[Hi2])
HalfResults == {"to_bool", "bool_not", "truncate", "equal", "greater", "less", "above", "below"}

\* A 128-bit operation leaves in its pair of registers (or in one register, when its result
\* is no wider) what the operation computes on whole 128-bit integers: carries, borrows and
\* shifts across the halves included, also by a whole register and more.
ComputesWide ==
    ran /\ case.op \notin OverflowOps \union {"store"} =>
        LET n == Reference(case.op, Arg1, Arg2) % WideSpan
        IN  /\ Get(m, Lo) = n % Span(64)
            /\ case.op \in HalfResults \/ Get(m, Hi) = n \div Span(64)

\* A 128-bit store writes both halves, the lower one first in memory.
StoresBothHalves ==
    ran /\ case.op = "store" =>
        /\ Load(m, args[Lo1], 64) = args[Lo2]
        /\ Load(m, Pattern(args[Lo1] + 8), 64) = args[Hi2]

\* The registers of the operands keep their values.
KeepsOperands == \A v \in DOMAIN args : m.reg[v] = args[v]

\* The number an operand of type t stands for.
Number(v, t) == IF t[2] THEN Signed(v, t[1]) ELSE Low(v, t[1])

Exact ==
    LET a == Number(args[Lo1], case.t1)
        b == Number(args[Lo2], case.t2)
    IN  CASE case.op = "add_overflow" -> a + b
          [] case.op = "sub_overflow" -> a - b
          [] case.op = "mul_overflow" -> a * b

\* Checked arithmetic is exact: its result is the sum, difference or product of the two
\* mathematical integers reduced to the result type, and its flag, 0 or 1, says whether the
\* reduction changed it, for every mix of widths and signedness.
OverflowIsExact ==
    ran /\ case.op \in OverflowOps =>
        LET w == case.t3[1]
        IN  /\ Low(Get(m, Out), w) = Exact % Span(w)
            /\ Get(m, Flag) = Bit(Exact # Number(Exact % Span(w), case.t3))
=============================================================================
