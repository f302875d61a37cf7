------------------------------ MODULE MCCodegen ------------------------------
(***************************************************************************)
(* The AMD64 code generator: a run generates the code of one part of it.   *)
(***************************************************************************)
EXTENDS CodegenInt

VARIABLES part,                         \* the part of the generator this behaviour is about
          case, args, ran,              \* 128-bit and checked operations: CodegenWide
          s, used, right, returned      \* long doubles: CodegenX87

wideVars == <<case, args, ran>>
x87Vars == <<s, used, right, returned>>
allVars == <<part, vars, wideVars, x87Vars>>

(***************************************************************************)
(* Integers: every operation at every width, on arguments, on constants    *)
(* that do and do not become immediates, on one operand twice, and chains  *)
(* of truth values, whose upper bits the generated code leaves alone when  *)
(* it can.                                                                 *)
(***************************************************************************)
MCBits == (8 :> 3) @@ (16 :> 6) @@ (32 :> 7) @@ (64 :> 8)
ArgValues == {0, 1, 3, 8, 63, 64, 127, 128, 200, 255}

Program(p) == [ins |-> p, next |-> Len(p) + 1]
A1 == Instr("arg", 64, <<>>, 1, "", <<>>)
A2 == Instr("arg", 64, <<>>, 2, "", <<>>)

Binary == {"add", "sub", "mul", "umul", "div", "udiv", "mod", "umod", "and", "or", "xor", "shl", "shr",
           "sar", "bor", "band"}
BinaryInstrs(a, b) ==
    {Op(op, w, <<a, b>>) : op \in Binary, w \in Widths}
    \union {Compare(c, w, a, b) : c \in IntComparisons, w \in Widths}
UnaryInstrs(a) ==
    {Op(op, w, <<a>>) : op \in {"not", "neg", "bool", "bnot"}, w \in Widths}
    \union {Op(op, w, <<a>>) : op \in {"zext", "sext"}, w \in {8, 16, 32}}
Fields == {<<0, 1>>, <<0, 7>>, <<1, 3>>, <<2, 6>>, <<7, 1>>}
FieldInstrs(a, b) ==
    {Instr(op, 64, <<a>>, 0, "", f) : op \in {"bitsu", "bitss"}, f \in Fields \union {<<0, 8>>}}
    \union {Instr("bitsi", 64, <<a, b>>, 0, "", f) : f \in Fields}

Constants == {IntConst(n) : n \in {1, 5, 64, -1}} \union {UintConst(200)}

OnArguments ==
    {Program(<<A1, A2, i>>) : i \in BinaryInstrs(1, 2) \union FieldInstrs(1, 2)}
    \union {Program(<<A1, i>>) : i \in UnaryInstrs(1) \union BinaryInstrs(1, 1)}
OnConstants ==
    UNION {{Program(<<A1, c, i>>) : i \in BinaryInstrs(1, 2) \union BinaryInstrs(2, 1) \union UnaryInstrs(2)} : c \in Constants}

\* A truth value, what uses it, and perhaps a second use.
Producers == {Op(op, w, <<1, 2>>) : op \in {"bor", "band"}, w \in {8, 64}}
             \union {Op(op, w, <<1>>) : op \in {"bool", "bnot"}, w \in {8, 16}}
             \union {Compare("lt", 32, 1, 2)}
Consumers(r) ==
    {Op(op, w, <<r, 2>>) : op \in {"bor", "band"}, w \in {8, 16}}
    \union {Op(op, w, <<r, r>>) : op \in {"bor", "band"}, w \in {8, 64}}
    \union {Op("band", 8, <<2, r>>)}
    \union {Op(op, w, <<r>>) : op \in {"bool", "bnot"}, w \in {8, 32}}
    \union {Op("add", 64, <<r, 2>>), Compare("eq", 64, r, 2), Op("zext", 8, <<r>>)}
Chains ==
    {Program(<<A1, A2, p, c>>) : p \in Producers, c \in Consumers(3)}
    \union {Program(<<A1, A2, p, c, d>>) : p \in Producers, c \in Consumers(3),
                                           d \in {Op("add", 64, <<3, 2>>), Op("band", 8, <<3, 2>>), Op("band", 8, <<4, 2>>)}}

MCSuites == <<[fns |-> OnArguments, args |-> ArgValues], [fns |-> OnConstants, args |-> ArgValues],
              [fns |-> Chains, args |-> {0, 1, 8}]>>

(***************************************************************************)
(* Every 128-bit operation, and checked arithmetic on every mix of narrow  *)
(* and 64-bit, signed and unsigned.                                        *)
(***************************************************************************)
Simple(op) == [op |-> op, t1 |-> <<64, TRUE>>, t2 |-> <<64, TRUE>>, t3 |-> <<64, TRUE>>]

Int128Cases ==
    {Simple(op) : op \in {"to_bool", "bool_not", "truncate", "zero_extend", "sign_extend", "from", "add", "sub", "and",
                          "or", "xor", "mul", "shl", "shr", "sar", "equal", "greater", "less", "above", "below",
                          "neg", "not", "load", "store"}}
OverflowCases ==
    {[op |-> op, t1 |-> t1, t2 |-> t2, t3 |-> t3] :
        op \in {"add_overflow", "sub_overflow", "mul_overflow"}, t1 \in {8, 64} \X BOOLEAN, t2 \in {16, 64} \X BOOLEAN,
        t3 \in {8, 32, 64} \X BOOLEAN}

\* A byte holds every amount a pair of registers can be shifted by.
WideBits == (8 :> 4) @@ (16 :> 6) @@ (32 :> 7) @@ (64 :> 8)
Halves == {0, 1, 8, 63, 127, 128, 255}
W == INSTANCE CodegenWide WITH Cases <- Int128Cases \union OverflowCases, Bits <- WideBits

(***************************************************************************)
(* Long doubles on a stack of three registers, spilled by exchanging or by *)
(* rotating.                                                               *)
(***************************************************************************)
X == INSTANCE CodegenX87 WITH Capacity <- 3, MaxValues <- 4, ValgrindCompatible <- TRUE,
                              Twice <- {"operation", "comparison", "copysign"}
XR == INSTANCE CodegenX87 WITH Capacity <- 3, MaxValues <- 3, ValgrindCompatible <- FALSE,
                               Twice <- {"operation", "comparison", "copysign", "pair"}

(***************************************************************************)
(* A part at a time.                                                       *)
(***************************************************************************)
NoInt == F = <<>> /\ env = <<>> /\ at = 0
NoWide == case = <<>> /\ args = <<>> /\ ran = FALSE
NoX87 == s = <<>> /\ used = <<>> /\ right = TRUE /\ returned = 0

MCInit ==
    \/ part = "integer" /\ Init /\ NoWide /\ NoX87
    \/ part = "wide" /\ W!Init /\ NoInt /\ NoX87
    \/ part = "x87" /\ X!Init /\ NoInt /\ NoWide /\ m = <<>>
    \/ part = "x87 rotating" /\ XR!Init /\ NoInt /\ NoWide /\ m = <<>>

MCNext ==
    \/ part = "integer" /\ Next /\ UNCHANGED <<part, wideVars, x87Vars>>
    \/ part = "wide" /\ W!Next /\ UNCHANGED <<part, F, env, at, x87Vars>>
    \/ part = "x87" /\ X!Next /\ UNCHANGED <<part, vars, wideVars>>
    \/ part = "x87 rotating" /\ XR!Next /\ UNCHANGED <<part, vars, wideVars>>

MCSpec == MCInit /\ [][MCNext]_allVars

\* Every virtual register holds the value of its instruction, in all the bits that the
\* instruction defines, also while the code of later instructions runs; a divide error is
\* raised only where C leaves the division undefined.
IntegersRight == part = "integer" => HoldsValues /\ FaultsOnlyWhenUndefined

\* A 128-bit operation computes on whole 128-bit integers: carries, borrows and shifts
\* cross the halves, a store writes both of them, and the operands keep their values.
\* Checked arithmetic is exact for every mix of widths and signedness: its result is the
\* mathematical one reduced to the result type, its flag whether that changed it.
WideRight ==
    part = "wide" => W!ComputesWide /\ W!StoresBothHalves /\ W!KeepsOperands /\ W!OverflowIsExact

\* The code of a long double instruction finds its operands on the register stack, in
\* their order, and the stack neither overflows nor is read where it is empty.
LongDoubleOperands ==
    /\ part = "x87" => X!NoStackFault /\ X!OperandsRight
    /\ part = "x87 rotating" => XR!NoStackFault /\ XR!OperandsRight

\* The generator's list mirrors the register stack, a value that may be used again is on it
\* or in its virtual register, and a returned value is alone on it.
LongDoublesKept ==
    /\ part = "x87" => X!ListMirrorsStack /\ X!Recoverable /\ X!ReturnedAlone
    /\ part = "x87 rotating" => XR!ListMirrorsStack /\ XR!Recoverable /\ XR!ReturnedAlone
=============================================================================
