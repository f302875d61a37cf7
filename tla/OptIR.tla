------------------------------- MODULE OptIR --------------------------------
(***************************************************************************)
(* The optimizer's intermediate representation: a function is a set of     *)
(* numbered instructions, for each block the list of its instructions in   *)
(* creation order, and for each block the control-flow list that orders    *)
(* the ones with side effects.  Instructions outside the control-flow      *)
(* lists are pure; they are evaluated on demand.                           *)
(*                                                                         *)
(* Widths keep their names (8, 16, 32, 64) and are scaled: an INT32        *)
(* operation works on Bits[32] bits.  A value is the 64-bit pattern of the *)
(* virtual register that holds it.  An INTw operation defines the low      *)
(* Bits[w] bits of its result only; the rest is junk, taken to be all      *)
(* zeros or all ones.  Bits, comparisons and extensions define the whole   *)
(* register.                                                               *)
(***************************************************************************)
EXTENDS OptWide, SequencesExt, FiniteSets

CONSTANT Bits       \* number of bits modelled for each width, growing with it

Widths == {8, 16, 32, 64}

NoId == 0           \* KEFIR_ID_NONE
Trap == 2 ^ 24 + 1  \* a division by zero: the program must not evaluate it

Span(w) == 2 ^ Bits[w]
Low(v, w) == v % Span(w)
Signed(v, w) == IF Low(v, w) * 2 >= Span(w) THEN Low(v, w) - Span(w) ELSE Low(v, w)
Pattern(n) == n % Span(64)
Bit(b) == IF b THEN 1 ELSE 0

(***************************************************************************)
(* Instructions.  refs holds operand references, imm an immediate, tgt the *)
(* target blocks of a branch, the source blocks of a phi or the offset and *)
(* length of a bit field, blk the block the instruction belongs to.        *)
(***************************************************************************)
Instr(op, w, refs, imm, cmp, tgt) ==
    [op |-> op, w |-> w, refs |-> refs, imm |-> imm, cmp |-> cmp, tgt |-> tgt, blk |-> NoId]

ConstOf(op, n) == Instr(op, 64, <<>>, Pattern(n), "", <<>>)
IntConst(n) == ConstOf("int", n)
UintConst(n) == ConstOf("uint", n)
Op(op, w, refs) == Instr(op, w, refs, 0, "", <<>>)
Compare(c, w, a, b) == Instr("cmp", w, <<a, b>>, 0, c, <<>>)

\* The branch and select condition variants: imm = 1 is the negated one.
Direct == 0
Negated == 1

ConstOps == {"int", "uint"}
Terminators == {"jump", "br", "brcmp", "ret", "unreachable"}

(***************************************************************************)
(* Scalar comparisons.  Floating point values are patterns too, with the   *)
(* largest one standing for NaN.                                           *)
(***************************************************************************)
InverseOf ==
    [eq |-> "ne", ne |-> "eq", gt |-> "le", le |-> "gt", lt |-> "ge", ge |-> "lt",
     ab |-> "be", be |-> "ab", bl |-> "ae", ae |-> "bl",
     feq |-> "fne", fne |-> "feq", fgt |-> "fngt", fngt |-> "fgt", fge |-> "fnge",
     fnge |-> "fge", flt |-> "fnlt", fnlt |-> "flt", fle |-> "fnle", fnle |-> "fle"]

ComparisonInverse(c) == InverseOf[c]

IntComparisons == {"eq", "ne", "gt", "ge", "lt", "le", "ab", "ae", "bl", "be"}
FloatComparisons == DOMAIN InverseOf \ IntComparisons

\* The comparison that holds of (b, a) exactly when c holds of (a, b).
ComparisonReciprocal(c) ==
    [eq |-> "eq", ne |-> "ne", gt |-> "lt", lt |-> "gt", ge |-> "le", le |-> "ge",
     ab |-> "bl", bl |-> "ab", ae |-> "be", be |-> "ae"][c]

Holds(c, a, b, w) ==
    LET s == Signed(a, w)
        t == Signed(b, w)
        u == Low(a, w)
        v == Low(b, w)
        ordered == u # Span(w) - 1 /\ v # Span(w) - 1
    IN  CASE c = "eq" -> u = v
          [] c = "ne" -> u # v
          [] c = "gt" -> s > t
          [] c = "ge" -> s >= t
          [] c = "lt" -> s < t
          [] c = "le" -> s <= t
          [] c = "ab" -> u > v
          [] c = "ae" -> u >= v
          [] c = "bl" -> u < v
          [] c = "be" -> u <= v
          [] c = "feq" -> ordered /\ u = v
          [] c = "fne" -> ~(ordered /\ u = v)
          [] c = "fgt" -> ordered /\ u > v
          [] c = "fngt" -> ~(ordered /\ u > v)
          [] c = "fge" -> ordered /\ u >= v
          [] c = "fnge" -> ~(ordered /\ u >= v)
          [] c = "flt" -> ordered /\ u < v
          [] c = "fnlt" -> ~(ordered /\ u < v)
          [] c = "fle" -> ordered /\ u <= v
          [] c = "fnle" -> ~(ordered /\ u <= v)

(***************************************************************************)
(* What an instruction computes from its operand values v.                 *)
(***************************************************************************)
BoolOps == {"bool", "bnot", "bor", "band", "cmp"}
FullOps == BoolOps \union ConstOps \union {"sext", "zext", "bitsu", "bitss"}

ShiftRight(n, k) == n \div 2 ^ k

\* Signed division truncates toward zero.
Truncated(n, d) == LET q == (IF n < 0 THEN -n ELSE n) \div (IF d < 0 THEN -d ELSE d)
                   IN  IF (n < 0) # (d < 0) THEN -q ELSE q

Field(v, off, len) == (v \div 2 ^ off) % 2 ^ len

Compute(i, v) ==
    LET w == i.w
        a == Low(v[1], w)
        b == Low(v[2], w)
        s == Signed(v[1], w)
        t == Signed(v[2], w)
        amount == v[2]
        field == Field(v[1], i.tgt[1], i.tgt[2])
    IN  CASE i.op = "add" -> a + b
          [] i.op = "sub" -> a - b
          [] i.op \in {"mul", "umul"} -> a * b
          [] i.op = "div" -> IF t = 0 THEN Trap ELSE Truncated(s, t)
          [] i.op = "udiv" -> IF b = 0 THEN Trap ELSE a \div b
          [] i.op = "mod" -> IF t = 0 THEN Trap ELSE s - t * Truncated(s, t)
          [] i.op = "umod" -> IF b = 0 THEN Trap ELSE a % b
          [] i.op = "and" -> a & b
          [] i.op = "or" -> a | b
          [] i.op = "xor" -> a ^^ b
          [] i.op = "not" -> Span(w) - 1 - a
          [] i.op = "neg" -> Span(w) - a
          [] i.op = "shl" -> IF amount >= Bits[w] THEN Undefined ELSE a * 2 ^ amount
          [] i.op = "shr" -> IF amount >= Bits[w] THEN Undefined ELSE ShiftRight(a, amount)
          [] i.op = "sar" -> IF amount >= Bits[w] THEN Undefined ELSE ShiftRight(s, amount)
          [] i.op = "sext" -> s
          [] i.op = "zext" -> a
          [] i.op = "bitsu" -> field
          [] i.op = "bitss" -> IF field * 2 >= 2 ^ i.tgt[2] THEN field - 2 ^ i.tgt[2] ELSE field
          [] i.op = "bitsi" -> v[1] + ((v[2] % 2 ^ i.tgt[2]) - field) * 2 ^ i.tgt[1]
          [] i.op = "bool" -> Bit(a # 0)
          [] i.op = "bnot" -> Bit(a = 0)
          [] i.op = "bor" -> Bit(a # 0 \/ b # 0)
          [] i.op = "band" -> Bit(a # 0 /\ b # 0)
          [] i.op = "cmp" -> Bit(Holds(i.cmp, v[1], v[2], w))
          [] i.op = "load" -> IF i.cmp = "sign" THEN s ELSE a

\* The register after instruction i produced n, with the given junk above its width.
Register(i, n, junk) ==
    IF i.op \in FullOps \/ i.w = 64 \/ (i.op = "load" /\ i.cmp # "none") THEN Pattern(n)
    ELSE Low(n, i.w) + junk * (Span(64) - Span(i.w))

\* A result that is not defined, or not reached, is kept as such.
Produced(i, n, junk) == IF n \in {Undefined, Trap} THEN n ELSE Register(i, n, junk)

\* Whether the condition register v makes a branch or select take its first target.
Taken(i, v) ==
    IF i.op \in {"brcmp", "selcmp"} THEN Holds(i.cmp, v[1], v[2], i.w)
    ELSE (Low(v[1], i.w) # 0) = (i.imm = Direct)

\* The operands the result depends on whatever their values: a select needs only one of
\* the values it chooses from.
Conditions(i) ==
    IF i.op = "select" THEN {1} ELSE IF i.op = "selcmp" THEN {1, 2} ELSE DOMAIN i.refs

(***************************************************************************)
(* Executions.  from[b] is the block control entered b from, env the       *)
(* values of the arguments; argument 0 stands for the address of a symbol  *)
(* and for the memory a load reads.  Control flow is acyclic.              *)
(***************************************************************************)
RECURSIVE Value(_, _, _, _, _)
Value(F, from, env, junk, r) ==
    LET i == F.ins[r]
        v == <<>> \o [k \in DOMAIN i.refs |-> Value(F, from, env, junk, i.refs[k])]
        chosen == CHOOSE k \in DOMAIN i.tgt : i.tgt[k] = from[i.blk]
    IN  CASE i.op = "arg" -> env[i.imm]
          [] i.op = "sym" -> Pattern(env[0] + i.imm)
          [] i.op \in ConstOps \union WideConsts -> i.imm
          [] i.op = "placeholder" -> Undefined
          [] i.op = "phi" -> Value(F, from, env, junk, i.refs[chosen])
          [] i.op = "load" -> Register(i, Compute(i, <<env[0], 0>>), junk)
          [] OTHER ->
               IF Trap \in Range(v) THEN Trap
               ELSE IF \E k \in Conditions(i) : v[k] = Undefined THEN Undefined
               ELSE IF i.op = "select" THEN IF Taken(i, v) THEN v[2] ELSE v[3]
               ELSE IF i.op = "selcmp" THEN IF Taken(i, v) THEN v[3] ELSE v[4]
               ELSE IF i.op \in WideOps THEN WideCompute(i, v \o <<0>>, Bits[64])
               ELSE Produced(i, Compute(i, v \o <<0>>), junk)

\* What the rest of block b, from the k-th control instruction on, makes observable:
\* the values stored, in order, then the value returned.
RECURSIVE Observe(_, _, _, _, _, _), ObserveFrom(_, _, _, _, _, _, _)
Observe(F, b, k, from, env, junk) ==
    ObserveFrom(F, b, k, from, env, junk,
                <<>> \o [n \in DOMAIN F.ins[F.control[b][k]].refs |->
                           Value(F, from, env, junk, F.ins[F.control[b][k]].refs[n])])
ObserveFrom(F, b, k, from, env, junk, v) ==
    LET i == F.ins[F.control[b][k]]
        To(t) == Observe(F, t, 1, [from EXCEPT ![t] = b], env, junk)
    IN  IF i.op = "unreachable" \/ Range(v) \intersect {Undefined, Trap} # {} THEN <<Undefined>>
        ELSE IF i.op = "jump" THEN To(i.tgt[1])
        ELSE IF i.op \in {"br", "brcmp"} THEN To(i.tgt[IF Taken(i, v) THEN 1 ELSE 2])
        ELSE IF i.op = "ret" THEN <<Low(v[1], i.w)>>
        ELSE IF i.op = "store"
             THEN <<Low(v[2], i.w)>> \o Observe(F, b, k + 1, from, env, junk)
        ELSE Observe(F, b, k + 1, from, env, junk)

Entry == 1
Behaviours(F, env) ==
    {Observe(F, Entry, 1, [b \in DOMAIN F.control |-> NoId], env, junk) : junk \in {0, 1}}

\* G does what F does wherever F is defined and does not depend on junk.
Agrees(old, new) == (Cardinality(old) = 1 /\ \A o \in old : Last(o) # Undefined) => new = old
Preserves(F, G, envs) == \A env \in envs : Agrees(Behaviours(F, env), Behaviours(G, env))

(***************************************************************************)
(* The optimizer code container: creating and dropping instructions, the   *)
(* per-block content and control-flow lists, uses, and the replacement of  *)
(* references.  A function is a record                                     *)
(*   ins      the live instructions by id                                  *)
(*   content  for each block its instructions, in list order               *)
(*   control  for each block its control-flow list                         *)
(*   next     the id the next instruction gets                             *)
(***************************************************************************)

\* kefir_opt_code_container_new_instruction: a new instruction goes to the end of its block.
NewInstruction(F, b, i) ==
    [F EXCEPT !.ins = (F.next :> [i EXCEPT !.blk = b]) @@ @,
              !.content[b] = Append(@, F.next),
              !.next = @ + 1]

\* kefir_opt_code_container_add_control: append to the control-flow list.
AddControl(F, b, r) == [F EXCEPT !.control[b] = Append(@, r)]

IsControlFlow(F, r) == \E b \in DOMAIN F.control : r \in Range(F.control[b])

\* kefir_opt_code_container_insert_control: right behind instruction after.
InsertControl(F, b, after, r) ==
    [F EXCEPT !.control[b] = InsertAt(@, 1 + CHOOSE k \in DOMAIN @ : @[k] = after, r)]

\* kefir_opt_code_container_drop_control
DropControl(F, r) == [F EXCEPT !.control[F.ins[r].blk] = SelectSeq(@, LAMBDA x : x # r)]

\* The instructions that use r as an operand.
Uses(F, r) == {u \in DOMAIN F.ins : r \in Range(F.ins[u].refs)}

\* kefir_opt_instruction_get_sole_use: the one instruction that uses r, if there is one.
SoleUse(F, r) == IF Cardinality(Uses(F, r)) = 1 THEN CHOOSE u \in Uses(F, r) : TRUE ELSE NoId

\* kefir_opt_code_container_drop_instr: refused while the instruction is used.
DropInstr(F, r) ==
    [F EXCEPT !.ins = [k \in DOMAIN F.ins \ {r} |-> F.ins[k]],
              !.content[F.ins[r].blk] = SelectSeq(@, LAMBDA x : x # r)]

\* kefir_opt_code_container_replace_references: every use of from becomes a use of to.
ReplaceReferences(F, to, from) ==
    [F EXCEPT !.ins =
        [r \in Uses(F, from) |->
            [F.ins[r] EXCEPT !.refs = [k \in DOMAIN @ |-> IF @[k] = from THEN to ELSE @[k]]]] @@ @]

\* kefir_opt_instruction_next_sibling
NextSibling(F, r) ==
    LET c == F.content[F.ins[r].blk]
        k == CHOOSE n \in DOMAIN c : c[n] = r
    IN  IF k = Len(c) THEN NoId ELSE c[k + 1]

ContentHead(F, b) == IF F.content[b] = <<>> THEN NoId ELSE F.content[b][1]
ControlTail(F, b) == IF F.control[b] = <<>> THEN NoId ELSE Last(F.control[b])

(***************************************************************************)
(* A rewrite is described by a tree: a reference to an instruction, or an  *)
(* instruction whose operands are trees.  Build makes the instructions of  *)
(* a tree, operands first, and yields the function and the root's id.      *)
(***************************************************************************)
Leaf(r) == Instr("ref", 64, <<>>, r, "", <<>>)
Keep == Instr("keep", 64, <<>>, 0, "", <<>>)

RECURSIVE Build(_, _, _), BuildAll(_, _, _)
Build(F, b, t) ==
    IF t.op = "ref" THEN [fn |-> F, id |-> t.imm]
    ELSE LET args == BuildAll(F, b, t.refs)
         IN  [fn |-> NewInstruction(args.fn, b, [t EXCEPT !.refs = args.ids]), id |-> args.fn.next]
BuildAll(F, b, ts) ==
    IF ts = <<>> THEN [fn |-> F, ids |-> <<>>]
    ELSE LET first == Build(F, b, Head(ts))
             rest == BuildAll(first.fn, b, Tail(ts))
         IN  [fn |-> rest.fn, ids |-> <<first.id>> \o rest.ids]

(***************************************************************************)
(* Control flow between blocks: the targets of a block's last control      *)
(* instruction.                                                            *)
(***************************************************************************)
Successors(F, b) ==
    LET t == ControlTail(F, b)
    IN  IF t = NoId THEN {} ELSE IF F.ins[t].op \in Terminators THEN Range(F.ins[t].tgt) ELSE {}
Predecessors(F, b) == {p \in DOMAIN F.control : b \in Successors(F, p)}

\* The blocks reached from the blocks in seen without passing block avoid.
RECURSIVE ReachableAvoiding(_, _, _)
ReachableAvoiding(F, seen, avoid) ==
    LET more == (UNION {Successors(F, b) : b \in seen} \ {avoid}) \ seen
    IN  IF more = {} THEN seen ELSE ReachableAvoiding(F, seen \union more, avoid)

Reachable(F) == ReachableAvoiding(F, {Entry}, NoId)

\* kefir_opt_code_control_flow_block_direct_predecessor and its exclusive form: no other
\* block that can be reached leads to b.
IsDirectPredecessor(F, b, p) == p \in Predecessors(F, b)
IsExclusiveDirectPredecessor(F, b, p) ==
    /\ b # Entry
    /\ b # p
    /\ p \in Predecessors(F, b)
    /\ b \notin Predecessors(F, b)
    /\ Predecessors(F, b) \intersect Reachable(F) \subseteq {p}

\* Block d lies on every path from the entry to block b.
Dominates(F, d, b) == d = b \/ d = Entry \/ b \notin ReachableAvoiding(F, {Entry}, d)
ImmediateDominator(F, b) ==
    CHOOSE d \in Reachable(F) \ {b} :
        /\ Dominates(F, d, b)
        /\ \A e \in Reachable(F) \ {b} : Dominates(F, e, b) => Dominates(F, e, d)

(***************************************************************************)
(* A code container is well formed when every instruction is in the content*)
(* list of its block exactly once, the control-flow lists hold only        *)
(* instructions of their block, and every operand is a live instruction.   *)
(***************************************************************************)
WellFormed(F) ==
    /\ \A b \in DOMAIN F.content :
         /\ Range(F.content[b]) = {r \in DOMAIN F.ins : F.ins[r].blk = b}
         /\ Len(F.content[b]) = Cardinality(Range(F.content[b]))
         /\ Range(F.control[b]) \subseteq Range(F.content[b])
         /\ Len(F.control[b]) = Cardinality(Range(F.control[b]))
    /\ \A r \in DOMAIN F.ins : Range(F.ins[r].refs) \subseteq DOMAIN F.ins
=============================================================================
