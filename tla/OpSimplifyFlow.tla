--------------------------- MODULE OpSimplifyFlow ---------------------------
(***************************************************************************)
(* The op-simplify pass, control flow: branches, phis turned into selects, *)
(* and what precedes an unreachable point.  These rewrites change more     *)
(* than the instruction itself; each yields the new function and the id of *)
(* the replacement, NoId if the instruction stays.                         *)
(***************************************************************************)
EXTENDS OpSimplifyInt

Unreplaced(F) == [fn |-> F, id |-> NoId]

(***************************************************************************)
(* Merging a block into another one.                                       *)
(***************************************************************************)
\* kefir_opt_code_container_phi_link_for
LinkFor(i, b) == i.refs[CHOOSE k \in DOMAIN i.tgt : i.tgt[k] = b]

\* kefir_opt_copy_instruction_resolve_phi: a phi is copied as what it is coming from b.
CopyResolvingPhi(F, r, b) ==
    IF F.ins[r].op = "phi" THEN [fn |-> F, id |-> LinkFor(F.ins[r], b)]
    ELSE [fn |-> NewInstruction(F, b, F.ins[r]), id |-> F.next]

MergeControl(F, b, r) ==
    LET c == CopyResolvingPhi(F, r, b)
        G == IF IsControlFlow(c.fn, c.id) THEN c.fn ELSE AddControl(c.fn, b, c.id)
    IN  ReplaceReferences(G, c.id, r)

MergeContent(F, b, r) ==
    LET c == CopyResolvingPhi(F, r, b)
    IN  IF IsControlFlow(F, r) THEN F ELSE ReplaceReferences(c.fn, c.id, r)

\* Copies of source's instructions, its last control instruction excepted, in target.
MergeInto(F, target, source) ==
    LET G == FoldLeft(LAMBDA f, r : MergeControl(f, target, r), F, Front(F.control[source]))
    IN  FoldLeft(LAMBDA f, r : MergeContent(f, target, r), G, G.content[source])

(***************************************************************************)
(* Branches.                                                               *)
(***************************************************************************)
IsUnreachableBlock(F, b) ==
    /\ ControlTail(F, b) # NoId
    /\ F.ins[ControlTail(F, b)].op = "unreachable"
    /\ \A k \in 1..Len(F.control[b]) - 1 : F.ins[F.control[b][k]].op = "mark"

\* The new instruction ends r's block in place of r.
Finalize(F, r, i) ==
    LET b == F.ins[r].blk
        G == NewInstruction(DropControl(F, r), b, i)
    IN  [fn |-> AddControl(G, b, F.next), id |-> F.next]

JumpTo(b) == Instr("jump", 64, <<>>, 0, "", <<b>>)

\* The decided branches: equal targets, or a target that is never reached.
CertainBranch(F, r) ==
    LET i == F.ins[r]
        unreachable == {k \in 1..2 : IsUnreachableBlock(F, i.tgt[k])}
        k == IF 1 \in unreachable THEN 1 ELSE 2
    IN  IF i.tgt[1] = i.tgt[2] THEN Finalize(F, r, JumpTo(i.tgt[1]))
        ELSE IF unreachable # {}
             THEN Finalize(MergeInto(F, i.blk, i.tgt[k]), r, JumpTo(i.tgt[3 - k]))
        ELSE Unreplaced(F)

\* What the condition says: a comparison, a negation, a constant, or a narrow boolean.
BranchOnCondition(F, i) ==
    LET a == Arg(F, i, 1)
    IN  IF a.op = "cmp"
        THEN [i EXCEPT !.op = "brcmp", !.w = a.w, !.refs = a.refs, !.imm = 0,
                       !.cmp = IF i.imm = Negated THEN ComparisonInverse(a.cmp) ELSE a.cmp]
        ELSE IF a.op = "bnot" THEN [i EXCEPT !.w = a.w, !.refs = a.refs, !.imm = 1 - i.imm]
        ELSE IF IsConst(a) THEN JumpTo(i.tgt[IF (Low(a.imm, i.w) # 0) = (i.imm = Direct) THEN 1 ELSE 2])
        ELSE IF IsBool(a) /\ i.w # 8 THEN [i EXCEPT !.w = 8]
        ELSE Keep

SimplifyBranch(F, r) ==
    LET certain == CertainBranch(F, r)
        i == BranchOnCondition(F, F.ins[r])
    IN  IF certain.id # NoId THEN certain
        ELSE IF i.op = "keep" THEN Unreplaced(F)
        ELSE Finalize(F, r, i)

SimplifyBranchCompare(F, r) == CertainBranch(F, r)

(***************************************************************************)
(* Hoisting an instruction, and the instructions of its block it depends   *)
(* on, into block t.                                                       *)
(***************************************************************************)
SideEffectFree ==
    ConstOps \union Extensions \union BoolOps \union
    {"sym", "add", "sub", "mul", "umul", "and", "or", "xor", "shl", "shr", "sar", "neg", "not",
     "bitsu", "bitss"}

\* kefr_opt_can_hoist_isolated_instruction
CanHoistIsolated(C, F, r, t) ==
    /\ ~IsControlFlow(F, r)
    /\ F.ins[r].op \in SideEffectFree
    /\ \/ F.ins[r].blk = t
       \/ \A u \in Uses(F, r) : F.ins[u].blk \in Reachable(C) => Dominates(C, t, F.ins[u].blk)

RECURSIVE CanHoist(_, _, _, _, _)
CanHoist(C, F, r, source, t) ==
    IF F.ins[r].blk # source THEN Dominates(C, F.ins[r].blk, t)
    ELSE /\ CanHoistIsolated(C, F, r, t)
         /\ \A k \in DOMAIN F.ins[r].refs : CanHoist(C, F, F.ins[r].refs[k], source, t)

\* kefir_opt_move_instruction
Move(F, r, t) == DropInstr(ReplaceReferences(NewInstruction(F, t, F.ins[r]), F.next, r), r)

\* Mutant: what the instruction depends on stays behind.
HoistAlone(F, queue, source, t) == IF queue = <<>> THEN F ELSE Move(F, Head(queue), t)

RECURSIVE HoistQueue(_, _, _, _)
HoistQueue(F, queue, source, t) ==
    IF queue = <<>> THEN F
    ELSE LET r == Head(queue)
             local == SelectSeq(F.ins[r].refs, LAMBDA x : F.ins[x].blk = source)
         IN  IF r \notin DOMAIN F.ins THEN HoistQueue(F, Tail(queue), source, t)
             ELSE HoistQueue(Move(F, r, t), Tail(queue) \o local, source, t)

\* The first instruction moved is r itself.
Hoist(F, r, t) == [fn |-> HoistQueue(F, <<r>>, F.ins[r].blk, t), id |-> F.next]

(***************************************************************************)
(* A phi that joins the two ways of a branch becomes a select.             *)
(***************************************************************************)
\* The link of phi i for the k-th way of the branch that ends block d; NoId if something
\* other than values to choose from lies on that way.
WayLink(C, F, i, d, k) ==
    LET way == F.ins[ControlTail(F, d)].tgt[k]
        link == LinkFor(i, way)
    IN  IF way = i.blk THEN LinkFor(i, d)
        ELSE IF /\ IsExclusiveDirectPredecessor(C, way, d)
                /\ IsDirectPredecessor(C, i.blk, way)
                /\ Len(F.control[way]) = 1
                /\ F.ins[link].blk = way => CanHoist(C, F, link, way, d)
             THEN link
        ELSE NoId

\* The link, hoisted into d if it lives on the way itself.
HoistLink(F, link, way, d) ==
    IF F.ins[link].blk = way THEN Hoist(F, link, d) ELSE [fn |-> F, id |-> link]

SelectFor(branch, a, b) ==
    Instr(IF branch.op = "br" THEN "select" ELSE "selcmp", branch.w, branch.refs \o <<a, b>>,
          branch.imm, branch.cmp, <<>>)

Joins(C, F, i) ==
    /\ Len(i.refs) = 2
    /\ i.blk \in Reachable(C) \ {Entry}
    /\ LET d == ImmediateDominator(C, i.blk)
           tail == F.ins[ControlTail(F, d)]
       IN  /\ ControlTail(F, d) # NoId
           /\ tail.op = "br" \/ (tail.op = "brcmp" /\ tail.cmp \in IntComparisons)
           /\ tail.tgt[1] # tail.tgt[2]
           /\ \A k \in 1..2 : WayLink(C, F, i, d, k) # NoId

SelectBetween(F, i, branch, first, second) ==
    [fn |-> NewInstruction(F, i.blk, SelectFor(branch, first, second)), id |-> F.next]

\* The value of the first way is hoisted into block d, then that of the second.
HoistSecond(C, F, i, d, branch, first) ==
    LET second == HoistLink(first.fn, WayLink(C, F, i, d, 2),
                            IF branch.tgt[2] = i.blk THEN NoId ELSE branch.tgt[2], d)
    IN  SelectBetween(second.fn, i, branch, first.id, second.id)
HoistBoth(C, F, i, d, branch) ==
    HoistSecond(C, F, i, d, branch,
                HoistLink(F, WayLink(C, F, i, d, 1),
                          IF branch.tgt[1] = i.blk THEN NoId ELSE branch.tgt[1], d))

SimplifyPhi(C, F, r) ==
    LET i == F.ins[r]
        d == ImmediateDominator(C, i.blk)
    IN  IF ~Joins(C, F, i) THEN Unreplaced(F) ELSE HoistBoth(C, F, i, d, F.ins[ControlTail(F, d)])

(***************************************************************************)
(* The accesses right before an unreachable point are taken out of the     *)
(* control flow; the instruction itself stays.                             *)
(***************************************************************************)
Volatile(i) == i.op \in {"store", "load"} /\ i.tgt = <<"volatile">>

RECURSIVE DropBefore(_, _, _)
DropBefore(F, b, k) ==
    LET r == F.control[b][k]
        i == F.ins[r]
    IN  IF k = 0 THEN F
        ELSE IF i.op = "mark" THEN DropBefore(F, b, k - 1)
        ELSE IF i.op \in {"store", "load"} /\ ~Volatile(i) THEN DropBefore(DropControl(F, r), b, k - 1)
        ELSE F

SimplifyUnreachable(F, r) ==
    LET b == F.ins[r].blk
    IN  IF ~IsControlFlow(F, r) THEN Unreplaced(F)
        ELSE Unreplaced(DropBefore(F, b, (CHOOSE k \in DOMAIN F.control[b] : F.control[b][k] = r) - 1))
(***************************************************************************)
(* One rewriting step: the rule for the operation of the instruction.      *)
(***************************************************************************)
SimplifyTree(C, F, r) ==
    LET op == F.ins[r].op
    IN  CASE op = "not" -> SimplifyNot(F, r)
          [] op = "neg" -> SimplifyNeg(F, r)
          [] op = "bool" -> SimplifyToBool(F, r)
          [] op = "and" -> SimplifyAnd(F, r)
          [] op = "or" -> SimplifyOr(F, r)
          [] op = "xor" -> SimplifyXor(F, r)
          [] op = "add" -> SimplifyAdd(F, r)
          [] op = "sub" -> SimplifySub(F, r)
          [] op \in {"mul", "umul"} -> SimplifyMul(F, r)
          [] op \in {"div", "udiv"} -> SimplifyDiv(F, r)
          [] op = "shl" -> SimplifyShl(F, r)
          [] op = "shr" -> SimplifyShr(F, r)
          [] op = "sar" -> SimplifySar(F, r)
          [] op \in Extensions -> SimplifyExtend(F, r)
          [] op \in {"bitsu", "bitss"} -> SimplifyBitsExtract(F, r)
          [] op = "store" -> SimplifyStore(F, r)
          [] op = "bnot" -> SimplifyBoolNot(F, r)
          [] op = "bor" -> SimplifyBoolOr(C, F, r)
          [] op = "band" -> SimplifyBoolAnd(C, F, r)
          [] op = "select" -> SimplifySelect(F, r)
          [] op = "selcmp" -> SimplifySelectCompare(F, r)
          [] OTHER -> Keep

Rewritten(F, b, t) == IF t.op = "keep" THEN Unreplaced(F) ELSE Build(F, b, t)

Simplify(C, F, r) ==
    LET op == F.ins[r].op
    IN  CASE op = "load" -> SimplifyLoad(F, r)
          [] op = "br" -> SimplifyBranch(F, r)
          [] op = "brcmp" -> SimplifyBranchCompare(F, r)
          [] op = "phi" -> SimplifyPhi(C, F, r)
          [] op = "unreachable" -> SimplifyUnreachable(F, r)
          [] OTHER -> Rewritten(F, F.ins[r].blk, SimplifyTree(C, F, r))
=============================================================================
