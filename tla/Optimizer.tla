----------------------------- MODULE Optimizer ------------------------------
(***************************************************************************)
(* Two passes of the optimizer over a function.                            *)
(*                                                                         *)
(* op-simplify walks the instructions of a block, rewrites them, and       *)
(* repeats the walk until one of them changes nothing.                     *)
(*                                                                         *)
(* constant-fold walks the blocks once; each operation on constants is     *)
(* replaced by its result.  New instructions go to the end of the block,   *)
(* so that both walks meet them too.                                       *)
(***************************************************************************)
EXTENDS OpSimplifyFlow, ConstFold

CONSTANT Suites,        \* a sequence of passes, each with the functions it is given
         Environments,  \* argument values the meaning is compared on
         MaxRewrites    \* what the runs allow op-simplify to rewrite in one function

VARIABLES
    pass,       \* the pass that runs
    fn,         \* the function being rewritten
    original,   \* the function the pass was given
    block,      \* the block being walked
    instr,      \* the instruction to visit next, NoId at the end of the walk
    fixpoint,   \* fixpoint_reached: nothing was rewritten in this walk so far
    rewrites    \* how many instructions have been replaced

vars == <<pass, fn, original, block, instr, fixpoint, rewrites>>

Done == NoId    \* the value of block once every block has been walked

\* The replacement takes over the uses and the place in the control-flow list.
Substitute(F, r, new) ==
    LET G == ReplaceReferences(F, new, r)
        H == IF ~IsControlFlow(G, r) THEN G
             ELSE DropControl(IF IsControlFlow(G, new) THEN G
                              ELSE InsertControl(G, G.ins[r].blk, r, new), r)
    IN  DropInstr(H, r)

Replace(s) ==
    /\ fn' = Substitute(s.fn, instr, s.id)
    /\ instr' = NextSibling(s.fn, instr)
    /\ rewrites' = rewrites + 1

NextBlock(b) == IF b + 1 \in DOMAIN fn.content THEN b + 1 ELSE Done

(***************************************************************************)
(* op-simplify.                                                            *)
(***************************************************************************)
Simplified(s) ==
    IF s.id = NoId
    THEN /\ fn' = s.fn
         /\ instr' = NextSibling(fn, instr)
         /\ UNCHANGED <<fixpoint, rewrites>>
    ELSE Replace(s) /\ fixpoint' = FALSE

SimplifyInstruction ==
    /\ pass = "op-simplify"
    /\ instr # NoId
    /\ Simplified(Simplify(original, fn, instr))
    /\ UNCHANGED <<pass, original, block>>

EndOfSimplifyWalk ==
    /\ pass = "op-simplify"
    /\ block # Done
    /\ instr = NoId
    /\ block' = IF fixpoint THEN NextBlock(block) ELSE block
    /\ instr' = IF block' = Done THEN NoId ELSE ContentHead(fn, block')
    /\ fixpoint' = TRUE
    /\ UNCHANGED <<pass, fn, original, rewrites>>

(***************************************************************************)
(* constant-fold.                                                          *)
(***************************************************************************)
FoldedInto(t) ==
    IF t.op = "keep"
    THEN fn' = fn /\ instr' = NextSibling(fn, instr) /\ UNCHANGED rewrites
    ELSE Replace(Build(fn, block, t))

FoldInstruction ==
    /\ pass = "constant-fold"
    /\ instr # NoId
    /\ FoldedInto(Fold(fn, instr))
    /\ UNCHANGED <<pass, original, block, fixpoint>>

EndOfFoldedBlock ==
    /\ pass = "constant-fold"
    /\ block # Done
    /\ instr = NoId
    /\ block' = NextBlock(block)
    /\ instr' = IF block' = Done THEN NoId ELSE ContentHead(fn, block')
    /\ UNCHANGED <<pass, fn, original, fixpoint, rewrites>>

Start(p, F) ==
    /\ pass = p
    /\ original = F
    /\ fn = F
    /\ block = Entry
    /\ instr = ContentHead(F, Entry)
    /\ fixpoint = TRUE
    /\ rewrites = 0

Init == \E k \in DOMAIN Suites : \E F \in Suites[k].fns : Start(Suites[k].pass, F)

Step == SimplifyInstruction \/ EndOfSimplifyWalk \/ FoldInstruction \/ EndOfFoldedBlock

Finished == block = Done /\ UNCHANGED vars

Next == Step \/ Finished

Spec == Init /\ [][Next]_vars

(***************************************************************************)
(* Properties.                                                             *)
(***************************************************************************)
\* Between two visits the container is well formed: no operand refers to a dropped
\* instruction, and the walk stands on one that still exists.
TypeOK ==
    /\ WellFormed(fn)
    /\ block \in DOMAIN fn.content \union {Done}
    /\ instr \in DOMAIN fn.ins \union {NoId}
    /\ fixpoint \in BOOLEAN

\* An operand is computed before it is used: its block dominates the block of the use,
\* or, for a phi, the block the value comes from.
OperandsDominate ==
    \A r \in DOMAIN fn.ins : fn.ins[r].blk \in Reachable(fn) =>
        \A k \in DOMAIN fn.ins[r].refs :
            LET from == fn.ins[fn.ins[r].refs[k]].blk
            IN  IF fn.ins[r].op = "phi"
                THEN fn.ins[r].tgt[k] \in Reachable(fn) => Dominates(fn, from, fn.ins[r].tgt[k])
                ELSE Dominates(fn, from, fn.ins[r].blk)

\* A function without arguments does the same in every environment.
Relevant(F) ==
    IF \E r \in DOMAIN F.ins : F.ins[r].op \in {"arg", "sym", "load"} THEN Environments
    ELSE {CHOOSE e \in Environments : TRUE}

\* The function a pass leaves does what the function it was given does, for all argument
\* values and whatever is in the unused high bits of the registers, wherever that is
\* defined: the compiler's arithmetic is that of the generated code.
MeaningPreserved == block = Done => Preserves(original, fn, Relevant(original))

\* The fixpoint loops end: the rules do not undo one another, nor feed on what they
\* append to the block they are walking.
Converges == rewrites <= MaxRewrites
=============================================================================
