---------------------------- MODULE ParserPragmas ----------------------------
(***************************************************************************)
(* The token cursor of the parser, its checkpoints, the pack pragmas it    *)
(* applies on the way, and its error recovery (source/parser/cursor.c,     *)
(* parser.c, rules/translation_unit.c, rules/compound_statement.c).        *)
(*                                                                         *)
(* The parser is a recursive descent with backtracking.  Every rule is     *)
(* applied by kefir_parser_apply: it saves a checkpoint, consumes the pack *)
(* pragmas at the cursor (and so CHANGES the pragma state), runs the rule  *)
(* and on NO_MATCH goes back to the checkpoint.  `frames` is the C call    *)
(* stack: the translation unit at the bottom, above it rule applications   *)
(* and the compound statements they are in the middle of.  Which rule is   *)
(* tried and whether it matches is left open, so the results hold for any  *)
(* grammar written on top of these functions that does not recur without   *)
(* shifting a token.                                                       *)
(***************************************************************************)
EXTENDS Integers, Sequences, FiniteSetsExt

CONSTANTS
    Inputs,         \* the token sequences to parse
    MaxDepth,       \* bound: nesting of rules and blocks
    MaxTries,       \* bound: rules one rule tries before it shifts a token
    MaxErrors       \* parser->configuration->max_errors, or Unbounded

\* Tokens.  "fp" stands for the pragmas that are not about packing.
PackPragmas == {"push", "push1", "value2", "reset", "pop"}
Pragmas == PackPragmas \cup {"fp"}
Tokens == Pragmas \cup {"x", "lbrace", "rbrace", "semicolon"}

ASSUME InputsAssumption == Inputs \subseteq Seq(Tokens)

VARIABLES
    tokens,         \* the input
    index,          \* cursor->index, counted from zero
    pragmas,        \* parser->pragmas: the pack value of the file scope and the pack stack
    frames,         \* the applications in progress, the translation unit first
    errors,         \* parser->encountered_errors
    status,         \* "parsing", or how the parse ended
    skipped,        \* history: pack pragmas a rule shifted over without applying them
    exact           \* history: neither a recovery of the unit nor a pragma right
                    \* after a left brace has set the state apart from the text

vars == <<tokens, index, pragmas, frames, errors, status, skipped, exact>>

(***************************************************************************)
(* The cursor.                                                             *)
(***************************************************************************)
End == "end"       \* the sentinel token insert_sentinel puts at the end of the buffer

Get(i) == IF i \in 0 .. Len(tokens) - 1 THEN tokens[i + 1] ELSE End

IsPragma(i) == Get(i) \in Pragmas

\* cursor_skip_pragmas: `continue` in a do-while(false) leaves the loop, so
\* one pragma is skipped and no more.
CursorSkipPragmas(i) == IF IsPragma(i) THEN i + 1 ELSE i

\* kefir_parser_token_cursor_at(cursor, 0, true).
At(i) == Get(CursorSkipPragmas(i))

\* The first token from i on that is not a pragma (or the end).
FirstOther(i) == Min({k \in i .. Len(tokens) : ~IsPragma(k)})

\* kefir_parser_token_cursor_next: with skip_pragmas it passes all of them.
Next1(i) == IF Get(i) = End THEN i ELSE i + 1
NextSkip(i) == Next1(FirstOther(i))

(***************************************************************************)
(* The pack stack: entries linked by prev, appended and never overwritten. *)
(* Zero is the absent pack value.                                          *)
(***************************************************************************)
NoTop == 0

\* Mutant: push reuses the slot above the top, as an array stack would.
PushOver(p) ==
    [p EXCEPT !.slots = Append(SubSeq(p.slots, 1, p.top), [prev |-> p.top, value |-> p.pack]),
              !.top = p.top + 1]

Push(p) ==
    [p EXCEPT !.slots = Append(p.slots, [prev |-> p.top, value |-> p.pack]),
              !.top = Len(p.slots) + 1]

Pop(p) == IF p.top = NoTop
            THEN [p EXCEPT !.pack = 0]
            ELSE [p EXCEPT !.pack = p.slots[p.top].value, !.top = p.slots[p.top].prev]

\* kefir_parser_scan_pragma.
ScanPragma(p, token) ==
    CASE token = "push"   -> Push(p)
      [] token = "push1"  -> [Push(p) EXCEPT !.pack = 1]
      [] token = "value2" -> [p EXCEPT !.pack = 2]
      [] token = "reset"  -> [p EXCEPT !.pack = 0]
      [] token = "pop"    -> Pop(p)
      [] token = "fp"     -> p

\* The pragma state after the tokens of i .. k-1 have been scanned.
ScanRange(p, i, k) ==
    LET scan[j \in i .. k] == IF j = i THEN p ELSE ScanPragma(scan[j - 1], Get(j - 1))
    IN  scan[k]

\* kefir_parser_consume_pack_pragmas stops at the first other pragma.
PackEnd(i) == Min({k \in i .. Len(tokens) : Get(k) \notin PackPragmas})

\* The values below each entry of the pack stack, its own first.
StackOf(slots) ==
    LET stack[k \in 0 .. Len(slots)] ==
            IF k = NoTop THEN << >> ELSE <<slots[k].value>> \o stack[slots[k].prev]
    IN  stack

Stack == StackOf(pragmas.slots)[pragmas.top]

(***************************************************************************)
(* kefir_parser_error_recovery_skip_garbage with the sync points of the    *)
(* translation unit and of compound statements: semicolons and pragmas.    *)
(* The brace tests look past a pragma, the shift does not.                 *)
(***************************************************************************)
Unbounded == 0

\* open_braces when the loop that began at i has come to j.
OpenBraces(i) ==
    LET open[j \in i .. Len(tokens)] ==
            IF j = i THEN 0
            ELSE IF At(j - 1) = "lbrace" THEN open[j - 1] + 1
            ELSE IF At(j - 1) = "rbrace" /\ open[j - 1] > 0 THEN open[j - 1] - 1
            ELSE open[j - 1]
    IN  open

\* Mutant: the first token is a synchronisation point like any other.
BreaksAtFirst(i, j, open) ==
    \/ At(j) = End
    \/ open[j] = 0 /\ At(j) # "lbrace" /\ (At(j) = "rbrace" \/ Get(j) = "semicolon" \/ IsPragma(j))
    \/ j > i /\ At(j - 1) = "rbrace" /\ open[j - 1] = 1

\* The loop ends at the end of the file, at a synchronisation point, and behind
\* the brace that closes the last open one.  The first token is none of them.
Breaks(i, j, open) ==
    \/ At(j) = End
    \/ j > i /\ open[j] = 0 /\ At(j) # "lbrace" /\ (At(j) = "rbrace" \/ Get(j) = "semicolon" \/ IsPragma(j))
    \/ j > i /\ At(j - 1) = "rbrace" /\ open[j - 1] = 1

\* Mutant: the first semicolon ends the garbage, whatever braces are open.
SkipGarbageFlat(i) ==
    IF At(i) = End THEN i
    ELSE CHOOSE k \in i + 1 .. Len(tokens) :
            /\ Get(k) \in {"semicolon", "rbrace", End}
            /\ \A m \in i + 1 .. k - 1 : Get(m) \notin {"semicolon", "rbrace"}

SkipGarbage(i) ==
    LET open == OpenBraces(i) IN Min({j \in i .. Len(tokens) : Breaks(i, j, open)})

(***************************************************************************)
(* Checkpoints and frames.                                                 *)
(***************************************************************************)
Top == frames[Len(frames)]
Caller == frames[Len(frames) - 1]
Below == SubSeq(frames, 1, Len(frames) - 1)

\* Mutant: the checkpoint leaves the top of the pack stack out.
RestoredTop(c) == [pragmas EXCEPT !.pack = c.pack]

\* kefir_parser_checkpoint_restore: all of pragmas but the entries themselves.
Restored(c) == [pragmas EXCEPT !.pack = c.pack, !.top = c.top]

\* kefir_parser_checkpoint_save; `stack` and `skipped` record history.
Saved == [index |-> index, pack |-> pragmas.pack, top |-> pragmas.top,
          stack |-> Stack, skipped |-> skipped]

NoCheckpoint == [index |-> 0, pack |-> 0, top |-> NoTop, stack |-> << >>, skipped |-> {}]

Frame(kind, c, t) == [kind |-> kind, saved |-> c, tries |-> t, bad |-> FALSE]

WithTop(f) == Append(Below, f)

Init ==
    /\ tokens \in Inputs
    /\ index = PackEnd(0)
    /\ pragmas = ScanRange([pack |-> 0, slots |-> << >>, top |-> NoTop], 0, PackEnd(0))
    /\ frames = <<Frame("unit", NoCheckpoint, 0)>>
    /\ errors = 0
    /\ status = "parsing"
    /\ skipped = {}
    /\ exact = TRUE

\* kefir_parser_apply: save, consume the pack pragmas, then run the rule.
Enter(lower) ==
    /\ Len(frames) < MaxDepth
    /\ frames' = Append(lower, Frame("rule", Saved, 0))
    /\ index' = PackEnd(index)
    /\ pragmas' = ScanRange(pragmas, index, PackEnd(index))
    /\ UNCHANGED <<tokens, errors, status, skipped, exact>>

\* The loop of a translation unit ends when the next token is the sentinel.
UnitDone ==
    /\ status = "parsing" /\ Top.kind = "unit" /\ At(index) = End
    /\ status' = IF Top.bad THEN "syntax_error" ELSE "ok"
    /\ index' = PackEnd(index)
    /\ pragmas' = ScanRange(pragmas, index, PackEnd(index))
    /\ UNCHANGED <<tokens, frames, errors, skipped, exact>>

\* Semicolons between external declarations are shifted first.
AfterSemicolons(i) == Min({k \in i .. Len(tokens) : Get(k) # "semicolon"})

\* A pragma of file scope is scanned, whatever it is about.
UnitPragma ==
    /\ status = "parsing" /\ Top.kind = "unit" /\ At(index) # End
    /\ LET i == AfterSemicolons(index)
       IN  /\ IsPragma(i)
           /\ pragmas' = ScanPragma(pragmas, Get(i))
           /\ index' = i + 1
    /\ UNCHANGED <<tokens, frames, errors, status, skipped, exact>>

\* Otherwise external_declaration is applied; the unit remembers its cursor.
UnitItem ==
    /\ status = "parsing" /\ Top.kind = "unit" /\ At(index) # End
    /\ Len(frames) < MaxDepth
    /\ LET i == AfterSemicolons(index)
       IN  /\ ~IsPragma(i)
           /\ index' = i
           /\ frames' = IF Get(i) = End THEN frames
                        ELSE Append(WithTop([Top EXCEPT !.saved = Saved]),
                                    Frame("rule", [Saved EXCEPT !.index = i], 0))
    /\ UNCHANGED <<tokens, pragmas, errors, status, skipped, exact>>

\* A rule applies another rule.
RuleEnter ==
    /\ status = "parsing" /\ Top.kind = "rule" /\ Top.tries < MaxTries
    /\ Enter(WithTop([Top EXCEPT !.tries = @ + 1]))

\* A rule that sees the token it wants shifts it, with the pragmas before it.
RuleShift ==
    /\ status = "parsing" /\ Top.kind = "rule"
    /\ At(index) \notin Pragmas \cup {End}
    /\ index' = NextSkip(index)
    /\ frames' = WithTop([Top EXCEPT !.tries = 0])
    /\ skipped' = skipped \cup {i \in index .. index' - 1 : Get(i) \in PackPragmas}
    /\ UNCHANGED <<tokens, pragmas, errors, status, exact>>

\* What the caller knows after a rule has matched: a block starts its next
\* item, a rule may try as many rules again if tokens were shifted.
Continued(f, moved) ==
    IF f.kind = "block" \/ (f.kind = "rule" /\ moved) THEN [f EXCEPT !.tries = 0] ELSE f

\* A token that is not a pack pragma has been shifted since the checkpoint.
Moved == index > PackEnd(Top.saved.index)

\* The rule matches; the pack pragmas after it are consumed.  No external
\* declaration, declaration or statement is empty.
RuleMatch ==
    /\ status = "parsing" /\ Top.kind = "rule"
    /\ Caller.kind # "rule" => Moved
    /\ index' = PackEnd(index)
    /\ pragmas' = ScanRange(pragmas, index, PackEnd(index))
    /\ frames' = Append(SubSeq(frames, 1, Len(frames) - 2), Continued(Caller, Moved))
    /\ UNCHANGED <<tokens, errors, status, skipped, exact>>

\* Mutant: a recovered error is not counted.
CountedNever == errors

\* parser->encountered_errors++
Counted == IF MaxErrors = Unbounded THEN errors ELSE errors + 1

MayRecover == MaxErrors = Unbounded \/ errors + 1 < MaxErrors

\* A syntax error reaches the n-th frame, a block or the unit, with pragma
\* state p.  A block goes back to the checkpoint of its item, the unit only to
\* its cursor.
Recover(n, p) ==
    LET f == frames[n] IN
    /\ IF MayRecover
         THEN /\ index' = SkipGarbage(f.saved.index)
              /\ frames' = Append(SubSeq(frames, 1, n - 1), [f EXCEPT !.tries = 0, !.bad = TRUE])
              /\ pragmas' = IF f.kind = "block" THEN Restored(f.saved) ELSE p
              /\ skipped' = f.saved.skipped
                   \cup {i \in f.saved.index .. index' - 1 : Get(i) \in PackPragmas}
              /\ exact' = (exact /\ (f.kind = "unit" => p.pack = f.saved.pack /\ p.top = f.saved.top))
              /\ errors' = Counted
              /\ status' = status
         ELSE /\ status' = "syntax_error"
              /\ UNCHANGED <<index, pragmas, frames, errors, skipped, exact>>
    /\ UNCHANGED tokens

\* The innermost block, or the unit, below frame k.
Handler(k) == Max({n \in 1 .. k - 1 : frames[n].kind # "rule"})

\* A rule reports a syntax error; the rules that applied it pass it on.
RuleError ==
    /\ status = "parsing" /\ Top.kind = "rule"
    /\ Recover(Handler(Len(frames)), pragmas)

\* The rule does not match: back to its checkpoint.  For the unit, and for a
\* block that has tried both declaration and statement, that is an error.
RuleNoMatch ==
    /\ status = "parsing" /\ Top.kind = "rule"
    /\ IF Caller.kind = "unit" \/ (Caller.kind = "block" /\ Caller.tries = 2)
         THEN Recover(Len(Below), Restored(Top.saved))
         ELSE /\ frames' = Below
              /\ index' = Top.saved.index
              /\ pragmas' = Restored(Top.saved)
              /\ skipped' = Top.saved.skipped
              /\ UNCHANGED <<tokens, errors, status, exact>>

\* The pragmas that follow the left brace at i.
LeadingEnd(i) == FirstOther(NextSkip(i))

\* parse_compound_statement up to its loop.  The leading pragmas are scanned
\* into a state of their own, whose pack value is then merged if present.
BlockOpen ==
    /\ status = "parsing" /\ Top.kind = "rule" /\ At(index) = "lbrace"
    /\ Len(frames) + 1 < MaxDepth
    /\ LET local == ScanRange([pragmas EXCEPT !.pack = 0], NextSkip(index), LeadingEnd(index))
       IN  pragmas' = IF local.pack = 0 THEN [local EXCEPT !.pack = pragmas.pack] ELSE local
    /\ index' = LeadingEnd(index)
    /\ skipped' = skipped \cup {i \in index .. NextSkip(index) - 1 : Get(i) \in PackPragmas}
    /\ frames' = Append(WithTop([Top EXCEPT !.tries = 0]), Frame("block", NoCheckpoint, 0))
    /\ exact' = (exact /\ \A i \in NextSkip(index) .. index' - 1 : Get(i) \notin PackPragmas)
    /\ UNCHANGED <<tokens, errors, status>>

\* The loop: save a checkpoint, apply declaration, and after NO_MATCH statement.
BlockItem ==
    /\ status = "parsing" /\ Top.kind = "block" /\ Top.tries < 2
    /\ Top.tries = 0 => At(index) # "rbrace"
    /\ Enter(WithTop([Top EXCEPT !.tries = @ + 1,
                                 !.saved = IF Top.tries = 0 THEN Saved ELSE @]))

\* The right brace ends the block, with an error if it recovered from one.
BlockClose ==
    /\ status = "parsing" /\ Top.kind = "block" /\ Top.tries = 0 /\ At(index) = "rbrace"
    /\ IF Top.bad
         THEN Recover(Handler(Len(frames)), pragmas)
         ELSE /\ index' = NextSkip(index)
              /\ skipped' = skipped \cup {i \in index .. index' - 1 : Get(i) \in PackPragmas}
              /\ frames' = Below
              /\ UNCHANGED <<tokens, pragmas, errors, status, exact>>

Ended == status # "parsing" /\ UNCHANGED vars

Next ==
    \/ UnitDone \/ UnitPragma \/ UnitItem
    \/ RuleEnter \/ RuleShift \/ RuleMatch \/ RuleError \/ RuleNoMatch
    \/ BlockOpen \/ BlockItem \/ BlockClose
    \/ Ended

Spec == Init /\ [][Next]_vars

\* The parser is one thread that runs until it returns.
FairSpec == Spec /\ WF_vars(Next)

-----------------------------------------------------------------------------
(***************************************************************************)
(* Properties.                                                             *)
(***************************************************************************)

\* The pragma state as the text alone determines it, with a plain stack.
PlainScan(p, token) ==
    CASE token = "push"   -> [p EXCEPT !.stack = <<p.pack>> \o @]
      [] token = "push1"  -> [pack |-> 1, stack |-> <<p.pack>> \o p.stack]
      [] token = "value2" -> [p EXCEPT !.pack = 2]
      [] token = "reset"  -> [p EXCEPT !.pack = 0]
      [] token = "pop"    -> IF p.stack = << >> THEN [p EXCEPT !.pack = 0]
                             ELSE [pack |-> Head(p.stack), stack |-> Tail(p.stack)]
      [] token \notin PackPragmas -> p

PlainStates(without) ==
    LET plain[k \in 0 .. Len(tokens)] ==
            IF k = 0 THEN [pack |-> 0, stack |-> << >>]
            ELSE IF k - 1 \in without THEN plain[k - 1] ELSE PlainScan(plain[k - 1], Get(k - 1))
    IN  plain

PlainState == PlainStates(skipped)[index]

\* However often the parser backtracks over pack pragmas and applies them
\* again, its pack value and its pack stack are what the pragmas before the
\* cursor give when each is applied once, in the order of the text
\* (kefir_parser_apply_impl, kefir_parser_scan_pragma).
PackFollowsText ==
    exact => /\ pragmas.pack = PlainState.pack
             /\ Stack = PlainState.stack

\* The pack stack a checkpoint refers to is still the one that was there when
\* the checkpoint was saved, whatever was pushed and popped since: restoring
\* stack_top alone is enough (kefir_parser_checkpoint_restore).
CheckpointsIntact ==
    \A n \in 1 .. Len(frames) :
        StackOf(pragmas.slots)[frames[n].saved.top] = frames[n].saved.stack

\* Recovery gets the parser past the place where the failing item began, or
\* to the end of the file: no item is parsed again from where it failed
\* (kefir_parser_error_recovery_skip_garbage).
RecoveryAdvances ==
    [][\A n \in 1 .. Len(frames) :
         (errors' # errors /\ Len(frames') = n)
            => index' > frames[n].saved.index \/ At(index') = End]_vars

\* Recovery never stops inside braces it has entered: the garbage it skipped
\* closes every brace it opened, if no pragma stands right before a brace.
GarbageIsBalanced ==
    [][LET n == Len(frames')
           from == frames[n].saved.index
           Count(t) == Cardinality({i \in from .. index' - 1 : Get(i) = t})
       IN  (errors' # errors /\ \A i \in 0 .. Len(tokens) : Get(i) \in {"lbrace", "rbrace"} => ~IsPragma(i - 1))
              => \/ At(index') = End
                 \/ Get(from) = "rbrace"
                 \/ Count("lbrace") = Count("rbrace")]_vars

\* Every parse ends, after at most max_errors errors.
Terminates == <>(status # "parsing")
=============================================================================
