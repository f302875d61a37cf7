--------------------------- MODULE MacroExpansion ---------------------------
(***************************************************************************)
(* Replacement of macros (source/preprocessor/substitutions.c and          *)
(* source/preprocessor/user_macro.c): the scan that replaces identifiers   *)
(* and puts what they stand for back in front of the text, the collection  *)
(* of arguments, and the substitution of parameters in a replacement list  *)
(* with its operators # and ##.                                            *)
(*                                                                         *)
(* A token carries the set of macros it came out of (macro_expansions in   *)
(* the code, "hide" here).  The calls of the code nest: a scan applies a   *)
(* macro, whose replacement list calls a scan for each argument.  The      *)
(* stack of those calls is the variable "calls"; its last element runs.    *)
(* White space, which only separates tokens, is left out, and so is        *)
(* __VA_OPT__.                                                             *)
(***************************************************************************)
EXTENDS Naturals, FiniteSets, Sequences, SequencesExt

CONSTANTS
    Cases,          \* what to expand: definitions, a text and a context, "NORMAL" or
                    \* "IF_CONDITION" for the line of an #if
    Paste,          \* the pairs of spellings ## joins, with what they give
    VaArgsConcat    \* preprocessor_config->va_args_concat

VARIABLES
    macros,   \* name -> [kind, params, vararg, repl]
    text,     \* the text that is expanded
    context,  \* subst_context of the outermost scan
    calls,    \* the calls in progress: scans and substitutions, alternating
    status,   \* "run", "done" or "error"
    result,   \* the tokens the outermost scan delivered
    repainted,\* a name was replaced that came out of its own macro
    straddled \* a function-like macro was called by a name and parentheses
              \* that did not all come out of the same macros

vars == <<macros, text, context, calls, status, result, repainted, straddled>>

\* A token: its spelling (a sequence of spellings for a string that # made)
\* and the macros it came out of.
Token(id, hide) == [id |-> id, hide |-> hide]
Plain(ids) == [i \in DOMAIN ids |-> Token(ids[i], {})]
Spelling(tokens) == [i \in DOMAIN tokens |-> tokens[i].id]
String(tokens) == Token(<<"#", Spelling(tokens)>>, {})
Placemaker == Token("placemaker", {})

VaName == "__VA_ARGS__"
Params(m) == macros[m].params \o IF macros[m].vararg THEN <<VaName>> ELSE <<>>

(***************************************************************************)
(* Calls in progress.                                                      *)
(***************************************************************************)
Scan(tokens, ctx) == [call |-> "scan", in |-> tokens, out |-> <<>>, ctx |-> ctx]
Subst(m, hide, args) ==
    [call |-> "subst", macro |-> m, hide |-> hide, args |-> args,
     repl |-> Plain(macros[m].repl), out |-> <<>>, joined |-> FALSE]

Top == Last(calls)
Caller == calls[Len(calls) - 1]
Running(call) == status = "run" /\ Top.call = call
Continue(frame) == calls' = Front(calls) \o <<frame>>
Fail == status' = "error" /\ UNCHANGED <<calls, result>>

(***************************************************************************)
(* The arguments of a call: scan_function_macro_arguments.  "rest" is the  *)
(* text after the left parenthesis.                                        *)
(***************************************************************************)
Count(rest, n, id) == Cardinality({i \in 1 .. n : rest[i].id = id})

\* The right parentheses that may close the call: the first of them does.
Closers(rest) ==
    {n \in DOMAIN rest : rest[n].id = ")" /\ Count(rest, n, ")") = Count(rest, n, "(") + 1}
Closer(rest) == Min(Closers(rest))

\* The commas that separate arguments: all those outside parentheses, but
\* once the named parameters are served the variable part swallows the rest.
Commas(rest) ==
    {n \in 1 .. Closer(rest) : rest[n].id = "," /\ Count(rest, n, "(") = Count(rest, n, ")")}
Separators(m, rest) ==
    LET commas == Commas(rest) IN
    IF macros[m].vararg
    THEN {n \in commas : Cardinality({k \in commas : k < n}) < Len(macros[m].params)}
    ELSE commas

\* The list of arguments as it is when the right parenthesis is met: a call
\* without any token or comma has none.
Listed(m, rest) ==
    LET ends == SetToSortSeq(Separators(m, rest) \cup {Closer(rest)}, <)
        start(i) == IF i = 1 THEN 1 ELSE ends[i - 1] + 1
    IN IF Closer(rest) = 1 THEN <<>>
       ELSE [i \in DOMAIN ends |-> SubSeq(rest, start(i), ends[i] - 1)]

\* Mutant: only the single argument is completed.
CompletedSingle(m, args) ==
    IF Len(args) = 0 /\ Len(macros[m].params) = 1 THEN Append(args, <<>>) ELSE args

\* An absent single argument, or an absent variable part, is an empty one.
Completed(m, args) ==
    LET argc == Len(macros[m].params) IN
    IF (Len(args) = 0 /\ argc = 1) \/ (macros[m].vararg /\ Len(args) = argc)
    THEN Append(args, <<>>) ELSE args

Arguments(m, rest) == Completed(m, Listed(m, rest))
Callable(m, rest) == Closers(rest) # {} /\ Len(Arguments(m, rest)) = Len(Params(m))
Bound(m, args) ==
    [p \in ToSet(Params(m)) |->
        args[CHOOSE i \in DOMAIN Params(m) : Params(m)[i] = p]]

(***************************************************************************)
(* run_substitutions: one round of its loop.                               *)
(***************************************************************************)

\* Mutant: on the line of an #if the identifier is put back as it is.
LeavePutBack(tok, rest, name) ==
    Continue(IF Top.ctx = "IF_CONDITION" /\ name
             THEN [Top EXCEPT !.in = <<tok>> \o rest]
             ELSE [Top EXCEPT !.in = rest, !.out = Append(@, tok)])

\* substitute_unknown_identifier: on the line of an #if an identifier that
\* is left over is 0; elsewhere it goes to the output.
Leave(tok, rest, name) ==
    Continue(IF Top.ctx = "IF_CONDITION" /\ name
             THEN [Top EXCEPT !.in = <<Token("0", {})>> \o rest]
             ELSE [Top EXCEPT !.in = rest, !.out = Append(@, tok)])

Names == {"a", "b", "ab", "f", "g", "u", "defined", VaName}

\* A token that no macro stands behind.
ScanToken ==
    /\ Running("scan") /\ Top.in # <<>>
    /\ LET tok == Head(Top.in) IN
       /\ tok.id \notin DOMAIN macros
       /\ ~(tok.id = "defined" /\ Top.ctx = "IF_CONDITION")
       /\ Leave(tok, Tail(Top.in), tok.id \in Names)
    /\ UNCHANGED <<status, result, repainted, straddled>>

\* substitute_object_macro: nothing is done for a name that came out of the
\* macro itself.
Replaceable(m, tok) == m \notin tok.hide

ScanObject ==
    /\ Running("scan") /\ Top.in # <<>>
    /\ LET tok == Head(Top.in) IN
       /\ tok.id \in DOMAIN macros /\ macros[tok.id].kind = "object"
       /\ IF Replaceable(tok.id, tok)
          THEN /\ calls' = Front(calls) \o
                    <<[Top EXCEPT !.in = Tail(@)], Subst(tok.id, tok.hide, <<>>)>>
               /\ repainted' = (repainted \/ tok.id \in tok.hide)
          ELSE Leave(tok, Tail(Top.in), TRUE) /\ UNCHANGED repainted
    /\ UNCHANGED <<status, result, straddled>>

\* substitute_function_macro: a name is a call when a left parenthesis that
\* did not come out of the macro follows.  It is the parenthesis, not the
\* name, that is asked, and what the parenthesis came out of is passed on.
Opens(m, rest) == rest # <<>> /\ rest[1].id = "(" /\ m \notin rest[1].hide

\* The name, the left and the right parenthesis have different histories.
Straddles(tok, rest) ==
    /\ rest # <<>> /\ rest[1].id = "("
    /\ tok.hide # IF Closers(Tail(rest)) = {} \/ rest[1].hide # tok.hide
                  THEN rest[1].hide ELSE Tail(rest)[Closer(Tail(rest))].hide

ScanFunction ==
    /\ Running("scan") /\ Top.in # <<>>
    /\ LET tok == Head(Top.in)
           m == tok.id
           rest == Tail(Top.in)
           inner == Tail(rest)
       IN /\ m \in DOMAIN macros /\ macros[m].kind = "function"
          /\ straddled' = (straddled \/ Straddles(tok, rest))
          /\ IF ~Opens(m, rest)
             THEN Leave(tok, rest, TRUE) /\ UNCHANGED <<status, result, repainted>>
             ELSE IF ~Callable(m, inner)
             THEN Fail /\ UNCHANGED repainted
             ELSE /\ calls' = Front(calls) \o
                        <<[Top EXCEPT !.in = SubSeq(inner, Closer(inner) + 1, Len(inner))],
                          Subst(m, rest[1].hide, Bound(m, Arguments(m, inner)))>>
                  /\ repainted' = (repainted \/ m \in tok.hide)
                  /\ UNCHANGED <<status, result>>

\* substitute_defined_operator: defined X, or defined (X), on an #if line.
Defined(id) == <<Token(IF id \in DOMAIN macros THEN "1" ELSE "0", {})>>

ScanDefined ==
    /\ Running("scan") /\ Top.in # <<>>
    /\ Head(Top.in).id = "defined" /\ Top.ctx = "IF_CONDITION"
    /\ LET rest == Tail(Top.in)
           bare == Len(rest) > 0 /\ rest[1].id \in Names
           parenthesised == Len(rest) > 2 /\ rest[1].id = "("
                            /\ rest[2].id \in Names /\ rest[3].id = ")"
       IN IF bare
          THEN /\ Continue([Top EXCEPT !.in = Defined(rest[1].id) \o Tail(rest)])
               /\ UNCHANGED <<status, result>>
          ELSE IF parenthesised
          THEN /\ Continue([Top EXCEPT
                    !.in = Defined(rest[2].id) \o SubSeq(rest, 4, Len(rest))])
               /\ UNCHANGED <<status, result>>
          ELSE Fail
    /\ UNCHANGED <<repainted, straddled>>

(***************************************************************************)
(* run_replacement_list_substitutions: one round of its loop.              *)
(***************************************************************************)
IsParam(id) == id \in DOMAIN Top.args
Joins(list) == Len(list) > 0 /\ list[1].id = "##"

\* What came out last was joined, and another ## follows.
JoinsAgain == Top.joined /\ Joins(Top.repl)

\* A parameter stands for its argument, itself fully expanded by a scan that
\* sees nothing behind the argument.
SubstParameter ==
    /\ Running("subst") /\ Top.repl # <<>>
    /\ LET id == Head(Top.repl).id IN
       /\ IsParam(id) /\ ~Joins(Tail(Top.repl))
       /\ calls' = Front(calls) \o
            <<[Top EXCEPT !.repl = Tail(@), !.joined = FALSE], Scan(Top.args[id], "NORMAL")>>
    /\ UNCHANGED <<status, result, repainted, straddled>>

\* # in a function-like macro: the argument as it was written.
SubstString ==
    /\ Running("subst") /\ Top.repl # <<>>
    /\ Head(Top.repl).id = "#" /\ macros[Top.macro].kind = "function"
    /\ ~Joins(Tail(Top.repl))
    /\ LET rest == Tail(Top.repl) IN
       IF rest # <<>> /\ IsParam(rest[1].id)
       THEN /\ Continue([Top EXCEPT !.repl = Tail(rest), !.joined = FALSE,
                                    !.out = Append(@, String(Top.args[rest[1].id]))])
            /\ UNCHANGED <<status, result>>
       ELSE Fail
    /\ UNCHANGED <<repainted, straddled>>

SubstToken ==
    /\ Running("subst") /\ Top.repl # <<>>
    /\ LET tok == Head(Top.repl) IN
       /\ ~IsParam(tok.id) /\ ~JoinsAgain /\ ~Joins(Tail(Top.repl))
       /\ ~(tok.id = "#" /\ macros[Top.macro].kind = "function")
       /\ Continue([Top EXCEPT !.repl = Tail(@), !.out = Append(@, tok), !.joined = FALSE])
    /\ UNCHANGED <<status, result, repainted, straddled>>

\* An operand of ##: a parameter is its argument as it was written, of which
\* only the adjacent token is joined; an empty argument is a placemaker.
Operand(tok) ==
    IF ~IsParam(tok.id) THEN <<tok>>
    ELSE IF Top.args[tok.id] = <<>> THEN <<Placemaker>> ELSE Top.args[tok.id]

Pasted(l, r) ==
    IF l = Placemaker THEN r
    ELSE IF r = Placemaker THEN l
    ELSE Token(Paste[<<l.id, r.id>>], {})
Pastable(l, r) ==
    (l # Placemaker /\ r # Placemaker) => <<l.id, r.id>> \in DOMAIN Paste

\* , ## __VA_ARGS__: the comma goes away with an empty variable part.
CommaVaArgs(l, r) ==
    VaArgsConcat /\ macros[Top.macro].vararg /\ l.id = "," /\ r.id = VaName

\* macro_concatenation of the tokens "left" (already operands) with the
\* token r of the replacement list.
Concatenation(left, r) ==
    LET right == Operand(r) IN
    IF CommaVaArgs(Last(left), r)
    THEN Front(left) \o
         (IF Top.args[r.id] = <<>> THEN <<Placemaker>> ELSE <<Last(left)>> \o Top.args[r.id])
    ELSE Front(left) \o <<Pasted(Last(left), right[1])>> \o Tail(right)

Concatenable(left, r) ==
    ~CommaVaArgs(Last(left), r) => Pastable(Last(left), Operand(r)[1])

\* match_concatenation: X ## Y, and ## Y again while another ## follows; the
\* last token that came out is then the left operand, and is no parameter.
SubstConcat ==
    /\ Running("subst") /\ Top.repl # <<>>
    /\ LET left == IF JoinsAgain THEN <<Last(Top.out)>> ELSE Operand(Head(Top.repl))
           out == IF JoinsAgain THEN Front(Top.out) ELSE Top.out
           rest == SubSeq(Top.repl, IF JoinsAgain THEN 2 ELSE 3, Len(Top.repl))
       IN /\ JoinsAgain \/ Joins(Tail(Top.repl))
          /\ IF rest # <<>> /\ Concatenable(left, rest[1])
             THEN /\ Continue([Top EXCEPT !.repl = Tail(rest), !.joined = TRUE,
                                          !.out = out \o Concatenation(left, rest[1])])
                  /\ UNCHANGED <<status, result>>
             ELSE Fail
    /\ UNCHANGED <<repainted, straddled>>

(***************************************************************************)
(* Returns.                                                                *)
(***************************************************************************)

\* update_buffer_with_macro_expansions: every token that comes out of a
\* macro, those of its arguments included, is marked with it.
Painted(tokens, m, hide) ==
    [i \in DOMAIN tokens |-> Token(tokens[i].id, tokens[i].hide \cup hide \cup {m})]

\* user_macro_apply drops the placemakers; the rest goes back to the front
\* of the text, where the scan meets it again.
SubstReturn ==
    /\ Running("subst") /\ Top.repl = <<>>
    /\ LET tokens == SelectSeq(Top.out, LAMBDA t : t # Placemaker)
       IN calls' = SubSeq(calls, 1, Len(calls) - 2) \o
            <<[Caller EXCEPT !.in = Painted(tokens, Top.macro, Top.hide) \o @]>>
    /\ UNCHANGED <<status, result, repainted, straddled>>

ScanReturn ==
    /\ Running("scan") /\ Top.in = <<>> /\ Len(calls) > 1
    /\ calls' = SubSeq(calls, 1, Len(calls) - 2) \o
            <<[Caller EXCEPT !.out = @ \o Top.out]>>
    /\ UNCHANGED <<status, result, repainted, straddled>>

ScanEnd ==
    /\ Running("scan") /\ Top.in = <<>> /\ Len(calls) = 1
    /\ status' = "done" /\ result' = Top.out
    /\ UNCHANGED <<calls, repainted, straddled>>

Init ==
    /\ \E c \in Cases : macros = c.macros /\ text = c.text /\ context = c.context
    /\ calls = <<Scan(Plain(text), context)>>
    /\ status = "run" /\ result = <<>>
    /\ repainted = FALSE /\ straddled = FALSE

Step ==
    \/ ScanToken \/ ScanObject \/ ScanFunction \/ ScanDefined
    \/ SubstParameter \/ SubstString \/ SubstToken \/ SubstConcat
    \/ SubstReturn \/ ScanReturn \/ ScanEnd

Finished == status # "run" /\ UNCHANGED vars

Next == (Step /\ UNCHANGED <<macros, text, context>>) \/ Finished

Spec == Init /\ [][Next]_vars
FairSpec == Spec /\ WF_vars(Next)

(***************************************************************************)
(* The reference.  RefError stands for a text that is in error.            *)
(***************************************************************************)
RefError == <<Token("error", {})>>
Both(l, r) == IF l = RefError \/ r = RefError THEN RefError ELSE l \o r

\* Nesting depth after n tokens of the text behind a left parenthesis.
RECURSIVE RefDepth(_, _)
RefDepth(ts, n) ==
    IF n = 0 THEN 1
    ELSE RefDepth(ts, n - 1) +
         (IF ts[n].id = "(" THEN 1 ELSE IF ts[n].id = ")" THEN -1 ELSE 0)

RefEnds(ts) == {n \in DOMAIN ts : RefDepth(ts, n) = 0}
RefEnd(ts) == Min(RefEnds(ts))

\* The arguments: what the commas at depth one separate; the variable part
\* takes all that is left with its commas, and may be absent.
RECURSIVE RefSplit(_, _, _, _)
RefSplit(ts, from, end, left) ==
    LET at == {n \in from .. end - 1 : ts[n].id = "," /\ RefDepth(ts, n) = 1}
        n == CHOOSE n \in at : \A k \in at : n <= k
    IN IF at = {} \/ left = 0 THEN <<SubSeq(ts, from, end - 1)>>
       ELSE <<SubSeq(ts, from, n - 1)>> \o RefSplit(ts, n + 1, end, left - 1)

RefArgs(m, ts) ==
    LET argc == Len(macros[m].params)
        end == RefEnd(ts)
        split == RefSplit(ts, 1, end, IF macros[m].vararg THEN argc ELSE Len(ts))
        args == IF argc = 0 /\ ~macros[m].vararg /\ end = 1 THEN <<>> ELSE split
    IN IF macros[m].vararg /\ Len(args) = argc THEN Append(args, <<>>) ELSE args

RECURSIVE RefExpand(_), RefSubst(_, _, _, _)
RefExpand(ts) ==
    IF ts = <<>> THEN <<>>
    ELSE
    LET t == Head(ts)
        m == t.id
        rest == Tail(ts)
        inner == Tail(rest)
        end == RefEnd(inner)
        args == RefArgs(m, inner)
        mark(out, hide) ==
            [i \in DOMAIN out |-> Token(out[i].id, out[i].hide \cup hide \cup {m})]
        keep(out) == SelectSeq(out, LAMBDA x : x.id # "placemaker")
        again(out, hide, tail) ==
            IF out = RefError THEN RefError ELSE RefExpand(mark(keep(out), hide) \o tail)
    IN IF m \notin DOMAIN macros \/ m \in t.hide
       THEN Both(<<t>>, RefExpand(rest))
       ELSE IF macros[m].kind = "object"
       THEN again(RefSubst(m, macros[m].repl, <<>>, <<>>), t.hide, rest)
       ELSE IF rest = <<>> \/ rest[1].id # "("
       THEN Both(<<t>>, RefExpand(rest))
       ELSE IF RefEnds(inner) = {} \/ Len(args) # Len(Params(m))
       THEN RefError
       ELSE again(RefSubst(m, macros[m].repl,
                           [p \in ToSet(Params(m)) |->
                              args[CHOOSE i \in DOMAIN Params(m) : Params(m)[i] = p]],
                           <<>>),
                  t.hide \cap inner[end].hide,
                  SubSeq(inner, end + 1, Len(inner)))

RefSubst(m, repl, args, out) ==
    LET id == Head(repl)
        next(k) == SubSeq(repl, k, Len(repl))
        raw(p) == IF p \notin DOMAIN args THEN <<Token(p, {})>>
                  ELSE IF args[p] = <<>> THEN <<Token("placemaker", {})>> ELSE args[p]
        l == Last(out)
        r == Head(raw(repl[2]))
        glued == IF l.id = "placemaker" THEN r ELSE IF r.id = "placemaker" THEN l
                 ELSE Token(Paste[<<l.id, r.id>>], {})
        comma == VaArgsConcat /\ macros[m].vararg /\ l.id = "," /\ repl[2] = VaName
    IN IF repl = <<>> THEN out
       ELSE IF id = "#" /\ macros[m].kind = "function"
       THEN IF Len(repl) > 1 /\ repl[2] \in DOMAIN args
            THEN RefSubst(m, next(3), args, Append(out, String(args[repl[2]])))
            ELSE RefError
       ELSE IF id = "##" /\ out # <<>>
       THEN IF Len(repl) = 1 THEN RefError
            ELSE IF comma
            THEN RefSubst(m, next(3), args,
                          IF args[VaName] = <<>> THEN Append(Front(out), Token("placemaker", {}))
                          ELSE out \o args[VaName])
            ELSE IF l.id # "placemaker" /\ r.id # "placemaker"
                    /\ <<l.id, r.id>> \notin DOMAIN Paste THEN RefError
            ELSE RefSubst(m, next(3), args, Front(out) \o <<glued>> \o Tail(raw(repl[2])))
       ELSE IF id \in DOMAIN args /\ Len(repl) > 1 /\ repl[2] = "##"
       THEN RefSubst(m, next(2), args, out \o raw(id))
       ELSE IF id \in DOMAIN args
       THEN LET e == RefExpand(args[id]) IN
            IF e = RefError THEN RefError ELSE RefSubst(m, next(2), args, out \o e)
       ELSE RefSubst(m, next(2), args, Append(out, Token(id, {})))

\* On the line of an #if the operator defined goes first, and what is left
\* of the identifiers is 0.
RECURSIVE RefDefined(_)
RefDefined(ids) ==
    IF ids = <<>> THEN <<>>
    ELSE LET val(id) == IF id \in DOMAIN macros THEN "1" ELSE "0" IN
         IF Head(ids) # "defined" THEN <<Head(ids)>> \o RefDefined(Tail(ids))
         ELSE IF Len(ids) > 1 /\ ids[2] \in Names
         THEN <<val(ids[2])>> \o RefDefined(SubSeq(ids, 3, Len(ids)))
         ELSE IF Len(ids) > 3 /\ ids[2] = "(" /\ ids[3] \in Names /\ ids[4] = ")"
         THEN <<val(ids[3])>> \o RefDefined(SubSeq(ids, 5, Len(ids)))
         ELSE <<"error">>

Reference ==
    IF context = "NORMAL" THEN Spelling(RefExpand(Plain(text)))
    ELSE IF "error" \in ToSet(RefDefined(text)) THEN <<"error">>
    ELSE LET out == Spelling(RefExpand(Plain(RefDefined(text)))) IN
         [i \in DOMAIN out |-> IF out[i] \in Names THEN "0" ELSE out[i]]

(***************************************************************************)
(* Properties.                                                             *)
(***************************************************************************)

\* The text that comes out is the one the C standard prescribes, and an error
\* is reported exactly for a text that is in error, whenever no call took its
\* name and its parentheses out of different macros.
FollowsStandard ==
    (status # "run" /\ ~straddled) =>
        (IF status = "done" THEN Spelling(result) ELSE <<"error">>) = Reference

\* C17 6.10.3.4: the name of a macro found while its own replacement is
\* scanned is not replaced, and is not available for replacement later.
NeverReplacedAgain == ~repainted
=============================================================================
