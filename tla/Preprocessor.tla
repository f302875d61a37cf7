---------------------------- MODULE Preprocessor ----------------------------
(***************************************************************************)
(* The directives of the preprocessor (source/preprocessor/preprocessor.c  *)
(* and source/preprocessor/directives.c): conditional groups, definitions, *)
(* inclusion of files, #pragma once and #error.                            *)
(*                                                                         *)
(* A file is a sequence of lines.  A line is a record: "kind" is the       *)
(* directive, or "text"; "arg" is the macro or the file it names, or the   *)
(* value of its condition ("0", "1", or "bad" when it cannot be            *)
(* evaluated); "lead" is what stands before the name of the directive, and *)
(* "tail" what follows it that its syntax does not provide for.            *)
(* Each included file runs in a preprocessor of its own, with its own      *)
(* stack of conditions, inside the call that includes it: the variable     *)
(* "open" is the stack of those calls.  Macros and the set of files not to *)
(* be included again are shared.  What a line of text produces is told by  *)
(* where it stands and by the macros defined when it is met.               *)
(***************************************************************************)
EXTENDS Naturals, FiniteSets, Sequences

CONSTANTS
    Sources,     \* the sets of files to consider: file name -> lines
    Main,        \* the file that is preprocessed
    MaxDepth     \* bound on nested inclusion; the code has none

Ifs == {"if", "ifdef", "ifndef"}
Elifs == {"elif", "elifdef", "elifndef"}
Kinds == Ifs \cup Elifs \cup
    {"else", "endif", "text", "define", "undef", "once", "error", "include"}

LineType ==
    [kind : Kinds, arg : STRING,
     lead : {"none", "comment", "digraph"}, tail : {"none", "#if"}]

\* A program is some files of lines, the main file among them.
ASSUME SourcesAssumption ==
    \A s \in Sources : Main \in DOMAIN s /\ \A f \in DOMAIN s : s[f] \in Seq(LineType)

VARIABLES
    files,          \* the files of this run
    open,           \* stack of [file, pos, conds]
    user_macros,    \* the names defined
    include_once,   \* the files marked by #pragma once
    output,         \* what the lines of text produced
    status          \* "run", "done", "error", or "deep" beyond MaxDepth

vars == <<files, open, user_macros, include_once, output, status>>

SUCCESS == "SUCCESS"
FAIL == "FAIL"

Line(kind, arg) == [kind |-> kind, arg |-> arg, lead |-> "none", tail |-> "none"]

\* kefir_preprocessor_directive_scanner_match: a directive is a line whose
\* first character other than white space is #.  A comment there, or the
\* other spelling of #, makes the line text.
Directive(line) == IF line.lead = "none" THEN line.kind ELSE "text"

\* Stacks are sequences that grow at the end.
Top(stack) == stack[Len(stack)]
Pop(stack) == SubSeq(stack, 1, Len(stack) - 1)

Cur == Top(open)
Lines == files[Cur.file]
Here == Lines[Cur.pos]
At(kinds) == status = "run" /\ Cur.pos <= Len(Lines) /\ Directive(Here) \in kinds

\* The stack after this line of the file on top of it.
Moved(pos, conds) ==
    [open EXCEPT ![Len(open)] = [@ EXCEPT !.pos = pos, !.conds = conds]]
Proceed(pos, conds) == open' = Moved(pos, conds)
Advance == Proceed(Cur.pos + 1, Cur.conds)

Error ==
    /\ status' = "error"
    /\ UNCHANGED <<open, user_macros, include_once, output>>

(***************************************************************************)
(* kefir_preprocessor_skip_group: from a line on, the next #elif, #else or *)
(* #endif of the same group, or the end of the file.  The rest of a line   *)
(* is skipped too, except behind an #elif or an #else of a nested group:   *)
(* an #if that stands there is taken for a directive.                      *)
(***************************************************************************)
Opens(line) ==
    \/ Directive(line) \in Ifs
    \/ Directive(line) \in Elifs \cup {"else"} /\ line.tail = "#if"

\* Mutant: the groups inside the one that is skipped are not told apart.
BalancedAlways(lines, from, to) == TRUE

\* nested_ifs when line "to" is reached.
Balanced(lines, from, to) ==
    Cardinality({i \in from .. to - 1 : Opens(lines[i])}) =
    Cardinality({i \in from .. to - 1 : Directive(lines[i]) = "endif"})

GroupEnds(lines, from) ==
    {p \in from .. Len(lines) :
        /\ Directive(lines[p]) \in Elifs \cup {"else", "endif"}
        /\ Balanced(lines, from, p)}

SkipGroup(lines, from) ==
    LET ends == GroupEnds(lines, from) IN
    IF ends = {} THEN Len(lines) + 1
    ELSE CHOOSE p \in ends : \A q \in ends : p <= q

(***************************************************************************)
(* Conditional groups.                                                     *)
(***************************************************************************)

\* The condition of the line: its value, and whether it can be evaluated.
Evaluates(line) == line.kind \in {"if", "elif"} => line.arg # "bad"
Holds(line) ==
    \/ line.kind \in {"if", "elif"} /\ line.arg = "1"
    \/ line.kind \in {"ifdef", "elifdef"} /\ line.arg \in user_macros
    \/ line.kind \in {"ifndef", "elifndef"} /\ line.arg \notin user_macros

\* #if, #ifdef, #ifndef: one more condition, and its group is skipped when
\* it fails.
DoIf ==
    /\ At(Ifs)
    /\ IF ~Evaluates(Here) THEN Error
       ELSE /\ IF Holds(Here)
               THEN Proceed(Cur.pos + 1, Append(Cur.conds, SUCCESS))
               ELSE Proceed(SkipGroup(Lines, Cur.pos + 1), Append(Cur.conds, FAIL))
            /\ UNCHANGED <<user_macros, include_once, output, status>>

\* #elif, #elifdef, #elifndef: the condition is looked at only when no group
\* was taken.
DoElif ==
    /\ At(Elifs)
    /\ IF Cur.conds = <<>> THEN Error
       ELSE IF Top(Cur.conds) = FAIL /\ ~Evaluates(Here) THEN Error
       ELSE /\ IF Top(Cur.conds) = FAIL /\ Holds(Here)
               THEN Proceed(Cur.pos + 1, Append(Pop(Cur.conds), SUCCESS))
               ELSE Proceed(SkipGroup(Lines, Cur.pos + 1), Cur.conds)
            /\ UNCHANGED <<user_macros, include_once, output, status>>

\* #else: taken when nothing was; it leaves the same mark as a taken group.
DoElse ==
    /\ At({"else"})
    /\ IF Cur.conds = <<>> THEN Error
       ELSE /\ IF Top(Cur.conds) = FAIL
               THEN Proceed(Cur.pos + 1, Append(Pop(Cur.conds), SUCCESS))
               ELSE Proceed(SkipGroup(Lines, Cur.pos + 1), Cur.conds)
            /\ UNCHANGED <<user_macros, include_once, output, status>>

DoEndif ==
    /\ At({"endif"})
    /\ IF Cur.conds = <<>> THEN Error
       ELSE /\ Proceed(Cur.pos + 1, Pop(Cur.conds))
            /\ UNCHANGED <<user_macros, include_once, output, status>>

(***************************************************************************)
(* The other lines.                                                        *)
(***************************************************************************)
DoText ==
    /\ At({"text"})
    /\ output' = Append(output, <<Cur.file, Cur.pos, user_macros>>)
    /\ Advance
    /\ UNCHANGED <<user_macros, include_once, status>>

\* process_define replaces an earlier definition, process_undef drops one.
DoDefine ==
    /\ At({"define"})
    /\ user_macros' = user_macros \cup {Here.arg}
    /\ Advance
    /\ UNCHANGED <<include_once, output, status>>

DoUndef ==
    /\ At({"undef"})
    /\ user_macros' = user_macros \ {Here.arg}
    /\ Advance
    /\ UNCHANGED <<include_once, output, status>>

\* Mutant: the file that includes is marked.
DoPragmaOnceParent ==
    /\ At({"once"})
    /\ include_once' = include_once \cup {Head(open).file}
    /\ Advance
    /\ UNCHANGED <<user_macros, output, status>>

DoPragmaOnce ==
    /\ At({"once"})
    /\ include_once' = include_once \cup {Cur.file}
    /\ Advance
    /\ UNCHANGED <<user_macros, output, status>>

DoError == At({"error"}) /\ Error

\* process_include: a file marked by #pragma once is opened and closed again;
\* any other runs to its end before the line behind the directive is read.
DoInclude ==
    /\ At({"include"})
    /\ LET after == Moved(Cur.pos + 1, Cur.conds)
       IN IF Here.arg \notin DOMAIN files THEN Error
          ELSE IF Here.arg \in include_once
          THEN open' = after /\ UNCHANGED <<user_macros, include_once, output, status>>
          ELSE IF Len(open) = MaxDepth
          THEN status' = "deep" /\ UNCHANGED <<open, user_macros, include_once, output>>
          ELSE /\ open' = Append(after, [file |-> Here.arg, pos |-> 1, conds |-> <<>>])
               /\ UNCHANGED <<user_macros, include_once, output, status>>

\* The end of a file: kefir_preprocessor_state_free drops its conditions.
EndOfFile ==
    /\ status = "run" /\ Cur.pos > Len(Lines)
    /\ IF Len(open) = 1
       THEN status' = "done" /\ UNCHANGED open
       ELSE open' = Pop(open) /\ UNCHANGED status
    /\ UNCHANGED <<user_macros, include_once, output>>

Init ==
    /\ files \in Sources
    /\ open = <<[file |-> Main, pos |-> 1, conds |-> <<>>]>>
    /\ user_macros = {} /\ include_once = {} /\ output = <<>>
    /\ status = "run"

Step ==
    \/ DoIf \/ DoElif \/ DoElse \/ DoEndif
    \/ DoText \/ DoDefine \/ DoUndef \/ DoPragmaOnce \/ DoError
    \/ DoInclude \/ EndOfFile

Finished == status # "run" /\ UNCHANGED vars

Next == (Step /\ UNCHANGED files) \/ Finished

Spec == Init /\ [][Next]_vars
FairSpec == Spec /\ WF_vars(Next)

(***************************************************************************)
(* Properties.                                                             *)
(***************************************************************************)
\* A file that begins with #pragma once.
OnceGuarded(f) == files[f] # <<>> /\ Directive(files[f][1]) = "once"

\* A file that is one section #ifndef, begins by defining the macro it tests,
\* and whose macro no #undef names.
MacroGuarded(f) ==
    /\ Len(files[f]) > 2
    /\ Directive(files[f][1]) = "ifndef" /\ Directive(files[f][2]) = "define"
    /\ files[f][1].arg = files[f][2].arg
    /\ Directive(files[f][Len(files[f])]) = "endif"
    /\ GroupEnds(files[f], 2) = {Len(files[f])}
    /\ \A g \in DOMAIN files : \A i \in DOMAIN files[g] :
         Directive(files[g][i]) = "undef" => files[g][i].arg # files[f][1].arg

Guarded(f) == OnceGuarded(f) \/ MacroGuarded(f)

\* A file guarded by #pragma once, or by a macro it defines itself, gives its
\* text at most once, whoever includes whom in the meantime.  The path of the
\* main file is the one of the command line, not the one it is included by.
GuardedTextOnce ==
    \A i, j \in DOMAIN output :
        (output[i][1] = output[j][1] /\ output[i][2] = output[j][2] /\ Guarded(output[i][1])
         /\ output[i][1] # Main) => i = j

\* Preprocessing ends, and files that include each other do not exhaust the
\* depth of inclusion, which the code does not bound, when each is guarded.
InclusionEnds ==
    <>(\/ status \in {"done", "error"}
       \/ status = "deep" /\ \E f \in DOMAIN files \ {Main} : ~Guarded(f))
=============================================================================
