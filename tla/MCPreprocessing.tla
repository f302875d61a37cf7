-------------------------- MODULE MCPreprocessing ---------------------------
(***************************************************************************)
(* The two halves of the preprocessor, replacement of macros and           *)
(* directives, over small programs.                                        *)
(***************************************************************************)
EXTENDS PreprocessorReference

CONSTANT Unfinished  \* whether programs may leave a conditional section open

VARIABLES part, macros, text, context, calls, result, repainted, straddled

macroVars == <<macros, text, context, calls, result, repainted, straddled>>
fileVars == <<files, open, user_macros, include_once, output>>

Object(repl) == [kind |-> "object", params |-> <<>>, vararg |-> FALSE, repl |-> repl]
Function(params, repl) ==
    [kind |-> "function", params |-> params, vararg |-> FALSE, repl |-> repl]
Variadic(params, repl) ==
    [kind |-> "function", params |-> params, vararg |-> TRUE, repl |-> repl]

VaName == "__VA_ARGS__"

Lists(alphabet, n) == UNION {[1 .. k -> alphabet] : k \in 0 .. n}

MCPaste == <<"a", "b">> :> "ab" @@ <<"a", "a">> :> "a" @@ <<"f", "u">> :> "f"
           @@ <<"u", "f">> :> "f" @@ <<"ab", "b">> :> "u"

\* Every pair of an object-like and a function-like macro with short lists.
RecursionCases ==
    {[macros |-> [a |-> Object(ra), f |-> Function(<<"x">>, rf)], text |-> t, context |-> "NORMAL"] :
        ra \in Lists({"a", "f", "(", "u"}, 2),
        rf \in Lists({"a", "f", "x", "("}, 2) \cup
               {<<"f", "(", "x", ")">>, <<"a", "(", "x", ")">>, <<"x", "(", "f", ")">>},
        t \in {<<"f", "(", "a", ")">>, <<"f", "(", "f", ")", "(", "u", ")">>,
               <<"a", "(", "a", ")">>, <<"f", "(", "f", "(", "a", ")", ")">>,
               <<"f", "(", "a", ",", "u", ")", ")">>, <<"a", "u", ")", "a", ")">>}}

\* Two function-like macros that may name and call each other.
MutualLists ==
    Lists({"f", "g", "x", "("}, 2) \cup
    {<<"f", "(", "x", ")">>, <<"g", "(", "x", ")">>, <<"x", "g", "(", "f", ")">>,
     <<"x", "f">>, <<"x", "x">>}
MutualCases ==
    {[macros |-> [f |-> Function(<<"x">>, rf), g |-> Function(<<"x">>, rg)], text |-> t, context |-> "NORMAL"] :
        rf \in MutualLists, rg \in MutualLists,
        t \in {<<"f", "(", "g", ")", "(", "u", ")">>, <<"f", "(", "u", ")", "(", "f", ")", "(", "g", ")">>,
               <<"f", "(", "g", "(", "f", ")", ")", "(", "u", ")">>}}

\* The operators: a function-like macro with two parameters, over all lists
\* of up to four elements that do not begin or end with an operator; the longer
\* ones have one.
OperatorLists ==
    {l \in Lists({"x", "y", "a", "##", "#"}, 4) :
        /\ \A i \in DOMAIN l : l[i] = "##" =>
              /\ 1 < i /\ i < Len(l)
              /\ l[i + 1] \notin {"#", "##"}
              /\ i > 2 => l[i - 2] # "#"
        /\ \A i \in DOMAIN l : l[i] = "#" => i < Len(l) /\ l[i + 1] # "##"
        /\ Len(l) > 2 => \E i \in DOMAIN l : l[i] \in {"#", "##"}}
OperatorCases ==
    {[macros |-> [f |-> Function(<<"x", "y">>, l), a |-> Object(<<"b">>),
                 ab |-> Object(<<"a", "##", "b", "u">>)],
      text |-> <<"f", "(">> \o x \o <<",">> \o y \o <<")">>, context |-> "NORMAL"] :
        l \in OperatorLists, x \in {<<>>, <<"a">>, <<"u", "a">>}, y \in {<<>>, <<"b">>, <<"ab", "u">>}}

\* Calls with a variable part.
VariadicLists ==
    {<<VaName>>, <<"a", ",", "##", VaName>>, <<"a", "##", VaName>>, <<"#", VaName>>,
     <<VaName, ",", "##", VaName>>, <<VaName, "##", "b">>}
Actuals ==
    {<<>>, <<"a">>, <<",">>, <<"a", ",">>, <<"u", ",", "a">>, <<"a", ",", "b", ",", "u">>,
     <<"(", ",", ")">>, <<"(">>, <<"a", ",", "f", "(", "b", ",", "u", ")">>}
VariadicCases ==
    {[macros |-> [f |-> def, a |-> Object(<<"b">>)], text |-> <<"f", "(">> \o t \o <<")">>, context |-> "NORMAL"] :
        def \in {Variadic(<<>>, l) : l \in VariadicLists}
                \cup {Function(<<"x", "y">>, <<"y", "x">>), Function(<<>>, <<"a">>)},
        t \in Actuals}
    \cup
    {[macros |-> [f |-> Variadic(<<"x">>, l \o <<"x">>), a |-> Object(<<"b">>)],
      text |-> <<"f", "(">> \o t \o <<")">>, context |-> "NORMAL"] : l \in VariadicLists, t \in Actuals \ {<<>>}}

\* Lines of #if, without the operator defined in an argument of a macro:
\* that is undefined.
ConditionCases ==
    {[macros |-> [a |-> Object(<<"b">>), f |-> Function(<<"x">>, <<"x", "f">>)], text |-> t, context |-> "IF_CONDITION"] :
        t \in {l \in Lists({"a", "f", "u", "(", ")", "defined"}, 4) :
                 \A i, j \in DOMAIN l : (l[i] = "f" /\ l[j] = "defined" /\ i + 1 < j) => l[i + 1] # "("}}

MCCases == RecursionCases \cup MutualCases \cup OperatorCases \cup VariadicCases \cup ConditionCases

One(lists) == {[main |-> l] : l \in lists}

T == Line("text", "")
ConditionLines ==
    {T, Line("if", "0"), Line("if", "1"), Line("elif", "1"), Line("elif", "bad"),
     Line("else", ""), Line("endif", "")}
ConditionSources ==
    One(Lists(ConditionLines, 3) \cup
        {<<Line("if", c)>> \o l : c \in {"0", "1"}, l \in Lists(ConditionLines, 4)})

MacroLines ==
    {T, Line("ifdef", "M"), Line("ifndef", "M"), Line("elifdef", "M"), Line("elifndef", "M"),
     Line("define", "M"), Line("undef", "M"), Line("else", ""), Line("endif", "")}
MacroSources == One({l \o <<T>> : l \in Lists(MacroLines, 3)})

Headers ==
    {<<T>>, <<Line("once", ""), T>>, <<Line("once", ""), T, Line("include", "g")>>,
     <<Line("ifndef", "H"), Line("define", "H"), T, Line("include", "g"), Line("endif", "")>>,
     <<Line("ifndef", "H"), Line("include", "g"), Line("define", "H"), T, Line("endif", "")>>,
     <<Line("ifdef", "M"), Line("include", "g"), Line("else", ""), T, Line("endif", "")>>,
     <<Line("include", "g"), Line("undef", "M"), T>>, <<Line("error", "")>>,
     <<Line("if", "1"), T>>}
Others ==
    {<<T, Line("include", "h")>>, <<Line("once", ""), Line("include", "h"), T>>,
     <<Line("ifndef", "G"), Line("define", "G"), Line("include", "h"), T, Line("endif", "")>>,
     <<Line("undef", "H"), Line("define", "M")>>}
IncludeLines ==
    {T, Line("include", "h"), Line("include", "g"), Line("define", "M"), Line("if", "0"),
     Line("endif", ""), Line("include", "missing")}
IncludeSources ==
    {[main |-> l, h |-> h, g |-> g] :
        l \in {m \in Lists(IncludeLines, 3) : Len(m) = 3 => m[1] \in {Line("define", "M"), Line("include", "h")}},
        h \in Headers, g \in Others}

\* Programs without an #else met twice or an #elif behind one, but with
\* sections that are left open.
UnclosedSources ==
    {s \in One(Lists(ConditionLines, 3)) : \A i \in DOMAIN s.main : s.main[i].kind # "else"}

MCSources == IF Unfinished THEN UnclosedSources
             ELSE ConditionSources \cup MacroSources \cup IncludeSources

M == INSTANCE MacroExpansion WITH Cases <- IF Unfinished THEN {} ELSE MCCases, Paste <- MCPaste,
        VaArgsConcat <- TRUE

\* The short lines of an #if come first.
MCInit ==
    \/ /\ part = "macros"
       /\ \/ context = "IF_CONDITION" /\ M!Init
          \/ context = "NORMAL" /\ M!Init
       /\ files = <<>> /\ open = <<>> /\ user_macros = {} /\ include_once = {} /\ output = <<>>
    \/ /\ part = "files" /\ Init
       /\ macros = <<>> /\ text = <<>> /\ context = "" /\ calls = <<>> /\ result = <<>>
       /\ repainted = FALSE /\ straddled = FALSE

MCNext ==
    \/ part = "macros" /\ M!Next /\ UNCHANGED <<part, fileVars>>
    \/ part = "files" /\ Next /\ UNCHANGED <<part, macroVars>>

\* The preprocessor is one thread that runs until it returns.
MCSpec == MCInit /\ [][MCNext]_<<part, macroVars, fileVars, status>>
                 /\ WF_<<part, macroVars, fileVars, status>>(MCNext)

\* The text that comes out of the replacement of macros is the one the C standard prescribes, and
\* an error is reported exactly for a text that is in error, whenever no call took its name and
\* its parentheses out of different macros.
MacrosFollowStandard == part = "macros" => M!FollowsStandard

\* Of a program whose directives are in order, exactly the lines are processed, in the order and
\* with the macros, that the nesting of its conditional sections and inclusions prescribes.
LinesFollowStandard == part = "files" => FollowsStandard

\* Replacement ends, however macros refer to each other; and files that include each other do
\* not exhaust the depth of inclusion when each is guarded.
Terminates == (part = "macros" ~> status # "run") /\ (part = "files" => InclusionEnds)
=============================================================================
