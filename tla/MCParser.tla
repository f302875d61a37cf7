------------------------------ MODULE MCParser ------------------------------
(***************************************************************************)
(* Two instances of ParserPragmas: pack pragmas between all kinds of       *)
(* tokens, with one error to recover from, and garbage to recover from,    *)
(* with two.                                                               *)
(***************************************************************************)
EXTENDS ParserPragmas

VARIABLE part

OfLength(n, S) == [1 .. n -> S]

\* Pack pragmas of every kind between ordinary tokens, and blocks with pack pragmas inside and
\* around them.
PackInputs ==
    {<<"push1">> \o t : t \in OfLength(4, {"x", "push1", "value2", "pop"})}
      \cup OfLength(3, {"x", "push1", "value2", "pop"})
      \cup OfLength(3, Pragmas \cup {"x", "semicolon"})
      \cup {<<"lbrace", "x">> \o t : t \in OfLength(3, {"x", "push1", "pop", "rbrace"})}
      \cup {<<"push1", "lbrace", "x", "push", "value2", "rbrace", "pop", "x">>,
            <<"push1", "lbrace", "value2", "x", "rbrace", "pop", "x">>}

\* Braces, semicolons and a pragma in any order.
GarbageInputs ==
    OfLength(4, {"x", "lbrace", "rbrace", "semicolon"})
      \cup {<<"x">> \o t : t \in OfLength(4, {"lbrace", "rbrace", "semicolon"})}
      \cup OfLength(4, {"fp", "lbrace", "rbrace"})

Garbage == INSTANCE ParserPragmas WITH Inputs <- GarbageInputs, MaxDepth <- 5, MaxTries <- 1, MaxErrors <- 3

MCInit ==
    \/ part = "pack" /\ Init
    \/ part = "garbage" /\ Garbage!Init

MCNext ==
    \/ part = "pack" /\ Next /\ UNCHANGED part
    \/ part = "garbage" /\ Garbage!Next /\ UNCHANGED part

\* The parser is one thread that runs until it returns.
MCSpec == MCInit /\ [][MCNext]_<<part, vars>> /\ WF_<<part, vars>>(MCNext)
=============================================================================
