----------------------- MODULE PreprocessorReference ------------------------
(***************************************************************************)
(* What the C standard says of the directives the preprocessor processes   *)
(* (C17 6.10.1, 6.10.2): a program is read by the nesting of its sections. *)
(***************************************************************************)
EXTENDS Preprocessor, SequencesExt

(***************************************************************************)
(* The reference.  A section is [live, taken, last]: whether the current   *)
(* group is processed, whether a group of the section was, and whether its *)
(* #else was met.                                                          *)
(***************************************************************************)
RefLive(st) == st.sections = <<>> \/ Last(st.sections).live
RefOuter(st) == Len(st.sections) = 1 \/ st.sections[Len(st.sections) - 1].live

RefCond(line, defined) ==
    CASE line.kind \in {"if", "elif"} -> line.arg = "1"
      [] line.kind \in {"ifdef", "elifdef"} -> line.arg \in defined
      [] OTHER -> line.arg \notin defined
RefBad(line) == line.kind \in {"if", "elif"} /\ line.arg = "bad"

Wrong(st) == [st EXCEPT !.result = "error"]

RECURSIVE RefRun(_, _, _, _)

\* One line of a file.
RefStep(st, file, pos, depth) ==
    LET line == files[file][pos]
        live == RefLive(st)
        sec == Last(st.sections)
        replace(s) == [st EXCEPT !.sections = Front(@) \o <<s>>]
    IN CASE line.kind \in Ifs ->
              IF live /\ RefBad(line) THEN Wrong(st)
              ELSE LET c == live /\ RefCond(line, st.defined) IN
                   [st EXCEPT !.sections = Append(@, [live |-> c, taken |-> c, last |-> FALSE])]
         [] line.kind \in Elifs ->
              IF st.sections = <<>> \/ (st.sections # <<>> /\ sec.last) THEN Wrong(st)
              ELSE LET look == RefOuter(st) /\ ~sec.taken IN
                   IF look /\ RefBad(line) THEN Wrong(st)
                   ELSE LET c == look /\ RefCond(line, st.defined) IN
                        replace([live |-> c, taken |-> sec.taken \/ c, last |-> FALSE])
         [] line.kind = "else" ->
              IF st.sections = <<>> \/ (st.sections # <<>> /\ sec.last) THEN Wrong(st)
              ELSE replace([live |-> RefOuter(st) /\ ~sec.taken, taken |-> TRUE, last |-> TRUE])
         [] line.kind = "endif" ->
              IF st.sections = <<>> THEN Wrong(st) ELSE [st EXCEPT !.sections = Front(@)]
         [] ~live -> st
         [] line.kind = "text" ->
              [st EXCEPT !.out = Append(@, <<file, pos, st.defined>>)]
         [] line.kind = "define" -> [st EXCEPT !.defined = @ \cup {line.arg}]
         [] line.kind = "undef" -> [st EXCEPT !.defined = @ \ {line.arg}]
         [] line.kind = "once" -> [st EXCEPT !.once = @ \cup {file}]
         [] line.kind = "error" -> Wrong(st)
         [] line.kind = "include" ->
              IF line.arg \notin DOMAIN files THEN Wrong(st)
              ELSE IF line.arg \in st.once THEN st
              ELSE IF depth = MaxDepth THEN [st EXCEPT !.result = "deep"]
              ELSE LET inner == RefRun([st EXCEPT !.sections = <<>>], line.arg, 1, depth + 1)
                   IN [inner EXCEPT !.sections = st.sections]

RefRun(st, file, pos, depth) ==
    IF st.result # "done" THEN st
    ELSE IF pos > Len(files[file])
    THEN IF st.sections = <<>> THEN st ELSE Wrong(st)
    ELSE RefRun(RefStep(st, file, pos, depth), file, pos + 1, depth)

Reference ==
    RefRun([sections |-> <<>>, defined |-> {}, once |-> {}, out |-> <<>>, result |-> "done"],
           Main, 1, 1)

(***************************************************************************)
(* Properties.                                                             *)
(***************************************************************************)
\* Of a program whose directives are in order, exactly the lines are
\* processed, in the order and with the macros, that the nesting of its
\* conditional sections and inclusions prescribes; conditions that decide
\* nothing are not evaluated.
FollowsStandard ==
    status # "run" =>
        (Reference.result # "error" =>
            status = Reference.result /\ output = Reference.out)

\* A program whose directives do not nest is refused: C17 6.10 makes an
\* unfinished section, or what follows an #else, a violation of the syntax.
MalformedRefused == status = "done" => Reference.result # "error"
=============================================================================
