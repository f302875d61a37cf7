------------------------- MODULE PreprocessorProofs -------------------------
(***************************************************************************)
(* A guarded file gives its text at most once, for every program and every *)
(* depth of inclusion.                                                     *)
(*                                                                         *)
(* The two guards are treated alike.  A file of either kind has a line     *)
(* where its guard is set, and is entered when it is read from that line   *)
(* on.  While it is entered for the first time the guard becomes set, and  *)
(* stays set for good; nobody enters a file whose guard is set.            *)
(***************************************************************************)
EXTENDS Preprocessor, WellFoundedInduction, TLAPS

\* The line that sets the guard of a file, and whether it is set.
GuardLine(f) == IF OnceGuarded(f) THEN 1 ELSE 2
Marked(f) ==
    IF OnceGuarded(f) THEN f \in include_once ELSE files[f][1].arg \in user_macros

\* The lines of a guarded file that are reached only by entering it.  The
\* last line of a section #ifndef is reached by skipping it as well.
Inside(f, p) == GuardLine(f) <= p /\ (OnceGuarded(f) \/ p < Len(files[f]))

Frame == [file : DOMAIN files, pos : Nat \ {0}, conds : Seq({SUCCESS, FAIL})]

TypeInv ==
    /\ files \in Sources
    /\ open \in Seq(Frame) /\ open # <<>>
    /\ output \in Seq((DOMAIN files) \X (Nat \ {0}) \X (SUBSET STRING))
    /\ user_macros \in SUBSET STRING
    /\ status \in {"run", "done", "error", "deep"}

\* A file that is suspended stands behind an #include.
StackInv ==
    \A k \in 1 .. Len(open) - 1 :
        /\ open[k].pos > 1
        /\ Directive(files[open[k].file][open[k].pos - 1]) = "include"

\* The guard is not set when its line is reached; it is set behind it, and
\* when the file has given text.
MarkInv ==
    \A f \in DOMAIN files : Guarded(f) =>
        /\ \A k \in DOMAIN open : open[k].file = f =>
              /\ open[k].pos = GuardLine(f) => ~Marked(f)
              /\ Inside(f, open[k].pos) /\ open[k].pos # GuardLine(f) => Marked(f)
        /\ \A i \in DOMAIN output : output[i][1] = f => Marked(f)

\* A guarded file is entered once at a time.
OneInv ==
    \A k, l \in DOMAIN open :
        ( /\ open[k].file = open[l].file /\ Guarded(open[k].file)
          /\ Inside(open[k].file, open[k].pos) /\ Inside(open[l].file, open[l].pos) ) => k = l

\* What it has given comes from lines before the one it has reached.
BehindInv ==
    \A k \in DOMAIN open, i \in DOMAIN output :
        ( /\ output[i][1] = open[k].file /\ Guarded(open[k].file)
          /\ Inside(open[k].file, open[k].pos) ) => output[i][2] < open[k].pos

TextOnce ==
    \A i, j \in DOMAIN output :
        (output[i][1] = output[j][1] /\ output[i][2] = output[j][2] /\ Guarded(output[i][1])) => i = j

Inv == TypeInv /\ StackInv /\ MarkInv /\ OneInv /\ BehindInv /\ TextOnce

-----------------------------------------------------------------------------
\* Every set of numbers that is not empty has a least one.
LEMMA LeastLine ==
  ASSUME NEW S \in SUBSET Nat, S # {}
  PROVE  \E p \in S : \A q \in S : p <= q
  <1> DEFINE R == {ss \in Nat \X Nat : ss[1] < ss[2]}
  <1>1. IsWellFoundedOn(R, Nat)
    BY NatLessThanWellFounded, Zenon DEF OpToRel
  <1> HIDE DEF R
  <1>2. PICK p \in S : \A q \in S : <<q, p>> \notin R
    BY <1>1, WFMin
  <1>3. \A q \in S : ~(q < p)
    BY <1>2 DEF R
  <1> QED BY <1>3

\* Skipping a group never goes back, and ends at the only line that can end
\* the group.
LEMMA SkipForward ==
  ASSUME NEW lines, Len(lines) \in Nat, NEW from \in Nat, from <= Len(lines) + 1
  PROVE  /\ SkipGroup(lines, from) \in Nat /\ SkipGroup(lines, from) >= from
         /\ \A n : GroupEnds(lines, from) = {n} => SkipGroup(lines, from) = n
  <1> DEFINE ends == GroupEnds(lines, from)
  <1>1. ends \subseteq from .. Len(lines)
    BY DEF GroupEnds
  <1> HIDE DEF ends
  <1>2. CASE ends = {}
    BY <1>2 DEF SkipGroup, ends
  <1>3. CASE ends # {}
    <2>1. \E p \in ends : \A q \in ends : p <= q
      BY <1>1, <1>3, LeastLine
    <2>2. SkipGroup(lines, from) \in ends
      BY <1>3, <2>1, Zenon DEF SkipGroup, ends
    <2> QED BY <1>1, <2>2 DEF ends
  <1> QED BY <1>2, <1>3

\* The files, and the one that is read.
LEMMA CurFacts ==
  ASSUME TypeInv
  PROVE  /\ Len(open) \in Nat \ {0} /\ DOMAIN open = 1 .. Len(open)
         /\ Cur = open[Len(open)] /\ Cur \in Frame
         /\ \A k \in DOMAIN open : open[k] \in Frame
         /\ \A f \in DOMAIN files : files[f] \in Seq(LineType)
         /\ Lines \in Seq(LineType) /\ Len(Lines) \in Nat
  <1>1. \A f \in DOMAIN files : files[f] \in Seq(LineType)
    BY SourcesAssumption DEF TypeInv
  <1>2. /\ Len(open) \in Nat \ {0} /\ DOMAIN open = 1 .. Len(open)
        /\ \A k \in DOMAIN open : open[k] \in Frame
    BY DEF TypeInv
  <1>3. Cur = open[Len(open)] /\ Cur \in Frame
    BY <1>2 DEF Cur, Top
  <1> QED BY <1>1, <1>2, <1>3 DEF Lines, Frame

\* The guards of the files are a matter of their text.
LEMMA GuardsStay ==
  ASSUME UNCHANGED files
  PROVE  /\ \A f : (OnceGuarded(f)' <=> OnceGuarded(f)) /\ (MacroGuarded(f)' <=> MacroGuarded(f))
         /\ \A f : (Guarded(f)' <=> Guarded(f)) /\ GuardLine(f)' = GuardLine(f)
         /\ \A f, p : Inside(f, p)' <=> Inside(f, p)
         /\ Frame' = Frame
  <1>1. \A f : (OnceGuarded(f)' <=> OnceGuarded(f)) /\ (MacroGuarded(f)' <=> MacroGuarded(f))
    BY DEF OnceGuarded, MacroGuarded
  <1> QED BY <1>1 DEF Guarded, GuardLine, Inside, Frame

\* What the lines of a guarded file say of its guard.
LEMMA GuardFacts ==
  ASSUME NEW f
  PROVE  /\ OnceGuarded(f) => /\ ~MacroGuarded(f) /\ GuardLine(f) = 1
                              /\ Directive(files[f][1]) = "once"
                              /\ \A p : Inside(f, p) <=> 1 <= p
                              /\ Marked(f) <=> f \in include_once
         /\ MacroGuarded(f) => /\ ~OnceGuarded(f) /\ GuardLine(f) = 2
                               /\ Len(files[f]) > 2
                               /\ Directive(files[f][1]) = "ifndef"
                               /\ Directive(files[f][2]) = "define"
                               /\ Directive(files[f][Len(files[f])]) = "endif"
                               /\ \A p : Inside(f, p) <=> 2 <= p /\ p < Len(files[f])
                               /\ Marked(f) <=> files[f][1].arg \in user_macros
  BY DEF OnceGuarded, MacroGuarded, GuardLine, Inside, Marked

\* The frame on top moves to another line.
LEMMA TopMoves ==
  ASSUME TypeInv, NEW p \in Nat \ {0}, NEW c \in Seq({SUCCESS, FAIL}), NEW s, s = Moved(p, c)
  PROVE  /\ s \in Seq(Frame) /\ s # <<>>
         /\ Len(s) = Len(open) /\ DOMAIN s = DOMAIN open
         /\ \A k \in DOMAIN open : /\ s[k].file = open[k].file
                                   /\ k # Len(open) => s[k].pos = open[k].pos
         /\ s[Len(open)].pos = p
  <1>1. s = [open EXCEPT ![Len(open)] = [@ EXCEPT !.pos = p, !.conds = c]]
    BY DEF Moved
  <1>2. [open[Len(open)] EXCEPT !.pos = p, !.conds = c] \in Frame
    BY CurFacts DEF Frame
  <1>3. s \in Seq(Frame) /\ Len(s) = Len(open)
    BY <1>1, <1>2, CurFacts DEF TypeInv
  <1>4. \A k \in DOMAIN open : k # Len(open) => s[k] = open[k]
    BY <1>1, CurFacts
  <1>5. s[Len(open)].file = open[Len(open)].file /\ s[Len(open)].pos = p
    <2>1. open[Len(open)] \in Frame /\ Len(open) \in DOMAIN open
      BY CurFacts
    <2>2. s[Len(open)] = [open[Len(open)] EXCEPT !.pos = p, !.conds = c]
      BY <1>1, <2>1
    <2> QED BY <2>1, <2>2 DEF Frame
  <1>6. s # <<>> /\ DOMAIN s = DOMAIN open
    BY <1>3, CurFacts
  <1> QED BY <1>3, <1>4, <1>5, <1>6

\* A file on top of the stack moves on by a line that does what the guards
\* ask of it: nothing takes a guard away, the line of the guard sets it, and
\* the first line of a section #ifndef enters the section only when the
\* guard is not set.
LEMMA MoveKeeps ==
  ASSUME Inv, UNCHANGED files, NEW p \in Nat, p > Cur.pos, NEW c \in Seq({SUCCESS, FAIL}), Proceed(p, c),
         NEW f, f = Cur.file, Cur.pos <= Len(Lines),
         \A i \in DOMAIN output' :
            \/ i \in DOMAIN output /\ output'[i] = output[i]
            \/ /\ i = Len(output) + 1 /\ output'[i][1] = f /\ output'[i][2] = Cur.pos
               /\ Directive(Here) = "text",
         \A g \in DOMAIN files : Guarded(g) /\ Marked(g) => Marked(g)',
         Guarded(f) /\ Cur.pos = GuardLine(f) => Marked(f)',
         MacroGuarded(f) /\ Cur.pos = 1 => (p = 2 /\ ~Marked(f)') \/ p = Len(files[f])
  PROVE  StackInv' /\ MarkInv' /\ OneInv' /\ BehindInv' /\ TextOnce'
  <1> TypeInv /\ StackInv /\ MarkInv /\ OneInv /\ BehindInv /\ TextOnce
    BY DEF Inv
  <1> DEFINE top == Len(open)
  <1>1. /\ top \in DOMAIN open /\ open[top].file = f /\ open[top].pos = Cur.pos /\ Cur.pos \in Nat \ {0}
        /\ Lines = files[f] /\ Here = files[f][Cur.pos] /\ f \in DOMAIN files /\ Len(files[f]) \in Nat
        /\ DOMAIN open = 1 .. top /\ top \in Nat \ {0}
    BY CurFacts DEF Frame, Lines, Here
  <1>2. /\ Len(open') = top /\ DOMAIN open' = DOMAIN open
        /\ \A k \in DOMAIN open : /\ open'[k].file = open[k].file
                                  /\ k # top => open'[k].pos = open[k].pos
        /\ open'[top].pos = p
    BY <1>1, TopMoves DEF Proceed
  <1> HIDE DEF top
  <1>3. StackInv'
    <2>1. \A k \in 1 .. top - 1 : k \in DOMAIN open /\ k # top
      BY <1>1
    <2> QED BY <1>1, <1>2, <2>1 DEF StackInv, top
  <1>4. \A k \in DOMAIN open : Guarded(open[k].file) /\ k # top => open[k].pos # GuardLine(open[k].file)
    <2> SUFFICES ASSUME NEW k \in DOMAIN open, Guarded(open[k].file), k # top PROVE open[k].pos # GuardLine(open[k].file)
      OBVIOUS
    <2>1. open[k].pos > 1 /\ Directive(files[open[k].file][open[k].pos - 1]) = "include"
      BY <1>1 DEF StackInv, top
    <2> QED BY <2>1, GuardFacts DEF Guarded
  <1>5. ASSUME Guarded(f), Inside(f, p), p # GuardLine(f) PROVE Marked(f)' /\ Inside(f, Cur.pos)
    <2>1. CASE OnceGuarded(f)
      <3>1. Inside(f, Cur.pos)
        BY <1>1, <2>1, GuardFacts
      <3> QED BY <1>1, <1>5, <2>1, <3>1, GuardFacts DEF MarkInv
    <2>2. CASE MacroGuarded(f)
      <3>1. Cur.pos # 1
        BY <1>5, <2>2, GuardFacts
      <3>2. Inside(f, Cur.pos)
        BY <1>1, <1>5, <2>2, <3>1, GuardFacts
      <3> QED BY <1>1, <1>5, <2>2, <3>2, GuardFacts DEF MarkInv
    <2> QED BY <1>5, <2>1, <2>2 DEF Guarded
  <1>6. ASSUME Guarded(f), p = GuardLine(f) PROVE ~Marked(f)' /\ ~Marked(f)
    BY <1>1, <1>6, GuardFacts DEF Guarded
  <1>7. ASSUME Guarded(f), Directive(Here) = "text" PROVE Inside(f, Cur.pos) /\ Marked(f)
    <2>1. Inside(f, Cur.pos) /\ Cur.pos # GuardLine(f)
      <3>1. CASE OnceGuarded(f)
        BY <1>1, <1>7, <3>1, GuardFacts
      <3>2. CASE MacroGuarded(f)
        <4>1. Cur.pos \notin {1, 2, Len(files[f])}
          BY <1>1, <1>7, <3>2, GuardFacts
        <4> QED BY <1>1, <3>2, <4>1, GuardFacts
      <3> QED BY <1>7, <3>1, <3>2 DEF Guarded
    <2> QED BY <1>1, <1>7, <2>1 DEF MarkInv
  <1>8. \A g : (Guarded(g)' <=> Guarded(g)) /\ GuardLine(g)' = GuardLine(g) /\ (\A q : Inside(g, q)' <=> Inside(g, q))
    BY GuardsStay
  <1>9. MarkInv'
    <2> SUFFICES ASSUME NEW g \in DOMAIN files, Guarded(g)
                 PROVE  /\ \A k \in DOMAIN open : open[k].file = g =>
                              /\ open'[k].pos = GuardLine(g) => ~Marked(g)'
                              /\ Inside(g, open'[k].pos) /\ open'[k].pos # GuardLine(g) => Marked(g)'
                        /\ \A i \in DOMAIN output' : output'[i][1] = g => Marked(g)'
      BY <1>2, <1>8 DEF MarkInv
    <2>1. ASSUME NEW k \in DOMAIN open, open[k].file = g
          PROVE  /\ open'[k].pos = GuardLine(g) => ~Marked(g)'
                 /\ Inside(g, open'[k].pos) /\ open'[k].pos # GuardLine(g) => Marked(g)'
      <3>1. CASE k = top
        BY <1>1, <1>2, <1>5, <1>6, <2>1, <3>1
      <3>2. CASE k # top
        BY <1>2, <1>4, <2>1, <3>2 DEF MarkInv
      <3> QED BY <3>1, <3>2
    <2>2. ASSUME NEW i \in DOMAIN output', output'[i][1] = g PROVE Marked(g)'
      BY <1>7, <2>2 DEF MarkInv
    <2> QED BY <2>1, <2>2
  <1>10. ASSUME Guarded(f), Inside(f, p), NEW l \in DOMAIN open, l # top, open[l].file = f, Inside(f, open[l].pos)
         PROVE  FALSE
    <2>1. Marked(f)
      BY <1>1, <1>4, <1>10 DEF MarkInv
    <2>2. Inside(f, Cur.pos)
      BY <1>5, <1>6, <1>10, <2>1
    <2> QED BY <1>1, <1>10, <2>2 DEF OneInv
  <1>11. OneInv'
    <2> SUFFICES ASSUME NEW k \in DOMAIN open, NEW l \in DOMAIN open, open[k].file = open[l].file, Guarded(open[k].file),
                        Inside(open[k].file, open'[k].pos), Inside(open[l].file, open'[l].pos)
                 PROVE  k = l
      BY <1>2, <1>8 DEF OneInv
    <2>1. CASE k # top /\ l # top
      BY <1>2, <2>1 DEF OneInv
    <2>2. CASE k = top /\ l # top
      BY <1>1, <1>2, <1>10, <2>2
    <2>3. CASE k # top /\ l = top
      BY <1>1, <1>2, <1>10, <2>3
    <2> QED BY <2>1, <2>2, <2>3
  <1>12. \A i \in DOMAIN output : output[i][2] \in Nat
    BY DEF TypeInv
  <1>13. BehindInv'
    <2> SUFFICES ASSUME NEW k \in DOMAIN open, NEW i \in DOMAIN output', output'[i][1] = open[k].file, Guarded(open[k].file),
                        Inside(open[k].file, open'[k].pos)
                 PROVE  output'[i][2] < open'[k].pos
      BY <1>2, <1>8 DEF BehindInv
    <2>1. CASE k = top /\ i \in DOMAIN output /\ output'[i] = output[i]
      <3>1. Marked(f)
        BY <1>1, <2>1 DEF MarkInv
      <3>2. Inside(f, Cur.pos)
        BY <1>1, <1>2, <1>5, <1>6, <2>1, <3>1
      <3>3. output[i][2] < Cur.pos
        BY <1>1, <2>1, <3>2 DEF BehindInv
      <3> QED BY <1>1, <1>2, <1>12, <2>1, <3>3
    <2>2. CASE k # top /\ i \in DOMAIN output /\ output'[i] = output[i]
      BY <1>2, <2>2 DEF BehindInv
    <2>3. CASE output'[i][1] = f /\ output'[i][2] = Cur.pos /\ Directive(Here) = "text"
      <3>1. Guarded(f) /\ Inside(f, Cur.pos)
        BY <1>7, <2>3
      <3>2. k = top
        BY <1>1, <1>2, <2>3, <3>1 DEF OneInv
      <3> QED BY <1>2, <2>3, <3>2
    <2> QED BY <2>1, <2>2, <2>3
  <1>14. TextOnce'
    <2>1. ASSUME NEW i \in DOMAIN output, output[i][1] = f, Guarded(f), Directive(Here) = "text"
          PROVE  output[i][2] # Cur.pos
      BY <1>1, <1>7, <1>12, <2>1 DEF BehindInv
    <2> SUFFICES ASSUME NEW i \in DOMAIN output', NEW j \in DOMAIN output', output'[i][1] = output'[j][1],
                        output'[i][2] = output'[j][2], Guarded(output'[i][1])
                 PROVE  i = j
      BY <1>8 DEF TextOnce
    <2>2. CASE i \in DOMAIN output /\ output'[i] = output[i] /\ j \in DOMAIN output /\ output'[j] = output[j]
      BY <2>2 DEF TextOnce
    <2> QED BY <2>1, <2>2
  <1> QED BY <1>3, <1>9, <1>11, <1>13, <1>14

\* What Append and Pop do to a sequence.
LEMMA Appended ==
  ASSUME NEW S, NEW s \in Seq(S), NEW e \in S
  PROVE  /\ Append(s, e) \in Seq(S) /\ Len(Append(s, e)) = Len(s) + 1
         /\ Append(s, e)[Len(s) + 1] = e
         /\ \A k \in 1 .. Len(s) : Append(s, e)[k] = s[k]
  OBVIOUS

LEMMA Popped ==
  ASSUME NEW S, NEW s \in Seq(S), Len(s) > 1
  PROVE  /\ Pop(s) \in Seq(S) /\ Len(Pop(s)) = Len(s) - 1
         /\ \A k \in 1 .. Len(s) - 1 : Pop(s)[k] = s[k]
  BY DEF Pop

\* The stack when file g has been opened by the line that is read.
Opened(g) == Append(Moved(Cur.pos + 1, Cur.conds), [file |-> g, pos |-> 1, conds |-> <<>>])

\* A file is put on top of the stack, and the one below has moved on.
LEMMA Pushed ==
  ASSUME TypeInv, NEW g \in DOMAIN files,
         open' = Opened(g)
  PROVE  /\ open' \in Seq(Frame) /\ open' # <<>> /\ Len(open') = Len(open) + 1
         /\ \A k \in DOMAIN open : /\ open'[k].file = open[k].file
                                   /\ k # Len(open) => open'[k].pos = open[k].pos
         /\ open'[Len(open)].pos = Cur.pos + 1
         /\ open'[Len(open) + 1].file = g /\ open'[Len(open) + 1].pos = 1
  <1> DEFINE after == Moved(Cur.pos + 1, Cur.conds)
             new == [file |-> g, pos |-> 1, conds |-> <<>>]
  <1>1. Len(open) \in Nat \ {0} /\ DOMAIN open = 1 .. Len(open)
    BY CurFacts
  <1>2. Cur.pos + 1 \in Nat \ {0} /\ Cur.conds \in Seq({SUCCESS, FAIL})
    BY CurFacts DEF Frame
  <1>3. new \in Frame /\ new.file = g /\ new.pos = 1
    BY DEF Frame
  <1>4. open' = Append(after, new)
    BY DEF Opened
  <1>5. /\ after \in Seq(Frame) /\ Len(after) = Len(open)
        /\ \A k \in DOMAIN open : /\ after[k].file = open[k].file
                                  /\ k # Len(open) => after[k].pos = open[k].pos
        /\ after[Len(open)].pos = Cur.pos + 1
    BY <1>2, TopMoves
  <1> HIDE DEF after, new
  <1>6. /\ open' \in Seq(Frame) /\ Len(open') = Len(open) + 1 /\ open'[Len(open) + 1] = new
        /\ \A k \in 1 .. Len(open) : open'[k] = after[k]
    <2>1. /\ Append(after, new) \in Seq(Frame) /\ Len(Append(after, new)) = Len(after) + 1
          /\ Append(after, new)[Len(after) + 1] = new
          /\ \A k \in 1 .. Len(after) : Append(after, new)[k] = after[k]
      BY <1>3, <1>5, Appended
    <2> QED BY <1>4, <1>5, <2>1
  <1>7. open' # <<>>
    BY <1>1, <1>6
  <1> QED BY <1>1, <1>3, <1>5, <1>6, <1>7

\* A file that is not marked is opened behind the line that includes it.
LEMMA PushKeeps ==
  ASSUME Inv, UNCHANGED <<files, user_macros, include_once, output>>,
         Cur.pos <= Len(Lines), Directive(Here) = "include",
         NEW g \in DOMAIN files, g \notin include_once,
         open' = Opened(g)
  PROVE  open' \in Seq(Frame) /\ open' # <<>> /\ StackInv' /\ MarkInv' /\ OneInv' /\ BehindInv' /\ TextOnce'
  <1> TypeInv /\ StackInv /\ MarkInv /\ OneInv /\ BehindInv /\ TextOnce
    BY DEF Inv
  <1> DEFINE top == Len(open)
  <1>1. /\ top \in DOMAIN open /\ open[top].pos = Cur.pos /\ Cur.pos \in Nat \ {0}
        /\ Here = files[open[top].file][Cur.pos] /\ Lines = files[open[top].file]
        /\ open[top].file \in DOMAIN files /\ DOMAIN open = 1 .. top /\ top \in Nat \ {0}
    BY CurFacts DEF Frame, Lines, Here
  <1>3. open' \in Seq(Frame) /\ open' # <<>> /\ Len(open') = top + 1
    BY Pushed
  <1>4. /\ DOMAIN open' = 1 .. top + 1
        /\ \A k \in DOMAIN open : /\ open'[k].file = open[k].file
                                  /\ k # top => open'[k].pos = open[k].pos
        /\ open'[top].pos = Cur.pos + 1
        /\ open'[top + 1].file = g /\ open'[top + 1].pos = 1
    BY <1>3, Pushed
  <1> HIDE DEF top
  <1>5. \A h : /\ (Guarded(h)' <=> Guarded(h)) /\ GuardLine(h)' = GuardLine(h) /\ (Marked(h)' <=> Marked(h))
               /\ (\A q : Inside(h, q)' <=> Inside(h, q))
    BY GuardsStay DEF Marked
  <1>6. StackInv'
    <2> SUFFICES ASSUME NEW k \in DOMAIN open
                 PROVE  open'[k].pos > 1 /\ Directive(files[open'[k].file][open'[k].pos - 1]) = "include"
      BY <1>1, <1>3, <1>4 DEF StackInv
    <2>1. CASE k = top
      BY <1>1, <1>4, <2>1
    <2>2. CASE k # top
      <3>1. k \in 1 .. Len(open) - 1
        BY <1>1, <2>2 DEF top
      <3> QED BY <1>4, <2>2, <3>1 DEF StackInv
    <2> QED BY <2>1, <2>2
  <1>7. ASSUME NEW k \in DOMAIN open, Guarded(open[k].file)
        PROVE  /\ open'[k].pos # GuardLine(open[k].file)
               /\ Inside(open[k].file, open'[k].pos) => Inside(open[k].file, open[k].pos) /\ Marked(open[k].file)
    <2> DEFINE h == open[k].file
    <2>0. h \in DOMAIN files /\ open[k].pos \in Nat \ {0} /\ open'[k].pos \in Nat
      <3>1. open[k] \in Frame
        BY CurFacts
      <3>2. open[k].file \in DOMAIN files /\ open[k].pos \in Nat \ {0}
        BY <3>1 DEF Frame
      <3>3. open'[k].pos \in {open[k].pos, open[k].pos + 1}
        BY <1>1, <1>4
      <3> QED BY <3>2, <3>3
    <2>1. open'[k].pos > 1 /\ Directive(files[h][open'[k].pos - 1]) = "include"
      BY <1>1, <1>3, <1>4, <1>6 DEF StackInv
    <2>2. open'[k].pos # GuardLine(h) /\ (OnceGuarded(h) => open'[k].pos # 2) /\ (MacroGuarded(h) => open'[k].pos # 3)
      BY <1>7, <2>0, <2>1, GuardFacts DEF Guarded
    <2>4. Len(files[h]) \in Nat
      BY <2>0, CurFacts
    <2>3. ASSUME Inside(h, open'[k].pos) PROVE Inside(h, open[k].pos) /\ Marked(h)
      <3>1. open[k].pos \in {open'[k].pos, open'[k].pos - 1}
        BY <1>1, <1>4
      <3>2. Inside(h, open[k].pos) /\ open[k].pos # GuardLine(h)
        <4>1. CASE OnceGuarded(h)
          BY <2>0, <2>1, <2>2, <3>1, <4>1, GuardFacts
        <4>2. CASE MacroGuarded(h)
          <5>1. GuardLine(h) = 2 /\ 3 < open'[k].pos /\ open'[k].pos < Len(files[h])
            BY <2>0, <2>1, <2>2, <2>3, <4>2, GuardFacts
          <5> QED BY <2>0, <3>1, <4>2, <5>1, <2>4, GuardFacts
        <4> QED BY <1>7, <4>1, <4>2 DEF Guarded
      <3> QED BY <1>7, <2>0, <3>2 DEF MarkInv
    <2> QED BY <2>2, <2>3
  <1>8. ASSUME Guarded(g) PROVE /\ Inside(g, 1) => OnceGuarded(g) /\ ~Marked(g)
                                /\ 1 = GuardLine(g) <=> OnceGuarded(g)
    BY <1>8, GuardFacts DEF Guarded
  <1>9. MarkInv'
    <2> SUFFICES ASSUME NEW h \in DOMAIN files, Guarded(h), NEW k \in DOMAIN open', open'[k].file = h
                 PROVE  /\ open'[k].pos = GuardLine(h) => ~Marked(h)
                        /\ Inside(h, open'[k].pos) /\ open'[k].pos # GuardLine(h) => Marked(h)
      BY <1>5 DEF MarkInv
    <2>1. CASE k \in DOMAIN open
      BY <1>4, <1>7, <2>1
    <2>2. CASE k = top + 1
      BY <1>4, <1>8, <2>2, GuardFacts
    <2> QED BY <1>1, <1>4, <2>1, <2>2
  <1>10. OneInv'
    <2> SUFFICES ASSUME NEW k \in DOMAIN open', NEW l \in DOMAIN open', open'[k].file = open'[l].file, Guarded(open'[k].file),
                        Inside(open'[k].file, open'[k].pos), Inside(open'[l].file, open'[l].pos)
                 PROVE  k = l
      BY <1>5 DEF OneInv
    <2>1. CASE k \in DOMAIN open /\ l \in DOMAIN open
      BY <1>4, <1>7, <2>1 DEF OneInv
    <2>2. CASE k \in DOMAIN open /\ l = top + 1
      BY <1>4, <1>7, <1>8, <2>2
    <2>3. CASE k = top + 1 /\ l \in DOMAIN open
      BY <1>4, <1>7, <1>8, <2>3
    <2> QED BY <1>1, <1>4, <2>1, <2>2, <2>3
  <1>11. BehindInv'
    <2> SUFFICES ASSUME NEW k \in DOMAIN open', NEW i \in DOMAIN output, output[i][1] = open'[k].file, Guarded(open'[k].file),
                        Inside(open'[k].file, open'[k].pos)
                 PROVE  output[i][2] < open'[k].pos
      BY <1>5 DEF BehindInv
    <2>0. output[i][2] \in Nat
      BY DEF TypeInv
    <2>1. CASE k \in DOMAIN open
      <3>1. output[i][2] < open[k].pos
        BY <1>4, <1>7, <2>1 DEF BehindInv
      <3>2. open'[k].pos \in {open[k].pos, open[k].pos + 1}
        BY <1>1, <1>4, <2>1
      <3>3. open[k].pos \in Nat
        BY <2>1, CurFacts DEF Frame
      <3> QED BY <2>0, <3>1, <3>2, <3>3
    <2>2. CASE k = top + 1
      <3>1. ~Marked(g)
        BY <1>4, <1>8, <2>2
      <3> QED BY <1>4, <2>2, <3>1 DEF MarkInv
    <2> QED BY <1>1, <1>4, <2>1, <2>2
  <1>12. TextOnce'
    BY <1>5 DEF TextOnce
  <1> QED BY <1>3, <1>6, <1>9, <1>10, <1>11, <1>12, <1>1

\* A file ends and the one that includes it goes on.
LEMMA PopKeeps ==
  ASSUME Inv, UNCHANGED <<files, user_macros, include_once, output>>, Len(open) # 1, open' = Pop(open)
  PROVE  open' \in Seq(Frame) /\ open' # <<>> /\ StackInv' /\ MarkInv' /\ OneInv' /\ BehindInv' /\ TextOnce'
  <1> TypeInv /\ StackInv /\ MarkInv /\ OneInv /\ BehindInv /\ TextOnce
    BY DEF Inv
  <1>1. Len(open) \in Nat /\ Len(open) > 1
    BY CurFacts
  <1>2. /\ open' \in Seq(Frame) /\ Len(open') = Len(open) - 1 /\ open' # <<>>
        /\ DOMAIN open' \subseteq DOMAIN open /\ \A k \in DOMAIN open' : open'[k] = open[k]
    <2>1. open \in Seq(Frame)
      BY DEF TypeInv
    <2>2. open' \in Seq(Frame) /\ Len(open') = Len(open) - 1 /\ \A k \in 1 .. Len(open) - 1 : open'[k] = open[k]
      BY <1>1, <2>1, Popped
    <2> QED BY <1>1, <2>1, <2>2
  <1>3. \A h : /\ (Guarded(h)' <=> Guarded(h)) /\ GuardLine(h)' = GuardLine(h) /\ (Marked(h)' <=> Marked(h))
               /\ (\A q : Inside(h, q)' <=> Inside(h, q))
    BY GuardsStay DEF Marked
  <1>4. StackInv'
    BY <1>1, <1>2 DEF StackInv
  <1>5. MarkInv'
    BY <1>2, <1>3 DEF MarkInv
  <1>6. OneInv' /\ BehindInv' /\ TextOnce'
    BY <1>2, <1>3 DEF OneInv, BehindInv, TextOnce
  <1> QED BY <1>2, <1>4, <1>5, <1>6

\* A line that neither sets a guard nor opens a section #ifndef.
LEMMA PlainMove ==
  ASSUME Inv, UNCHANGED <<files, user_macros, include_once>>,
         NEW p \in Nat, p > Cur.pos, NEW c \in Seq({SUCCESS, FAIL}), Proceed(p, c),
         Cur.pos <= Len(Lines), Directive(Here) \notin {"once", "define", "ifndef"},
         \/ UNCHANGED output
         \/ Directive(Here) = "text" /\ output' = Append(output, <<Cur.file, Cur.pos, user_macros>>)
  PROVE  StackInv' /\ MarkInv' /\ OneInv' /\ BehindInv' /\ TextOnce'
  <1> DEFINE f == Cur.file
  <1>1. TypeInv /\ Here = files[f][Cur.pos]
    BY DEF Inv, Here, Lines
  <1>2. \A g : Marked(g)' <=> Marked(g)
    BY GuardsStay DEF Marked
  <1>3. ASSUME NEW i \in DOMAIN output'
        PROVE  \/ i \in DOMAIN output /\ output'[i] = output[i]
               \/ /\ i = Len(output) + 1 /\ output'[i][1] = f /\ output'[i][2] = Cur.pos
                  /\ Directive(Here) = "text"
    <2>1. CASE UNCHANGED output
      BY <2>1
    <2>2. CASE Directive(Here) = "text" /\ output' = Append(output, <<Cur.file, Cur.pos, user_macros>>)
      <3>1. output \in Seq((DOMAIN files) \X (Nat \ {0}) \X (SUBSET STRING))
        BY <1>1 DEF TypeInv
      <3> QED BY <2>2, <3>1
    <2> QED BY <2>1, <2>2
  <1>4. Guarded(f) => Cur.pos # GuardLine(f)
    BY <1>1, GuardFacts DEF Guarded
  <1>5. MacroGuarded(f) => Cur.pos # 1
    BY <1>1, GuardFacts
  <1> HIDE DEF f
  <1>6. f = Cur.file
    BY DEF f
  <1> QED BY <1>2, <1>3, <1>4, <1>5, <1>6, MoveKeeps

\* The conditions, with one more or one less.
LEMMA CondFacts ==
  ASSUME NEW c \in Seq({SUCCESS, FAIL}), NEW r \in {SUCCESS, FAIL}
  PROVE  /\ Append(c, r) \in Seq({SUCCESS, FAIL})
         /\ c # <<>> => Pop(c) \in Seq({SUCCESS, FAIL}) /\ Append(Pop(c), r) \in Seq({SUCCESS, FAIL})
  <1>1. c # <<>> => Pop(c) \in Seq({SUCCESS, FAIL})
    BY DEF Pop
  <1> QED BY <1>1, Appended

\* What the line that is read looks like.
LEMMA HereFacts ==
  ASSUME TypeInv, NEW kinds, At(kinds)
  PROVE  /\ Cur.pos <= Len(Lines) /\ Cur.pos \in Nat \ {0} /\ Len(Lines) \in Nat /\ Directive(Here) \in kinds
         /\ Here \in LineType /\ Cur.file \in DOMAIN files /\ Lines = files[Cur.file]
         /\ Here = files[Cur.file][Cur.pos] /\ Cur.conds \in Seq({SUCCESS, FAIL})
         /\ SkipGroup(Lines, Cur.pos + 1) \in Nat /\ SkipGroup(Lines, Cur.pos + 1) > Cur.pos
         /\ Cur.pos + 1 \in Nat /\ Cur.pos + 1 > Cur.pos
  <1>1. /\ Cur.pos <= Len(Lines) /\ Cur.pos \in Nat \ {0} /\ Directive(Here) \in kinds
        /\ Lines \in Seq(LineType) /\ Len(Lines) \in Nat
        /\ Cur.file \in DOMAIN files /\ Cur.conds \in Seq({SUCCESS, FAIL})
    BY CurFacts DEF At, Frame
  <1>2. Here \in LineType
    BY <1>1 DEF Here
  <1>3. SkipGroup(Lines, Cur.pos + 1) \in Nat /\ SkipGroup(Lines, Cur.pos + 1) >= Cur.pos + 1
    BY <1>1, SkipForward
  <1> QED BY <1>1, <1>2, <1>3 DEF Lines, Here

\* A line keeps the types.
LEMMA TypeMove ==
  ASSUME TypeInv, UNCHANGED <<files, status>>, NEW p \in Nat \ {0}, NEW c \in Seq({SUCCESS, FAIL}), Proceed(p, c),
         user_macros' \in SUBSET STRING,
         \/ UNCHANGED output
         \/ output' = Append(output, <<Cur.file, Cur.pos, user_macros>>)
  PROVE  TypeInv'
  <1>1. open' \in Seq(Frame) /\ open' # <<>> /\ Frame' = Frame
    BY TopMoves, GuardsStay DEF Proceed
  <1>2. output' \in Seq((DOMAIN files) \X (Nat \ {0}) \X (SUBSET STRING))
    <2>1. <<Cur.file, Cur.pos, user_macros>> \in (DOMAIN files) \X (Nat \ {0}) \X (SUBSET STRING)
      BY CurFacts DEF TypeInv, Frame
    <2>2. output \in Seq((DOMAIN files) \X (Nat \ {0}) \X (SUBSET STRING))
      BY DEF TypeInv
    <2>3. Append(output, <<Cur.file, Cur.pos, user_macros>>) \in Seq((DOMAIN files) \X (Nat \ {0}) \X (SUBSET STRING))
      BY <2>1, <2>2, Appended
    <2> QED BY <2>2, <2>3
  <1> QED BY <1>1, <1>2 DEF TypeInv

\* What a step leaves alone when it only ends the run.
LEMMA StopKeeps ==
  ASSUME Inv, UNCHANGED <<files, open, user_macros, include_once, output>>,
         status' \in {"run", "done", "error", "deep"}
  PROVE  Inv'
  <1>1. \A h : /\ (Guarded(h)' <=> Guarded(h)) /\ GuardLine(h)' = GuardLine(h) /\ (Marked(h)' <=> Marked(h))
               /\ (\A q : Inside(h, q)' <=> Inside(h, q))
    BY GuardsStay DEF Marked
  <1>2. TypeInv' /\ StackInv'
    BY GuardsStay DEF Inv, TypeInv, StackInv
  <1>3. MarkInv'
    BY <1>1 DEF Inv, MarkInv
  <1>4. OneInv'
    BY <1>1 DEF Inv, OneInv
  <1>5. BehindInv' /\ TextOnce'
    BY <1>1 DEF Inv, BehindInv, TextOnce
  <1> QED BY <1>2, <1>3, <1>4, <1>5 DEF Inv

\* The first line of a section #ifndef enters it when its macro is not
\* defined, and skips it to its last line otherwise.
LEMMA IfKeeps ==
  ASSUME Inv, DoIf, UNCHANGED files
  PROVE  Inv'
  <1> TypeInv
    BY DEF Inv
  <1>1. /\ Cur.pos <= Len(Lines) /\ Cur.pos \in Nat \ {0} /\ Directive(Here) \in Ifs /\ Cur.file \in DOMAIN files
        /\ Lines = files[Cur.file] /\ Here = files[Cur.file][Cur.pos] /\ Cur.conds \in Seq({SUCCESS, FAIL})
        /\ SkipGroup(Lines, Cur.pos + 1) \in Nat /\ SkipGroup(Lines, Cur.pos + 1) > Cur.pos
        /\ Len(Lines) \in Nat
    BY HereFacts DEF DoIf
  <1>2. CASE Error
    BY <1>2, StopKeeps DEF Error
  <1>3. ASSUME NEW p \in Nat, p > Cur.pos, NEW c \in Seq({SUCCESS, FAIL}), Proceed(p, c),
               UNCHANGED <<user_macros, include_once, output, status>>,
               Holds(Here) => p = Cur.pos + 1, ~Holds(Here) => p = SkipGroup(Lines, Cur.pos + 1)
        PROVE  Inv'
    <2>0. PICK f : f = Cur.file
      OBVIOUS
    <2>a. p \in Nat \ {0} /\ user_macros' \in SUBSET STRING
      BY <1>1, <1>3 DEF TypeInv
    <2>1. TypeInv'
      BY <1>3, <2>a, TypeMove
    <2>2. \A g : Marked(g)' <=> Marked(g)
      BY <1>3, GuardsStay DEF Marked
    <2>3. Guarded(f) => Cur.pos # GuardLine(f)
      BY <1>1, <2>0, GuardFacts DEF Guarded, Ifs
    <2>4. ASSUME MacroGuarded(f), Cur.pos = 1 PROVE (p = 2 /\ ~Marked(f)') \/ p = Len(files[f])
      <3>1. Here.kind = "ifndef" /\ Here.arg = files[f][1].arg
        BY <1>1, <2>0, <2>4, GuardFacts DEF Directive
      <3>2. CASE Holds(Here)
        BY <1>3, <2>2, <2>4, <3>1, <3>2, GuardFacts DEF Holds
      <3>3. CASE ~Holds(Here)
        <4>1. GroupEnds(files[f], 2) = {Len(files[f])} /\ Len(files[f]) > 2
          BY <2>4 DEF MacroGuarded
        <4>2. SkipGroup(files[f], 2) = Len(files[f])
          <5>1. Len(files[f]) \in Nat /\ 2 <= Len(files[f]) + 1
            BY <1>1, <2>0, <4>1
          <5> QED BY <4>1, <5>1, SkipForward
        <4>3. Lines = files[f] /\ Cur.pos + 1 = 2
          BY <1>1, <2>0, <2>4
        <4> QED BY <1>3, <3>3, <4>2, <4>3
      <3> QED BY <3>2, <3>3
    <2>6. StackInv' /\ MarkInv' /\ OneInv' /\ BehindInv' /\ TextOnce'
      <3>1. Cur.pos <= Len(Lines) /\ f = Cur.file
        BY <1>1, <2>0
      <3>2. \A i \in DOMAIN output' : i \in DOMAIN output /\ output'[i] = output[i]
        BY <1>3
      <3> QED BY <1>3, <2>2, <2>3, <2>4, <3>1, <3>2, MoveKeeps
    <2> QED BY <2>1, <2>6 DEF Inv
  <1>4. CASE ~Error
    <2>1. /\ IF Holds(Here)
             THEN Proceed(Cur.pos + 1, Append(Cur.conds, SUCCESS))
             ELSE Proceed(SkipGroup(Lines, Cur.pos + 1), Append(Cur.conds, FAIL))
          /\ UNCHANGED <<user_macros, include_once, output, status>>
      BY <1>4 DEF DoIf
    <2>2. Append(Cur.conds, SUCCESS) \in Seq({SUCCESS, FAIL}) /\ Append(Cur.conds, FAIL) \in Seq({SUCCESS, FAIL})
      BY <1>1, CondFacts
    <2>3. CASE Holds(Here)
      <3>1. Proceed(Cur.pos + 1, Append(Cur.conds, SUCCESS)) /\ Cur.pos + 1 \in Nat /\ Cur.pos + 1 > Cur.pos
        BY <1>1, <2>1, <2>3
      <3> QED BY <1>3, <2>1, <2>2, <2>3, <3>1
    <2>4. CASE ~Holds(Here)
      <3>1. Proceed(SkipGroup(Lines, Cur.pos + 1), Append(Cur.conds, FAIL))
        BY <2>1, <2>4
      <3> QED BY <1>1, <1>3, <2>1, <2>2, <2>4, <3>1
    <2> QED BY <2>3, <2>4
  <1> QED BY <1>2, <1>4

\* A line that leaves macros and marks alone and only moves on.
LEMMA PlainKeeps ==
  ASSUME Inv, UNCHANGED <<files, user_macros, include_once, status>>, NEW kinds, At(kinds),
         kinds \cap {"once", "define", "ifndef"} = {},
         NEW p \in Nat, p > Cur.pos, NEW c \in Seq({SUCCESS, FAIL}), Proceed(p, c),
         \/ UNCHANGED output
         \/ Directive(Here) = "text" /\ output' = Append(output, <<Cur.file, Cur.pos, user_macros>>)
  PROVE  Inv'
  <1>1. TypeInv /\ user_macros \in SUBSET STRING
    BY DEF Inv, TypeInv
  <1>2. Cur.pos <= Len(Lines) /\ Directive(Here) \notin {"once", "define", "ifndef"} /\ Cur.pos \in Nat
    BY <1>1, HereFacts
  <1>3. TypeInv'
    BY <1>1, <1>2, TypeMove
  <1>4. StackInv' /\ MarkInv' /\ OneInv' /\ BehindInv' /\ TextOnce'
    BY <1>2, PlainMove
  <1> QED BY <1>3, <1>4 DEF Inv

\* #elif and #else: another group is taken or skipped.
LEMMA ElseKeeps ==
  ASSUME Inv, DoElif \/ DoElse, UNCHANGED files
  PROVE  Inv'
  <1> TypeInv
    BY DEF Inv
  <1> DEFINE kinds == Elifs \cup {"else"}
  <1>1. At(kinds) /\ kinds \cap {"once", "define", "ifndef"} = {}
    BY DEF DoElif, DoElse, At, Elifs
  <1> HIDE DEF kinds
  <1>2. /\ Cur.pos + 1 \in Nat /\ Cur.pos + 1 > Cur.pos /\ Cur.conds \in Seq({SUCCESS, FAIL})
        /\ SkipGroup(Lines, Cur.pos + 1) \in Nat /\ SkipGroup(Lines, Cur.pos + 1) > Cur.pos
    BY <1>1, HereFacts
  <1>3. CASE Error
    BY <1>3, StopKeeps DEF Error
  <1>4. CASE ~Error
    <2>1. /\ Cur.conds # <<>>
          /\ \/ Proceed(Cur.pos + 1, Append(Pop(Cur.conds), SUCCESS))
             \/ Proceed(SkipGroup(Lines, Cur.pos + 1), Cur.conds)
          /\ UNCHANGED <<user_macros, include_once, output, status>>
      BY <1>4 DEF DoElif, DoElse
    <2>2. Append(Pop(Cur.conds), SUCCESS) \in Seq({SUCCESS, FAIL})
      BY <1>2, <2>1, CondFacts
    <2>3. CASE Proceed(Cur.pos + 1, Append(Pop(Cur.conds), SUCCESS))
      BY <1>1, <1>2, <2>1, <2>2, <2>3, PlainKeeps
    <2>4. CASE Proceed(SkipGroup(Lines, Cur.pos + 1), Cur.conds)
      BY <1>1, <1>2, <2>1, <2>4, PlainKeeps
    <2> QED BY <2>1, <2>3, <2>4
  <1> QED BY <1>3, <1>4

\* #endif.
LEMMA EndifKeeps ==
  ASSUME Inv, DoEndif, UNCHANGED files
  PROVE  Inv'
  <1> TypeInv
    BY DEF Inv
  <1>1. At({"endif"}) /\ {"endif"} \cap {"once", "define", "ifndef"} = {}
    BY DEF DoEndif
  <1>2. Cur.pos + 1 \in Nat /\ Cur.pos + 1 > Cur.pos /\ Cur.conds \in Seq({SUCCESS, FAIL})
    BY <1>1, HereFacts
  <1>3. CASE Error
    BY <1>3, StopKeeps DEF Error
  <1>4. CASE ~Error
    <2>1. /\ Cur.conds # <<>> /\ Proceed(Cur.pos + 1, Pop(Cur.conds))
          /\ UNCHANGED <<user_macros, include_once, output, status>>
      BY <1>4 DEF DoEndif
    <2>2. Pop(Cur.conds) \in Seq({SUCCESS, FAIL})
      BY <1>2, <2>1, CondFacts
    <2> QED BY <1>1, <1>2, <2>1, <2>2, PlainKeeps
  <1> QED BY <1>3, <1>4

\* A line of text.
LEMMA TextKeeps ==
  ASSUME Inv, DoText, UNCHANGED files
  PROVE  Inv'
  <1> TypeInv
    BY DEF Inv
  <1>1. At({"text"}) /\ {"text"} \cap {"once", "define", "ifndef"} = {}
    BY DEF DoText
  <1>2. Cur.pos + 1 \in Nat /\ Cur.pos + 1 > Cur.pos /\ Cur.conds \in Seq({SUCCESS, FAIL}) /\ Directive(Here) = "text"
    BY <1>1, HereFacts
  <1>3. /\ Proceed(Cur.pos + 1, Cur.conds) /\ UNCHANGED <<user_macros, include_once, status>>
        /\ output' = Append(output, <<Cur.file, Cur.pos, user_macros>>)
    BY DEF DoText, Advance
  <1> QED BY <1>1, <1>2, <1>3, PlainKeeps

\* #define, #undef and #pragma once change what is set, but no #undef takes a
\* guard away.
LEMMA SetKeeps ==
  ASSUME Inv, DoDefine \/ DoUndef \/ DoPragmaOnce, UNCHANGED files
  PROVE  Inv'
  <1> TypeInv
    BY DEF Inv
  <1>1. At({"define", "undef", "once"})
    BY DEF DoDefine, DoUndef, DoPragmaOnce, At
  <1>2. /\ Cur.pos <= Len(Lines) /\ Cur.pos \in Nat \ {0} /\ Cur.pos + 1 \in Nat \ {0} /\ Cur.pos + 1 > Cur.pos
        /\ Cur.conds \in Seq({SUCCESS, FAIL}) /\ Here \in LineType /\ Cur.file \in DOMAIN files
        /\ Here = files[Cur.file][Cur.pos] /\ Lines = files[Cur.file] /\ Directive(Here) \in {"define", "undef", "once"}
        /\ Len(Lines) \in Nat
    BY <1>1, HereFacts
  <1>3. /\ Proceed(Cur.pos + 1, Cur.conds) /\ UNCHANGED <<status, output>>
        /\ \/ Directive(Here) = "define" /\ user_macros' = user_macros \cup {Here.arg} /\ UNCHANGED include_once
           \/ Directive(Here) = "undef" /\ user_macros' = user_macros \ {Here.arg} /\ UNCHANGED include_once
           \/ Directive(Here) = "once" /\ include_once' = include_once \cup {Cur.file} /\ UNCHANGED user_macros
    BY DEF DoDefine, DoUndef, DoPragmaOnce, Advance, At
  <1>4. TypeInv'
    <2>1. user_macros' \in SUBSET STRING
      BY <1>2, <1>3 DEF TypeInv, LineType
    <2> QED BY <1>2, <1>3, <2>1, TypeMove
  <1>5. PICK f : f = Cur.file
    OBVIOUS
  <1>6. ASSUME NEW g \in DOMAIN files, Guarded(g), Marked(g) PROVE Marked(g)'
    <2>1. CASE OnceGuarded(g)
      BY <1>3, <1>6, <2>1, GuardsStay DEF Marked
    <2>2. CASE MacroGuarded(g)
      <3>1. Directive(Here) = "undef" => Here.arg # files[g][1].arg
        BY <1>2, <2>2 DEF MacroGuarded
      <3>2. ~OnceGuarded(g) /\ ~OnceGuarded(g)'
        BY <2>2, GuardFacts, GuardsStay
      <3> QED BY <1>3, <1>6, <3>1, <3>2 DEF Marked
    <2> QED BY <1>6, <2>1, <2>2 DEF Guarded
  <1>7. ASSUME Guarded(f), Cur.pos = GuardLine(f) PROVE Marked(f)'
    <2>1. CASE OnceGuarded(f)
      <3>1. Directive(Here) = "once" /\ OnceGuarded(f)'
        BY <1>2, <1>5, <1>7, <2>1, GuardFacts, GuardsStay
      <3> QED BY <1>3, <1>5, <3>1 DEF Marked
    <2>2. CASE MacroGuarded(f)
      <3>1. Directive(Here) = "define" /\ ~OnceGuarded(f)' /\ Here.arg = files[f][1].arg
        <4>1. Cur.pos = 2 /\ Directive(files[f][2]) = "define" /\ ~OnceGuarded(f)
          BY <1>7, <2>2, GuardFacts
        <4>2. files[f][2].arg = files[f][1].arg
          BY <2>2 DEF MacroGuarded
        <4> QED BY <1>2, <1>5, <4>1, <4>2, GuardsStay
      <3> QED BY <1>3, <3>1 DEF Marked
    <2> QED BY <1>7, <2>1, <2>2 DEF Guarded
  <1>8. MacroGuarded(f) => Cur.pos # 1
    BY <1>2, <1>5, GuardFacts
  <1>9. StackInv' /\ MarkInv' /\ OneInv' /\ BehindInv' /\ TextOnce'
    <2>1. \A i \in DOMAIN output' : i \in DOMAIN output /\ output'[i] = output[i]
      BY <1>3
    <2> QED BY <1>2, <1>3, <1>5, <1>6, <1>7, <1>8, <2>1, MoveKeeps
  <1> QED BY <1>4, <1>9 DEF Inv

\* #include: an error, a file that is marked, a file that is opened, or the
\* bound on the depth of inclusion.
LEMMA IncludeKeeps ==
  ASSUME Inv, DoInclude, UNCHANGED files
  PROVE  Inv'
  <1> TypeInv
    BY DEF Inv
  <1>1. At({"include"}) /\ {"include"} \cap {"once", "define", "ifndef"} = {}
    BY DEF DoInclude
  <1>2. /\ Cur.pos <= Len(Lines) /\ Cur.pos + 1 \in Nat /\ Cur.pos + 1 > Cur.pos
        /\ Cur.conds \in Seq({SUCCESS, FAIL}) /\ Directive(Here) = "include"
    BY <1>1, HereFacts
  <1>3. CASE Error
    BY <1>3, StopKeeps DEF Error
  <1>4. CASE /\ Proceed(Cur.pos + 1, Cur.conds)
             /\ UNCHANGED <<user_macros, include_once, output, status>>
    BY <1>1, <1>2, <1>4, PlainKeeps
  <1>5. CASE status' = "deep" /\ UNCHANGED <<open, user_macros, include_once, output>>
    BY <1>5, StopKeeps
  <1>6. CASE /\ Here.arg \in DOMAIN files /\ Here.arg \notin include_once /\ open' = Opened(Here.arg)
             /\ UNCHANGED <<user_macros, include_once, output, status>>
    <2>1. open' \in Seq(Frame) /\ open' # <<>> /\ StackInv' /\ MarkInv' /\ OneInv' /\ BehindInv' /\ TextOnce'
      BY <1>2, <1>6, PushKeeps
    <2>2. TypeInv'
      BY <1>6, <2>1, GuardsStay DEF TypeInv
    <2> QED BY <2>1, <2>2 DEF Inv
  <1> QED BY <1>3, <1>4, <1>5, <1>6 DEF DoInclude, Opened, Proceed

\* The end of a file.
LEMMA EndKeeps ==
  ASSUME Inv, EndOfFile, UNCHANGED files
  PROVE  Inv'
  <1>1. CASE Len(open) = 1
    BY <1>1, StopKeeps DEF EndOfFile
  <1>2. CASE Len(open) # 1
    <2>1. open' = Pop(open) /\ UNCHANGED <<user_macros, include_once, output, status>>
      BY <1>2 DEF EndOfFile
    <2>2. open' \in Seq(Frame) /\ open' # <<>> /\ StackInv' /\ MarkInv' /\ OneInv' /\ BehindInv' /\ TextOnce'
      BY <1>2, <2>1, PopKeeps
    <2>3. TypeInv'
      BY <2>1, <2>2, GuardsStay DEF Inv, TypeInv
    <2> QED BY <2>2, <2>3 DEF Inv
  <1> QED BY <1>1, <1>2

\* The main file is opened, and nothing has been read.
LEMMA InitInv == Init => Inv
  <1> SUFFICES ASSUME Init PROVE Inv
    OBVIOUS
  <1>1. files \in Sources /\ Main \in DOMAIN files /\ output = <<>> /\ user_macros = {} /\ include_once = {} /\ status = "run"
    BY SourcesAssumption DEF Init
  <1> DEFINE main == [file |-> Main, pos |-> 1, conds |-> <<>>]
  <1>2. main \in Frame /\ main.pos = 1 /\ main.file = Main
    BY <1>1 DEF Frame
  <1>3. open = <<main>>
    BY DEF Init
  <1> HIDE DEF main
  <1>4. open \in Seq(Frame) /\ open # <<>> /\ Len(open) = 1 /\ DOMAIN open = {1} /\ open[1] = main
    BY <1>2, <1>3
  <1>5. TypeInv /\ StackInv
    BY <1>1, <1>4 DEF TypeInv, StackInv
  <1>6. MarkInv
    <2>1. \A f : Guarded(f) => (1 = GuardLine(f) => ~Marked(f)) /\ (Inside(f, 1) => 1 = GuardLine(f))
      BY <1>1, GuardFacts DEF Guarded
    <2> QED BY <1>1, <1>2, <1>4, <2>1 DEF MarkInv
  <1>7. OneInv /\ BehindInv /\ TextOnce
    BY <1>1, <1>4 DEF OneInv, BehindInv, TextOnce
  <1> QED BY <1>5, <1>6, <1>7 DEF Inv

\* Every step of the preprocessor keeps the invariant.
LEMMA InvKept == Inv /\ [Next]_vars => Inv'
  <1> SUFFICES ASSUME Inv, [Next]_vars PROVE Inv'
    OBVIOUS
  <1>1. CASE UNCHANGED vars
    <2>1. status \in {"run", "done", "error", "deep"}
      BY DEF Inv, TypeInv
    <2> QED BY <1>1, <2>1, StopKeeps DEF vars
  <1>2. CASE Step /\ UNCHANGED files
    <2>1. CASE DoIf
      BY <1>2, <2>1, IfKeeps
    <2>2. CASE DoElif \/ DoElse
      BY <1>2, <2>2, ElseKeeps
    <2>3. CASE DoEndif
      BY <1>2, <2>3, EndifKeeps
    <2>4. CASE DoText
      BY <1>2, <2>4, TextKeeps
    <2>5. CASE DoDefine \/ DoUndef \/ DoPragmaOnce
      BY <1>2, <2>5, SetKeeps
    <2>6. CASE DoError
      BY <1>2, <2>6, StopKeeps DEF DoError, Error
    <2>7. CASE DoInclude
      BY <1>2, <2>7, IncludeKeeps
    <2>8. CASE EndOfFile
      BY <1>2, <2>8, EndKeeps
    <2> QED BY <1>2, <2>1, <2>2, <2>3, <2>4, <2>5, <2>6, <2>7, <2>8 DEF Step
  <1> QED BY <1>1, <1>2 DEF Next, Finished

\* The invariant of the preprocessor (preprocessor.c), for every program: the
\* files that are open, the guards and the text given so far agree.
THEOREM PreprocessorInvariant == Spec => []Inv
  BY InitInv, InvKept, PTL DEF Spec

\* A file guarded by #pragma once (process_pragma) or by a macro it defines
\* itself (process_ifndef) gives its text at most once, for every set of
\* files, however they include each other.
THEOREM GuardedFilesGiveTextOnce == Spec => []GuardedTextOnce
  <1>1. Inv => GuardedTextOnce
    BY DEF Inv, TextOnce, GuardedTextOnce
  <1> QED BY <1>1, PreprocessorInvariant, PTL
=============================================================================
