---------------------------- MODULE ParserProofs ----------------------------
(***************************************************************************)
(* The pragma state of the parser follows the text, for every input, every *)
(* grammar and every depth of backtracking, and error recovery advances    *)
(* and leaves no brace open.                                               *)
(*                                                                         *)
(* A checkpoint holds the top of the pack stack and not the stack.  It is  *)
(* enough because entries are never overwritten: what is below an entry    *)
(* stays what it was when the entry was pushed.  So a checkpoint stands    *)
(* for the state that the text before it gives, at any later time.         *)
(***************************************************************************)
EXTENDS ParserPragmas, PowersOfTwoProofs, FiniteSetTheorems

Packs == 0 .. 2
Entry == [prev : Nat, value : Packs]

\* Every entry of the pack stack was pushed above an earlier one.
Linked(slots) == slots \in Seq(Entry) /\ \A k \in 1 .. Len(slots) : slots[k].prev < k

PragmaState == [pack : Packs, slots : Seq(Entry), top : Nat]
Good(p) == p \in PragmaState /\ Linked(p.slots) /\ p.top <= Len(p.slots)

\* The later entries of a pack stack are added behind the earlier ones.
Grown(a, b) == Len(a) <= Len(b) /\ \A k \in 1 .. Len(a) : b[k] = a[k]

\* An entry links to an earlier one and holds a pack value.
LEMMA EntryFacts ==
  ASSUME NEW slots, Linked(slots), NEW k \in 1 .. Len(slots)
  PROVE  slots[k].prev \in Nat /\ slots[k].prev < k /\ slots[k].value \in Packs
<1>1. slots \in Seq(Entry)
  BY DEF Linked
<1>2. slots[k] \in Entry
  BY <1>1
<1>. QED
  BY <1>2 DEF Linked, Entry

-----------------------------------------------------------------------------
(* The values on the pack stack.  Recursive functions are unfolded once: a   *)
(* function that satisfies the equation exists on every finite interval.     *)

StackStep(slots, f, k) == IF k = NoTop THEN << >> ELSE <<slots[k].value>> \o f[slots[k].prev]

\* The stack below an entry is its value on top of the stack below its link.
LEMMA StackUnfolds ==
  ASSUME NEW slots, Linked(slots)
  PROVE  StackOf(slots) = [k \in 0 .. Len(slots) |-> StackStep(slots, StackOf(slots), k)]
<1>. DEFINE Has(m) == \E f : f = [k \in 0 .. m |-> StackStep(slots, f, k)]
            S == {m \in 0 .. Len(slots) : ~Has(m)}
<1>1. Len(slots) \in Nat /\ slots \in Seq(Entry)
  BY DEF Linked
<1>2. ASSUME NEW m \in S
      PROVE  \E y \in S : y < m
  <2>1. m \in Nat /\ m <= Len(slots)
    BY <1>1
  <2>2. CASE m = 0
    <3>. DEFINE f == [k \in 0 .. 0 |-> << >>]
    <3>1. f = [k \in 0 .. 0 |-> StackStep(slots, f, k)]
      BY DEF StackStep, NoTop
    <3>. HIDE DEF f
    <3>. QED
      BY <2>2, <3>1
  <2>3. CASE m > 0 /\ Has(m - 1)
    <3>1. PICK f : f = [k \in 0 .. (m - 1) |-> StackStep(slots, f, k)]
      BY <2>3
    <3>. DEFINE g == [k \in 0 .. m |-> StackStep(slots, f, k)]
    <3>2. \A k \in 0 .. m - 1 : g[k] = f[k]
      BY <2>1, <3>1
    <3>3. \A k \in 0 .. m : k # 0 => slots[k].prev \in 0 .. m - 1
      <4>1. ASSUME NEW k \in 0 .. m, k # 0
            PROVE  slots[k].prev \in 0 .. m - 1
        <5>1. k \in 1 .. Len(slots)
          BY <1>1, <2>1, <4>1
        <5>. QED
          BY <2>1, <5>1, EntryFacts
      <4>. QED
        BY <4>1
    <3>4. \A k \in 0 .. m : StackStep(slots, g, k) = StackStep(slots, f, k)
      <4>. HIDE DEF g
      <4>. QED
        BY <3>2, <3>3 DEF StackStep, NoTop
    <3>5. g = [k \in 0 .. m |-> StackStep(slots, g, k)]
      BY <3>4
    <3>. HIDE DEF g
    <3>. QED
      BY <3>5
  <2>4. CASE m > 0 /\ ~Has(m - 1)
    <3>. HIDE DEF Has
    <3>. QED
      BY <1>1, <2>1, <2>4
  <2>. HIDE DEF Has
  <2>. QED
    BY <2>1, <2>2, <2>3, <2>4
<1>3. S = {}
  <2>1. S \in SUBSET Nat
    BY <1>1
  <2>. HIDE DEF S
  <2>. QED
    BY <1>2, <2>1, LeastCounterexample
<1>4. Has(Len(slots))
  <2>. HIDE DEF Has
  <2>. QED
    BY <1>1, <1>3
<1>. QED
  BY <1>4, Zenon DEF StackOf, StackStep

\* The stack of linked entries is a sequence of pack values.
LEMMA StackType ==
  ASSUME NEW slots, Linked(slots)
  PROVE  \A k \in 0 .. Len(slots) : StackOf(slots)[k] \in Seq(Packs)
<1>. DEFINE S == {k \in 0 .. Len(slots) : StackOf(slots)[k] \notin Seq(Packs)}
<1>1. Len(slots) \in Nat /\ slots \in Seq(Entry)
  BY DEF Linked
<1>2. ASSUME NEW k \in S
      PROVE  \E y \in S : y < k
  <2>1. StackOf(slots)[k] = StackStep(slots, StackOf(slots), k)
    BY StackUnfolds
  <2>2. k # 0
    <3>1. << >> \in Seq(Packs)
      OBVIOUS
    <3>. QED
      BY <2>1, <3>1 DEF StackStep, NoTop
  <2>3. slots[k].prev \in 0 .. Len(slots) /\ slots[k].prev < k /\ slots[k].value \in Packs
    BY <1>1, <2>2, EntryFacts
  <2>4. ASSUME StackOf(slots)[slots[k].prev] \in Seq(Packs)
        PROVE  FALSE
    <3>1. <<slots[k].value>> \in Seq(Packs)
      BY <2>3
    <3>2. <<slots[k].value>> \o StackOf(slots)[slots[k].prev] \in Seq(Packs)
      BY <2>4, <3>1
    <3>. QED
      BY <2>1, <2>2, <3>2 DEF StackStep, NoTop
  <2>. QED
    BY <2>3, <2>4
<1>3. S \in SUBSET Nat
  BY <1>1
<1>4. S = {}
  <2>. HIDE DEF S
  <2>. QED
    BY <1>2, <1>3, LeastCounterexample
<1>. QED
  BY <1>4

\* What was pushed later does not change the stack below an entry.
LEMMA StackKept ==
  ASSUME NEW a, NEW b, Linked(a), Linked(b), Grown(a, b)
  PROVE  \A k \in 0 .. Len(a) : StackOf(b)[k] = StackOf(a)[k]
<1>. DEFINE S == {k \in 0 .. Len(a) : StackOf(b)[k] # StackOf(a)[k]}
<1>1. Len(a) \in Nat /\ Len(b) \in Nat /\ Len(a) <= Len(b)
  BY DEF Linked, Grown
<1>2. ASSUME NEW k \in S
      PROVE  \E y \in S : y < k
  <2>1. /\ StackOf(a)[k] = StackStep(a, StackOf(a), k)
        /\ StackOf(b)[k] = StackStep(b, StackOf(b), k)
    BY <1>1, StackUnfolds
  <2>2. k # 0
    BY <2>1 DEF StackStep, NoTop
  <2>3. a[k] = b[k] /\ a[k].prev \in 0 .. Len(a) /\ a[k].prev < k
    <3>1. k \in 1 .. Len(a)
      BY <1>1, <2>2
    <3>2. a[k].prev \in Nat /\ a[k].prev < k
      BY <3>1, EntryFacts
    <3>. QED
      BY <1>1, <3>1, <3>2 DEF Grown
  <2>4. StackOf(b)[a[k].prev] # StackOf(a)[a[k].prev]
    BY <2>1, <2>2, <2>3 DEF StackStep, NoTop
  <2>. QED
    BY <2>3, <2>4
<1>3. S \in SUBSET Nat
  BY <1>1
<1>4. S = {}
  <2>. HIDE DEF S
  <2>. QED
    BY <1>2, <1>3, LeastCounterexample
<1>. QED
  BY <1>4

-----------------------------------------------------------------------------
(* One pragma *)

Meaning(p) == [pack |-> p.pack, stack |-> StackOf(p.slots)[p.top]]

\* A pushed entry has the stack that was there below it.
LEMMA PushAdds ==
  ASSUME NEW p, Good(p)
  PROVE  /\ Good(Push(p))
         /\ Grown(p.slots, Push(p).slots)
         /\ Push(p).pack = p.pack
         /\ StackOf(Push(p).slots)[Push(p).top] = <<p.pack>> \o StackOf(p.slots)[p.top]
<1>. DEFINE e == [prev |-> p.top, value |-> p.pack]
            q == Push(p)
<1>1. p \in PragmaState /\ p.slots \in Seq(Entry) /\ Len(p.slots) \in Nat
      /\ p.top \in 0 .. Len(p.slots) /\ p.pack \in Packs
  BY DEF Good, PragmaState
<1>2. e \in Entry
  BY <1>1 DEF Entry
<1>3. q.slots = Append(p.slots, e) /\ q.top = Len(p.slots) + 1 /\ q.pack = p.pack /\ q \in PragmaState
  <2>1. q = [p EXCEPT !.slots = Append(p.slots, e), !.top = Len(p.slots) + 1]
    BY DEF Push
  <2>. HIDE DEF q, e
  <2>2. Append(p.slots, e) \in Seq(Entry) /\ Len(p.slots) + 1 \in Nat
    BY <1>1, <1>2
  <2>3. PICK s \in Seq(Entry) : s = Append(p.slots, e)
    BY <2>2
  <2>4. PICK n \in Nat : n = Len(p.slots) + 1
    BY <2>2
  <2>5. q = [p EXCEPT !.slots = s, !.top = n]
    BY <2>1, <2>3, <2>4
  <2>6. q.slots = s /\ q.top = n /\ q.pack = p.pack /\ q \in PragmaState
    BY <1>1, <2>5 DEF PragmaState
  <2>. QED
    BY <2>3, <2>4, <2>6
<1>. HIDE DEF e, q
<1>4. /\ Len(q.slots) = Len(p.slots) + 1
      /\ q.slots[Len(p.slots) + 1] = e
      /\ \A k \in 1 .. Len(p.slots) : q.slots[k] = p.slots[k]
      /\ q.slots \in Seq(Entry)
  BY <1>1, <1>2, <1>3
<1>5. Linked(q.slots)
  <2>1. \A k \in 1 .. Len(p.slots) : p.slots[k].prev < k
    BY DEF Good, Linked
  <2>2. e.prev = p.top
    BY DEF e
  <2>3. \A k \in 1 .. Len(p.slots) : q.slots[k].prev < k
    BY <1>4, <2>1
  <2>4. q.slots[Len(p.slots) + 1].prev < Len(p.slots) + 1
    BY <1>1, <1>4, <2>2
  <2>5. \A k \in 1 .. Len(q.slots) : k \in 1 .. Len(p.slots) \/ k = Len(p.slots) + 1
    BY <1>1, <1>4
  <2>. QED
    BY <1>4, <2>3, <2>4, <2>5 DEF Linked
<1>6. Good(q)
  BY <1>1, <1>3, <1>4, <1>5 DEF Good
<1>7. Grown(p.slots, q.slots)
  BY <1>1, <1>4 DEF Grown
<1>8. StackOf(q.slots)[q.top] = <<e.value>> \o StackOf(q.slots)[e.prev]
  <2>1. q.top \in 0 .. Len(q.slots) /\ q.top # 0
    BY <1>1, <1>3, <1>4
  <2>2. StackOf(q.slots)[q.top] = StackStep(q.slots, StackOf(q.slots), q.top)
    BY <1>5, <2>1, StackUnfolds
  <2>. QED
    BY <1>3, <1>4, <2>1, <2>2 DEF StackStep, NoTop
<1>9. StackOf(q.slots)[e.prev] = StackOf(p.slots)[p.top]
  <2>1. Linked(p.slots) /\ e.prev = p.top
    BY DEF Good, e
  <2>. QED
    BY <1>1, <1>5, <1>7, <2>1, StackKept
<1>10. e.value = p.pack
  BY DEF e
<1>. QED
  BY <1>3, <1>6, <1>7, <1>8, <1>9, <1>10 DEF q

\* Popping takes the value and the stack below the top entry.
LEMMA PopRemoves ==
  ASSUME NEW p, Good(p)
  PROVE  /\ Good(Pop(p))
         /\ Pop(p).slots = p.slots
         /\ LET s == StackOf(p.slots)[p.top]
            IN  /\ s = << >> => Pop(p) = [p EXCEPT !.pack = 0]
                /\ s # << >> => Pop(p).pack = Head(s) /\ StackOf(p.slots)[Pop(p).top] = Tail(s)
<1>. DEFINE s == StackOf(p.slots)[p.top]
<1>1. p \in PragmaState /\ p.slots \in Seq(Entry) /\ Len(p.slots) \in Nat
      /\ p.top \in 0 .. Len(p.slots) /\ Linked(p.slots)
  BY DEF Good, PragmaState
<1>2. s = StackStep(p.slots, StackOf(p.slots), p.top)
  BY <1>1, StackUnfolds
<1>3. CASE p.top = NoTop
  <2>1. Pop(p) = [p EXCEPT !.pack = 0]
    BY <1>3 DEF Pop
  <2>2. s = << >>
    BY <1>2, <1>3 DEF StackStep
  <2>3. Good(Pop(p)) /\ Pop(p).slots = p.slots
    BY <1>1, <2>1 DEF Good, PragmaState, Packs
  <2>. QED
    BY <2>1, <2>2, <2>3
<1>4. CASE p.top # NoTop
  <2>. DEFINE e == p.slots[p.top]
  <2>1. p.top \in 1 .. Len(p.slots)
    BY <1>1, <1>4 DEF NoTop
  <2>2. e.prev \in Nat /\ e.prev < p.top /\ e.value \in Packs
    BY <1>1, <2>1, EntryFacts
  <2>3. Pop(p) = [p EXCEPT !.pack = e.value, !.top = e.prev]
    BY <1>4 DEF Pop
  <2>4. s = <<e.value>> \o StackOf(p.slots)[e.prev]
    BY <1>2, <1>4 DEF StackStep
  <2>. DEFINE t == StackOf(p.slots)[e.prev]
  <2>5. t \in Seq(Packs)
    BY <1>1, <2>2, StackType
  <2>. HIDE DEF e, t, s
  <2>6. /\ Pop(p) \in PragmaState /\ Pop(p).slots = p.slots
        /\ Pop(p).top = e.prev /\ Pop(p).pack = e.value
    BY <1>1, <2>2, <2>3 DEF PragmaState
  <2>7. Good(Pop(p))
    BY <1>1, <2>2, <2>6 DEF Good
  <2>8. s # << >> /\ Head(s) = e.value /\ Tail(s) = t
    <3>1. s = <<e.value>> \o t
      BY <2>4 DEF t
    <3>. QED
      BY <2>2, <2>5, <3>1
  <2>. QED
    BY <2>6, <2>7, <2>8 DEF s, t
<1>. QED
  BY <1>3, <1>4

\* kefir_parser_scan_pragma does to the linked stack what the pragma does to a
\* plain one.
LEMMA ScanFollows ==
  ASSUME NEW p, Good(p), NEW t \in Pragmas
  PROVE  /\ Good(ScanPragma(p, t))
         /\ Grown(p.slots, ScanPragma(p, t).slots)
         /\ Meaning(ScanPragma(p, t)) = PlainScan(Meaning(p), t)
<1>. DEFINE q == ScanPragma(p, t)
<1>1. p \in PragmaState /\ p.slots \in Seq(Entry) /\ Linked(p.slots)
      /\ p.top \in 0 .. Len(p.slots) /\ p.pack \in Packs
  BY DEF Good, PragmaState
<1>2. Grown(p.slots, p.slots)
  BY <1>1 DEF Grown
<1>3. CASE t = "push"
  <2>1. q = Push(p)
    BY <1>3 DEF ScanPragma
  <2>2. PlainScan(Meaning(p), t) = [Meaning(p) EXCEPT !.stack = <<Meaning(p).pack>> \o @]
    BY <1>3 DEF PlainScan, PackPragmas
  <2>. QED
    <3>1. Meaning(p).pack = p.pack /\ Meaning(p).stack = StackOf(p.slots)[p.top]
      BY DEF Meaning
    <3>2. Meaning(Push(p)) = [pack |-> p.pack, stack |-> <<p.pack>> \o StackOf(p.slots)[p.top]]
      BY PushAdds DEF Meaning
    <3>3. PlainScan(Meaning(p), t) = [pack |-> p.pack, stack |-> <<p.pack>> \o StackOf(p.slots)[p.top]]
      BY <2>2 DEF Meaning
    <3>. QED
      BY <2>1, <3>2, <3>3, PushAdds
<1>4. CASE t = "push1"
  <2>1. q = [Push(p) EXCEPT !.pack = 1]
    BY <1>4 DEF ScanPragma
  <2>2. PlainScan(Meaning(p), t) = [pack |-> 1, stack |-> <<Meaning(p).pack>> \o Meaning(p).stack]
    BY <1>4 DEF PlainScan, PackPragmas
  <2>3. /\ q.slots = Push(p).slots /\ q.top = Push(p).top /\ q.pack = 1 /\ Good(q)
    <3>. DEFINE r == Push(p)
    <3>1. Good(r)
      BY PushAdds
    <3>2. q = [r EXCEPT !.pack = 1]
      BY <2>1
    <3>. HIDE DEF r, q
    <3>3. q.slots = r.slots /\ q.top = r.top /\ q.pack = 1 /\ q \in PragmaState
      BY <3>1, <3>2 DEF Good, PragmaState, Packs
    <3>4. Good(q)
      BY <3>1, <3>3 DEF Good
    <3>. QED
      BY <3>3, <3>4 DEF r
  <2>. HIDE DEF q
  <2>. QED
    BY <2>2, <2>3, PushAdds DEF Meaning, q
<1>5. CASE t = "value2"
  <2>1. q = [p EXCEPT !.pack = 2]
    BY <1>5 DEF ScanPragma
  <2>2. PlainScan(Meaning(p), t) = [Meaning(p) EXCEPT !.pack = 2]
    BY <1>5 DEF PlainScan, PackPragmas
  <2>3. q.slots = p.slots /\ q.top = p.top /\ q.pack = 2 /\ Good(q)
    BY <1>1, <2>1 DEF Good, PragmaState, Packs
  <2>. HIDE DEF q
  <2>. QED
    BY <1>2, <2>2, <2>3 DEF Meaning, q
<1>6. CASE t = "reset"
  <2>1. q = [p EXCEPT !.pack = 0]
    BY <1>6 DEF ScanPragma
  <2>2. PlainScan(Meaning(p), t) = [Meaning(p) EXCEPT !.pack = 0]
    BY <1>6 DEF PlainScan, PackPragmas
  <2>3. q.slots = p.slots /\ q.top = p.top /\ q.pack = 0 /\ Good(q)
    BY <1>1, <2>1 DEF Good, PragmaState, Packs
  <2>. HIDE DEF q
  <2>. QED
    BY <1>2, <2>2, <2>3 DEF Meaning, q
<1>7. CASE t = "pop"
  <2>1. q = Pop(p)
    BY <1>7 DEF ScanPragma
  <2>. DEFINE s == StackOf(p.slots)[p.top]
  <2>2. PlainScan(Meaning(p), t) = IF s = << >> THEN [Meaning(p) EXCEPT !.pack = 0]
                                   ELSE [pack |-> Head(s), stack |-> Tail(s)]
    BY <1>7 DEF PlainScan, PackPragmas, Meaning
  <2>3. Good(q) /\ q.slots = p.slots
    BY <2>1, PopRemoves
  <2>4. CASE s = << >>
    <3>1. q = [p EXCEPT !.pack = 0]
      BY <2>1, <2>4, PopRemoves
    <3>2. q.pack = 0 /\ q.top = p.top
      BY <1>1, <3>1 DEF PragmaState
    <3>. HIDE DEF q
    <3>. QED
      BY <1>2, <2>2, <2>3, <2>4, <3>2 DEF Meaning, q
  <2>5. CASE s # << >>
    <3>1. q.pack = Head(s) /\ StackOf(p.slots)[q.top] = Tail(s)
      BY <2>1, <2>5, PopRemoves
    <3>. HIDE DEF q
    <3>. QED
      BY <1>2, <2>2, <2>3, <2>5, <3>1 DEF Meaning, q
  <2>. QED
    BY <2>4, <2>5
<1>8. CASE t = "fp"
  <2>1. q = p /\ PlainScan(Meaning(p), t) = Meaning(p)
    BY <1>8 DEF ScanPragma, PlainScan, PackPragmas
  <2>. QED
    BY <1>2, <2>1
<1>. QED
  BY <1>3, <1>4, <1>5, <1>6, <1>7, <1>8 DEF Pragmas, PackPragmas

-----------------------------------------------------------------------------
(* The text *)

PlainStep(without, f, k) ==
  IF k = 0 THEN [pack |-> 0, stack |-> << >>]
  ELSE IF k - 1 \in without THEN f[k - 1] ELSE PlainScan(f[k - 1], Get(k - 1))

\* The state that the text gives, one token at a time.
LEMMA PlainUnfolds ==
  ASSUME Len(tokens) \in Nat, NEW without
  PROVE  \A k \in 0 .. Len(tokens) :
            PlainStates(without)[k] = PlainStep(without, PlainStates(without), k)
<1>. DEFINE Has(m) == \E f : f = [k \in 0 .. m |-> PlainStep(without, f, k)]
            S == {m \in 0 .. Len(tokens) : ~Has(m)}
<1>1. ASSUME NEW m \in S
      PROVE  \E y \in S : y < m
  <2>1. m \in Nat /\ m <= Len(tokens)
    OBVIOUS
  <2>2. CASE m = 0
    <3>. DEFINE f == [k \in 0 .. 0 |-> [pack |-> 0, stack |-> << >>]]
    <3>1. f = [k \in 0 .. 0 |-> PlainStep(without, f, k)]
      BY DEF PlainStep
    <3>. HIDE DEF f
    <3>. QED
      BY <2>2, <3>1
  <2>3. CASE m > 0 /\ Has(m - 1)
    <3>1. PICK f : f = [k \in 0 .. (m - 1) |-> PlainStep(without, f, k)]
      BY <2>3
    <3>. DEFINE g == [k \in 0 .. m |-> PlainStep(without, f, k)]
    <3>2. \A k \in 0 .. m - 1 : g[k] = f[k]
      BY <2>1, <3>1
    <3>3. \A k \in 0 .. m : k # 0 => k - 1 \in 0 .. m - 1
      BY <2>1
    <3>4. \A k \in 0 .. m : PlainStep(without, g, k) = PlainStep(without, f, k)
      <4>. HIDE DEF g
      <4>. QED
        BY <3>2, <3>3 DEF PlainStep
    <3>5. g = [k \in 0 .. m |-> PlainStep(without, g, k)]
      BY <3>4
    <3>. HIDE DEF g
    <3>. QED
      BY <3>5
  <2>4. CASE m > 0 /\ ~Has(m - 1)
    <3>. HIDE DEF Has
    <3>. QED
      BY <2>1, <2>4
  <2>. HIDE DEF Has
  <2>. QED
    BY <2>1, <2>2, <2>3, <2>4
<1>2. S = {}
  <2>1. S \in SUBSET Nat
    OBVIOUS
  <2>. HIDE DEF S
  <2>. QED
    BY <1>1, <2>1, LeastCounterexample
<1>3. Has(Len(tokens))
  <2>. HIDE DEF Has
  <2>. QED
    BY <1>2
<1>4. PlainStates(without) = [k \in 0 .. Len(tokens) |-> PlainStep(without, PlainStates(without), k)]
  BY <1>3, Zenon DEF PlainStates, PlainStep
<1>. QED
  BY <1>4

\* The state depends on what was passed over before it only.
LEMMA PlainAgrees ==
  ASSUME Len(tokens) \in Nat, NEW a, NEW b, NEW i \in 0 .. Len(tokens),
         \A j \in 0 .. i - 1 : j \in a <=> j \in b
  PROVE  PlainStates(a)[i] = PlainStates(b)[i]
<1>. DEFINE S == {k \in 0 .. i : PlainStates(a)[k] # PlainStates(b)[k]}
<1>1. ASSUME NEW k \in S
      PROVE  \E y \in S : y < k
  <2>1. /\ PlainStates(a)[k] = PlainStep(a, PlainStates(a), k)
        /\ PlainStates(b)[k] = PlainStep(b, PlainStates(b), k)
    BY PlainUnfolds
  <2>2. k # 0
    BY <2>1 DEF PlainStep
  <2>3. k - 1 \in 0 .. i - 1 /\ k - 1 \in 0 .. i /\ (k - 1 \in a <=> k - 1 \in b)
    BY <2>2
  <2>4. PlainStates(a)[k - 1] # PlainStates(b)[k - 1]
    BY <2>1, <2>2, <2>3 DEF PlainStep
  <2>. QED
    BY <2>3, <2>4
<1>2. S \in SUBSET Nat
  OBVIOUS
<1>3. S = {}
  <2>. HIDE DEF S
  <2>. QED
    BY <1>1, <1>2, LeastCounterexample
<1>. QED
  BY <1>3

\* Tokens that are not pack pragmas, and those passed over, change nothing.
LEMMA PlainIdles ==
  ASSUME Len(tokens) \in Nat, NEW w, NEW i \in 0 .. Len(tokens), NEW k \in i .. Len(tokens),
         \A j \in i .. k - 1 : j \in w \/ Get(j) \notin PackPragmas
  PROVE  PlainStates(w)[k] = PlainStates(w)[i]
<1>. DEFINE S == {j \in i .. k : PlainStates(w)[j] # PlainStates(w)[i]}
<1>1. ASSUME NEW j \in S
      PROVE  \E y \in S : y < j
  <2>1. j # i
    OBVIOUS
  <2>2. j - 1 \in i .. k - 1 /\ j - 1 \in i .. k /\ j # 0 /\ j \in 0 .. Len(tokens)
    BY <2>1
  <2>3. PlainStates(w)[j] = PlainStep(w, PlainStates(w), j)
    BY <2>2, PlainUnfolds
  <2>4. Get(j - 1) \notin PackPragmas => PlainScan(PlainStates(w)[j - 1], Get(j - 1)) = PlainStates(w)[j - 1]
    BY DEF PlainScan, PackPragmas
  <2>5. PlainStates(w)[j] = PlainStates(w)[j - 1]
    BY <2>2, <2>3, <2>4 DEF PlainStep
  <2>. QED
    BY <2>2, <2>5
<1>2. S \in SUBSET Nat
  OBVIOUS
<1>3. S = {}
  <2>. HIDE DEF S
  <2>. QED
    BY <1>1, <1>2, LeastCounterexample
<1>. QED
  BY <1>3

ScanStep(p, i, f, j) == IF j = i THEN p ELSE ScanPragma(f[j - 1], Get(j - 1))

\* Scanning a range of pragmas goes through one state for each of them.
LEMMA ScanUnfolds ==
  ASSUME NEW p, NEW i \in Nat, NEW k \in Nat, i <= k
  PROVE  \E f : /\ \A j \in i .. k : f[j] = ScanStep(p, i, f, j)
                /\ ScanRange(p, i, k) = f[k]
<1>. DEFINE Has(m) == \E f : f = [j \in i .. m |-> ScanStep(p, i, f, j)]
            S == {m \in i .. k : ~Has(m)}
<1>1. ASSUME NEW m \in S
      PROVE  \E y \in S : y < m
  <2>1. m \in Nat /\ i <= m /\ m <= k
    OBVIOUS
  <2>2. CASE m = i
    <3>. DEFINE f == [j \in i .. i |-> p]
    <3>1. f = [j \in i .. i |-> ScanStep(p, i, f, j)]
      BY DEF ScanStep
    <3>. HIDE DEF f
    <3>. QED
      BY <2>2, <3>1
  <2>3. CASE m > i /\ Has(m - 1)
    <3>1. PICK f : f = [j \in i .. (m - 1) |-> ScanStep(p, i, f, j)]
      BY <2>3
    <3>. DEFINE g == [j \in i .. m |-> ScanStep(p, i, f, j)]
    <3>2. \A j \in i .. m - 1 : g[j] = f[j]
      BY <2>1, <3>1
    <3>3. \A j \in i .. m : j # i => j - 1 \in i .. m - 1
      BY <2>1
    <3>4. \A j \in i .. m : ScanStep(p, i, g, j) = ScanStep(p, i, f, j)
      <4>. HIDE DEF g
      <4>. QED
        BY <3>2, <3>3 DEF ScanStep
    <3>5. g = [j \in i .. m |-> ScanStep(p, i, g, j)]
      BY <3>4
    <3>. HIDE DEF g
    <3>. QED
      BY <3>5
  <2>4. CASE m > i /\ ~Has(m - 1)
    <3>. HIDE DEF Has
    <3>. QED
      BY <2>1, <2>4
  <2>. HIDE DEF Has
  <2>. QED
    BY <2>1, <2>2, <2>3, <2>4
<1>2. S = {}
  <2>1. S \in SUBSET Nat
    OBVIOUS
  <2>. HIDE DEF S
  <2>. QED
    BY <1>1, <2>1, LeastCounterexample
<1>3. Has(k)
  <2>. HIDE DEF Has
  <2>. QED
    BY <1>2
<1>. DEFINE g == CHOOSE f : f = [j \in i .. k |-> ScanStep(p, i, f, j)]
<1>4. g = [j \in i .. k |-> ScanStep(p, i, g, j)]
  BY <1>3, Zenon
<1>5. ScanRange(p, i, k) = g[k]
  BY Zenon DEF ScanRange, ScanStep
<1>. HIDE DEF g
<1>. QED
  BY <1>4, <1>5

\* Scanning the pragmas of a range has the effect that the text has.
LEMMA RangeFollows ==
  ASSUME Len(tokens) \in Nat, NEW p, Good(p), NEW i \in 0 .. Len(tokens), NEW k \in i .. Len(tokens),
         \A j \in i .. k - 1 : Get(j) \in Pragmas
  PROVE  /\ Good(ScanRange(p, i, k))
         /\ Grown(p.slots, ScanRange(p, i, k).slots)
         /\ \A w : /\ \A j \in i .. k - 1 : j \notin w
                   /\ Meaning(p) = PlainStates(w)[i]
                   => Meaning(ScanRange(p, i, k)) = PlainStates(w)[k]
<1>1. PICK f : /\ \A j \in i .. k : f[j] = ScanStep(p, i, f, j)
               /\ ScanRange(p, i, k) = f[k]
  <2>1. i \in Nat /\ k \in Nat /\ i <= k
    OBVIOUS
  <2>. QED
    BY ONLY <2>1, ScanUnfolds
<1>. DEFINE Follows(j) == /\ Good(f[j])
                          /\ Grown(p.slots, f[j].slots)
                          /\ \A w : /\ \A n \in i .. j - 1 : n \notin w
                                    /\ Meaning(p) = PlainStates(w)[i]
                                    => Meaning(f[j]) = PlainStates(w)[j]
            S == {j \in i .. k : ~Follows(j)}
<1>2. Follows(i)
  <2>1. f[i] = p
    BY <1>1 DEF ScanStep
  <2>2. Len(p.slots) \in Nat
    BY DEF Good, Linked
  <2>. QED
    BY <2>1, <2>2 DEF Grown
<1>3. ASSUME NEW j \in i .. k, j # i, Follows(j - 1)
      PROVE  Follows(j)
  <2>1. j - 1 \in i .. k - 1 /\ j \in 0 .. Len(tokens) /\ j # 0 /\ j \in Nat
    BY <1>3
  <2>2. f[j] = ScanPragma(f[j - 1], Get(j - 1))
    BY <1>1, <1>3 DEF ScanStep
  <2>3. Get(j - 1) \in Pragmas
    BY <2>1
  <2>4. /\ Good(f[j]) /\ Grown(f[j - 1].slots, f[j].slots)
        /\ Meaning(f[j]) = PlainScan(Meaning(f[j - 1]), Get(j - 1))
    BY <1>3, <2>2, <2>3, ScanFollows
  <2>5. Grown(p.slots, f[j].slots)
    <3>1. Grown(p.slots, f[j - 1].slots)
      BY <1>3
    <3>2. Len(p.slots) \in Nat /\ Len(f[j - 1].slots) \in Nat /\ Len(f[j].slots) \in Nat
      BY <1>3, <2>4 DEF Good, Linked
    <3>3. PICK a, b, c : a = p.slots /\ b = f[j - 1].slots /\ c = f[j].slots
      OBVIOUS
    <3>4. Len(a) <= Len(b) /\ Len(b) <= Len(c) /\ \A n \in 1 .. Len(a) : b[n] = a[n]
      BY <2>4, <3>1, <3>3 DEF Grown
    <3>5. \A n \in 1 .. Len(b) : c[n] = b[n]
      BY <2>4, <3>3 DEF Grown
    <3>6. Len(a) \in Nat /\ Len(b) \in Nat /\ Len(c) \in Nat
      BY <3>2, <3>3
    <3>7. Len(a) <= Len(c) /\ \A n \in 1 .. Len(a) : c[n] = a[n]
      BY <3>4, <3>5, <3>6
    <3>. QED
      BY <3>3, <3>7 DEF Grown
  <2>6. ASSUME NEW w, \A n \in i .. j - 1 : n \notin w, Meaning(p) = PlainStates(w)[i]
        PROVE  Meaning(f[j]) = PlainStates(w)[j]
    <3>1. \A n \in i .. (j - 1) - 1 : n \notin w
      BY <2>1, <2>6
    <3>2. Meaning(f[j - 1]) = PlainStates(w)[j - 1]
      BY <1>3, <2>6, <3>1
    <3>3. j - 1 \notin w
      BY <2>1, <2>6
    <3>4. PlainStates(w)[j] = PlainStep(w, PlainStates(w), j)
      BY <2>1, PlainUnfolds
    <3>. QED
      BY <2>1, <2>4, <3>2, <3>3, <3>4 DEF PlainStep
  <2>. QED
    BY <2>4, <2>5, <2>6
<1>. HIDE DEF Follows
<1>4. ASSUME NEW j \in S
      PROVE  \E y \in S : y < j
  <2>1. j # i
    BY <1>2
  <2>2. j - 1 \in i .. k /\ ~Follows(j - 1)
    BY <1>3, <2>1
  <2>. QED
    BY <2>2
<1>5. S \in SUBSET Nat
  OBVIOUS
<1>6. S = {}
  <2>. HIDE DEF S
  <2>. QED
    BY <1>4, <1>5, LeastCounterexample
<1>7. Follows(k)
  BY <1>6
<1>. QED
  BY <1>1, <1>7 DEF Follows

-----------------------------------------------------------------------------
(* Places in the text *)

\* The places the cursor moves to are the first ones of their kind.
LEMMA Places ==
  ASSUME Len(tokens) \in Nat, NEW i \in 0 .. Len(tokens)
  PROVE  /\ PackEnd(i) \in i .. Len(tokens)
         /\ \A j \in i .. PackEnd(i) - 1 : Get(j) \in PackPragmas
         /\ FirstOther(i) \in i .. Len(tokens)
         /\ \A j \in i .. FirstOther(i) - 1 : Get(j) \in Pragmas
         /\ AfterSemicolons(i) \in i .. Len(tokens)
         /\ \A j \in i .. AfterSemicolons(i) - 1 : Get(j) = "semicolon"
         /\ NextSkip(i) \in i .. Len(tokens)
<1>1. Get(Len(tokens)) = End
  BY DEF Get
<1>2. /\ PackEnd(i) \in i .. Len(tokens)
      /\ \A j \in i .. PackEnd(i) - 1 : Get(j) \in PackPragmas
  <2>. DEFINE S == {k \in i .. Len(tokens) : Get(k) \notin PackPragmas}
  <2>1. Len(tokens) \in S /\ S \in SUBSET Nat
    BY <1>1 DEF PackPragmas, End
  <2>2. Min(S) \in S /\ \A y \in S : Min(S) <= y
    <3>. HIDE DEF S
    <3>. QED
      BY <2>1, MinIsLeast
  <2>3. PackEnd(i) = Min(S)
    BY DEF PackEnd
  <2>4. PICK m \in i .. Len(tokens) : m = Min(S)
    BY <2>2
  <2>5. ASSUME NEW j \in i .. m - 1
        PROVE  Get(j) \in PackPragmas
    <3>1. j \in i .. Len(tokens) /\ ~(m <= j)
      OBVIOUS
    <3>2. j \notin S
      BY <2>2, <2>4, <3>1
    <3>. QED
      BY <3>1, <3>2
  <2>. QED
    BY <2>3, <2>4, <2>5
<1>3. /\ FirstOther(i) \in i .. Len(tokens)
      /\ \A j \in i .. FirstOther(i) - 1 : Get(j) \in Pragmas
  <2>. DEFINE S == {k \in i .. Len(tokens) : Get(k) \notin Pragmas}
  <2>1. Len(tokens) \in S /\ S \in SUBSET Nat
    BY <1>1 DEF Pragmas, PackPragmas, End
  <2>2. Min(S) \in S /\ \A y \in S : Min(S) <= y
    <3>. HIDE DEF S
    <3>. QED
      BY <2>1, MinIsLeast
  <2>3. FirstOther(i) = Min(S)
    BY DEF FirstOther, IsPragma
  <2>4. PICK m \in i .. Len(tokens) : m = Min(S)
    BY <2>2
  <2>5. ASSUME NEW j \in i .. m - 1
        PROVE  Get(j) \in Pragmas
    <3>1. j \in i .. Len(tokens) /\ ~(m <= j)
      OBVIOUS
    <3>2. j \notin S
      BY <2>2, <2>4, <3>1
    <3>. QED
      BY <3>1, <3>2
  <2>. QED
    BY <2>3, <2>4, <2>5
<1>4. /\ AfterSemicolons(i) \in i .. Len(tokens)
      /\ \A j \in i .. AfterSemicolons(i) - 1 : Get(j) = "semicolon"
  <2>. DEFINE S == {k \in i .. Len(tokens) : Get(k) # "semicolon"}
  <2>1. Len(tokens) \in S /\ S \in SUBSET Nat
    BY <1>1 DEF End
  <2>2. Min(S) \in S /\ \A y \in S : Min(S) <= y
    <3>. HIDE DEF S
    <3>. QED
      BY <2>1, MinIsLeast
  <2>3. AfterSemicolons(i) = Min(S)
    BY DEF AfterSemicolons
  <2>4. PICK m \in i .. Len(tokens) : m = Min(S)
    BY <2>2
  <2>5. ASSUME NEW j \in i .. m - 1
        PROVE  Get(j) = "semicolon"
    <3>1. j \in i .. Len(tokens) /\ ~(m <= j)
      OBVIOUS
    <3>2. j \notin S
      BY <2>2, <2>4, <3>1
    <3>. QED
      BY <3>1, <3>2
  <2>. QED
    BY <2>3, <2>4, <2>5
<1>5. NextSkip(i) \in i .. Len(tokens)
  BY <1>1, <1>3 DEF NextSkip, Next1
<1>. QED
  BY <1>2, <1>3, <1>4, <1>5

-----------------------------------------------------------------------------
(* Recovery *)

OpenStep(i, f, j) ==
  IF j = i THEN 0
  ELSE IF At(j - 1) = "lbrace" THEN f[j - 1] + 1
  ELSE IF At(j - 1) = "rbrace" /\ f[j - 1] > 0 THEN f[j - 1] - 1
  ELSE f[j - 1]

\* open_braces changes with each token the loop shifts.
LEMMA OpenUnfolds ==
  ASSUME Len(tokens) \in Nat, NEW i \in 0 .. Len(tokens)
  PROVE  \A j \in i .. Len(tokens) : /\ OpenBraces(i)[j] = OpenStep(i, OpenBraces(i), j)
                                     /\ OpenBraces(i)[j] \in Nat
<1>. DEFINE Has(m) == \E f : f = [j \in i .. m |-> OpenStep(i, f, j)]
            S == {m \in i .. Len(tokens) : ~Has(m)}
<1>1. ASSUME NEW m \in S
      PROVE  \E y \in S : y < m
  <2>1. m \in Nat /\ i <= m /\ m <= Len(tokens)
    OBVIOUS
  <2>2. CASE m = i
    <3>. DEFINE f == [j \in i .. i |-> 0]
    <3>1. f = [j \in i .. i |-> OpenStep(i, f, j)]
      BY DEF OpenStep
    <3>. HIDE DEF f
    <3>. QED
      BY <2>2, <3>1
  <2>3. CASE m > i /\ Has(m - 1)
    <3>1. PICK f : f = [j \in i .. (m - 1) |-> OpenStep(i, f, j)]
      BY <2>3
    <3>. DEFINE g == [j \in i .. m |-> OpenStep(i, f, j)]
    <3>2. \A j \in i .. m - 1 : g[j] = f[j]
      BY <2>1, <3>1
    <3>3. \A j \in i .. m : j # i => j - 1 \in i .. m - 1
      BY <2>1
    <3>4. \A j \in i .. m : OpenStep(i, g, j) = OpenStep(i, f, j)
      <4>. HIDE DEF g
      <4>. QED
        BY <3>2, <3>3 DEF OpenStep
    <3>5. g = [j \in i .. m |-> OpenStep(i, g, j)]
      BY <3>4
    <3>. HIDE DEF g
    <3>. QED
      BY <3>5
  <2>4. CASE m > i /\ ~Has(m - 1)
    <3>. HIDE DEF Has
    <3>. QED
      BY <2>1, <2>4
  <2>. HIDE DEF Has
  <2>. QED
    BY <2>1, <2>2, <2>3, <2>4
<1>2. S = {}
  <2>1. S \in SUBSET Nat
    OBVIOUS
  <2>. HIDE DEF S
  <2>. QED
    BY <1>1, <2>1, LeastCounterexample
<1>3. Has(Len(tokens))
  <2>. HIDE DEF Has
  <2>. QED
    BY <1>2
<1>. DEFINE open == OpenBraces(i)
<1>4. open = [j \in i .. Len(tokens) |-> OpenStep(i, open, j)]
  BY <1>3, Zenon DEF OpenBraces, OpenStep
<1>. HIDE DEF open
<1>5. \A j \in i .. Len(tokens) : open[j] = OpenStep(i, open, j)
  BY <1>4
<1>. DEFINE B == {j \in i .. Len(tokens) : open[j] \notin Nat}
<1>6. ASSUME NEW j \in B
      PROVE  \E y \in B : y < j
  <2>1. open[j] = OpenStep(i, open, j)
    BY <1>5
  <2>2. j # i
    BY <2>1 DEF OpenStep
  <2>3. j - 1 \in i .. Len(tokens)
    BY <2>2
  <2>4. open[j - 1] \notin Nat
    BY <2>1, <2>2 DEF OpenStep
  <2>. QED
    BY <2>3, <2>4
<1>7. B \in SUBSET Nat
  OBVIOUS
<1>8. B = {}
  <2>. HIDE DEF B
  <2>. QED
    BY <1>6, <1>7, LeastCounterexample
<1>. QED
  BY <1>5, <1>8 DEF open

\* The loop leaves at the first place where it breaks.
LEMMA GarbageEnds ==
  ASSUME Len(tokens) \in Nat, NEW i \in 0 .. Len(tokens)
  PROVE  /\ SkipGarbage(i) \in i .. Len(tokens)
         /\ Breaks(i, SkipGarbage(i), OpenBraces(i))
         /\ \A j \in i .. SkipGarbage(i) - 1 : ~Breaks(i, j, OpenBraces(i))
<1>. DEFINE S == {j \in i .. Len(tokens) : Breaks(i, j, OpenBraces(i))}
<1>1. At(Len(tokens)) = End
  BY DEF At, CursorSkipPragmas, IsPragma, Get, Pragmas, PackPragmas, End
<1>2. Len(tokens) \in S /\ S \in SUBSET Nat
  BY <1>1 DEF Breaks
<1>3. Min(S) \in S /\ \A y \in S : Min(S) <= y
  <2>. HIDE DEF S
  <2>. QED
    BY <1>2, MinIsLeast
<1>4. SkipGarbage(i) = Min(S)
  BY DEF SkipGarbage
<1>5. PICK m \in i .. Len(tokens) : m = Min(S)
  BY <1>3
<1>6. ASSUME NEW j \in i .. m - 1
      PROVE  ~Breaks(i, j, OpenBraces(i))
  <2>1. j \in i .. Len(tokens) /\ ~(m <= j)
    OBVIOUS
  <2>2. j \notin S
    BY <1>3, <1>5, <2>1
  <2>. QED
    BY <2>1, <2>2
<1>7. Breaks(i, m, OpenBraces(i))
  BY <1>3, <1>5
<1>. QED
  BY <1>4, <1>5, <1>6, <1>7

\* At least one token is shifted, unless there is none left.
LEMMA GarbageAdvances ==
  ASSUME Len(tokens) \in Nat, NEW i \in 0 .. Len(tokens)
  PROVE  SkipGarbage(i) > i \/ At(SkipGarbage(i)) = End
BY GarbageEnds DEF Breaks

CountOf(i, j, t) == Cardinality({n \in i .. j - 1 : Get(n) = t})

\* Counting the tokens of one kind, one token at a time.
LEMMA CountNext ==
  ASSUME NEW i \in Nat, NEW j \in Nat, i <= j, NEW t
  PROVE  /\ CountOf(i, j, t) \in Nat
         /\ CountOf(i, i, t) = 0
         /\ CountOf(i, j + 1, t) = IF Get(j) = t THEN CountOf(i, j, t) + 1 ELSE CountOf(i, j, t)
<1>. DEFINE S(k) == {n \in i .. k - 1 : Get(n) = t}
<1>1. IsFiniteSet(S(j))
  <2>1. IsFiniteSet(i .. j - 1)
    BY FS_Interval
  <2>2. S(j) \subseteq i .. j - 1
    OBVIOUS
  <2>. HIDE DEF S
  <2>. QED
    BY <2>1, <2>2, FS_Subset
<1>2. S(i) = {}
  OBVIOUS
<1>3. S(j + 1) = IF Get(j) = t THEN S(j) \cup {j} ELSE S(j)
  OBVIOUS
<1>4. j \notin S(j)
  OBVIOUS
<1>5. /\ CountOf(i, j, t) = Cardinality(S(j))
      /\ CountOf(i, i, t) = Cardinality(S(i))
      /\ CountOf(i, j + 1, t) = Cardinality(S(j + 1))
  BY DEF CountOf
<1>. HIDE DEF S
<1>6. Cardinality(S(j)) \in Nat /\ Cardinality(S(j) \cup {j}) = Cardinality(S(j)) + 1
  BY <1>1, <1>4, FS_CardinalityType, FS_AddElement
<1>7. Cardinality(S(i)) = 0
  BY <1>2, FS_EmptySet
<1>. QED
  BY <1>3, <1>5, <1>6, <1>7

\* No pragma stands right before a brace.
BracesPlain == \A i \in 0 .. Len(tokens) : Get(i) \in {"lbrace", "rbrace"} => ~IsPragma(i - 1)

\* Then the look past a pragma never meets a brace.
LEMMA BracesSeen ==
  ASSUME Len(tokens) \in Nat, BracesPlain, NEW j \in 0 .. Len(tokens), NEW b \in {"lbrace", "rbrace"}
  PROVE  At(j) = b <=> Get(j) = b
<1>1. CASE ~IsPragma(j)
  BY <1>1 DEF At, CursorSkipPragmas
<1>2. CASE IsPragma(j)
  <2>1. Get(j) # b
    BY <1>2 DEF IsPragma, Pragmas, PackPragmas
  <2>2. At(j) = Get(j + 1)
    BY <1>2 DEF At, CursorSkipPragmas
  <2>3. ASSUME Get(j + 1) = b
        PROVE  FALSE
    <3>1. j + 1 \in 0 .. Len(tokens)
      <4>1. b # End
        BY DEF End
      <4>. QED
        BY <2>3, <4>1 DEF Get
    <3>2. ~IsPragma((j + 1) - 1)
      BY <2>3, <3>1 DEF BracesPlain
    <3>3. (j + 1) - 1 = j
      OBVIOUS
    <3>. QED
      BY <1>2, <3>2, <3>3
  <2>. QED
    BY <2>1, <2>2, <2>3
<1>. QED
  BY <1>1, <1>2

\* The garbage closes every brace it opens.
LEMMA GarbageBalanced ==
  ASSUME Len(tokens) \in Nat, BracesPlain, NEW i \in 0 .. Len(tokens)
  PROVE  \/ At(SkipGarbage(i)) = End
         \/ Get(i) = "rbrace"
         \/ CountOf(i, SkipGarbage(i), "lbrace") = CountOf(i, SkipGarbage(i), "rbrace")
<1>. SUFFICES ASSUME At(SkipGarbage(i)) # End, Get(i) # "rbrace"
              PROVE  CountOf(i, SkipGarbage(i), "lbrace") = CountOf(i, SkipGarbage(i), "rbrace")
  OBVIOUS
<1>. DEFINE open == OpenBraces(i)
            L(j) == CountOf(i, j, "lbrace")
            R(j) == CountOf(i, j, "rbrace")
<1>1. PICK k \in i .. Len(tokens) : k = SkipGarbage(i)
  BY GarbageEnds
<1>2. Breaks(i, k, open) /\ \A j \in i .. k - 1 : ~Breaks(i, j, open)
  BY <1>1, GarbageEnds
<1>3. \A j \in i .. Len(tokens) : open[j] = OpenStep(i, open, j) /\ open[j] \in Nat
  BY OpenUnfolds
<1>4. \A j \in i .. Len(tokens) : L(j) \in Nat /\ R(j) \in Nat
  <2>1. ASSUME NEW j \in i .. Len(tokens)
        PROVE  L(j) \in Nat /\ R(j) \in Nat
    <3>1. i \in Nat /\ j \in Nat /\ i <= j
      OBVIOUS
    <3>. QED
      BY <3>1, CountNext
  <2>. QED
    BY <2>1
<1>5. L(i) = 0 /\ R(i) = 0
  BY CountNext
<1>6. ASSUME NEW j \in i .. k - 1
      PROVE  /\ Get(j) = "lbrace" => L(j + 1) = L(j) + 1 /\ R(j + 1) = R(j) /\ open[j + 1] = open[j] + 1
             /\ Get(j) = "rbrace" => L(j + 1) = L(j) /\ R(j + 1) = R(j) + 1 /\ open[j + 1] = open[j] - 1
             /\ Get(j) \notin {"lbrace", "rbrace"} => L(j + 1) = L(j) /\ R(j + 1) = R(j) /\ open[j + 1] = open[j]
  <2>1. j \in 0 .. Len(tokens) /\ j + 1 \in i .. Len(tokens) /\ j + 1 # i /\ (j + 1) - 1 = j
        /\ j \in Nat /\ i \in Nat /\ i <= j /\ j \in i .. Len(tokens)
    OBVIOUS
  <2>2. /\ L(j + 1) = IF Get(j) = "lbrace" THEN L(j) + 1 ELSE L(j)
        /\ R(j + 1) = IF Get(j) = "rbrace" THEN R(j) + 1 ELSE R(j)
    BY <2>1, CountNext
  <2>3. (At(j) = "lbrace" <=> Get(j) = "lbrace") /\ (At(j) = "rbrace" <=> Get(j) = "rbrace")
    BY <2>1, BracesSeen
  <2>4. open[j + 1] = IF Get(j) = "lbrace" THEN open[j] + 1
                      ELSE IF Get(j) = "rbrace" /\ open[j] > 0 THEN open[j] - 1 ELSE open[j]
    BY <1>3, <2>1, <2>3 DEF OpenStep
  <2>5. Get(j) = "rbrace" => open[j] > 0
    <3>1. ~Breaks(i, j, open)
      BY <1>2
    <3>2. Get(j) = "rbrace" => j > i
      BY <2>1
    <3>3. open[j] \in Nat
      BY <1>3, <2>1
    <3>. QED
      BY <2>3, <3>1, <3>2, <3>3 DEF Breaks
  <2>. HIDE DEF open, L, R
  <2>. QED
    BY <2>2, <2>4, <2>5
<1>. HIDE DEF open, L, R
<1>. DEFINE S == {j \in i .. k : open[j] # L(j) - R(j)}
<1>7. ASSUME NEW j \in S
      PROVE  \E y \in S : y < j
  <2>1. j # i
    BY <1>3, <1>5 DEF OpenStep
  <2>2. j - 1 \in i .. k - 1 /\ (j - 1) + 1 = j /\ j - 1 \in i .. k /\ j - 1 \in i .. Len(tokens)
    BY <2>1
  <2>3. open[j - 1] # L(j - 1) - R(j - 1)
    <3>1. open[j - 1] \in Nat /\ L(j - 1) \in Nat /\ R(j - 1) \in Nat
      BY <1>3, <1>4, <2>2
    <3>. QED
      BY <1>6, <2>2, <3>1
  <2>. QED
    BY <2>2, <2>3
<1>8. S \in SUBSET Nat
  OBVIOUS
<1>9. S = {}
  <2>. HIDE DEF S
  <2>. QED
    BY <1>7, <1>8, LeastCounterexample
<1>10. open[k] = L(k) - R(k)
  BY <1>9
<1>11. open[k] = 0
  <2>1. CASE k > i /\ At(k - 1) = "rbrace" /\ open[k - 1] = 1
    <3>1. k - 1 \in i .. k - 1 /\ (k - 1) + 1 = k /\ k - 1 \in 0 .. Len(tokens)
      BY <2>1
    <3>2. Get(k - 1) = "rbrace"
      BY <2>1, <3>1, BracesSeen
    <3>. QED
      BY <1>6, <2>1, <3>1, <3>2
  <2>. QED
    BY <1>1, <1>2, <2>1 DEF Breaks
<1>12. L(k) \in Nat /\ R(k) \in Nat
  BY <1>4
<1>13. L(k) = R(k)
  BY <1>10, <1>11, <1>12
<1>. QED
  BY <1>1, <1>13 DEF L, R

-----------------------------------------------------------------------------
(* The invariant *)

Kinds == {"unit", "rule", "block"}
Checkpoint == [index : Nat, pack : Packs, top : Nat, stack : Seq(Packs), skipped : SUBSET Nat]
FrameType == [kind : Kinds, saved : Checkpoint, tries : Nat, bad : BOOLEAN]

\* The state that a text gives, as a function of the text.
PlainText(text, without) ==
  LET Get0(i) == IF i \in 0 .. Len(text) - 1 THEN text[i + 1] ELSE End
      plain[k \in 0 .. Len(text)] ==
            IF k = 0 THEN [pack |-> 0, stack |-> << >>]
            ELSE IF k - 1 \in without THEN plain[k - 1] ELSE PlainScan(plain[k - 1], Get0(k - 1))
  IN  plain

\* What a checkpoint stands for: the stack its top had when it was saved, and
\* while the state is exact the state that the text before it gives.
Faithful(c, text, slots, following) ==
  /\ c \in Checkpoint
  /\ c.index <= Len(text)
  /\ c.skipped \subseteq 0 .. c.index - 1
  /\ c.top <= Len(slots)
  /\ c.stack = StackOf(slots)[c.top]
  /\ following => [pack |-> c.pack, stack |-> c.stack] = PlainText(text, c.skipped)[c.index]

\* The call stack: a translation unit at the bottom, rules and blocks above it,
\* each with a checkpoint it may go back to.
CallStack(fs, text, slots, following) ==
  /\ fs \in Seq(FrameType)
  /\ Len(fs) > 0 /\ fs[1].kind = "unit"
  /\ \A n \in 2 .. Len(fs) : fs[n].kind # "unit"
  /\ \A n \in 1 .. Len(fs) : Faithful(fs[n].saved, text, slots, following)

TypeInv ==
  /\ tokens \in Seq(Tokens)
  /\ index \in 0 .. Len(tokens)
  /\ Good(pragmas)
  /\ skipped \subseteq 0 .. index - 1
  /\ exact \in BOOLEAN

TextInv == exact => Meaning(pragmas) = PlainText(tokens, skipped)[index]

ParserInv == TypeInv /\ TextInv /\ CallStack(frames, tokens, pragmas.slots, exact)

\* It is the state of the text being parsed.
LEMMA PlainIsText ==
  ASSUME NEW w
  PROVE  PlainStates(w) = PlainText(tokens, w)
BY Zenon DEF PlainStates, PlainText, Get

\* Where a checkpoint points.
LEMMA FaithfulFacts ==
  ASSUME NEW c, NEW text, NEW slots, NEW following, Faithful(c, text, slots, following),
         Len(text) \in Nat, Len(slots) \in Nat
  PROVE  /\ c.index \in 0 .. Len(text) /\ c.skipped \in SUBSET (0 .. c.index - 1)
         /\ c.top \in 0 .. Len(slots) /\ c.stack = StackOf(slots)[c.top]
BY DEF Faithful, Checkpoint

\* The call stack after returning to frame n.
LEMMA StackPrefix ==
  ASSUME NEW fs, NEW text, NEW slots, NEW following, CallStack(fs, text, slots, following),
         NEW n \in 1 .. Len(fs)
  PROVE  CallStack(SubSeq(fs, 1, n), text, slots, following)
<1>. DEFINE g == SubSeq(fs, 1, n)
<1>1. fs \in Seq(FrameType) /\ Len(fs) \in Nat
  BY DEF CallStack
<1>2. g \in Seq(FrameType) /\ Len(g) = n /\ \A k \in 1 .. n : g[k] = fs[k]
  BY <1>1
<1>. HIDE DEF g
<1>. QED
  BY <1>1, <1>2 DEF CallStack, g

\* The call stack after a call.
LEMMA StackCall ==
  ASSUME NEW fs, NEW text, NEW slots, NEW following, CallStack(fs, text, slots, following),
         NEW f \in FrameType, f.kind # "unit", Faithful(f.saved, text, slots, following)
  PROVE  CallStack(Append(fs, f), text, slots, following)
<1>. DEFINE g == Append(fs, f)
<1>1. fs \in Seq(FrameType) /\ Len(fs) \in Nat /\ Len(fs) > 0
  BY DEF CallStack
<1>2. /\ g \in Seq(FrameType) /\ Len(g) = Len(fs) + 1
      /\ \A k \in 1 .. Len(fs) : g[k] = fs[k]
      /\ g[Len(fs) + 1] = f
  BY <1>1
<1>. HIDE DEF g
<1>3. \A k \in 1 .. Len(g) : k \in 1 .. Len(fs) \/ k = Len(fs) + 1
  BY <1>1, <1>2
<1>4. \A k \in 2 .. Len(g) : g[k].kind # "unit"
  BY <1>1, <1>2, <1>3 DEF CallStack
<1>5. \A k \in 1 .. Len(g) : Faithful(g[k].saved, text, slots, following)
  BY <1>1, <1>2, <1>3 DEF CallStack
<1>6. g[1].kind = "unit" /\ Len(g) > 0
  BY <1>1, <1>2 DEF CallStack
<1>. QED
  BY <1>2, <1>4, <1>5, <1>6 DEF CallStack, g

\* The call stack after returning to frame n and changing what it knows.
LEMMA StackReturn ==
  ASSUME NEW fs, NEW text, NEW slots, NEW following, CallStack(fs, text, slots, following),
         NEW n \in 1 .. Len(fs),
         NEW f \in FrameType, f.kind = fs[n].kind, Faithful(f.saved, text, slots, following)
  PROVE  CallStack(Append(SubSeq(fs, 1, n - 1), f), text, slots, following)
<1>. DEFINE h == SubSeq(fs, 1, n - 1)
            g == Append(h, f)
<1>1. fs \in Seq(FrameType) /\ Len(fs) \in Nat
  BY DEF CallStack
<1>2. h \in Seq(FrameType) /\ Len(h) = n - 1 /\ \A k \in 1 .. n - 1 : h[k] = fs[k]
  BY <1>1
<1>. HIDE DEF h
<1>3. /\ g \in Seq(FrameType) /\ Len(g) = n
      /\ \A k \in 1 .. n - 1 : g[k] = fs[k]
      /\ g[n] = f
  BY <1>2
<1>. HIDE DEF g
<1>4. \A k \in 1 .. Len(g) : k \in 1 .. n - 1 \/ k = n
  BY <1>3
<1>5. \A k \in 2 .. Len(g) : g[k].kind # "unit"
  <2>1. ASSUME NEW k \in 2 .. Len(g)
        PROVE  g[k].kind # "unit"
    <3>1. g[k].kind = fs[k].kind /\ k \in 2 .. Len(fs)
      BY <1>1, <1>3, <1>4
    <3>. QED
      BY <3>1 DEF CallStack
  <2>. QED
    BY <2>1
<1>6. \A k \in 1 .. Len(g) : Faithful(g[k].saved, text, slots, following)
  BY <1>1, <1>3, <1>4 DEF CallStack
<1>7. g[1].kind = "unit" /\ Len(g) > 0
  <2>1. g[1].kind = fs[1].kind
    BY <1>1, <1>3
  <2>. QED
    BY <1>3, <2>1 DEF CallStack
<1>. QED
  BY <1>3, <1>5, <1>6, <1>7 DEF CallStack, g, h

\* A checkpoint stays faithful when entries are added.
LEMMA FaithfulKept ==
  ASSUME NEW c, NEW text, NEW a, NEW b, NEW e, NEW f, Linked(a), Linked(b), Grown(a, b), f => e,
         Faithful(c, text, a, e)
  PROVE  Faithful(c, text, b, f)
<1>1. Len(a) \in Nat /\ Len(b) \in Nat /\ c.top \in 0 .. Len(a) /\ Len(a) <= Len(b)
  BY DEF Faithful, Checkpoint, Linked, Grown
<1>2. StackOf(b)[c.top] = StackOf(a)[c.top]
  BY <1>1, StackKept
<1>. QED
  BY <1>1, <1>2 DEF Faithful, Checkpoint

\* What every step has to show: the new frames were faithful before it.
LEMMA StepKeeps ==
  ASSUME ParserInv, tokens' = tokens,
         index' \in 0 .. Len(tokens), Good(pragmas'), Grown(pragmas.slots, pragmas'.slots),
         skipped' \subseteq 0 .. index' - 1, exact' \in BOOLEAN, exact' => exact,
         CallStack(frames', tokens, pragmas.slots, exact),
         exact' => Meaning(pragmas') = PlainText(tokens, skipped')[index']
  PROVE  ParserInv'
<1>1. Linked(pragmas.slots) /\ Linked(pragmas'.slots)
  BY DEF ParserInv, TypeInv, Good
<1>2. CallStack(frames', tokens, pragmas'.slots, exact')
  <2>1. \A n \in 1 .. Len(frames') : Faithful(frames'[n].saved, tokens, pragmas.slots, exact)
    BY DEF CallStack
  <2>2. \A n \in 1 .. Len(frames') : Faithful(frames'[n].saved, tokens, pragmas'.slots, exact')
    BY <1>1, <2>1, FaithfulKept
  <2>. QED
    BY <2>2 DEF CallStack
<1>3. TypeInv'
  BY DEF ParserInv, TypeInv
<1>4. TextInv'
  BY DEF TextInv
<1>. QED
  BY <1>2, <1>3, <1>4 DEF ParserInv

-----------------------------------------------------------------------------
(* The steps *)

\* The call stack and its top.
LEMMA TopFacts ==
  ASSUME ParserInv
  PROVE  /\ Len(frames) \in Nat /\ Len(frames) > 0
         /\ Top \in FrameType /\ Faithful(Top.saved, tokens, pragmas.slots, exact)
         /\ Below = SubSeq(frames, 1, Len(frames) - 1)
         /\ Len(tokens) \in Nat
         /\ Top.kind # "unit" => Len(frames) > 1
         /\ Len(frames) > 1 => Len(Below) = Len(frames) - 1
<1>1. frames \in Seq(FrameType) /\ Len(frames) \in Nat /\ Len(frames) > 0 /\ Len(tokens) \in Nat
  BY DEF ParserInv, CallStack, TypeInv
<1>2. Top \in FrameType /\ Faithful(Top.saved, tokens, pragmas.slots, exact)
  BY <1>1 DEF ParserInv, CallStack, Top
<1>3. Below = SubSeq(frames, 1, Len(frames) - 1)
  BY DEF Below
<1>4. Top.kind # "unit" => Len(frames) > 1
  BY <1>1 DEF ParserInv, CallStack, Top
<1>5. Len(frames) > 1 => Len(Below) = Len(frames) - 1
  BY <1>1, <1>3
<1>. QED
  BY <1>1, <1>2, <1>3, <1>4, <1>5

\* The call stack after a change of what its top knows.
LEMMA TopChanged ==
  ASSUME ParserInv, NEW f \in FrameType, f.kind = Top.kind,
         Faithful(f.saved, tokens, pragmas.slots, exact)
  PROVE  CallStack(WithTop(f), tokens, pragmas.slots, exact)
<1>1. CallStack(frames, tokens, pragmas.slots, exact)
  BY DEF ParserInv
<1>2. Len(frames) \in 1 .. Len(frames) /\ f.kind = frames[Len(frames)].kind
  BY TopFacts DEF Top
<1>3. CallStack(Append(SubSeq(frames, 1, Len(frames) - 1), f), tokens, pragmas.slots, exact)
  BY <1>1, <1>2, StackReturn
<1>. QED
  BY <1>3, TopFacts DEF WithTop

\* A checkpoint that is saved now is faithful.
LEMMA SavedFaithful ==
  ASSUME ParserInv
  PROVE  Faithful(Saved, tokens, pragmas.slots, exact)
<1>1. pragmas.top \in 0 .. Len(pragmas.slots) /\ pragmas.pack \in Packs /\ Linked(pragmas.slots)
  BY DEF ParserInv, TypeInv, Good, PragmaState
<1>2. Stack \in Seq(Packs)
  BY <1>1, StackType DEF Stack
<1>3. index \in Nat /\ index <= Len(tokens) /\ skipped \subseteq 0 .. index - 1 /\ skipped \in SUBSET Nat
  BY DEF ParserInv, TypeInv
<1>4. exact => [pack |-> pragmas.pack, stack |-> Stack] = PlainText(tokens, skipped)[index]
  BY DEF ParserInv, TextInv, Meaning, Stack
<1>. QED
  BY <1>1, <1>2, <1>3, <1>4 DEF Faithful, Saved, Checkpoint, Stack

\* The checkpoint of a frame that has none is the beginning of the text.
LEMMA NoneFaithful ==
  ASSUME TypeInv
  PROVE  Faithful(NoCheckpoint, tokens, pragmas.slots, exact)
<1>1. Linked(pragmas.slots) /\ Len(pragmas.slots) \in Nat /\ Len(tokens) \in Nat
  BY DEF TypeInv, Good, Linked
<1>2. StackOf(pragmas.slots)[0] = << >>
  <2>1. StackOf(pragmas.slots)[0] = StackStep(pragmas.slots, StackOf(pragmas.slots), 0)
    BY <1>1, StackUnfolds
  <2>. QED
    BY <2>1 DEF StackStep, NoTop
<1>3. PlainText(tokens, {})[0] = [pack |-> 0, stack |-> << >>]
  <2>1. PlainStates({})[0] = PlainStep({}, PlainStates({}), 0)
    BY <1>1, PlainUnfolds
  <2>. QED
    BY <2>1, PlainIsText DEF PlainStep
<1>4. << >> \in Seq(Packs)
  OBVIOUS
<1>. QED
  BY <1>1, <1>2, <1>3, <1>4 DEF Faithful, NoCheckpoint, Checkpoint, Packs, NoTop

\* kefir_parser_consume_pack_pragmas keeps the state in step with the text.
LEMMA ConsumeFollows ==
  ASSUME ParserInv
  PROVE  LET k == PackEnd(index)
             q == ScanRange(pragmas, index, k)
         IN  /\ k \in 0 .. Len(tokens)
             /\ Good(q) /\ Grown(pragmas.slots, q.slots)
             /\ skipped \subseteq 0 .. k - 1
             /\ exact => Meaning(q) = PlainText(tokens, skipped)[k]
<1>. DEFINE k == PackEnd(index)
            q == ScanRange(pragmas, index, k)
<1>1. Len(tokens) \in Nat /\ index \in 0 .. Len(tokens) /\ Good(pragmas) /\ skipped \subseteq 0 .. index - 1
  BY DEF ParserInv, TypeInv
<1>2. k \in index .. Len(tokens) /\ \A j \in index .. k - 1 : Get(j) \in PackPragmas
  BY <1>1, Places
<1>3. \A j \in index .. k - 1 : Get(j) \in Pragmas
  BY <1>2 DEF Pragmas
<1>4. \A j \in index .. k - 1 : j \notin skipped
  BY <1>1
<1>. HIDE DEF k
<1>5. /\ Good(q) /\ Grown(pragmas.slots, q.slots)
      /\ Meaning(pragmas) = PlainStates(skipped)[index] => Meaning(q) = PlainStates(skipped)[k]
  BY <1>1, <1>2, <1>3, <1>4, RangeFollows
<1>6. exact => Meaning(pragmas) = PlainStates(skipped)[index]
  BY PlainIsText DEF ParserInv, TextInv
<1>7. exact => Meaning(q) = PlainText(tokens, skipped)[k]
  BY <1>5, <1>6, PlainIsText
<1>8. k \in 0 .. Len(tokens) /\ skipped \subseteq 0 .. k - 1
  BY <1>1, <1>2
<1>. QED
  BY <1>5, <1>7, <1>8 DEF k

\* Shifting tokens, with the pack pragmas among them recorded as passed over,
\* leaves the state that the text gives.
LEMMA ShiftFollows ==
  ASSUME Len(tokens) \in Nat, NEW i \in 0 .. Len(tokens), NEW k \in i .. Len(tokens),
         NEW w \in SUBSET (0 .. i - 1), NEW v,
         v = w \cup {j \in i .. k - 1 : Get(j) \in PackPragmas}
  PROVE  /\ v \subseteq 0 .. k - 1
         /\ PlainText(tokens, v)[k] = PlainText(tokens, w)[i]
<1>1. v \subseteq 0 .. k - 1
  <2>1. ASSUME NEW j \in v
        PROVE  j \in 0 .. k - 1
    <3>1. j \in 0 .. i - 1 \/ j \in i .. k - 1
      OBVIOUS
    <3>. QED
      BY <3>1
  <2>. QED
    BY <2>1
<1>2. PlainStates(v)[k] = PlainStates(v)[i]
  <2>1. \A j \in i .. k - 1 : j \in v \/ Get(j) \notin PackPragmas
    OBVIOUS
  <2>. QED
    BY <2>1, PlainIdles
<1>3. PlainStates(v)[i] = PlainStates(w)[i]
  <2>1. \A j \in 0 .. i - 1 : j \in v <=> j \in w
    OBVIOUS
  <2>. QED
    BY <2>1, PlainAgrees
<1>. QED
  BY <1>1, <1>2, <1>3, PlainIsText

\* Going back to a checkpoint gives the state that it stands for.
LEMMA RestoredFollows ==
  ASSUME ParserInv, NEW c, Faithful(c, tokens, pragmas.slots, exact)
  PROVE  /\ Good(Restored(c)) /\ Restored(c).slots = pragmas.slots
         /\ Restored(c).pack = c.pack /\ Restored(c).top = c.top
         /\ Meaning(Restored(c)) = [pack |-> c.pack, stack |-> c.stack]
<1>1. pragmas \in PragmaState /\ Good(pragmas)
  BY DEF ParserInv, TypeInv, Good
<1>2. c.pack \in Packs /\ c.top \in Nat /\ c.top <= Len(pragmas.slots)
      /\ c.stack = StackOf(pragmas.slots)[c.top]
  BY DEF Faithful, Checkpoint
<1>. DEFINE q == Restored(c)
<1>3. /\ q \in PragmaState /\ q.slots = pragmas.slots /\ q.pack = c.pack /\ q.top = c.top
  BY <1>1, <1>2 DEF Restored, PragmaState
<1>. HIDE DEF q
<1>4. Good(q)
  BY <1>1, <1>2, <1>3 DEF Good
<1>5. Meaning(q) = [pack |-> c.pack, stack |-> c.stack]
  BY <1>2, <1>3 DEF Meaning
<1>. QED
  BY <1>3, <1>4, <1>5 DEF q

\* The end of a translation unit.
LEMMA UnitDoneKeeps ==
  ASSUME ParserInv, UnitDone
  PROVE  ParserInv'
<1>1. /\ tokens' = tokens /\ frames' = frames /\ skipped' = skipped /\ exact' = exact
      /\ index' = PackEnd(index) /\ pragmas' = ScanRange(pragmas, index, PackEnd(index))
  BY DEF UnitDone
<1>2. /\ index' \in 0 .. Len(tokens) /\ Good(pragmas') /\ Grown(pragmas.slots, pragmas'.slots)
      /\ skipped' \subseteq 0 .. index' - 1
      /\ exact' => Meaning(pragmas') = PlainText(tokens, skipped')[index']
  BY <1>1, ConsumeFollows
<1>3. CallStack(frames', tokens, pragmas.slots, exact) /\ exact' \in BOOLEAN /\ (exact' => exact)
  BY <1>1 DEF ParserInv, TypeInv
<1>. QED
  BY <1>1, <1>2, <1>3, StepKeeps

\* A pragma of file scope.
LEMMA UnitPragmaKeeps ==
  ASSUME ParserInv, UnitPragma
  PROVE  ParserInv'
<1>. DEFINE i == AfterSemicolons(index)
<1>1. /\ tokens' = tokens /\ frames' = frames /\ skipped' = skipped /\ exact' = exact
      /\ index' = i + 1 /\ pragmas' = ScanPragma(pragmas, Get(i)) /\ Get(i) \in Pragmas
  BY DEF UnitPragma, IsPragma
<1>2. Len(tokens) \in Nat /\ index \in 0 .. Len(tokens) /\ Good(pragmas) /\ skipped \subseteq 0 .. index - 1
      /\ exact \in BOOLEAN
  BY DEF ParserInv, TypeInv
<1>3. i \in index .. Len(tokens) /\ \A j \in index .. i - 1 : Get(j) = "semicolon"
  BY <1>2, Places
<1>. HIDE DEF i
<1>4. i < Len(tokens)
  <2>1. Get(Len(tokens)) \notin Pragmas
    BY DEF Get, Pragmas, PackPragmas, End
  <2>. QED
    BY <1>1, <1>2, <1>3, <2>1
<1>5. Good(pragmas') /\ Grown(pragmas.slots, pragmas'.slots)
      /\ Meaning(pragmas') = PlainScan(Meaning(pragmas), Get(i))
  BY <1>1, <1>2, ScanFollows
<1>6. index' \in 0 .. Len(tokens) /\ skipped' \subseteq 0 .. index' - 1
  BY <1>1, <1>2, <1>3, <1>4
<1>7. ASSUME exact
      PROVE  Meaning(pragmas') = PlainText(tokens, skipped')[index']
  <2>1. Meaning(pragmas) = PlainStates(skipped)[index]
    BY <1>7, PlainIsText DEF ParserInv, TextInv
  <2>2. PlainStates(skipped)[i] = PlainStates(skipped)[index]
    <3>1. \A j \in index .. i - 1 : j \in skipped \/ Get(j) \notin PackPragmas
      BY <1>3 DEF PackPragmas
    <3>. QED
      BY <1>2, <1>3, <3>1, PlainIdles
  <2>3. PlainStates(skipped)[i + 1] = PlainStep(skipped, PlainStates(skipped), i + 1)
    <3>1. i + 1 \in 0 .. Len(tokens)
      BY <1>2, <1>3, <1>4
    <3>. QED
      BY <1>2, <3>1, PlainUnfolds
  <2>4. i \notin skipped /\ i + 1 # 0 /\ (i + 1) - 1 = i
    BY <1>2, <1>3
  <2>5. PlainStates(skipped)[i + 1] = PlainScan(PlainStates(skipped)[i], Get(i))
    BY <2>3, <2>4 DEF PlainStep
  <2>. QED
    BY <1>1, <1>5, <2>1, <2>2, <2>5, PlainIsText
<1>8. CallStack(frames', tokens, pragmas.slots, exact) /\ exact' \in BOOLEAN /\ (exact' => exact)
  BY <1>1, <1>2 DEF ParserInv
<1>. QED
  BY <1>1, <1>5, <1>6, <1>7, <1>8, StepKeeps

\* An external declaration is applied behind the semicolons.
LEMMA UnitItemKeeps ==
  ASSUME ParserInv, UnitItem
  PROVE  ParserInv'
<1>. DEFINE i == AfterSemicolons(index)
            c == [Saved EXCEPT !.index = i]
            f == [Top EXCEPT !.saved = Saved]
            g == Frame("rule", c, 0)
<1>1. /\ tokens' = tokens /\ pragmas' = pragmas /\ skipped' = skipped /\ exact' = exact
      /\ index' = i /\ Top.kind = "unit" /\ frames' = IF Get(i) = End THEN frames ELSE Append(WithTop(f), g)
  BY DEF UnitItem
<1>2. Len(tokens) \in Nat /\ index \in 0 .. Len(tokens) /\ Good(pragmas) /\ skipped \subseteq 0 .. index - 1
      /\ exact \in BOOLEAN
  BY DEF ParserInv, TypeInv
<1>3. i \in index .. Len(tokens) /\ \A j \in index .. i - 1 : Get(j) = "semicolon"
  BY <1>2, Places
<1>4. Faithful(Saved, tokens, pragmas.slots, exact) /\ Saved.index = index /\ Saved.skipped = skipped
  BY SavedFaithful DEF Saved
<1>5. PlainText(tokens, skipped)[i] = PlainText(tokens, skipped)[index]
  <2>1. \A j \in index .. i - 1 : j \in skipped \/ Get(j) \notin PackPragmas
    BY <1>3 DEF PackPragmas
  <2>2. PlainStates(skipped)[i] = PlainStates(skipped)[index]
    BY <1>2, <1>3, <2>1, PlainIdles
  <2>. QED
    BY <2>2, PlainIsText
<1>. HIDE DEF i
<1>6. Faithful(c, tokens, pragmas.slots, exact)
  <2>1. Saved \in Checkpoint
    BY <1>4 DEF Faithful
  <2>2. c \in Checkpoint /\ c.index = i /\ c.skipped = skipped /\ c.pack = Saved.pack
        /\ c.stack = Saved.stack /\ c.top = Saved.top
    BY <1>2, <1>3, <1>4, <2>1 DEF Checkpoint
  <2>. HIDE DEF c
  <2>3. c.index <= Len(tokens) /\ c.skipped \subseteq 0 .. c.index - 1
    BY <1>2, <1>3, <2>2
  <2>. QED
    BY <1>4, <1>5, <2>2, <2>3 DEF Faithful
<1>. HIDE DEF c
<1>7. f \in FrameType /\ f.kind = Top.kind /\ f.saved = Saved
  BY <1>4, TopFacts DEF FrameType, Faithful
<1>8. g \in FrameType /\ g.kind # "unit" /\ g.saved = c
  BY <1>6 DEF Frame, FrameType, Kinds, Faithful
<1>. HIDE DEF f, g
<1>10. CallStack(frames', tokens, pragmas.slots, exact)
  <2>1. CallStack(frames, tokens, pragmas.slots, exact)
    BY DEF ParserInv
  <2>2. CallStack(WithTop(f), tokens, pragmas.slots, exact)
    BY <1>4, <1>7, TopChanged
  <2>3. CallStack(Append(WithTop(f), g), tokens, pragmas.slots, exact)
    BY <1>6, <1>8, <2>2, StackCall
  <2>. QED
    BY <1>1, <2>1, <2>3
<1>11. exact' => Meaning(pragmas') = PlainText(tokens, skipped')[index']
  BY <1>1, <1>5 DEF ParserInv, TextInv
<1>12. Grown(pragmas.slots, pragmas'.slots)
  <2>1. Len(pragmas.slots) \in Nat
    BY <1>2 DEF Good, Linked
  <2>. QED
    BY <1>1, <2>1 DEF Grown
<1>13. index' \in 0 .. Len(tokens) /\ skipped' \subseteq 0 .. index' - 1
  BY <1>1, <1>2, <1>3
<1>. QED
  BY <1>1, <1>2, <1>10, <1>11, <1>12, <1>13, StepKeeps

\* kefir_parser_apply saves a checkpoint and consumes the pack pragmas.
LEMMA EnterKeeps ==
  ASSUME ParserInv, NEW lower, CallStack(lower, tokens, pragmas.slots, exact), Enter(lower)
  PROVE  ParserInv'
<1>. DEFINE g == Frame("rule", Saved, 0)
<1>1. /\ tokens' = tokens /\ frames' = Append(lower, g) /\ skipped' = skipped /\ exact' = exact
      /\ index' = PackEnd(index) /\ pragmas' = ScanRange(pragmas, index, PackEnd(index))
  BY DEF Enter
<1>2. /\ index' \in 0 .. Len(tokens) /\ Good(pragmas') /\ Grown(pragmas.slots, pragmas'.slots)
      /\ skipped' \subseteq 0 .. index' - 1
      /\ exact' => Meaning(pragmas') = PlainText(tokens, skipped')[index']
  BY <1>1, ConsumeFollows
<1>3. Faithful(Saved, tokens, pragmas.slots, exact)
  BY SavedFaithful
<1>4. g \in FrameType /\ g.kind # "unit" /\ g.saved = Saved
  BY <1>3 DEF Frame, FrameType, Kinds, Faithful
<1>. HIDE DEF g
<1>5. CallStack(frames', tokens, pragmas.slots, exact)
  BY <1>1, <1>3, <1>4, StackCall
<1>6. exact' \in BOOLEAN /\ (exact' => exact)
  BY <1>1 DEF ParserInv, TypeInv
<1>. QED
  BY <1>1, <1>2, <1>5, <1>6, StepKeeps

\* A rule applies another rule.
LEMMA RuleEnterKeeps ==
  ASSUME ParserInv, RuleEnter
  PROVE  ParserInv'
<1>. DEFINE f == [Top EXCEPT !.tries = @ + 1]
<1>1. Enter(WithTop(f))
  BY DEF RuleEnter
<1>2. f \in FrameType /\ f.kind = Top.kind /\ f.saved = Top.saved
  BY TopFacts DEF FrameType
<1>. HIDE DEF f
<1>3. CallStack(WithTop(f), tokens, pragmas.slots, exact)
  BY <1>2, TopFacts, TopChanged
<1>. QED
  BY <1>1, <1>3, EnterKeeps

\* The next item of a block, or its second alternative.
LEMMA BlockItemKeeps ==
  ASSUME ParserInv, BlockItem
  PROVE  ParserInv'
<1>. DEFINE f == [Top EXCEPT !.tries = @ + 1, !.saved = IF Top.tries = 0 THEN Saved ELSE @]
<1>1. Enter(WithTop(f))
  BY DEF BlockItem
<1>2. Faithful(Saved, tokens, pragmas.slots, exact)
  BY SavedFaithful
<1>3. f \in FrameType /\ f.kind = Top.kind /\ f.saved \in {Saved, Top.saved}
  <2>1. Top \in FrameType
    BY TopFacts
  <2>2. Saved \in Checkpoint /\ Top.saved \in Checkpoint
    BY <1>2, <2>1 DEF Faithful, FrameType
  <2>3. PICK c \in Checkpoint : c = (IF Top.tries = 0 THEN Saved ELSE Top.saved)
    BY <2>2
  <2>4. PICK t \in FrameType : t = Top
    BY <2>1
  <2>5. f = [t EXCEPT !.tries = t.tries + 1, !.saved = c]
    BY <2>3, <2>4
  <2>. HIDE DEF f
  <2>6. t.tries + 1 \in Nat
    BY DEF FrameType
  <2>7. f \in FrameType /\ f.kind = t.kind /\ f.saved = c
    BY <2>5, <2>6 DEF FrameType
  <2>. QED
    BY <2>3, <2>4, <2>7
<1>. HIDE DEF f
<1>4. CallStack(WithTop(f), tokens, pragmas.slots, exact)
  BY <1>2, <1>3, TopFacts, TopChanged
<1>. QED
  BY <1>1, <1>4, EnterKeeps

\* The pragma state is unchanged.
LEMMA SameGrown ==
  ASSUME ParserInv
  PROVE  Good(pragmas) /\ Grown(pragmas.slots, pragmas.slots)
BY DEF ParserInv, TypeInv, Good, Linked, Grown

\* A rule shifts a token, with the pragmas before it.
LEMMA RuleShiftKeeps ==
  ASSUME ParserInv, RuleShift
  PROVE  ParserInv'
<1>. DEFINE f == [Top EXCEPT !.tries = 0]
<1>1. /\ tokens' = tokens /\ pragmas' = pragmas /\ exact' = exact
      /\ index' = NextSkip(index) /\ frames' = WithTop(f)
      /\ skipped' = skipped \cup {i \in index .. index' - 1 : Get(i) \in PackPragmas}
  BY DEF RuleShift
<1>2. Len(tokens) \in Nat /\ index \in 0 .. Len(tokens) /\ skipped \in SUBSET (0 .. index - 1)
      /\ exact \in BOOLEAN
  BY DEF ParserInv, TypeInv
<1>3. index' \in index .. Len(tokens)
  BY <1>1, <1>2, Places
<1>4. /\ skipped' \subseteq 0 .. index' - 1
      /\ PlainText(tokens, skipped')[index'] = PlainText(tokens, skipped)[index]
  BY <1>1, <1>2, <1>3, ShiftFollows
<1>5. f \in FrameType /\ f.kind = Top.kind /\ f.saved = Top.saved
  BY TopFacts DEF FrameType
<1>. HIDE DEF f
<1>6. CallStack(frames', tokens, pragmas.slots, exact)
  BY <1>1, <1>5, TopFacts, TopChanged
<1>7. exact' => Meaning(pragmas') = PlainText(tokens, skipped')[index']
  BY <1>1, <1>4 DEF ParserInv, TextInv
<1>8. index' \in 0 .. Len(tokens)
  BY <1>2, <1>3
<1>. QED
  BY <1>1, <1>2, <1>4, <1>6, <1>7, <1>8, SameGrown, StepKeeps

\* A rule matches, and the pack pragmas behind it are consumed.
LEMMA RuleMatchKeeps ==
  ASSUME ParserInv, RuleMatch
  PROVE  ParserInv'
<1>. DEFINE caller == frames[Len(frames) - 1]
            f == Continued(caller, Moved)
<1>1. Len(frames) \in Nat /\ Len(frames) > 1
  BY TopFacts DEF RuleMatch
<1>2. /\ tokens' = tokens /\ skipped' = skipped /\ exact' = exact
      /\ index' = PackEnd(index) /\ pragmas' = ScanRange(pragmas, index, PackEnd(index))
      /\ frames' = Append(SubSeq(frames, 1, Len(frames) - 2), f)
  BY <1>1, TopFacts DEF RuleMatch, Caller
<1>3. /\ index' \in 0 .. Len(tokens) /\ Good(pragmas') /\ Grown(pragmas.slots, pragmas'.slots)
      /\ skipped' \subseteq 0 .. index' - 1
      /\ exact' => Meaning(pragmas') = PlainText(tokens, skipped')[index']
  BY <1>2, ConsumeFollows
<1>4. caller \in FrameType /\ Faithful(caller.saved, tokens, pragmas.slots, exact)
  BY <1>1 DEF ParserInv, CallStack
<1>. HIDE DEF caller
<1>5. f \in FrameType /\ f.kind = caller.kind /\ f.saved = caller.saved
  BY <1>4 DEF Continued, FrameType
<1>. HIDE DEF f
<1>6. CallStack(frames', tokens, pragmas.slots, exact)
  <2>1. Len(frames) - 1 \in 1 .. Len(frames) /\ f.kind = frames[Len(frames) - 1].kind
    BY <1>1, <1>5 DEF caller
  <2>2. CallStack(frames, tokens, pragmas.slots, exact)
    BY DEF ParserInv
  <2>3. CallStack(Append(SubSeq(frames, 1, (Len(frames) - 1) - 1), f), tokens, pragmas.slots, exact)
    BY <1>4, <1>5, <2>1, <2>2, StackReturn
  <2>4. (Len(frames) - 1) - 1 = Len(frames) - 2
    BY <1>1
  <2>. QED
    BY <1>2, <2>3, <2>4
<1>7. exact' \in BOOLEAN /\ (exact' => exact)
  BY <1>2 DEF ParserInv, TypeInv
<1>. QED
  BY <1>2, <1>3, <1>6, <1>7, StepKeeps

\* The greatest element of a bounded set.
LEMMA MaxIsGreatest ==
  ASSUME NEW m \in Nat, NEW S \in SUBSET (0 .. m), S # {}
  PROVE  Max(S) \in S
<1>. DEFINE T == {n \in 0 .. m : m - n \in S}
<1>1. T \in SUBSET Nat
  OBVIOUS
<1>2. T # {}
  <2>1. PICK x \in S : TRUE
    OBVIOUS
  <2>2. m - x \in T
    <3>1. m - (m - x) = x
      OBVIOUS
    <3>. QED
      BY <3>1
  <2>. QED
    BY <2>2
<1>3. PICK n \in T : \A y \in T : n <= y
  <2>. HIDE DEF T
  <2>. QED
    BY <1>1, <1>2, MinIsLeast
<1>4. \A y \in S : m - n >= y
  <2>1. ASSUME NEW y \in S
        PROVE  m - n >= y
    <3>1. m - y \in T
      <4>1. m - (m - y) = y
        OBVIOUS
      <4>. QED
        BY <4>1
    <3>2. n <= m - y
      BY <1>3, <3>1
    <3>. QED
      BY <3>2
  <2>. QED
    BY <2>1
<1>5. \E x \in S : \A y \in S : x >= y
  BY <1>3, <1>4
<1>. QED
  BY <1>5 DEF Max

\* A syntax error finds a block, or the unit, that handles it.
LEMMA HandlerFacts ==
  ASSUME ParserInv, Len(frames) > 1
  PROVE  Handler(Len(frames)) \in 1 .. Len(frames) - 1 /\ frames[Handler(Len(frames))].kind # "rule"
<1>. DEFINE S == {n \in 1 .. Len(frames) - 1 : frames[n].kind # "rule"}
<1>1. Len(frames) \in Nat
  BY TopFacts
<1>2. 1 \in S
  BY <1>1 DEF ParserInv, CallStack
<1>3. S \in SUBSET (0 .. Len(frames))
  BY <1>1
<1>4. Max(S) \in S
  <2>. HIDE DEF S
  <2>. QED
    BY <1>1, <1>2, <1>3, MaxIsGreatest
<1>5. Handler(Len(frames)) = Max(S)
  BY DEF Handler
<1>. QED
  BY <1>4, <1>5

\* Recovery from an error: a block goes back to its checkpoint, the unit keeps
\* what the failed item did to the pragma state, which is then no longer exact.
LEMMA RecoverKeeps ==
  ASSUME ParserInv, NEW n \in 1 .. Len(frames), frames[n].kind # "rule",
         NEW p, Good(p), Grown(pragmas.slots, p.slots), Recover(n, p)
  PROVE  ParserInv'
<1>. DEFINE f == frames[n]
            c == f.saved
            g == [f EXCEPT !.tries = 0, !.bad = TRUE]
<1>1. /\ Len(frames) \in Nat /\ f \in FrameType /\ c \in Checkpoint
      /\ Faithful(c, tokens, pragmas.slots, exact)
      /\ CallStack(frames, tokens, pragmas.slots, exact)
      /\ Len(tokens) \in Nat
  <2>1. CallStack(frames, tokens, pragmas.slots, exact)
    BY DEF ParserInv
  <2>2. f \in FrameType /\ Faithful(c, tokens, pragmas.slots, exact)
    BY <2>1 DEF CallStack
  <2>3. c \in Checkpoint
    BY <2>2 DEF Faithful
  <2>. QED
    BY <2>1, <2>2, <2>3, TopFacts
<1>2. Linked(pragmas.slots) /\ Len(pragmas.slots) \in Nat
  BY DEF ParserInv, TypeInv, Good, Linked
<1>3. CASE ~MayRecover
  <2>1. tokens' = tokens /\ UNCHANGED <<index, pragmas, frames, skipped, exact>>
    BY <1>3 DEF Recover
  <2>. QED
    BY <2>1 DEF ParserInv, TypeInv, TextInv
<1>4. CASE MayRecover
  <2>1. /\ tokens' = tokens
        /\ index' = SkipGarbage(c.index)
        /\ frames' = Append(SubSeq(frames, 1, n - 1), g)
        /\ pragmas' = IF f.kind = "block" THEN Restored(c) ELSE p
        /\ skipped' = c.skipped \cup {i \in c.index .. index' - 1 : Get(i) \in PackPragmas}
        /\ exact' = (exact /\ (f.kind = "unit" => p.pack = c.pack /\ p.top = c.top))
    BY <1>4 DEF Recover
  <2>2. g \in FrameType /\ g.kind = f.kind /\ g.saved = c
    BY <1>1 DEF FrameType
  <2>. HIDE DEF g
  <2>3. CallStack(frames', tokens, pragmas.slots, exact)
    BY <1>1, <2>1, <2>2, StackReturn
  <2>4. c.index \in 0 .. Len(tokens) /\ c.skipped \in SUBSET (0 .. c.index - 1)
    <3>. HIDE DEF c
    <3>. QED
      BY <1>1, <1>2, FaithfulFacts
  <2>. HIDE DEF c, f
  <2>5. index' \in c.index .. Len(tokens)
    BY <1>1, <2>1, <2>4, GarbageEnds
  <2>6. /\ skipped' \subseteq 0 .. index' - 1
        /\ PlainText(tokens, skipped')[index'] = PlainText(tokens, c.skipped)[c.index]
    <3>1. PICK i, w, k, v : i = c.index /\ w = c.skipped /\ k = index' /\ v = skipped'
      OBVIOUS
    <3>2. /\ Len(tokens) \in Nat
          /\ i \in 0 .. Len(tokens) /\ k \in i .. Len(tokens) /\ w \in SUBSET (0 .. i - 1)
          /\ v = w \cup {j \in i .. k - 1 : Get(j) \in PackPragmas}
      BY <1>1, <2>1, <2>4, <2>5, <3>1
    <3>3. v \subseteq 0 .. k - 1 /\ PlainText(tokens, v)[k] = PlainText(tokens, w)[i]
      BY ONLY <3>2, ShiftFollows
    <3>. QED
      BY <3>1, <3>3
  <2>7. exact \in BOOLEAN /\ exact' \in BOOLEAN /\ (exact' => exact)
    BY <2>1 DEF ParserInv, TypeInv
  <2>8. exact => [pack |-> c.pack, stack |-> c.stack] = PlainText(tokens, c.skipped)[c.index]
    BY <1>1 DEF Faithful
  <2>9. Good(pragmas') /\ Grown(pragmas.slots, pragmas'.slots)
        /\ (exact' => Meaning(pragmas') = [pack |-> c.pack, stack |-> c.stack])
    <3>1. CASE f.kind = "block"
      BY <1>1, <2>1, <3>1, RestoredFollows, SameGrown
    <3>2. CASE f.kind # "block"
      <4>1. pragmas' = p
        BY <2>1, <3>2
      <4>2. f.kind = "unit"
        BY <1>1, <3>2 DEF FrameType, Kinds, f
      <4>3. ASSUME exact'
            PROVE  Meaning(p) = [pack |-> c.pack, stack |-> c.stack]
        <5>1. p.pack = c.pack /\ p.top = c.top
          BY <2>1, <4>2, <4>3
        <5>2. /\ c.top \in 0 .. Len(pragmas.slots) /\ c.stack = StackOf(pragmas.slots)[c.top]
              /\ Linked(pragmas.slots) /\ Linked(p.slots)
          BY <1>1, <1>2, FaithfulFacts DEF Good
        <5>3. StackOf(p.slots)[c.top] = c.stack
          BY <5>2, StackKept
        <5>. QED
          BY <5>1, <5>3 DEF Meaning
      <4>. QED
        BY <4>1, <4>3
    <3>. QED
      BY <3>1, <3>2
  <2>10. exact' => Meaning(pragmas') = PlainText(tokens, skipped')[index']
    BY <2>6, <2>7, <2>8, <2>9
  <2>11. index' \in 0 .. Len(tokens)
    BY <2>4, <2>5
  <2>. QED
    BY <2>1, <2>3, <2>6, <2>7, <2>9, <2>10, <2>11, StepKeeps
<1>. QED
  BY <1>3, <1>4

\* A rule reports a syntax error.
LEMMA RuleErrorKeeps ==
  ASSUME ParserInv, RuleError
  PROVE  ParserInv'
<1>1. Len(frames) \in Nat /\ Len(frames) > 1 /\ Recover(Handler(Len(frames)), pragmas)
  BY TopFacts DEF RuleError
<1>2. Handler(Len(frames)) \in 1 .. Len(frames) /\ frames[Handler(Len(frames))].kind # "rule"
  BY <1>1, HandlerFacts
<1>. QED
  BY <1>1, <1>2, SameGrown, RecoverKeeps

\* A rule does not match.
LEMMA RuleNoMatchKeeps ==
  ASSUME ParserInv, RuleNoMatch
  PROVE  ParserInv'
<1>. DEFINE caller == frames[Len(frames) - 1]
            c == Top.saved
<1>1. Len(frames) \in Nat /\ Len(frames) > 1 /\ Caller = caller
      /\ Faithful(c, tokens, pragmas.slots, exact) /\ Len(Below) = Len(frames) - 1
  BY TopFacts DEF RuleNoMatch, Caller
<1>2. Good(Restored(c)) /\ Restored(c).slots = pragmas.slots
      /\ Meaning(Restored(c)) = [pack |-> c.pack, stack |-> c.stack]
  BY <1>1, RestoredFollows
<1>3. Grown(pragmas.slots, Restored(c).slots)
  BY <1>2, SameGrown
<1>4. CASE caller.kind = "unit" \/ (caller.kind = "block" /\ caller.tries = 2)
  <2>1. Recover(Len(frames) - 1, Restored(c))
    BY <1>1, <1>4 DEF RuleNoMatch
  <2>2. Len(frames) - 1 \in 1 .. Len(frames) /\ frames[Len(frames) - 1].kind # "rule"
    BY <1>1, <1>4
  <2>. QED
    BY <1>2, <1>3, <2>1, <2>2, RecoverKeeps
<1>5. CASE ~(caller.kind = "unit" \/ (caller.kind = "block" /\ caller.tries = 2))
  <2>1. /\ frames' = Below /\ index' = c.index /\ pragmas' = Restored(c)
        /\ skipped' = c.skipped /\ tokens' = tokens /\ exact' = exact
    BY <1>1, <1>5 DEF RuleNoMatch
  <2>2. CallStack(frames', tokens, pragmas.slots, exact)
    <3>1. CallStack(frames, tokens, pragmas.slots, exact) /\ Len(frames) - 1 \in 1 .. Len(frames)
      BY <1>1 DEF ParserInv
    <3>2. CallStack(SubSeq(frames, 1, Len(frames) - 1), tokens, pragmas.slots, exact)
      BY <3>1, StackPrefix
    <3>. QED
      BY <2>1, <3>2, TopFacts
  <2>3. index' \in 0 .. Len(tokens) /\ skipped' \subseteq 0 .. index' - 1
        /\ (exact' => Meaning(pragmas') = PlainText(tokens, skipped')[index'])
    <3>1. c \in Checkpoint /\ c.index <= Len(tokens) /\ c.skipped \subseteq 0 .. c.index - 1
      BY <1>1 DEF Faithful
    <3>2. exact => [pack |-> c.pack, stack |-> c.stack] = PlainText(tokens, c.skipped)[c.index]
      BY <1>1 DEF Faithful
    <3>3. c.index \in 0 .. Len(tokens)
      BY <3>1, TopFacts DEF Checkpoint
    <3>. QED
      BY <1>2, <2>1, <3>1, <3>2, <3>3
  <2>4. exact' \in BOOLEAN /\ (exact' => exact)
    BY <2>1 DEF ParserInv, TypeInv
  <2>. QED
    BY <1>2, <1>3, <2>1, <2>2, <2>3, <2>4, StepKeeps
<1>. QED
  BY <1>4, <1>5

\* Pragmas that are not about packing leave the pack state alone.
LEMMA RangeIdles ==
  ASSUME NEW p, NEW i \in Nat, NEW k \in Nat, i <= k, \A j \in i .. k - 1 : Get(j) = "fp"
  PROVE  ScanRange(p, i, k) = p
<1>1. PICK f : /\ \A j \in i .. k : f[j] = ScanStep(p, i, f, j)
               /\ ScanRange(p, i, k) = f[k]
  BY ScanUnfolds
<1>. DEFINE S == {j \in i .. k : f[j] # p}
<1>2. ASSUME NEW j \in S
      PROVE  \E y \in S : y < j
  <2>1. f[j] = ScanStep(p, i, f, j)
    BY <1>1
  <2>2. j # i
    BY <2>1 DEF ScanStep
  <2>3. j - 1 \in i .. k - 1 /\ j - 1 \in i .. k
    BY <2>2
  <2>4. f[j] = ScanPragma(f[j - 1], "fp")
    BY <2>1, <2>2, <2>3 DEF ScanStep
  <2>5. f[j] = f[j - 1]
    BY <2>4 DEF ScanPragma
  <2>. QED
    BY <2>3, <2>5
<1>3. S \in SUBSET Nat
  OBVIOUS
<1>4. S = {}
  <2>. HIDE DEF S
  <2>. QED
    BY <1>2, <1>3, LeastCounterexample
<1>. QED
  BY <1>1, <1>4

\* A block begins; the pragmas behind its brace are scanned apart.
LEMMA BlockOpenKeeps ==
  ASSUME ParserInv, BlockOpen
  PROVE  ParserInv'
<1>. DEFINE a == NextSkip(index)
            b == LeadingEnd(index)
            z == [pragmas EXCEPT !.pack = 0]
            local == ScanRange(z, a, b)
            f == [Top EXCEPT !.tries = 0]
            g == Frame("block", NoCheckpoint, 0)
<1>1. /\ tokens' = tokens /\ index' = b
      /\ pragmas' = IF local.pack = 0 THEN [local EXCEPT !.pack = pragmas.pack] ELSE local
      /\ skipped' = skipped \cup {i \in index .. a - 1 : Get(i) \in PackPragmas}
      /\ frames' = Append(WithTop(f), g)
      /\ exact' = (exact /\ \A i \in a .. b - 1 : Get(i) \notin PackPragmas)
  BY DEF BlockOpen
<1>2. /\ Len(tokens) \in Nat /\ index \in 0 .. Len(tokens) /\ skipped \in SUBSET (0 .. index - 1)
      /\ exact \in BOOLEAN /\ Good(pragmas) /\ pragmas \in PragmaState /\ pragmas.pack \in Packs
  BY DEF ParserInv, TypeInv, Good, PragmaState
<1>3. a \in index .. Len(tokens) /\ a \in 0 .. Len(tokens) /\ a \in Nat
  BY <1>2, Places
<1>4. b \in a .. Len(tokens) /\ \A j \in a .. b - 1 : Get(j) \in Pragmas
  BY <1>2, <1>3, Places DEF LeadingEnd
<1>5. Good(z) /\ z.slots = pragmas.slots /\ z.top = pragmas.top /\ z.pack = 0 /\ z \in PragmaState
  BY <1>2 DEF Good, PragmaState, Packs
<1>6. f \in FrameType /\ f.kind = Top.kind /\ f.saved = Top.saved
  BY TopFacts DEF FrameType
<1>7. Faithful(NoCheckpoint, tokens, pragmas.slots, exact)
  BY NoneFaithful DEF ParserInv
<1>8. g \in FrameType /\ g.kind # "unit" /\ g.saved = NoCheckpoint
  BY <1>7 DEF Frame, FrameType, Kinds, Faithful
<1>. HIDE DEF f, g, a, b
<1>9. CallStack(frames', tokens, pragmas.slots, exact)
  <2>1. CallStack(WithTop(f), tokens, pragmas.slots, exact)
    BY <1>6, TopFacts, TopChanged
  <2>. QED
    BY <1>1, <1>7, <1>8, <2>1, StackCall
<1>. HIDE DEF z
<1>10. Good(local) /\ Grown(pragmas.slots, local.slots)
  BY <1>2, <1>3, <1>4, <1>5, RangeFollows
<1>11. Good(pragmas') /\ pragmas'.slots = local.slots
  <2>. HIDE DEF local
  <2>1. local \in PragmaState
    BY <1>10 DEF Good
  <2>2. CASE local.pack = 0
    <3>1. pragmas' = [local EXCEPT !.pack = pragmas.pack]
      BY <1>1, <2>2
    <3>2. pragmas' \in PragmaState /\ pragmas'.slots = local.slots /\ pragmas'.top = local.top
      BY <1>2, <2>1, <3>1 DEF PragmaState
    <3>. QED
      BY <1>10, <3>2 DEF Good
  <2>3. CASE local.pack # 0
    BY <1>1, <1>10, <2>3
  <2>. QED
    BY <2>2, <2>3
<1>12. skipped' \subseteq 0 .. a - 1
       /\ PlainText(tokens, skipped')[a] = PlainText(tokens, skipped)[index]
  BY <1>1, <1>2, <1>3, ShiftFollows
<1>13. ASSUME exact'
       PROVE  Meaning(pragmas') = PlainText(tokens, skipped')[index']
  <2>1. exact /\ \A j \in a .. b - 1 : Get(j) \notin PackPragmas
    BY <1>1, <1>13
  <2>2. \A j \in a .. b - 1 : Get(j) = "fp"
    BY <1>4, <2>1 DEF Pragmas
  <2>3. local = z
    <3>1. b \in Nat /\ a <= b
      BY <1>3, <1>4
    <3>. QED
      BY <1>3, <2>2, <3>1, RangeIdles
  <2>4. pragmas' = [z EXCEPT !.pack = pragmas.pack]
    BY <1>1, <1>5, <2>3
  <2>5. pragmas'.pack = pragmas.pack /\ pragmas'.top = pragmas.top /\ pragmas'.slots = pragmas.slots
    BY <1>5, <2>4 DEF PragmaState
  <2>6. Meaning(pragmas') = Meaning(pragmas)
    BY <2>5 DEF Meaning
  <2>7. PlainStates(skipped')[b] = PlainStates(skipped')[a]
    BY <1>2, <1>3, <1>4, <2>1, PlainIdles
  <2>8. Meaning(pragmas) = PlainText(tokens, skipped)[index]
    BY <2>1 DEF ParserInv, TextInv
  <2>. QED
    BY <1>1, <1>12, <2>6, <2>7, <2>8, PlainIsText
<1>14. index' \in 0 .. Len(tokens) /\ skipped' \subseteq 0 .. index' - 1
  <2>1. index' \in 0 .. Len(tokens)
    BY <1>1, <1>3, <1>4
  <2>2. 0 .. a - 1 \subseteq 0 .. index' - 1
    BY <1>1, <1>3, <1>4
  <2>. QED
    BY <1>12, <2>1, <2>2
<1>15. exact' \in BOOLEAN /\ (exact' => exact)
  BY <1>1, <1>2
<1>16. Grown(pragmas.slots, pragmas'.slots)
  BY <1>10, <1>11
<1>. QED
  BY <1>1, <1>9, <1>11, <1>13, <1>14, <1>15, <1>16, StepKeeps

\* A block ends, with an error if it recovered from one.
LEMMA BlockCloseKeeps ==
  ASSUME ParserInv, BlockClose
  PROVE  ParserInv'
<1>1. Len(frames) \in Nat /\ Len(frames) > 1
  BY TopFacts DEF BlockClose
<1>2. CASE Top.bad
  <2>1. Recover(Handler(Len(frames)), pragmas)
    BY <1>2 DEF BlockClose
  <2>2. Handler(Len(frames)) \in 1 .. Len(frames) /\ frames[Handler(Len(frames))].kind # "rule"
    BY <1>1, HandlerFacts
  <2>. QED
    BY <2>1, <2>2, SameGrown, RecoverKeeps
<1>3. CASE ~Top.bad
  <2>1. /\ tokens' = tokens /\ pragmas' = pragmas /\ exact' = exact
        /\ index' = NextSkip(index) /\ frames' = Below
        /\ skipped' = skipped \cup {i \in index .. index' - 1 : Get(i) \in PackPragmas}
    BY <1>3 DEF BlockClose
  <2>2. Len(tokens) \in Nat /\ index \in 0 .. Len(tokens) /\ skipped \in SUBSET (0 .. index - 1)
        /\ exact \in BOOLEAN
    BY DEF ParserInv, TypeInv
  <2>3. index' \in index .. Len(tokens)
    BY <2>1, <2>2, Places
  <2>4. /\ skipped' \subseteq 0 .. index' - 1
        /\ PlainText(tokens, skipped')[index'] = PlainText(tokens, skipped)[index]
    BY <2>1, <2>2, <2>3, ShiftFollows
  <2>5. CallStack(frames', tokens, pragmas.slots, exact)
    <3>1. CallStack(frames, tokens, pragmas.slots, exact) /\ Len(frames) - 1 \in 1 .. Len(frames)
      BY <1>1 DEF ParserInv
    <3>2. CallStack(SubSeq(frames, 1, Len(frames) - 1), tokens, pragmas.slots, exact)
      BY <3>1, StackPrefix
    <3>. QED
      BY <2>1, <3>2, TopFacts
  <2>6. exact' => Meaning(pragmas') = PlainText(tokens, skipped')[index']
    BY <2>1, <2>4 DEF ParserInv, TextInv
  <2>7. index' \in 0 .. Len(tokens)
    BY <2>2, <2>3
  <2>. QED
    BY <2>1, <2>2, <2>4, <2>5, <2>6, <2>7, SameGrown, StepKeeps
<1>. QED
  BY <1>2, <1>3

-----------------------------------------------------------------------------
(* The theorems *)

\* The parser begins behind the pack pragmas at the head of the file.
LEMMA InitInv ==
  ASSUME Init
  PROVE  ParserInv
<1>. DEFINE e == [pack |-> 0, slots |-> << >>, top |-> NoTop]
            u == Frame("unit", NoCheckpoint, 0)
<1>1. tokens \in Seq(Tokens) /\ Len(tokens) \in Nat /\ 0 \in 0 .. Len(tokens)
  <2>1. tokens \in Seq(Tokens)
    BY InputsAssumption DEF Init
  <2>. QED
    BY <2>1
<1>2. /\ index = PackEnd(0) /\ pragmas = ScanRange(e, 0, index) /\ frames = <<u>>
      /\ skipped = {} /\ exact = TRUE
  BY DEF Init
<1>3. Good(e)
  <2>1. << >> \in Seq(Entry) /\ Len(<< >>) = 0
    OBVIOUS
  <2>. QED
    BY <2>1 DEF Good, PragmaState, Linked, Packs, NoTop
<1>4. index \in 0 .. Len(tokens) /\ \A j \in 0 .. index - 1 : Get(j) \in Pragmas
  <2>1. index \in 0 .. Len(tokens) /\ \A j \in 0 .. index - 1 : Get(j) \in PackPragmas
    BY <1>1, <1>2, Places
  <2>. QED
    BY <2>1 DEF Pragmas
<1>5. Meaning(e) = PlainStates({})[0]
  <2>1. PlainStates({})[0] = PlainStep({}, PlainStates({}), 0)
    BY <1>1, PlainUnfolds
  <2>2. PlainStates({})[0] = [pack |-> 0, stack |-> << >>]
    BY <2>1 DEF PlainStep
  <2>3. PICK s : s = << >>
    OBVIOUS
  <2>4. e.slots = s /\ e.top = 0 /\ e.pack = 0 /\ Linked(s) /\ 0 \in 0 .. Len(s)
    BY <1>3, <2>3 DEF Good, NoTop
  <2>5. StackOf(s)[0] = StackStep(s, StackOf(s), 0)
    BY ONLY <2>4, StackUnfolds
  <2>6. StackOf(s)[0] = << >>
    BY <2>5 DEF StackStep, NoTop
  <2>. QED
    BY <2>2, <2>4, <2>6 DEF Meaning
<1>. HIDE DEF e
<1>6. Good(pragmas) /\ Meaning(pragmas) = PlainStates({})[index]
  <2>1. /\ Good(ScanRange(e, 0, index))
        /\ \A w : (\A j \in 0 .. index - 1 : j \notin w) /\ Meaning(e) = PlainStates(w)[0]
                    => Meaning(ScanRange(e, 0, index)) = PlainStates(w)[index]
    BY <1>1, <1>3, <1>4, RangeFollows
  <2>. QED
    BY <1>2, <1>5, <2>1
<1>7. TypeInv
  BY <1>1, <1>2, <1>4, <1>6 DEF TypeInv
<1>8. TextInv
  BY <1>2, <1>6, PlainIsText DEF TextInv
<1>9. CallStack(frames, tokens, pragmas.slots, exact)
  <2>1. Faithful(NoCheckpoint, tokens, pragmas.slots, exact)
    BY <1>7, NoneFaithful
  <2>2. u \in FrameType /\ u.kind = "unit" /\ u.saved = NoCheckpoint
    BY <2>1 DEF Frame, FrameType, Kinds, Faithful
  <2>. HIDE DEF u
  <2>3. frames \in Seq(FrameType) /\ Len(frames) = 1 /\ frames[1] = u
    BY <1>2, <2>2
  <2>. QED
    BY <2>1, <2>2, <2>3 DEF CallStack
<1>. QED
  BY <1>7, <1>8, <1>9 DEF ParserInv

\* A parse that does not move keeps everything.
LEMMA StutterKeeps ==
  ASSUME ParserInv, UNCHANGED vars
  PROVE  ParserInv'
BY DEF ParserInv, TypeInv, TextInv, Good, Linked, Meaning, vars

\* The invariant of every parse: each checkpoint on the call stack stands for
\* the pack state that the text before it gives (kefir_parser_apply_impl,
\* kefir_parser_checkpoint_save, kefir_parser_checkpoint_restore).
THEOREM ParserInvariant == Spec => []ParserInv
<1>1. Init => ParserInv
  BY InitInv
<1>2. ParserInv /\ [Next]_vars => ParserInv'
  <2>. SUFFICES ASSUME ParserInv, [Next]_vars
                PROVE  ParserInv'
    OBVIOUS
  <2>1. CASE UNCHANGED vars
    BY <2>1, StutterKeeps
  <2>2. CASE UnitDone
    BY <2>2, UnitDoneKeeps
  <2>3. CASE UnitPragma
    BY <2>3, UnitPragmaKeeps
  <2>4. CASE UnitItem
    BY <2>4, UnitItemKeeps
  <2>5. CASE RuleEnter
    BY <2>5, RuleEnterKeeps
  <2>6. CASE RuleShift
    BY <2>6, RuleShiftKeeps
  <2>7. CASE RuleMatch
    BY <2>7, RuleMatchKeeps
  <2>8. CASE RuleError
    BY <2>8, RuleErrorKeeps
  <2>9. CASE RuleNoMatch
    BY <2>9, RuleNoMatchKeeps
  <2>10. CASE BlockOpen
    BY <2>10, BlockOpenKeeps
  <2>11. CASE BlockItem
    BY <2>11, BlockItemKeeps
  <2>12. CASE BlockClose
    BY <2>12, BlockCloseKeeps
  <2>13. CASE Ended
    BY <2>13, StutterKeeps DEF Ended
  <2>. QED
    BY <2>1, <2>2, <2>3, <2>4, <2>5, <2>6, <2>7, <2>8, <2>9, <2>10, <2>11, <2>12, <2>13 DEF Next
<1>. QED
  BY <1>1, <1>2, PTL DEF Spec

\* However the parser backtracks, its pack value and pack stack are what the
\* pragmas before the cursor give (kefir_parser_apply_impl,
\* kefir_parser_scan_pragma).
THEOREM PackIsText == Spec => []PackFollowsText
<1>1. ParserInv => PackFollowsText
  <2>. SUFFICES ASSUME ParserInv, exact
                PROVE  pragmas.pack = PlainState.pack /\ Stack = PlainState.stack
    BY DEF PackFollowsText
  <2>1. Meaning(pragmas) = PlainStates(skipped)[index]
    BY PlainIsText DEF ParserInv, TextInv
  <2>2. Meaning(pragmas).pack = pragmas.pack /\ Meaning(pragmas).stack = Stack
    BY DEF Meaning, Stack
  <2>. QED
    BY ONLY <2>1, <2>2 DEF PlainState
<1>. QED
  BY <1>1, ParserInvariant, PTL

\* The stack that a checkpoint refers to is never changed
\* (kefir_parser_checkpoint_restore).
THEOREM CheckpointsKept == Spec => []CheckpointsIntact
<1>1. ParserInv => CheckpointsIntact
  BY DEF ParserInv, CallStack, Faithful, CheckpointsIntact
<1>. QED
  BY <1>1, ParserInvariant, PTL

\* A step that counts an error has recovered at the frame it returned to.
LEMMA ErrorRecovered ==
  ASSUME ParserInv, [Next]_vars, errors' # errors
  PROVE  \E n \in 1 .. Len(frames) :
            /\ Len(frames') = n /\ index' = SkipGarbage(frames[n].saved.index)
            /\ frames[n].saved.index \in 0 .. Len(tokens) /\ Len(tokens) \in Nat
<1>1. ASSUME NEW n \in 1 .. Len(frames), NEW p, Recover(n, p)
      PROVE  /\ Len(frames') = n /\ index' = SkipGarbage(frames[n].saved.index)
             /\ frames[n].saved.index \in 0 .. Len(tokens) /\ Len(tokens) \in Nat
  <2>. DEFINE g == [frames[n] EXCEPT !.tries = 0, !.bad = TRUE]
  <2>1. index' = SkipGarbage(frames[n].saved.index) /\ frames' = Append(SubSeq(frames, 1, n - 1), g)
    BY <1>1 DEF Recover
  <2>. HIDE DEF g
  <2>2. frames \in Seq(FrameType) /\ Len(frames) \in Nat /\ Faithful(frames[n].saved, tokens, pragmas.slots, exact)
    BY TopFacts DEF ParserInv, CallStack
  <2>3. SubSeq(frames, 1, n - 1) \in Seq(FrameType) /\ Len(SubSeq(frames, 1, n - 1)) = n - 1
    BY <2>2
  <2>4. Len(frames') = n
    <3>. DEFINE s == SubSeq(frames, 1, n - 1)
    <3>1. frames' = Append(s, g) /\ s \in Seq(FrameType) /\ Len(s) = n - 1 /\ n \in Nat
      BY <2>1, <2>2, <2>3
    <3>. QED
      BY ONLY <3>1
  <2>5. Len(tokens) \in Nat /\ frames[n].saved.index \in 0 .. Len(tokens)
    <3>1. Len(tokens) \in Nat
      BY DEF ParserInv, TypeInv
    <3>2. frames[n].saved.index \in Nat /\ frames[n].saved.index <= Len(tokens)
      BY <2>2 DEF Faithful, Checkpoint
    <3>. QED
      BY <3>1, <3>2
  <2>. QED
    BY <2>1, <2>4, <2>5
<1>2. \E n \in 1 .. Len(frames) : \E p : Recover(n, p)
  <2>1. CASE RuleError
    <3>1. Len(frames) > 1 /\ Recover(Handler(Len(frames)), pragmas)
      BY <2>1, TopFacts DEF RuleError
    <3>. QED
      BY <3>1, TopFacts, HandlerFacts
  <2>2. CASE RuleNoMatch
    <3>1. Len(Below) \in 1 .. Len(frames)
      BY <2>2, TopFacts DEF RuleNoMatch
    <3>2. Recover(Len(Below), Restored(Top.saved))
      BY <2>2 DEF RuleNoMatch
    <3>. QED
      BY <3>1, <3>2
  <2>3. CASE BlockClose
    <3>1. Len(frames) > 1 /\ Recover(Handler(Len(frames)), pragmas)
      BY <2>3, TopFacts DEF BlockClose
    <3>. QED
      BY <3>1, TopFacts, HandlerFacts
  <2>. QED
    BY <2>1, <2>2, <2>3 DEF Next, vars, UnitDone, UnitPragma, UnitItem, RuleEnter, Enter, RuleShift,
       RuleMatch, BlockOpen, BlockItem, Ended
<1>. QED
  BY <1>1, <1>2

\* Recovery gets past the item that failed, or to the end of the file
\* (kefir_parser_error_recovery_skip_garbage).
THEOREM Advances == Spec => RecoveryAdvances
<1>1. ASSUME ParserInv, [Next]_vars
      PROVE  [\A n \in 1 .. Len(frames) :
                 (errors' # errors /\ Len(frames') = n)
                    => index' > frames[n].saved.index \/ At(index') = End]_vars
  <2>. SUFFICES ASSUME NEW n \in 1 .. Len(frames), errors' # errors, Len(frames') = n
                PROVE  index' > frames[n].saved.index \/ At(index') = End
    OBVIOUS
  <2>1. /\ index' = SkipGarbage(frames[n].saved.index)
        /\ frames[n].saved.index \in 0 .. Len(tokens) /\ Len(tokens) \in Nat
    BY <1>1, ErrorRecovered
  <2>. QED
    BY <2>1, GarbageAdvances
<1>. QED
  BY <1>1, ParserInvariant, PTL DEF Spec, RecoveryAdvances

\* Recovery closes every brace that it entered
\* (kefir_parser_error_recovery_skip_garbage).
THEOREM Balanced == Spec => GarbageIsBalanced
<1>1. ASSUME ParserInv, [Next]_vars
      PROVE  [LET n == Len(frames')
                  from == frames[n].saved.index
                  Count(t) == Cardinality({i \in from .. index' - 1 : Get(i) = t})
              IN  (errors' # errors /\ \A i \in 0 .. Len(tokens) : Get(i) \in {"lbrace", "rbrace"} => ~IsPragma(i - 1))
                     => \/ At(index') = End
                        \/ Get(from) = "rbrace"
                        \/ Count("lbrace") = Count("rbrace")]_vars
  <2>. DEFINE from == frames[Len(frames')].saved.index
  <2>. SUFFICES ASSUME errors' # errors, BracesPlain
                PROVE  \/ At(index') = End
                       \/ Get(from) = "rbrace"
                       \/ CountOf(from, index', "lbrace") = CountOf(from, index', "rbrace")
    BY DEF BracesPlain, CountOf
  <2>1. index' = SkipGarbage(from) /\ from \in 0 .. Len(tokens) /\ Len(tokens) \in Nat
    BY <1>1, ErrorRecovered
  <2>. HIDE DEF from
  <2>. QED
    BY <2>1, GarbageBalanced
<1>. QED
  BY <1>1, ParserInvariant, PTL DEF Spec, GarbageIsBalanced
=============================================================================
