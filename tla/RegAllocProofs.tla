--------------------------- MODULE RegAllocProofs ---------------------------
(***************************************************************************)
(* Proofs about the register allocator, for every set of values and        *)
(* registers and every function it may be given.                           *)
(***************************************************************************)
EXTENDS RegAlloc, FiniteSetTheorems, TLAPS

Location == Reg \cup Nat

\* The locations an allocation may use while spillSlots slots exist.
InUse == Reg \cup 0 .. spillSlots - 1

\* A value that holds a location is apart from everything its neighbours hold
\* or are entitled to. NoConflict alone is not inductive: it does not say that
\* the register a neighbour requires is kept free for it.
Apart ==
  \A v, w \in Value :
    /\ w \in Neighbours(v) /\ fn.kind[v] # "resource" /\ Allocated(v)
    => allocation[v] \cap ConflictOf(w) = {}

\* Only values that need storage are put on the work list.
QueueStorable == \A v \in Range(valueQueue) : fn.kind[v] # "resource"

IInv ==
  /\ TypeOK
  /\ AllocationFits
  /\ Apart
  /\ QueueStorable
  /\ FrameCovers
  /\ NoneForgotten
  /\ ErrorIsGenuine

-----------------------------------------------------------------------------
(* Typing of what the allocator is given.                                  *)

\* Every function the allocator may be given is well formed.
LEMMA FuncFacts ==
  ASSUME TypeOK, NEW v \in Value, NEW w \in Value
  PROVE  /\ fn.kind[v] \in Kind
         /\ fn.req[v] \in Reg \cup {NONE}
         /\ fn.req[v] # NONE => fn.req[v] \in RegClass(fn, v)
         /\ fn.mult[v][w] \in Nat /\ fn.mult[v][w] = fn.mult[w][v] /\ fn.mult[v][v] = 0
         /\ fn.coal[v] \in SUBSET Value
         /\ fn.area[v] \in [length : Nat \ {0}, alignment : Nat \ {0}]
  BY FuncsAssumption DEF TypeOK, FuncType

\* A register class is made of registers.
LEMMA ClassInReg ==
  ASSUME NEW f, NEW v
  PROVE  RegClass(f, v) \subseteq Reg
  BY DEF RegClass, Reg

\* Every value has a spill shape with a positive length and alignment.
LEMMA ShapeType ==
  ASSUME TypeOK, NEW v \in Value
  PROVE  AreaShape(v).length \in Nat \ {0} /\ AreaShape(v).alignment \in Nat \ {0}
  BY FuncFacts DEF AreaShape

\* The fallback index of allocate_spill_area lies behind the slots in use and
\* is aligned.
LEMMA NextAlignedBehind ==
  ASSUME spillSlots \in Nat, NEW a \in Nat \ {0}
  PROVE  /\ NextAligned(a) \in Nat
         /\ NextAligned(a) >= spillSlots
         /\ NextAligned(a) % a = 0
  <1> DEFINE s == spillSlots + a - 1
             q == s \div a
  <1>1. s \in Nat /\ a \in Int /\ a > 0
    OBVIOUS
  <1>2. q \in Int /\ s = a * q + (s % a) /\ s % a \in 0 .. a - 1
    BY <1>1, SMT
  <1> QED
    BY <1>1, <1>2, SMT DEF NextAligned

-----------------------------------------------------------------------------
(* What do_allocate returns.                                               *)

\* The shape AllocationFits asks of an allocation a of v with n slots in use.
Fits(v, a, n) ==
  \/ fn.kind[v] = "na" /\ a = {}
  \/ fn.kind[v] \in {"gp", "fp"} /\ fn.req[v] # NONE /\ a = {fn.req[v]}
  \/ /\ fn.kind[v] \in {"gp", "fp"} /\ fn.req[v] = NONE
     /\ \E r \in RegClass(fn, v) : a = {r}
  \/ /\ fn.kind[v] \in {"gp", "fp", "spill"} /\ fn.req[v] = NONE
     /\ \E i \in 0 .. n - AreaShape(v).length :
          i % AreaShape(v).alignment = 0 /\ a = SpillArea(i, AreaShape(v).length)

\* AllocationFits in terms of Fits.
LEMMA FitsAll ==
  AllocationFits <=> \A v \in Value : Allocated(v) => Fits(v, allocation[v], spillSlots)
  BY DEF AllocationFits, Fits

\* A fitting allocation is a set of locations in use; with more slots it still fits.
LEMMA FitsFacts ==
  ASSUME TypeOK, NEW v \in Value, NEW a, NEW n \in Nat, Fits(v, a, n)
  PROVE  /\ a \subseteq Reg \cup 0 .. n - 1
         /\ a \in SUBSET (Reg \cup Nat)
         /\ a # Unallocated
         /\ fn.req[v] # NONE => a = {fn.req[v]}
         /\ \A m \in Nat : m >= n => Fits(v, a, m)
  <1>1. AreaShape(v).length \in Nat \ {0} /\ AreaShape(v).alignment \in Nat \ {0}
    BY ShapeType
  <1>2. fn.req[v] # NONE => fn.req[v] \in RegClass(fn, v)
    BY FuncFacts
  <1>3. RegClass(fn, v) \subseteq Reg
    BY ClassInReg
  <1>4. a \subseteq Reg \cup 0 .. n - 1
    BY <1>1, <1>2, <1>3 DEF Fits, SpillArea
  <1>5. a # Unallocated
    BY <1>4, ConstantsAssumption DEF Unallocated
  <1>6. \A m \in Nat : m >= n => Fits(v, a, m)
    BY <1>1 DEF Fits
  <1>7. fn.req[v] # NONE => a = {fn.req[v]}
    BY <1>2 DEF Fits, RegClass
  <1> QED
    BY <1>4, <1>5, <1>6, <1>7

\* A grant of an exit of do_allocate is sound: what it gives fits the value
\* within the slots it leaves, and the frame it leaves covers what it gives and
\* everything the frame covered before.
Covered(a, f) == a \cap Reg \subseteq f.used /\ \A i \in a \ Reg : i < f.slots

Grown(f) == f \in Frame /\ frame.used \subseteq f.used /\ frame.slots <= f.slots

Sound(v, g) ==
  /\ g.slots \in Nat /\ g.slots >= spillSlots
  /\ Fits(v, g.to, g.slots)
  /\ Grown(g.frame) /\ Covered(g.to, g.frame)

\* use_register leaves a frame that covers the register.
LEMMA UseRegisterCovers ==
  ASSUME TypeOK, NEW r \in Reg
  PROVE  Grown(UseRegister(r)) /\ Covered({r}, UseRegister(r))
  BY DEF TypeOK, Frame, Grown, Covered, UseRegister

\* use_spill_space leaves a frame that covers the area.
LEMMA UseSpillSpaceCovers ==
  ASSUME TypeOK, NEW i \in Nat, NEW n \in Nat
  PROVE  Grown(UseSpillSpace(i, n)) /\ Covered(SpillArea(i, n), UseSpillSpace(i, n))
  <1>1. frame \in Frame /\ SpillArea(i, n) \cap Reg = {}
    BY ConstantsAssumption DEF TypeOK, SpillArea
  <1> QED
    BY <1>1 DEF Frame, Grown, Covered, UseSpillSpace, SpillArea

\* The exits that give a register are sound if the register is of the class.
LEMMA RegisterIsSound ==
  ASSUME TypeOK, NEW v \in Value, fn.kind[v] \in {"gp", "fp"}, NEW r \in RegClass(fn, v),
         fn.req[v] # NONE => r = fn.req[v],
         NEW g, g = [to |-> {r}, slots |-> spillSlots, frame |-> UseRegister(r)]
  PROVE  Sound(v, g)
  <1>1. r \in Reg /\ spillSlots \in Nat
    BY ClassInReg DEF TypeOK
  <1>2. Grown(UseRegister(r)) /\ Covered({r}, UseRegister(r))
    BY <1>1, UseRegisterCovers
  <1>3. Fits(v, {r}, spillSlots)
    BY DEF Fits
  <1> QED
    BY <1>1, <1>2, <1>3 DEF Sound

\* The exits that give a spill area are sound, and the area is free of the
\* occupied locations.
LEMMA SpillIsSound ==
  ASSUME TypeOK, NEW v \in Value, fn.kind[v] \in {"gp", "fp", "spill"}, fn.req[v] = NONE,
         NEW occupied, occupied \subseteq InUse,
         NEW g \in HintedAreas(v, occupied) \cup NewAreas(v, occupied)
  PROVE  g.to \cap occupied = {} /\ Sound(v, g)
  <1> DEFINE n == AreaShape(v).length
             al == AreaShape(v).alignment
  <1>1. n \in Nat \ {0} /\ al \in Nat \ {0} /\ spillSlots \in Nat
    BY ShapeType DEF TypeOK
  <1>2. NextAligned(al) \in Nat /\ NextAligned(al) >= spillSlots /\ NextAligned(al) % al = 0
    BY <1>1, NextAlignedBehind
  <1>3. ASSUME NEW i \in Nat, NEW m \in Nat, m >= spillSlots, i + n <= m, i % al = 0,
               SpillArea(i, n) \cap occupied = {},
               g = [to |-> SpillArea(i, n), slots |-> m, frame |-> UseSpillSpace(i, n)]
        PROVE  g.to \cap occupied = {} /\ Sound(v, g)
    <2>1. Grown(UseSpillSpace(i, n)) /\ Covered(SpillArea(i, n), UseSpillSpace(i, n))
      BY <1>1, UseSpillSpaceCovers
    <2>2. Fits(v, SpillArea(i, n), m)
      BY <1>1, <1>3 DEF Fits
    <2> QED
      BY <1>3, <2>1, <2>2 DEF Sound
  <1>4. CASE g \in HintedAreas(v, occupied)
    <2>1. PICK i \in HintedIndices(v, occupied) :
            g = [to |-> SpillArea(i, n), slots |-> spillSlots, frame |-> UseSpillSpace(i, n)]
      BY <1>4 DEF HintedAreas
    <2>2. /\ i \in Nat /\ i + n <= spillSlots /\ i % al = 0
          /\ SpillArea(i, n) \cap occupied = {}
      BY <1>1, <2>1 DEF HintedIndices
    <2> QED
      BY <1>1, <1>3, <2>1, <2>2
  <1>5. CASE g \in NewAreas(v, occupied)
    <2>1. PICK i \in AllocateSpillArea(n, al, occupied) :
            g = [to |-> SpillArea(i, n), slots |-> SlotsWith(i, n),
                 frame |-> UseSpillSpace(i, n)]
      BY <1>5 DEF NewAreas
    <2>2. i \in Nat /\ i % al = 0 /\ SpillArea(i, n) \cap occupied = {}
      <3>1. CASE i \in FittingIndices(n, al, occupied)
        BY <1>1, <3>1 DEF FittingIndices
      <3>2. CASE i = NextAligned(al)
        BY <1>1, <1>2, <3>2, ConstantsAssumption DEF SpillArea, InUse
      <3> QED
        BY <2>1, <3>1, <3>2 DEF AllocateSpillArea
    <2>3. SlotsWith(i, n) \in Nat /\ SlotsWith(i, n) >= spillSlots /\ i + n <= SlotsWith(i, n)
      BY <1>1, <2>2 DEF SlotsWith
    <2> QED
      BY <1>3, <2>1, <2>2, <2>3
  <1> QED
    BY <1>4, <1>5

\* Every exit of do_allocate is sound and gives only free locations.
LEMMA DoAllocateSound ==
  ASSUME TypeOK, NEW v \in Value, fn.kind[v] # "resource", NEW opt \in BOOLEAN,
         NEW occupied, occupied \subseteq InUse,
         fn.req[v] # NONE => fn.req[v] \notin occupied,
         NEW g \in DoAllocate(v, occupied, opt)
  PROVE  g.to \cap occupied = {} /\ Sound(v, g)
  <1>1. fn.kind[v] \in {"gp", "fp", "spill", "na"}
    BY FuncFacts DEF Kind
  <1>2. fn.req[v] # NONE => fn.req[v] \in RegClass(fn, v) /\ fn.kind[v] \in {"gp", "fp"}
    BY <1>1, FuncFacts DEF RegClass
  <1>3. CASE fn.kind[v] = "na"
    <2>1. g = [to |-> {}, slots |-> spillSlots, frame |-> frame]
      BY <1>3 DEF DoAllocate, NoStorage
    <2>2. Grown(frame) /\ Covered({}, frame) /\ spillSlots \in Nat
      BY DEF TypeOK, Frame, Grown, Covered
    <2> QED
      BY <1>3, <2>1, <2>2 DEF Sound, Fits
  <1>4. CASE fn.req[v] # NONE
    <2>1. g = [to |-> {fn.req[v]}, slots |-> spillSlots, frame |-> UseRegister(fn.req[v])]
      BY <1>2, <1>4 DEF DoAllocate, RequiredRegister
    <2>2. Sound(v, g)
      BY <1>2, <1>4, <2>1, RegisterIsSound
    <2> QED
      BY <1>4, <2>1, <2>2
  <1>5. CASE fn.req[v] = NONE /\ fn.kind[v] # "na"
    <2>1. \/ g \in HintedRegisters(v, occupied) \cup FreeRegisters(v, occupied)
          \/ g \in HintedAreas(v, occupied) \cup NewAreas(v, occupied)
      BY <1>5 DEF DoAllocate, Spill
    <2>2. CASE g \in HintedRegisters(v, occupied) \cup FreeRegisters(v, occupied)
      <3>1. PICK r \in RegClass(fn, v) \ occupied :
              g = [to |-> {r}, slots |-> spillSlots, frame |-> UseRegister(r)]
        BY <2>2 DEF HintedRegisters, FreeRegisters
      <3>2. fn.kind[v] \in {"gp", "fp"}
        BY <3>1 DEF RegClass
      <3>3. Sound(v, g)
        BY <1>5, <3>1, <3>2, RegisterIsSound
      <3> QED
        BY <3>1, <3>3
    <2>3. CASE g \in HintedAreas(v, occupied) \cup NewAreas(v, occupied)
      BY <1>1, <1>5, <2>3, SpillIsSound
    <2> QED
      BY <2>1, <2>2, <2>3
  <1> QED
    BY <1>3, <1>4, <1>5

\* What the neighbours hold or are entitled to is a set of locations in use.
LEMMA ConflictsInUse ==
  ASSUME TypeOK, AllocationFits, NEW v \in Value
  PROVE  /\ \A w \in Value : ConflictOf(w) \subseteq InUse
         /\ Conflicts(v) \subseteq InUse
         /\ \A e \in Value : ConflictsWithout(v, e) \subseteq InUse
  <1>1. ASSUME NEW w \in Value PROVE ConflictOf(w) \subseteq InUse
    <2>1. fn.req[w] \in Reg \cup {NONE}
      BY FuncFacts
    <2>2. Allocated(w) => allocation[w] \subseteq Reg \cup 0 .. spillSlots - 1
      BY FitsAll, FitsFacts DEF TypeOK
    <2> QED
      BY <2>1, <2>2 DEF ConflictOf, InUse
  <1>2. Conflicts(v) \subseteq InUse
    BY <1>1 DEF Conflicts, Neighbours
  <1>3. ASSUME NEW e \in Value PROVE ConflictsWithout(v, e) \subseteq InUse
    <2>1. UNION {ConflictOf(w) : w \in Neighbours(v) \ {e}} \subseteq InUse
      BY <1>1 DEF Neighbours
    <2> QED
      BY <1>1, <2>1 DEF ConflictsWithout
  <1> QED
    BY <1>1, <1>2, <1>3

-----------------------------------------------------------------------------
(* The inductive step shared by Allocate, SpillCurrent and Evict.          *)

\* Giving v an allocation that is free of its neighbours' conflicts, while the
\* values of lost are evicted, keeps the allocations fitting and apart.
LEMMA GrantKeepsApart ==
  ASSUME IInv, NEW v \in Value, fn.kind[v] # "resource",
         NEW lost \in SUBSET (Value \ {v}),
         \A e \in lost : fn.req[e] = NONE,
         NEW a, NEW n \in Nat, n >= spillSlots, Fits(v, a, n),
         \A w \in Neighbours(v) \ lost : a \cap ConflictOf(w) = {},
         fn' = fn, spillSlots' = n,
         allocation' = [x \in Value |-> IF x = v THEN a
                                        ELSE IF x \in lost THEN Unallocated
                                        ELSE allocation[x]]
  PROVE  AllocationFits' /\ Apart'
  <1> USE DEF IInv
  <1>1. \A x \in Value : /\ AreaShape(x)' = AreaShape(x)
                         /\ RegClass(fn', x) = RegClass(fn, x)
                         /\ Neighbours(x)' = Neighbours(x)
    BY DEF AreaShape, Neighbours
  <1>2. /\ allocation'[v] = a /\ Allocated(v)'
        /\ \A x \in Value \ {v} :
             /\ x \in lost => ~Allocated(x)'
             /\ x \notin lost => /\ allocation'[x] = allocation[x]
                                 /\ Allocated(x)' <=> Allocated(x)
    BY FitsFacts DEF Allocated
  <1>3. AllocationFits'
    <2>1. ASSUME NEW x \in Value, Allocated(x)' PROVE Fits(x, allocation'[x], n)
      <3>1. CASE x = v
        BY <1>2, <3>1
      <3>2. CASE x # v
        BY <1>2, <2>1, <3>2, FitsAll, FitsFacts DEF TypeOK
      <3> QED
        BY <3>1, <3>2
    <2> QED
      BY <1>1, <2>1 DEF AllocationFits, Fits
  <1>4. \A w \in Value : ConflictOf(w)' = IF w = v THEN a
                                         ELSE IF w \in lost THEN {} ELSE ConflictOf(w)
    <2>1. fn.req[v] # NONE => a = {fn.req[v]}
      BY FitsFacts
    <2> QED
      BY <1>2, <2>1 DEF ConflictOf
  <1>5. ASSUME NEW x \in Value, NEW w \in Neighbours(x), fn.kind[x] # "resource",
               Allocated(x)'
        PROVE  allocation'[x] \cap ConflictOf(w)' = {}
    <2>1. w \in Value /\ x # w /\ x \in Neighbours(w)
      BY FuncFacts DEF Neighbours
    <2>2. CASE x = v
      BY <1>2, <1>4, <2>1, <2>2
    <2>3. CASE w = v
      <3>1. x \notin lost /\ x # v /\ Allocated(x) /\ allocation'[x] = allocation[x]
        BY <1>2, <1>5, <2>1, <2>3
      <3>2. allocation[x] \subseteq ConflictOf(x)
        <4>1. Fits(x, allocation[x], spillSlots)
          BY <3>1, FitsAll
        <4>2. fn.req[x] # NONE => allocation[x] = {fn.req[x]}
          BY <4>1, FitsFacts DEF TypeOK
        <4> QED
          BY <1>5, <3>1, <4>2 DEF ConflictOf
      <3>3. a \cap ConflictOf(x) = {}
        BY <2>1, <2>3, <3>1
      <3> QED
        BY <1>4, <2>3, <3>1, <3>2, <3>3
    <2>4. CASE x # v /\ w # v
      BY <1>2, <1>4, <1>5, <2>1, <2>4 DEF Apart
    <2> QED
      BY <2>2, <2>3, <2>4
  <1>6. Apart'
    BY <1>1, <1>5 DEF Apart
  <1> QED
    BY <1>3, <1>6

-----------------------------------------------------------------------------
(* The work list.                                                          *)

\* The values of a concatenation.
LEMMA RangeConcat ==
  ASSUME NEW S, NEW s \in Seq(S), NEW t \in Seq(S)
  PROVE  s \o t \in Seq(S) /\ Range(s \o t) = Range(s) \cup Range(t)
  <1>1. Range(s \o t) \subseteq Range(s) \cup Range(t)
    BY DEF Range
  <1>2. ASSUME NEW i \in DOMAIN s PROVE s[i] \in Range(s \o t)
    BY DEF Range
  <1>3. ASSUME NEW i \in DOMAIN t PROVE t[i] \in Range(s \o t)
    <2>1. Len(s) + i \in DOMAIN (s \o t) /\ (s \o t)[Len(s) + i] = t[i]
      OBVIOUS
    <2> QED
      BY <2>1 DEF Range
  <1>4. s \o t \in Seq(S)
    OBVIOUS
  <1> QED
    BY <1>1, <1>2, <1>3, <1>4 DEF Range

\* The values of a sequence that grew at its end.
LEMMA RangeAppend ==
  ASSUME NEW S, NEW s \in Seq(S), NEW x \in S
  PROVE  Append(s, x) \in Seq(S) /\ Range(Append(s, x)) = Range(s) \cup {x}
  <1>1. Append(s, x)[Len(s) + 1] = x /\ Len(s) + 1 \in DOMAIN Append(s, x)
    OBVIOUS
  <1>2. \A i \in DOMAIN s : i \in DOMAIN Append(s, x) /\ Append(s, x)[i] = s[i]
    OBVIOUS
  <1>3. \A i \in DOMAIN Append(s, x) : i \in DOMAIN s \/ i = Len(s) + 1
    OBVIOUS
  <1> QED
    BY <1>1, <1>2, <1>3 DEF Range

\* The values of a sequence are its head and the values of its tail.
LEMMA RangeHead ==
  ASSUME NEW S, NEW s \in Seq(S), s # <<>>
  PROVE  /\ Head(s) \in S /\ Tail(s) \in Seq(S)
         /\ Range(s) = {Head(s)} \cup Range(Tail(s))
  <1>1. /\ Head(s) = s[1] /\ 1 \in DOMAIN s /\ Tail(s) \in Seq(S)
        /\ Len(s) \in Nat /\ Len(Tail(s)) = Len(s) - 1
    OBVIOUS
  <1>2. \A i \in DOMAIN Tail(s) : i + 1 \in DOMAIN s /\ Tail(s)[i] = s[i + 1]
    OBVIOUS
  <1>3. ASSUME NEW i \in DOMAIN s, i # 1
        PROVE  i - 1 \in DOMAIN Tail(s) /\ Tail(s)[i - 1] = s[i]
    <2>1. i - 1 \in 1 .. Len(Tail(s))
      BY <1>1, <1>3
    <2> QED
      BY <1>1, <2>1
  <1> QED
    BY <1>1, <1>2, <1>3 DEF Range

\* Taking the current value from the work list and pushing its partners.
LEMMA RestFacts ==
  ASSUME TypeOK, HasCurrent, QueueStorable, NEW rest \in Rests(Current)
  PROVE  /\ Current \in Value /\ fn.kind[Current] # "resource"
         /\ rest \in Seq(Value)
         /\ Range(valueQueue) \subseteq {Current} \cup Range(rest)
         /\ \A v \in Range(rest) : v \in Value /\ fn.kind[v] # "resource"
  <1>1. /\ valueQueue \in Seq(Value) /\ valueQueue # <<>>
        /\ Current \in Value /\ Tail(valueQueue) \in Seq(Value)
        /\ Range(valueQueue) = {Current} \cup Range(Tail(valueQueue))
    <2>1. valueQueue \in Seq(Value) /\ valueQueue # <<>>
      BY DEF TypeOK, HasCurrent
    <2> QED
      BY <2>1, RangeHead DEF Current
  <1>2. PICK order \in Orders(Partners(Current)) : rest = order \o Tail(valueQueue)
    BY DEF Rests
  <1>3. Partners(Current) \subseteq Value
    BY <1>1, FuncFacts DEF Partners
  <1>4. Cardinality(Partners(Current)) \in Nat
    BY <1>3, FS_Subset, FS_CardinalityType, ConstantsAssumption
  <1>5. order \in Seq(Partners(Current)) /\ order \in Seq(Value)
    <2> DEFINE n == Cardinality(Partners(Current))
    <2>1. order \in [1 .. n -> Partners(Current)]
      BY <1>2 DEF Orders
    <2>2. order \in [1 .. n -> Value]
      BY <1>3, <2>1
    <2> HIDE DEF n
    <2> QED
      BY <1>4, <2>1, <2>2 DEF n
  <1>6. Range(order) \subseteq Partners(Current)
    BY <1>5 DEF Range
  <1>7. rest \in Seq(Value) /\ Range(rest) = Range(order) \cup Range(Tail(valueQueue))
    <2>1. rest \in Seq(Value)
      BY <1>1, <1>2, <1>5
    <2> DEFINE t == Tail(valueQueue)
    <2>2. t \in Seq(Value)
      BY <1>1
    <2> HIDE DEF t
    <2>3. Range(order \o t) = Range(order) \cup Range(t)
      BY <1>5, <2>2, RangeConcat
    <2> QED
      BY <1>2, <2>1, <2>3 DEF t
  <1>8. fn.kind[Current] # "resource"
    BY <1>1 DEF QueueStorable
  <1>9. ASSUME NEW v \in Range(rest) PROVE v \in Value /\ fn.kind[v] # "resource"
    <2>1. Range(Tail(valueQueue)) \subseteq Value
      BY <1>1 DEF Range
    <2>2. CASE v \in Range(order)
      BY <1>3, <1>6, <2>2 DEF Partners
    <2>3. CASE v \in Range(Tail(valueQueue))
      BY <1>1, <2>1, <2>3 DEF QueueStorable
    <2> QED
      BY <1>7, <2>2, <2>3
  <1> QED
    BY <1>1, <1>7, <1>8, <1>9

-----------------------------------------------------------------------------
(* The invariant.                                                          *)

\* A value that is not allocated can be given what do_allocate returns, with
\* the conflicts of all neighbours or with those of an evicted one taken out.
LEMMA GrantIsFree ==
  ASSUME IInv, NEW v \in Value, fn.kind[v] # "resource", ~RequirementConflict(v),
         NEW lost \in SUBSET Value, NEW occupied, occupied \subseteq Conflicts(v),
         UNION {ConflictOf(w) : w \in Neighbours(v) \ lost} \subseteq occupied,
         NEW opt \in BOOLEAN, NEW g \in DoAllocate(v, occupied, opt)
  PROVE  Sound(v, g) /\ \A w \in Neighbours(v) \ lost : g.to \cap ConflictOf(w) = {}
  <1>1. occupied \subseteq InUse
    BY ConflictsInUse DEF IInv
  <1>2. fn.req[v] # NONE => fn.req[v] \notin occupied
    BY FuncFacts DEF RequirementConflict, IInv, RegClass
  <1>3. g.to \cap occupied = {} /\ Sound(v, g)
    BY <1>1, <1>2, DoAllocateSound DEF IInv
  <1> QED
    BY <1>3

\* Recording a granted allocation, and dropping those of lost, keeps the
\* invariant. The work list keeps the lost values.
LEMMA GrantKeepsInv ==
  ASSUME IInv, HasCurrent,
         NEW lost \in SUBSET (Value \ {Current}),
         \A e \in lost : fn.req[e] = NONE,
         NEW g, Sound(Current, g),
         \A w \in Neighbours(Current) \ lost : g.to \cap ConflictOf(w) = {},
         allocation' = [x \in Value |-> IF x = Current THEN g.to
                                        ELSE IF x \in lost THEN Unallocated
                                        ELSE allocation[x]],
         Take(g),
         NEW rest \in Rests(Current),
         valueQueue' \in Seq(Value),
         Range(valueQueue') = Range(rest) \cup lost,
         \A e \in lost : fn.kind[e] # "resource"
  PROVE  IInv'
  <1>1. /\ Current \in Value /\ fn.kind[Current] # "resource"
        /\ rest \in Seq(Value)
        /\ Range(valueQueue) \subseteq {Current} \cup Range(rest)
        /\ \A v \in Range(rest) : v \in Value /\ fn.kind[v] # "resource"
    BY RestFacts DEF IInv
  <1>2. /\ fn' = fn /\ spillSlots' = g.slots /\ frame' = g.frame
        /\ blockQueue' = blockQueue /\ pending' = pending /\ presented' = presented
        /\ status' = status /\ runs' = runs
    BY DEF Take
  <1>3. /\ g.slots \in Nat /\ g.slots >= spillSlots /\ Fits(Current, g.to, g.slots)
        /\ Grown(g.frame) /\ Covered(g.to, g.frame)
    BY DEF Sound
  <1>4. g.to \in SUBSET (Reg \cup Nat) /\ g.to # Unallocated
    BY <1>1, <1>3, FitsFacts DEF IInv
  <1>5. AllocationFits' /\ Apart'
    <2> DEFINE a == g.to
               n == g.slots
    <2>1. /\ n \in Nat /\ n >= spillSlots /\ spillSlots' = n /\ fn' = fn
          /\ Fits(Current, a, n)
          /\ \A w \in Neighbours(Current) \ lost : a \cap ConflictOf(w) = {}
          /\ allocation' = [x \in Value |-> IF x = Current THEN a
                                            ELSE IF x \in lost THEN Unallocated
                                            ELSE allocation[x]]
      BY <1>2, <1>3
    <2> HIDE DEF a, n
    <2> QED
      BY <1>1, <2>1, GrantKeepsApart
  <1>6. TypeOK'
    BY <1>2, <1>3, <1>4 DEF IInv, TypeOK, Grown
  <1>7. QueueStorable'
    BY <1>1, <1>2 DEF QueueStorable
  <1>8. FrameCovers'
    <2> SUFFICES ASSUME NEW x \in Value, Allocated(x)'
                 PROVE  Covered(allocation'[x], frame')
      BY DEF FrameCovers, Covered
    <2>1. CASE x = Current
      BY <1>2, <1>3, <2>1
    <2>2. CASE x # Current
      <3>1. allocation'[x] = allocation[x] /\ Allocated(x)
        BY <2>2 DEF Allocated
      <3>2. Covered(allocation[x], frame) /\ allocation[x] \subseteq Reg \cup Nat
        BY <3>1 DEF IInv, TypeOK, FrameCovers, Covered, Allocated
      <3> QED
        BY <1>2, <1>3, <3>1, <3>2 DEF IInv, TypeOK, Frame, Grown, Covered
    <2> QED
      BY <2>1, <2>2
  <1>9. NoneForgotten'
    BY <1>1, <1>2, <1>4 DEF IInv, TypeOK, NoneForgotten, Allocated
  <1>10. ErrorIsGenuine'
    BY <1>2 DEF HasCurrent, ErrorIsGenuine
  <1> QED
    BY <1>5, <1>6, <1>7, <1>8, <1>9, <1>10 DEF IInv

\* What an eviction does: the evicted value has no requirement and is colder,
\* the current value gets a fitting allocation, the evicted one is requeued.
LEMMA EvictFacts ==
  ASSUME IInv, NEW e \in Value, Evict(e)
  PROVE  /\ HasCurrent /\ ~Allocated(Current) /\ Current \in Value
         /\ e # Current /\ fn.req[e] = NONE /\ fn.kind[e] # "resource"
         /\ HotnessLess(GetValueHotness(e), GetValueHotness(Current))
         /\ \E g : \E rest \in Rests(Current) :
              /\ Sound(Current, g) /\ g.to # Unallocated
              /\ \A w \in Neighbours(Current) \ {e} : g.to \cap ConflictOf(w) = {}
              /\ allocation' = [x \in Value |-> IF x = Current THEN g.to
                                                ELSE IF x \in {e} THEN Unallocated
                                                ELSE allocation[x]]
              /\ Take(g)
              /\ valueQueue' \in Seq(Value) /\ Range(valueQueue') = Range(rest) \cup {e}
  <1>1. /\ HasCurrent /\ ~Allocated(Current) /\ ~RequirementConflict(Current)
        /\ e \in Evicted(Current)
    BY DEF Evict, OutOfSpace
  <1>2. PICK g \in DoAllocate(Current, ConflictsWithout(Current, e), FALSE) :
          /\ allocation' = [allocation EXCEPT ![e] = Unallocated, ![Current] = g.to]
          /\ Take(g)
    BY DEF Evict
  <1>3. PICK rest \in Rests(Current) : valueQueue' = Append(rest, e)
    BY DEF Evict
  <1>4. Current \in Value /\ fn.kind[Current] # "resource" /\ rest \in Seq(Value)
    BY <1>1, RestFacts DEF IInv
  <1>5. /\ e \in Neighbours(Current) /\ e # Current
        /\ fn.req[e] = NONE /\ fn.kind[e] # "resource"
    BY <1>1, <1>4, FuncFacts DEF Evicted, EvictionCandidates, Neighbours, IInv
  <1>6. /\ ConflictsWithout(Current, e) \subseteq Conflicts(Current)
        /\ UNION {ConflictOf(w) : w \in Neighbours(Current) \ {e}}
             \subseteq ConflictsWithout(Current, e)
    BY <1>5 DEF ConflictsWithout, Conflicts
  <1>7. /\ Sound(Current, g)
        /\ \A w \in Neighbours(Current) \ {e} : g.to \cap ConflictOf(w) = {}
    <2> DEFINE occupied == ConflictsWithout(Current, e)
               lost == {e}
    <2>1. /\ occupied \subseteq Conflicts(Current) /\ lost \in SUBSET Value
          /\ UNION {ConflictOf(w) : w \in Neighbours(Current) \ lost} \subseteq occupied
          /\ g \in DoAllocate(Current, occupied, FALSE)
      BY <1>2, <1>6
    <2> HIDE DEF occupied, lost
    <2>2. /\ Sound(Current, g)
          /\ \A w \in Neighbours(Current) \ lost : g.to \cap ConflictOf(w) = {}
      BY <1>1, <1>4, <2>1, GrantIsFree
    <2> QED
      BY <2>2 DEF lost
  <1>8. allocation' = [x \in Value |-> IF x = Current THEN g.to
                                       ELSE IF x \in {e} THEN Unallocated
                                       ELSE allocation[x]]
    BY <1>2, <1>4, <1>5 DEF IInv, TypeOK
  <1>9. valueQueue' \in Seq(Value) /\ Range(valueQueue') = Range(rest) \cup {e}
    BY <1>3, <1>4, RangeAppend
  <1>10. HotnessLess(GetValueHotness(e), GetValueHotness(Current))
    BY <1>1 DEF Evicted, EvictionCandidates
  <1>11. g.to # Unallocated
    BY <1>4, <1>7, FitsFacts DEF IInv, Sound
  <1> QED
    BY <1>1, <1>2, <1>4, <1>5, <1>7, <1>8, <1>9, <1>10, <1>11

\* A step that leaves the allocations, the slots and the frame alone keeps what
\* is said of them.
LEMMA AllocationsKept ==
  ASSUME IInv, UNCHANGED <<fn, allocation, spillSlots, frame>>
  PROVE  AllocationFits' /\ Apart' /\ FrameCovers' /\ (status' = status => ErrorIsGenuine')
  <1>1. AllocationFits'
    BY DEF IInv, AllocationFits, Allocated, RegClass, AreaShape
  <1>2. Apart'
    BY DEF IInv, Apart, Allocated, Neighbours, ConflictOf
  <1>3. FrameCovers'
    BY DEF IInv, FrameCovers, Allocated
  <1>4. status' = status => ErrorIsGenuine'
    BY DEF IInv, ErrorIsGenuine, Neighbours
  <1> QED
    BY <1>1, <1>2, <1>3, <1>4

\* Every action keeps the invariant.
LEMMA StepKeepsInv ==
  ASSUME IInv, [Next]_vars
  PROVE  IInv'
  <1>1. CASE NextBlock
    <2>1. /\ pending' = fn.values[Head(blockQueue)]
          /\ blockQueue' = Tail(blockQueue) \o fn.dom[Head(blockQueue)]
          /\ blockQueue \in Seq(Block) /\ blockQueue # <<>>
          /\ UNCHANGED <<fn, allocation, valueQueue, spillSlots, frame, presented, status, runs>>
      BY <1>1 DEF NextBlock, IInv, TypeOK
    <2>2. Head(blockQueue) \in Block /\ Tail(blockQueue) \in Seq(Block)
      BY <2>1
    <2>3. fn.values[Head(blockQueue)] \in Seq(Value) /\ fn.dom[Head(blockQueue)] \in Seq(Block)
      BY <2>2, FuncsAssumption DEF IInv, TypeOK, FuncType
    <2>4. pending' \in Seq(Value) /\ blockQueue' \in Seq(Block)
      BY <2>1, <2>2, <2>3
    <2>5. TypeOK'
      BY <2>1, <2>4 DEF IInv, TypeOK
    <2>6. QueueStorable' /\ NoneForgotten'
      BY <2>1 DEF IInv, QueueStorable, NoneForgotten, Allocated
    <2> QED
      BY <2>1, <2>5, <2>6, AllocationsKept DEF IInv
  <1>2. CASE NextValue
    <2>1. /\ pending' = Tail(pending) /\ pending \in Seq(Value) /\ pending # <<>>
          /\ valueQueue = <<>>
          /\ UNCHANGED <<fn, allocation, blockQueue, spillSlots, frame, status, runs>>
      BY <1>2 DEF NextValue, IInv, TypeOK
    <2>2. Head(pending) \in Value /\ pending' \in Seq(Value)
      BY <2>1
    <2>3. \/ UNCHANGED <<valueQueue, presented>>
          \/ /\ valueQueue' = <<Head(pending)>> /\ fn.kind[Head(pending)] # "resource"
             /\ presented' = presented \cup {Head(pending)}
      BY <1>2 DEF NextValue
    <2>4. Range(<<Head(pending)>>) = {Head(pending)} /\ Range(valueQueue) = {}
      BY <2>1 DEF Range
    <2>5. TypeOK'
      <3>1. <<Head(pending)>> \in Seq(Value)
        BY <2>2
      <3>2. valueQueue' \in Seq(Value) /\ presented' \in SUBSET Value
        BY <2>2, <2>3, <3>1, Zenon DEF IInv, TypeOK
      <3> QED
        BY <2>1, <2>2, <3>2 DEF IInv, TypeOK
    <2>6. QueueStorable' /\ NoneForgotten'
      BY <2>1, <2>3, <2>4 DEF IInv, QueueStorable, NoneForgotten, Allocated
    <2> QED
      BY <2>1, <2>5, <2>6, AllocationsKept DEF IInv
  <1>3. CASE SkipAllocated
    <2>1. PICK rest \in Rests(Current) : valueQueue' = rest
      BY <1>3 DEF SkipAllocated
    <2>2. /\ HasCurrent /\ Allocated(Current)
          /\ UNCHANGED <<fn, allocation, blockQueue, pending, spillSlots, frame, presented,
                         status, runs>>
      BY <1>3 DEF SkipAllocated
    <2>3. /\ rest \in Seq(Value)
          /\ Range(valueQueue) \subseteq {Current} \cup Range(rest)
          /\ \A v \in Range(rest) : v \in Value /\ fn.kind[v] # "resource"
      BY <2>2, RestFacts DEF IInv
    <2>4. TypeOK'
      BY <2>1, <2>2, <2>3 DEF IInv, TypeOK
    <2>5. QueueStorable' /\ NoneForgotten'
      BY <2>1, <2>2, <2>3 DEF IInv, QueueStorable, NoneForgotten, Allocated
    <2> QED
      BY <2>2, <2>4, <2>5, AllocationsKept DEF IInv
  <1>4. CASE FailConstraint
    <2>1. /\ HasCurrent /\ ~Allocated(Current) /\ RequirementConflict(Current)
          /\ UNCHANGED <<fn, allocation, blockQueue, pending, valueQueue, spillSlots, frame,
                         presented, runs>>
          /\ status' = "error"
      BY <1>4 DEF FailConstraint
    <2>2. Current \in Value /\ fn.kind[Current] # "resource"
      <3>1. valueQueue \in Seq(Value) /\ valueQueue # <<>>
        BY <2>1 DEF HasCurrent, IInv, TypeOK
      <3>2. Current \in Range(valueQueue) /\ Current \in Value
        BY <3>1, RangeHead DEF Current
      <3> QED
        BY <3>2 DEF IInv, QueueStorable
    <2>3. PICK w \in Neighbours(Current) : fn.req[Current] \in ConflictOf(w)
      BY <2>1 DEF RequirementConflict, Conflicts
    <2>4. w \in Value /\ Current \in Neighbours(w) /\ fn.req[Current] # NONE
      BY <2>1, <2>2, <2>3, FuncFacts DEF Neighbours, RequirementConflict, IInv
    <2>5. ConflictOf(Current) = {fn.req[Current]}
      BY <2>2, <2>4 DEF ConflictOf
    <2>6. fn.kind[w] # "resource"
      BY <2>3 DEF ConflictOf
    <2>7. CASE fn.req[w] = NONE
      <3>1. Allocated(w) /\ fn.req[Current] \in allocation[w]
        BY <2>3, <2>7 DEF ConflictOf
      <3>2. allocation[w] \cap ConflictOf(Current) = {}
        BY <2>2, <2>4, <2>6, <3>1 DEF IInv, Apart
      <3> QED
        BY <2>5, <3>1, <3>2
    <2>8. CASE fn.req[w] # NONE
      <3>1. fn.req[w] = fn.req[Current]
        BY <2>3, <2>6, <2>8 DEF ConflictOf
      <3>2. ErrorIsGenuine'
        BY <2>1, <2>2, <2>3, <2>4, <3>1 DEF ErrorIsGenuine, Neighbours
      <3>3. TypeOK'
        BY <2>1 DEF IInv, TypeOK
      <3>4. QueueStorable' /\ NoneForgotten'
        BY <2>1 DEF IInv, QueueStorable, NoneForgotten, Allocated
      <3> QED
        BY <2>1, <3>2, <3>3, <3>4, AllocationsKept DEF IInv
    <2> QED
      BY <2>7, <2>8
  <1>5. ASSUME NEW opt \in BOOLEAN, HasCurrent, ~RequirementConflict(Current),
               NEW g \in DoAllocate(Current, Conflicts(Current), opt),
               allocation' = [allocation EXCEPT ![Current] = g.to], Take(g),
               valueQueue' \in Rests(Current)
        PROVE  IInv'
    <2>1. PICK rest \in Rests(Current) : valueQueue' = rest
      BY <1>5
    <2>2. Current \in Value /\ fn.kind[Current] # "resource" /\ rest \in Seq(Value)
      BY <1>5, RestFacts DEF IInv
    <2>3. UNION {ConflictOf(w) : w \in Neighbours(Current) \ {}} \subseteq Conflicts(Current)
      BY DEF Conflicts
    <2>4. /\ Sound(Current, g)
          /\ \A w \in Neighbours(Current) \ {} : g.to \cap ConflictOf(w) = {}
      BY <1>5, <2>2, <2>3, GrantIsFree
    <2>5. allocation' = [x \in Value |-> IF x = Current THEN g.to
                                         ELSE IF x \in {} THEN Unallocated
                                         ELSE allocation[x]]
      BY <1>5 DEF IInv, TypeOK
    <2> QED
      BY <1>5, <2>1, <2>2, <2>4, <2>5, GrantKeepsInv
  <1>6. CASE Allocate
    BY <1>5, <1>6 DEF Allocate
  <1>7. CASE SpillCurrent
    BY <1>5, <1>7 DEF SpillCurrent, OutOfSpace
  <1>8. ASSUME NEW e \in Value, Evict(e)
        PROVE  IInv'
    <2>1. /\ HasCurrent /\ Current \in Value
          /\ e # Current /\ fn.req[e] = NONE /\ fn.kind[e] # "resource"
      BY <1>8, EvictFacts
    <2>2. PICK g : \E rest \in Rests(Current) :
            /\ Sound(Current, g)
            /\ \A w \in Neighbours(Current) \ {e} : g.to \cap ConflictOf(w) = {}
            /\ allocation' = [x \in Value |-> IF x = Current THEN g.to
                                              ELSE IF x \in {e} THEN Unallocated
                                              ELSE allocation[x]]
            /\ Take(g)
            /\ valueQueue' \in Seq(Value) /\ Range(valueQueue') = Range(rest) \cup {e}
      BY <1>8, EvictFacts
    <2> QED
      BY <2>1, <2>2, GrantKeepsInv
  <1>9. CASE Finish
    <2>1. TypeOK'
      BY <1>9 DEF Finish, IInv, TypeOK
    <2>2. AllocationFits'
      BY <1>9 DEF Finish, IInv, AllocationFits, Allocated, RegClass, AreaShape
    <2>3. Apart'
      BY <1>9 DEF Finish, IInv, Apart, Allocated, Neighbours, ConflictOf
    <2>4. QueueStorable' /\ FrameCovers' /\ NoneForgotten'
      BY <1>9 DEF Finish, IInv, QueueStorable, FrameCovers, NoneForgotten, Allocated
    <2>5. ErrorIsGenuine'
      BY <1>9 DEF Finish, IInv, ErrorIsGenuine, Allocated, Neighbours, ConflictOf, RegClass, AreaShape
    <2> QED
      BY <2>1, <2>2, <2>3, <2>4, <2>5 DEF IInv
  <1>10. CASE Rerun
    <2>1. /\ \A v \in Value : ~Allocated(v)'
          /\ valueQueue' = <<>> /\ presented' = {} /\ status' = "run"
      BY <1>10 DEF Rerun, Allocated
    <2>2. TypeOK'
      BY <1>10, ConstantsAssumption DEF Rerun, IInv, TypeOK
    <2>3. Range(valueQueue') = {}
      BY <2>1 DEF Range
    <2> QED
      BY <2>1, <2>2, <2>3 DEF IInv, AllocationFits, Apart, QueueStorable, FrameCovers,
        NoneForgotten, ErrorIsGenuine
  <1>11. CASE UNCHANGED vars
    <2>1. TypeOK'
      BY <1>11 DEF vars, IInv, TypeOK
    <2>2. AllocationFits'
      BY <1>11 DEF vars, IInv, AllocationFits, Allocated, RegClass, AreaShape
    <2>3. Apart'
      BY <1>11 DEF vars, IInv, Apart, Allocated, Neighbours, ConflictOf
    <2>4. QueueStorable' /\ FrameCovers' /\ NoneForgotten'
      BY <1>11 DEF vars, IInv, QueueStorable, FrameCovers, NoneForgotten, Allocated
    <2>5. ErrorIsGenuine'
      BY <1>11 DEF vars, IInv, ErrorIsGenuine, Allocated, Neighbours, ConflictOf, RegClass, AreaShape
    <2> QED
      BY <2>1, <2>2, <2>3, <2>4, <2>5 DEF IInv
  <1> QED
    BY <1>1, <1>2, <1>3, <1>4, <1>6, <1>7, <1>8, <1>9, <1>10, <1>11 DEF Next, Step

\* The invariant holds before the first value is allocated.
LEMMA InitInv ==
  ASSUME Init
  PROVE  IInv
  <1>1. TypeOK
    BY ConstantsAssumption DEF Init, TypeOK, Frame
  <1>2. \A v \in Value : ~Allocated(v)
    BY DEF Init, Allocated
  <1>3. Range(valueQueue) = {} /\ presented = {} /\ status = "run"
    BY DEF Init, Range
  <1> QED
    BY <1>1, <1>2, <1>3 DEF IInv, AllocationFits, Apart, QueueStorable, FrameCovers,
      NoneForgotten, ErrorIsGenuine

\* The inductive invariant, for every function, every number of values,
\* registers and spill slots and every number of runs.
THEOREM Invariance == Spec => []IInv
  <1>1. Init => IInv
    BY InitInv
  <1>2. IInv /\ [Next]_vars => IInv'
    BY StepKeepsInv
  <1> QED
    BY <1>1, <1>2, PTL DEF Spec

\* The state of the allocator is well typed in every reachable state.
THEOREM TypeCorrect == Spec => []TypeOK
  <1>1. IInv => TypeOK
    BY DEF IInv
  <1> QED
    BY <1>1, Invariance, PTL

\* Interfering values never share a register or a spill slot, whatever the
\* allocator does to make room (do_regalloc, try_evict_neighbor, do_allocate).
THEOREM ConflictFree == Spec => []NoConflict
  <1>1. IInv => NoConflict
    <2> SUFFICES ASSUME IInv, NEW v \in Value, NEW w \in Neighbours(v),
                        fn.kind[v] # "resource", fn.kind[w] # "resource",
                        Allocated(v), Allocated(w)
                 PROVE  allocation[v] \cap allocation[w] = {}
      BY DEF NoConflict, Neighbours
    <2>1. w \in Value
      BY DEF Neighbours
    <2>2. fn.req[w] # NONE => allocation[w] = {fn.req[w]}
      BY <2>1, FitsAll, FitsFacts DEF IInv, TypeOK
    <2>3. allocation[w] = ConflictOf(w)
      BY <2>2 DEF ConflictOf
    <2> QED
      BY <2>1, <2>3 DEF IInv, Apart
  <1> QED
    BY <1>1, Invariance, PTL

\* Every allocation has the register class, the size and the alignment its
\* value asks for (do_allocate).
THEOREM Fitting == Spec => []AllocationFits
  <1>1. IInv => AllocationFits
    BY DEF IInv
  <1> QED
    BY <1>1, Invariance, PTL

\* The allocator fails only on functions whose own register requirements
\* collide (do_allocate, KEFIR_INVALID_STATE).
THEOREM GenuineError == Spec => []ErrorIsGenuine
  <1>1. IInv => ErrorIsGenuine
    BY DEF IInv
  <1> QED
    BY <1>1, Invariance, PTL

\* The stack frame covers every register and slot in use, whichever exit of
\* do_allocate granted it (use_register, use_spill_space).
THEOREM FrameCovering == Spec => []FrameCovers
  <1>1. IInv => FrameCovers
    BY DEF IInv
  <1> QED
    BY <1>1, Invariance, PTL

\* A value put on the work list is never lost (do_regalloc).
THEOREM NothingForgotten == Spec => []NoneForgotten
  <1>1. IInv => NoneForgotten
    BY DEF IInv
  <1> QED
    BY <1>1, Invariance, PTL

\* An allocation is taken away only for a strictly hotter value
\* (try_evict_neighbor).
THEOREM EvictionForHotter == Spec => EvictedForHotter
  <1> DEFINE Taken(w) == Allocated(w) /\ allocation'[w] = Unallocated
             Paid(w) == \/ runs' > runs
                        \/ /\ fn.req[w] = NONE
                           /\ \E v \in Value :
                                /\ ~Allocated(v) /\ allocation'[v] # Unallocated
                                /\ HotnessLess(GetValueHotness(w), GetValueHotness(v))
  <1>1. ASSUME IInv, [Next]_vars, NEW w \in Value, Taken(w)
        PROVE  Paid(w)
    <2>1. CASE UNCHANGED allocation
      BY <1>1, <2>1 DEF Allocated
    <2>2. ASSUME NEW a, ~Allocated(Current), allocation' = [allocation EXCEPT ![Current] = a]
          PROVE  FALSE
      BY <1>1, <2>2 DEF Allocated, IInv, TypeOK
    <2>3. CASE Allocate
      BY <2>2, <2>3 DEF Allocate
    <2>4. CASE SpillCurrent
      BY <2>2, <2>4 DEF SpillCurrent, OutOfSpace
    <2>5. ASSUME NEW e \in Value, Evict(e)
          PROVE  Paid(w)
      <3>1. /\ ~Allocated(Current) /\ Current \in Value /\ e # Current /\ fn.req[e] = NONE
            /\ HotnessLess(GetValueHotness(e), GetValueHotness(Current))
        BY <1>1, <2>5, EvictFacts
      <3>2. /\ allocation'[Current] # Unallocated
            /\ \A x \in Value \ {Current, e} : allocation'[x] = allocation[x]
        BY <1>1, <2>5, <3>1, EvictFacts
      <3>3. w = e
        BY <1>1, <3>1, <3>2 DEF Allocated
      <3> QED
        BY <3>1, <3>2, <3>3
    <2>6. CASE Rerun
      BY <1>1, <2>6 DEF Rerun, IInv, TypeOK
    <2>7. CASE NextBlock \/ NextValue \/ SkipAllocated \/ FailConstraint \/ Finish \/ UNCHANGED vars
      BY <2>1, <2>7 DEF NextBlock, NextValue, SkipAllocated, FailConstraint, Finish, vars
    <2> QED
      BY <1>1, <2>3, <2>4, <2>5, <2>6, <2>7 DEF Next, Step
  <1>2. IInv /\ [Next]_vars => [\A w \in Value : Taken(w) => Paid(w)]_vars
    BY <1>1
  <1> QED
    BY <1>2, Invariance, PTL DEF Spec, EvictedForHotter
=============================================================================
