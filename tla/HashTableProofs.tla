-------------------------- MODULE HashTableProofs --------------------------
(* The hash table implements the map, for every set of keys, every hash      *)
(* function and all thresholds up to a full table.  First what the probes do: *)
(* a probe visits the whole table, the position found for a key is sound, and *)
(* there is one as long as a slot is not occupied.                           *)
EXTENDS HashTable, PowersOfTwoProofs, FiniteSetTheorems

-----------------------------------------------------------------------------
(* Slots and tables *)

\* A probe stays inside the table.
LEMMA ProbeInRange ==
  ASSUME NEW t, TableType(t), NEW k \in Key, NEW i \in Indices(t.capacity)
  PROVE  Probe(t, k, i) \in Indices(t.capacity)
<1>1. Upper[k] \in Nat /\ Lower[k] \in Nat /\ i \in Nat /\ t.capacity \in Nat /\ t.capacity > 0
  BY HashAssumption DEF Indices, TableType
<1>2. Step(k) \in Nat
  BY <1>1 DEF Step
<1>3. i * Step(k) \in Nat
  BY <1>1, <1>2
<1>4. Upper[k] + i * Step(k) \in Nat
  BY <1>1, <1>3
<1>. DEFINE x == Upper[k] + i * Step(k)
<1>5. \A y \in Nat : y % t.capacity \in 0 .. t.capacity - 1
  BY <1>1
<1>. QED
  BY <1>4, <1>5 DEF Probe, Indices

\* In a table of a power of two of slots, a probe with an odd step visits every slot.
LEMMA ProbeCovers ==
  ASSUME NEW t, TableType(t), PowerOf2(t.capacity), NEW k \in Key, NEW p \in Indices(t.capacity)
  PROVE  \E i \in Indices(t.capacity) : Probe(t, k, i) = p
<1>. DEFINE n == t.capacity
            I == Indices(n)
            f == [i \in I |-> Probe(t, k, i)]
<1>1. n \in Nat \ {0} /\ I = 0 .. n - 1
  BY DEF TableType, PowerOf2, Indices
<1>2. f \in [I -> I]
  BY ProbeInRange
<1>3. Step(k) \in Nat /\ Step(k) % 2 = 1 /\ Upper[k] \in Nat
  BY HashAssumption DEF Step
<1>4. ASSUME NEW i \in I, NEW j \in I, f[i] = f[j]
      PROVE  i = j
  <2>. DEFINE u == Upper[k]
              s == Step(k)
              a == u + i * s
              b == u + j * s
  <2>1. i \in Int /\ j \in Int /\ s \in Int /\ u \in Int /\ n \in Int /\ n > 0
        /\ i >= 0 /\ i < n /\ j >= 0 /\ j < n
    BY <1>1, <1>3
  <2>2. a \in Int /\ b \in Int /\ a % n = b % n
    <3>1. a \in Int /\ b \in Int
      BY <2>1
    <3>. QED
      BY <1>4, <3>1 DEF Probe
  <2>3. a - b = (i - j) * s
    BY <2>1
  <2>. HIDE DEF a, b, s, u, n
  <2>4. a = n * (a \div n) + (a % n) /\ b = n * (b \div n) + (b % n)
        /\ a \div n \in Int /\ b \div n \in Int /\ a % n \in Int /\ b % n \in Int
    BY <2>1, <2>2
  <2>5. PICK x \in Int, y \in Int, r \in Int : a = n * x + r /\ b = n * y + r
    BY <2>2, <2>4
  <2>6. (i - j) * s = n * (x - y) /\ x - y \in Int
    BY <2>1, <2>3, <2>5
  <2>7. Divides(n, (i - j) * s)
    BY <2>6 DEF Divides
  <2>8. Divides(n, i - j)
    <3>1. n \in Nat /\ PowerOf2(n) /\ s \in Nat /\ s % 2 = 1
      BY <1>1, <1>3 DEF n, s
    <3>2. i - j \in Int
      BY <2>1
    <3>. QED
      BY <2>7, <3>1, <3>2, OddFactor
  <2>9. PICK q \in Int : i - j = n * q
    BY <2>8 DEF Divides
  <2>10. q < 1
    <3>1. ASSUME q >= 1 PROVE FALSE
      <4>1. n * q >= n
        BY <2>1, <3>1
      <4>. QED
        BY <2>1, <2>9, <4>1
    <3>. QED
      BY <3>1
  <2>11. q > -1
    <3>1. ASSUME q <= -1 PROVE FALSE
      <4>1. n * q <= -n
        BY <2>1, <3>1
      <4>. QED
        BY <2>1, <2>9, <4>1
    <3>. QED
      BY <3>1
  <2>12. q = 0
    BY <2>10, <2>11
  <2>. QED
    BY <2>1, <2>9, <2>12
<1>. HIDE DEF n, f, I
<1>5. f \in Injection(I, I)
  BY <1>2, <1>4, Zenon DEF Injection, IsInjective
<1>6. IsFiniteSet(I)
  BY <1>1, FS_Interval
<1>7. f \in Surjection(I, I)
  BY <1>5, <1>6, FS_Injection
<1>8. PICK i \in I : f[i] = p
  BY <1>7 DEF Surjection, I, n
<1>. QED
  BY <1>8 DEF f, I, n

\* A slot is empty, a deletion mark, or the entry it shows.
LEMMA SlotForms ==
  /\ \A s \in Slot :
       /\ s.state = "OCCUPIED" => s.key \in Key /\ s.value \in Value /\ s = OCCUPIED(s.key, s.value)
       /\ s.state # "OCCUPIED" => s = EMPTY \/ s = DELETED
  /\ EMPTY \in Slot /\ EMPTY.state # "OCCUPIED"
  /\ DELETED \in Slot /\ DELETED.state # "OCCUPIED" /\ DELETED # EMPTY
BY DEF Slot, EMPTY, DELETED, OCCUPIED

\* What an occupied slot is made of.
LEMMA OccupiedForm ==
  ASSUME NEW k \in Key, NEW v \in Value
  PROVE  /\ OCCUPIED(k, v) \in Slot
         /\ OCCUPIED(k, v) # EMPTY
         /\ OCCUPIED(k, v).state = "OCCUPIED"
         /\ OCCUPIED(k, v).key = k
         /\ OCCUPIED(k, v).value = v
BY DEF Slot, EMPTY, OCCUPIED

\* What the operations rely on in each table.
GoodTable(t) ==
  /\ TableType(t)
  /\ ReachableIn(t)
  /\ UniqueIn(t)
  /\ t.occupied = Cardinality(OccupiedSlots(t))

\* A table has finitely many occupied slots.
LEMMA OccupiedFinite ==
  ASSUME NEW t, TableType(t)
  PROVE  IsFiniteSet(OccupiedSlots(t))
<1>1. 0 \in Int /\ t.capacity - 1 \in Int
  BY DEF TableType
<1>2. IsFiniteSet(0 .. t.capacity - 1)
  BY <1>1, FS_Interval, Zenon
<1>. QED
  BY <1>2, FS_Subset DEF OccupiedSlots, Indices

\* A new table is good and empty.
LEMMA NewTableGood ==
  ASSUME NEW n \in Nat
  PROVE  GoodTable(NewTable(n)) /\ OccupiedSlots(NewTable(n)) = {}
<1>1. TableType(NewTable(n))
  BY SlotForms DEF NewTable, TableType, Indices
<1>2. OccupiedSlots(NewTable(n)) = {}
  BY SlotForms DEF NewTable, OccupiedSlots
<1>3. NewTable(n).occupied = Cardinality({})
  BY FS_EmptySet DEF NewTable
<1>. QED
  BY <1>1, <1>2, <1>3 DEF GoodTable, ReachableIn, UniqueIn

-----------------------------------------------------------------------------
(* The search for a position *)

\* Before the end of the probe no slot is empty or holds the key.
LEMMA StopIsFirst ==
  ASSUME NEW t, TableType(t), NEW k \in Key
  PROVE  /\ Stop(t, k) \in Nat
         /\ Stop(t, k) <= t.capacity
         /\ Stop(t, k) < t.capacity => Stop(t, k) \in Stops(t, k)
         /\ \A i \in Indices(t.capacity) : i < Stop(t, k) => i \notin Stops(t, k)
<1>1. Stops(t, k) \subseteq Indices(t.capacity) /\ Indices(t.capacity) \subseteq Nat
  BY DEF Stops, Indices
<1>2. t.capacity \in Nat
  BY DEF TableType
<1>3. CASE Stops(t, k) = {}
  BY <1>2, <1>3 DEF Stop
<1>4. CASE Stops(t, k) # {}
  <2>1. Stop(t, k) = Min(Stops(t, k))
    BY <1>4 DEF Stop
  <2>2. Stop(t, k) \in Stops(t, k) /\ \A y \in Stops(t, k) : Stop(t, k) <= y
    BY <1>1, <1>4, <2>1, MinIsLeast
  <2>. QED
    BY <1>1, <1>2, <2>2 DEF Indices
<1>. QED
  BY <1>3, <1>4

\* A key that some slot holds ends its own probe at that slot.
LEMMA HeldIsFound ==
  ASSUME NEW t, GoodTable(t), NEW q \in OccupiedSlots(t)
  PROVE  LET k == t.slots[q].key
         IN  /\ k \in Key
             /\ Stop(t, k) < t.capacity
             /\ Holds(At(t, k, Stop(t, k)), k)
             /\ Probe(t, k, Stop(t, k)) = q
<1>. DEFINE k == t.slots[q].key
<1>1. q \in Indices(t.capacity) /\ t.slots[q] \in Slot /\ t.slots[q].state = "OCCUPIED"
  BY DEF OccupiedSlots, GoodTable, TableType
<1>2. k \in Key
  BY <1>1, SlotForms
<1>3. PICK i \in Indices(t.capacity) :
        Probe(t, k, i) = q /\ \A h \in Indices(i) : At(t, k, h) # EMPTY
  BY DEF GoodTable, ReachableIn
<1>4. Holds(At(t, k, i), k) /\ At(t, k, i) # EMPTY
  BY <1>1, <1>3, SlotForms DEF Holds, At
<1>5. i \in Stops(t, k)
  BY <1>4 DEF Stops
<1>. DEFINE s == Stop(t, k)
<1>6. s \in Nat /\ i \in Nat /\ t.capacity \in Nat /\ s <= i /\ s < t.capacity /\ s \in Stops(t, k)
  <2>1. i \in Nat /\ t.capacity \in Nat /\ i < t.capacity
    BY DEF Indices, GoodTable, TableType
  <2>. QED
    BY <1>2, <1>5, <2>1, StopIsFirst DEF GoodTable
<1>7. At(t, k, s) # EMPTY
  <2>1. CASE s = i
    BY <1>4, <2>1
  <2>2. CASE s < i
    BY <1>3, <1>6, <2>2 DEF Indices
  <2>. QED
    BY <1>6, <2>1, <2>2
<1>8. Holds(At(t, k, s), k)
  BY <1>6, <1>7 DEF Stops
<1>9. Probe(t, k, s) = q
  <2>1. s \in Indices(t.capacity)
    BY <1>6 DEF Indices
  <2>2. Probe(t, k, s) \in OccupiedSlots(t)
    BY <1>2, <1>8, <2>1, ProbeInRange DEF OccupiedSlots, Holds, At, GoodTable
  <2>. QED
    BY <1>8, <2>2 DEF GoodTable, UniqueIn, Holds, At
<1>. QED
  BY <1>2, <1>6, <1>8, <1>9

\* The position found for a key is on its probe with no empty slot before it, and
\* it is not yet occupied unless some slot holds the key.
LEMMA PositionSound ==
  ASSUME NEW t, GoodTable(t), NEW k \in Key, NEW p \in Position(t, k)
  PROVE  /\ p \in Indices(t.capacity)
         /\ \E i \in Indices(t.capacity) :
              Probe(t, k, i) = p /\ \A h \in Indices(i) : At(t, k, h) # EMPTY
         /\ ~Holds(t.slots[p], k) =>
              p \notin OccupiedSlots(t) /\ \A q \in OccupiedSlots(t) : t.slots[q].key # k
<1>. DEFINE s == Stop(t, k)
<1>1. s \in Nat /\ s <= t.capacity /\ t.capacity \in Nat
      /\ (s < t.capacity => s \in Stops(t, k))
      /\ \A i \in Indices(t.capacity) : i < s => At(t, k, i) # EMPTY
  BY StopIsFirst DEF GoodTable, TableType, Stops
<1>2. DeletedBefore(t, k) \in SUBSET Nat
  BY DEF DeletedBefore, Indices
<1>3. PICK i \in Indices(t.capacity) :
        /\ Probe(t, k, i) = p
        /\ \/ i = s /\ s < t.capacity
           \/ i \in DeletedBefore(t, k) /\ ~(s < t.capacity /\ At(t, k, s) # EMPTY)
  <2>1. CASE s < t.capacity /\ At(t, k, s) # EMPTY
    BY <1>1, <2>1 DEF Position, Indices
  <2>2. CASE ~(s < t.capacity /\ At(t, k, s) # EMPTY) /\ DeletedBefore(t, k) # {}
    <3>1. Min(DeletedBefore(t, k)) \in DeletedBefore(t, k)
      BY <1>2, <2>2, MinIsLeast
    <3>. HIDE DEF s
    <3>2. p = Probe(t, k, Min(DeletedBefore(t, k)))
      BY <2>2 DEF Position, s
    <3>. QED
      BY <2>2, <3>1, <3>2 DEF DeletedBefore
  <2>3. CASE ~(s < t.capacity /\ At(t, k, s) # EMPTY) /\ DeletedBefore(t, k) = {}
    BY <1>1, <2>3 DEF Position, Indices
  <2>. QED
    BY <2>1, <2>2, <2>3
<1>4. p \in Indices(t.capacity)
  BY <1>3, ProbeInRange DEF GoodTable
<1>5. i <= s /\ i \in Nat /\ i < t.capacity
  BY <1>1, <1>3 DEF DeletedBefore, Indices
<1>6. \A h \in Indices(i) : At(t, k, h) # EMPTY
  BY <1>1, <1>5 DEF Indices
<1>7. ASSUME ~Holds(t.slots[p], k)
      PROVE  p \notin OccupiedSlots(t) /\ \A q \in OccupiedSlots(t) : t.slots[q].key # k
  <2>1. ASSUME NEW q \in OccupiedSlots(t), t.slots[q].key = k
        PROVE  FALSE
    <3>1. s < t.capacity /\ Holds(At(t, k, s), k)
      BY <2>1, HeldIsFound
    <3>2. At(t, k, s) # EMPTY
      BY <3>1, SlotForms DEF Holds
    <3>3. i = s
      BY <1>3, <3>1, <3>2
    <3>. QED
      BY <1>3, <1>7, <3>1, <3>3 DEF At
  <2>2. p \notin OccupiedSlots(t)
    <3>1. CASE i = s /\ s < t.capacity
      BY <1>1, <1>3, <1>7, <3>1, SlotForms DEF Stops, At, OccupiedSlots
    <3>2. CASE i \in DeletedBefore(t, k)
      BY <1>3, <3>2, SlotForms DEF DeletedBefore, At, OccupiedSlots
    <3>. QED
      BY <1>3, <3>1, <3>2
  <2>. QED
    BY <2>1, <2>2
<1>. QED
  BY <1>3, <1>4, <1>6, <1>7

\* Storing a key that no slot holds at a position of its probe keeps the table good.
LEMMA StoredGood ==
  ASSUME NEW t, GoodTable(t), NEW k \in Key, NEW v \in Value, NEW p \in Position(t, k),
         ~Holds(t.slots[p], k)
  PROVE  /\ GoodTable(Stored(t, p, k, v))
         /\ OccupiedSlots(Stored(t, p, k, v)) = OccupiedSlots(t) \cup {p}
         /\ \A q \in OccupiedSlots(t) : t.slots[q].key # k
         /\ Stored(t, p, k, v).slots = [t.slots EXCEPT ![p] = OCCUPIED(k, v)]
         /\ p \in Indices(t.capacity) /\ p \notin OccupiedSlots(t)
<1>. DEFINE u == Stored(t, p, k, v)
<1>1. p \in Indices(t.capacity) /\ p \notin OccupiedSlots(t)
      /\ (\A q \in OccupiedSlots(t) : t.slots[q].key # k)
      /\ \E i \in Indices(t.capacity) :
           Probe(t, k, i) = p /\ \A h \in Indices(i) : At(t, k, h) # EMPTY
  BY PositionSound
<1>2. /\ t.capacity \in Nat /\ t.occupied \in Nat
      /\ t.slots \in [Indices(t.capacity) -> Slot]
      /\ t = [capacity |-> t.capacity, slots |-> t.slots, occupied |-> t.occupied]
  BY DEF GoodTable, TableType
<1>3. u = [capacity |-> t.capacity, slots |-> [t.slots EXCEPT ![p] = OCCUPIED(k, v)],
           occupied |-> t.occupied + 1]
  BY <1>2 DEF Stored, Updated
<1>4. /\ u.capacity = t.capacity /\ u.occupied = t.occupied + 1
      /\ u.slots = [t.slots EXCEPT ![p] = OCCUPIED(k, v)]
      /\ u = [capacity |-> u.capacity, slots |-> u.slots, occupied |-> u.occupied]
  BY <1>3
<1>. HIDE DEF u
<1>5. u.slots[p] = OCCUPIED(k, v)
      /\ \A q \in Indices(t.capacity) : q # p => u.slots[q] = t.slots[q]
  BY <1>1, <1>2, <1>4
<1>6. TableType(u)
  BY <1>1, <1>2, <1>4, OccupiedForm DEF TableType
<1>7. OccupiedSlots(u) = OccupiedSlots(t) \cup {p}
  BY <1>1, <1>4, <1>5, OccupiedForm DEF OccupiedSlots
<1>8. UniqueIn(u)
  BY <1>1, <1>5, <1>7, OccupiedForm DEF UniqueIn, GoodTable, OccupiedSlots
<1>9. \A j \in Key : \A i \in Indices(t.capacity) :
        /\ Probe(u, j, i) = Probe(t, j, i)
        /\ At(t, j, i) # EMPTY => At(u, j, i) # EMPTY
  <2>1. \A j \in Key : \A i \in Indices(t.capacity) : Probe(u, j, i) = Probe(t, j, i)
    BY <1>4 DEF Probe
  <2>. QED
    BY <1>5, <2>1, OccupiedForm, ProbeInRange DEF At, GoodTable
<1>10. ReachableIn(u)
  <2>1. SUFFICES ASSUME NEW q \in OccupiedSlots(u)
                 PROVE  \E i \in Indices(u.capacity) :
                          /\ Probe(u, u.slots[q].key, i) = q
                          /\ \A h \in Indices(i) : At(u, u.slots[q].key, h) # EMPTY
    BY DEF ReachableIn
  <2>. DEFINE j == u.slots[q].key
  <2>2. j \in Key /\ \E i \in Indices(t.capacity) :
          Probe(t, j, i) = q /\ \A h \in Indices(i) : At(t, j, h) # EMPTY
    <3>1. CASE q = p
      BY <1>1, <1>5, <3>1, OccupiedForm
    <3>2. CASE q # p
      <4>1. q \in OccupiedSlots(t) /\ u.slots[q] = t.slots[q]
        BY <1>5, <1>7, <3>2 DEF OccupiedSlots
      <4>. QED
        BY <4>1, HeldIsFound DEF GoodTable, ReachableIn
    <3>. QED
      BY <3>1, <3>2
  <2>3. PICK i \in Indices(t.capacity) :
          Probe(t, j, i) = q /\ \A h \in Indices(i) : At(t, j, h) # EMPTY
    BY <2>2
  <2>4. \A h \in Indices(i) : h \in Indices(t.capacity)
    BY <1>2 DEF Indices
  <2>. HIDE DEF j
  <2>5. Probe(u, j, i) = q /\ \A h \in Indices(i) : At(u, j, h) # EMPTY
    BY <1>9, <2>2, <2>3, <2>4
  <2>. QED
    BY <1>4, <2>5 DEF j
<1>11. u.occupied = Cardinality(OccupiedSlots(u))
  <2>1. Cardinality(OccupiedSlots(t) \cup {p}) = Cardinality(OccupiedSlots(t)) + 1
    BY <1>1, OccupiedFinite, FS_AddElement DEF GoodTable
  <2>. QED
    BY <1>4, <1>7, <2>1 DEF GoodTable
<1>. QED
  BY <1>1, <1>4, <1>6, <1>7, <1>8, <1>10, <1>11 DEF GoodTable, u

\* A table with a slot that is not occupied has a position for every key.
LEMMA RoomForKey ==
  ASSUME NEW t, GoodTable(t), PowerOf2(t.capacity), t.occupied < t.capacity, NEW k \in Key
  PROVE  Position(t, k) # {}
<1>. DEFINE s == Stop(t, k)
<1>1. t.capacity \in Nat /\ t.capacity > 0 /\ TableType(t)
      /\ s \in Nat /\ s <= t.capacity
      /\ \A i \in Indices(t.capacity) : i < s => i \notin Stops(t, k)
  BY StopIsFirst DEF GoodTable, TableType, PowerOf2
<1>2. CASE s < t.capacity
  BY <1>1, <1>2 DEF Position, Indices
<1>3. CASE s = t.capacity
  <2>1. PICK p \in Indices(t.capacity) : p \notin OccupiedSlots(t)
    <3>1. ASSUME OccupiedSlots(t) = Indices(t.capacity)
          PROVE  FALSE
      <4>1. Cardinality(0 .. t.capacity - 1) = t.capacity
        <5>1. PICK n \in Int : n = t.capacity - 1 /\ n >= 0
          BY <1>1
        <5>2. Cardinality(0 .. n) = n - 0 + 1
          BY <5>1, FS_Interval
        <5>. QED
          BY <1>1, <5>1, <5>2
      <4>. QED
        BY <1>1, <3>1, <4>1 DEF GoodTable, Indices
    <3>. QED
      BY <3>1 DEF OccupiedSlots
  <2>2. PICK i \in Indices(t.capacity) : Probe(t, k, i) = p
    BY <1>1, ProbeCovers
  <2>3. i < s
    BY <1>1, <1>3 DEF Indices
  <2>4. t.slots[p] \in Slot /\ t.slots[p].state # "OCCUPIED"
    BY <1>1, <2>1 DEF OccupiedSlots, TableType
  <2>5. At(t, k, i) = DELETED
    BY <1>1, <2>2, <2>3, <2>4, SlotForms DEF At, Stops
  <2>6. DeletedBefore(t, k) # {}
    BY <2>3, <2>5 DEF DeletedBefore
  <2>. QED
    BY <1>3, <2>6 DEF Position
<1>. QED
  BY <1>1, <1>2, <1>3

\* The search of KEFIR_HASHTABLE_HAS is exact in a good table.
LEMMA LocateSound ==
  ASSUME NEW t, GoodTable(t), NEW k \in Key
  PROVE  Locate(t, k) = {q \in OccupiedSlots(t) : t.slots[q].key = k}
<1>1. ASSUME NEW q \in Locate(t, k)
      PROVE  q \in OccupiedSlots(t) /\ t.slots[q].key = k
  <2>1. PICK j \in Indices(t.capacity) : q = Probe(t, k, j) /\ Holds(At(t, k, j), k)
    BY DEF Locate
  <2>. QED
    BY <2>1, ProbeInRange DEF OccupiedSlots, Holds, At, GoodTable
<1>2. ASSUME NEW q \in OccupiedSlots(t), t.slots[q].key = k
      PROVE  q \in Locate(t, k)
  <2>. DEFINE s == Stop(t, k)
  <2>1. s < t.capacity /\ Holds(At(t, k, s), k) /\ Probe(t, k, s) = q
    BY <1>2, HeldIsFound
  <2>2. s \in Indices(t.capacity) /\ \A h \in Indices(s) : At(t, k, h) # EMPTY
    <3>1. s \in Nat /\ t.capacity \in Nat
          /\ \A i \in Indices(t.capacity) : i < s => i \notin Stops(t, k)
      BY StopIsFirst DEF GoodTable, TableType
    <3>2. \A h \in Indices(s) : h \in Indices(t.capacity) /\ h < s
      BY <2>1, <3>1 DEF Indices
    <3>. QED
      BY <2>1, <3>1, <3>2 DEF Indices, Stops
  <2>3. t.occupied > 0
    <3>1. Cardinality(OccupiedSlots(t)) # 0
      BY <1>2, OccupiedFinite, FS_EmptySet DEF GoodTable
    <3>. QED
      BY <3>1 DEF GoodTable, TableType
  <2>. QED
    BY <2>1, <2>2, <2>3 DEF Locate
<1>. QED
  BY <1>1, <1>2

\* A deletion mark in place of an entry keeps the table good.
LEMMA DeletedGood ==
  ASSUME NEW t, GoodTable(t), NEW p \in OccupiedSlots(t)
  PROVE  LET u == Updated(t, p, DELETED, t.occupied - 1)
         IN  /\ GoodTable(u)
             /\ OccupiedSlots(u) = OccupiedSlots(t) \ {p}
             /\ \A q \in OccupiedSlots(u) : u.slots[q] = t.slots[q]
             /\ u.capacity = t.capacity
             /\ u.occupied < t.occupied
<1>. DEFINE u == Updated(t, p, DELETED, t.occupied - 1)
<1>0. TableType(t) /\ t.occupied \in Nat /\ IsFiniteSet(OccupiedSlots(t))
      /\ Cardinality(OccupiedSlots(t)) = t.occupied
  BY OccupiedFinite DEF GoodTable, TableType
<1>1. Cardinality(OccupiedSlots(t) \ {p}) = t.occupied - 1 /\ Cardinality(OccupiedSlots(t) \ {p}) \in Nat
  BY <1>0, FS_RemoveElement, FS_CardinalityType
<1>2. p \in Indices(t.capacity) /\ DELETED \in Slot /\ t.occupied - 1 \in Nat
  BY <1>1, SlotForms DEF OccupiedSlots
<1>a. u = [capacity |-> t.capacity, slots |-> [t.slots EXCEPT ![p] = DELETED],
           occupied |-> t.occupied - 1]
  BY DEF Updated
<1>b. /\ u.capacity = t.capacity /\ u.occupied = t.occupied - 1
      /\ u.slots = [t.slots EXCEPT ![p] = DELETED]
      /\ u = [capacity |-> u.capacity, slots |-> u.slots, occupied |-> u.occupied]
  BY <1>a
<1>c. t.capacity \in Nat /\ t.slots \in [Indices(t.capacity) -> Slot]
  BY <1>0 DEF TableType
<1>. HIDE DEF u
<1>3. /\ TableType(u) /\ u.capacity = t.capacity /\ u.occupied = t.occupied - 1
      /\ u.slots[p] = DELETED
      /\ \A q \in Indices(t.capacity) : q # p => u.slots[q] = t.slots[q]
      /\ \A k \in Key : \A i \in Indices(t.capacity) : Probe(u, k, i) = Probe(t, k, i)
  BY <1>0, <1>2, <1>b, <1>c DEF TableType, Probe
<1>4. OccupiedSlots(u) = OccupiedSlots(t) \ {p}
  BY <1>3, SlotForms DEF OccupiedSlots
<1>5. \A q \in OccupiedSlots(u) : q \in OccupiedSlots(t) /\ u.slots[q] = t.slots[q]
  BY <1>3, <1>4 DEF OccupiedSlots
<1>6. UniqueIn(u)
  BY <1>5 DEF UniqueIn, GoodTable
<1>7. \A k \in Key : \A i \in Indices(t.capacity) : At(t, k, i) # EMPTY => At(u, k, i) # EMPTY
  BY <1>0, <1>3, SlotForms, ProbeInRange DEF At
<1>8. ReachableIn(u)
  <2>1. SUFFICES ASSUME NEW q \in OccupiedSlots(u)
                 PROVE  \E i \in Indices(u.capacity) :
                          /\ Probe(u, u.slots[q].key, i) = q
                          /\ \A h \in Indices(i) : At(u, u.slots[q].key, h) # EMPTY
    BY DEF ReachableIn
  <2>2. PICK k \in Key : k = t.slots[q].key /\ k = u.slots[q].key
    BY <1>5, HeldIsFound
  <2>3. PICK i \in Indices(t.capacity) :
          Probe(t, k, i) = q /\ \A h \in Indices(i) : At(t, k, h) # EMPTY
    BY <1>5, <2>2 DEF GoodTable, ReachableIn
  <2>4. \A h \in Indices(i) : h \in Indices(t.capacity)
    BY <1>0 DEF Indices, TableType
  <2>. QED
    BY <1>3, <1>7, <2>2, <2>3, <2>4
<1>. QED
  BY <1>0, <1>1, <1>3, <1>4, <1>5, <1>6, <1>8 DEF GoodTable, u

\* So does a new value for the key an entry already has.
LEMMA AssignedGood ==
  ASSUME NEW t, GoodTable(t), NEW p \in OccupiedSlots(t), NEW v \in Value
  PROVE  LET u == Updated(t, p, OCCUPIED(t.slots[p].key, v), t.occupied)
         IN  /\ GoodTable(u)
             /\ OccupiedSlots(u) = OccupiedSlots(t)
             /\ u.slots[p] = OCCUPIED(t.slots[p].key, v)
             /\ \A q \in OccupiedSlots(t) : q # p => u.slots[q] = t.slots[q]
             /\ u.capacity = t.capacity
             /\ u.occupied = t.occupied
<1>. DEFINE j == t.slots[p].key
            u == Updated(t, p, OCCUPIED(j, v), t.occupied)
<1>0. TableType(t) /\ t.occupied \in Nat /\ j \in Key /\ p \in Indices(t.capacity)
  BY HeldIsFound DEF GoodTable, TableType, OccupiedSlots
<1>1. OCCUPIED(j, v) \in Slot /\ OCCUPIED(j, v) # EMPTY /\ OCCUPIED(j, v).state = "OCCUPIED"
      /\ OCCUPIED(j, v).key = j
  BY <1>0, OccupiedForm
<1>a. u = [capacity |-> t.capacity, slots |-> [t.slots EXCEPT ![p] = OCCUPIED(j, v)],
           occupied |-> t.occupied]
  BY DEF Updated
<1>b. /\ u.capacity = t.capacity /\ u.occupied = t.occupied
      /\ u.slots = [t.slots EXCEPT ![p] = OCCUPIED(j, v)]
      /\ u = [capacity |-> u.capacity, slots |-> u.slots, occupied |-> u.occupied]
  BY <1>a
<1>c. t.capacity \in Nat /\ t.slots \in [Indices(t.capacity) -> Slot]
  BY <1>0 DEF TableType
<1>. HIDE DEF u
<1>3. /\ TableType(u) /\ u.capacity = t.capacity /\ u.occupied = t.occupied
      /\ u.slots[p] = OCCUPIED(j, v)
      /\ \A q \in Indices(t.capacity) : q # p => u.slots[q] = t.slots[q]
      /\ \A k \in Key : \A i \in Indices(t.capacity) : Probe(u, k, i) = Probe(t, k, i)
  BY <1>0, <1>1, <1>b, <1>c DEF TableType, Probe
<1>4. OccupiedSlots(u) = OccupiedSlots(t)
  BY <1>1, <1>3 DEF OccupiedSlots
<1>5. \A q \in OccupiedSlots(t) : u.slots[q].key = t.slots[q].key
  BY <1>1, <1>3 DEF OccupiedSlots
<1>6. UniqueIn(u)
  BY <1>4, <1>5 DEF UniqueIn, GoodTable
<1>7. \A k \in Key : \A i \in Indices(t.capacity) : At(t, k, i) # EMPTY => At(u, k, i) # EMPTY
  BY <1>0, <1>1, <1>3, ProbeInRange DEF At
<1>8. ReachableIn(u)
  <2>1. SUFFICES ASSUME NEW q \in OccupiedSlots(t)
                 PROVE  \E i \in Indices(t.capacity) :
                          /\ Probe(u, u.slots[q].key, i) = q
                          /\ \A h \in Indices(i) : At(u, u.slots[q].key, h) # EMPTY
    BY <1>3, <1>4 DEF ReachableIn
  <2>2. PICK k \in Key : k = t.slots[q].key /\ k = u.slots[q].key
    BY <1>5, HeldIsFound
  <2>3. PICK i \in Indices(t.capacity) :
          Probe(t, k, i) = q /\ \A h \in Indices(i) : At(t, k, h) # EMPTY
    BY <2>2 DEF GoodTable, ReachableIn
  <2>4. \A h \in Indices(i) : h \in Indices(t.capacity)
    BY <1>0 DEF Indices, TableType
  <2>. QED
    BY <1>3, <1>7, <2>2, <2>3, <2>4
<1>. QED
  BY <1>3, <1>4, <1>6, <1>8 DEF GoodTable, u, OccupiedSlots

-----------------------------------------------------------------------------
(* The inductive invariant *)

\* The entries of the old table that a rehash has passed are those of the new one.
Copied == {q \in OccupiedSlots(table) : q < cursor}
Copying ==
  /\ cursor <= table.capacity
  /\ PowerOf2(new.capacity)
  /\ table.occupied < new.capacity
  /\ new.occupied = Cardinality(Copied)
  /\ \A q \in Copied : \E p \in OccupiedSlots(new) : new.slots[p] = table.slots[q]
  /\ \A p \in OccupiedSlots(new) : \E q \in Copied : new.slots[p] = table.slots[q]

IInv ==
  /\ TypeOK
  /\ GoodTable(table)
  /\ GoodTable(new)
  /\ MaskIsModulo
  /\ result.status # "INTERNAL_ERROR"
  /\ op.what \in {"insert", "resize"} => Copying
  /\ op.what = "insert_entry" => table.occupied < table.capacity

\* The smallest capacities, of a first growth and of ensure(0).
LEMMA PowerOfFour == PowerOf2(4) /\ PowerOf2(1)
<1>1. \A d \in 1 .. 4 : d = 1 \/ d = 2 \/ d = 3 \/ d = 4
  OBVIOUS
<1>2. 4 % 3 = 1 /\ 2 % 2 = 0 /\ 4 % 2 = 0
  OBVIOUS
<1>3. \A d \in 1 .. 4 : 4 % d = 0 => d = 1 \/ d % 2 = 0
  BY <1>1, <1>2
<1>. QED
  BY <1>3 DEF PowerOf2

\* Growth leads from a power of two, or nothing, to a larger power of two.
LEMMA GrowPower ==
  ASSUME NEW n \in Nat, n = 0 \/ PowerOf2(n)
  PROVE  CapacityGrow(n) \in Nat /\ PowerOf2(CapacityGrow(n)) /\ n < CapacityGrow(n)
<1>1. CASE n = 0
  BY <1>1, PowerOfFour DEF CapacityGrow
<1>2. CASE n # 0
  <2>1. PowerOf2(2 * n)
    BY <1>2, PowerDoubles
  <2>2. CapacityGrow(n) = 2 * n
    BY <1>2 DEF CapacityGrow
  <2>. QED
    BY <1>2, <2>1, <2>2
<1>. QED
  BY <1>1, <1>2

\* A table never counts more entries than it has slots.
LEMMA OccupiedBound ==
  ASSUME NEW t, GoodTable(t)
  PROVE  t.occupied <= t.capacity
<1>1. t.capacity \in Nat
  BY DEF GoodTable, TableType
<1>2. IsFiniteSet(0 .. t.capacity - 1) /\ Cardinality(0 .. t.capacity - 1) = t.capacity
  <2>1. 0 \in Int /\ t.capacity - 1 \in Int
    BY <1>1
  <2>2. IsFiniteSet(0 .. t.capacity - 1)
        /\ Cardinality(0 .. t.capacity - 1)
             = IF 0 > t.capacity - 1 THEN 0 ELSE (t.capacity - 1) - 0 + 1
    BY <2>1, FS_Interval
  <2>. QED
    BY <1>1, <2>2
<1>3. OccupiedSlots(t) \in SUBSET (0 .. t.capacity - 1)
  BY DEF OccupiedSlots, Indices
<1>4. Cardinality(OccupiedSlots(t)) <= Cardinality(0 .. t.capacity - 1)
  BY <1>2, <1>3, FS_Subset
<1>. QED
  BY <1>2, <1>4 DEF GoodTable

\* kefir_hashtable_init establishes the inductive invariant.
LEMMA InitHolds == Init => IInv
<1>. SUFFICES ASSUME Init PROVE IInv
  OBVIOUS
<1>1. GoodTable(NewTable(0)) /\ TableType(NewTable(0)) /\ NewTable(0).capacity = 0
  BY NewTableGood DEF GoodTable, NewTable
<1>2. MaskIsModulo
  BY <1>1 DEF Init, MaskIsModulo
<1>. QED
  BY <1>1, <1>2 DEF Init, IInv, TypeOK, Idle, Status

\* A rehash starts with an empty table that has room for all entries, or not at all.
LEMMA BeginRehashStep ==
  ASSUME IInv, op = Idle, NEW n \in Nat, PowerOf2(n), table.occupied < n,
         NEW o, o = [what |-> "resize"]
                \/ o \in [what : {"insert"}, key : Key, value : Value],
         BeginRehash(n, o)
  PROVE  IInv'
<1>1. CASE op' = o /\ new' = NewTable(n) /\ cursor' = 0 /\ UNCHANGED <<table, removed, result>>
  <2>1. GoodTable(new') /\ OccupiedSlots(new') = {} /\ new'.capacity = n /\ new'.occupied = 0
    BY <1>1, NewTableGood DEF NewTable
  <2>2. TypeOK'
    BY <1>1, <2>1 DEF IInv, TypeOK, GoodTable
  <2>3. MaskIsModulo'
    BY <1>1, <2>1 DEF IInv, MaskIsModulo
  <2>4. Copied' = {}
    BY <1>1 DEF Copied, OccupiedSlots, Indices
  <2>5. Copying'
    <3>1. cursor' <= table'.capacity
      BY <1>1 DEF IInv, GoodTable, TableType
    <3>. QED
      BY <1>1, <2>1, <2>4, <3>1, FS_EmptySet DEF Copying
  <2>6. op'.what # "insert_entry"
    BY <1>1
  <2>. QED
    BY <1>1, <2>1, <2>2, <2>3, <2>5, <2>6 DEF IInv
<1>2. CASE Return(Status("MEMALLOC_FAILURE"), {}) /\ op' = Idle /\ UNCHANGED <<table, new, cursor>>
  <2>1. TypeOK' /\ MaskIsModulo'
    BY <1>2 DEF IInv, TypeOK, MaskIsModulo
  <2>. QED
    BY <1>2, <2>1 DEF IInv, Return, Status, Idle
<1>. QED
  BY <1>1, <1>2 DEF BeginRehash

\* The entry is stored, or its key is already there: there always is a position.
LEMMA InsertEntryStep ==
  ASSUME IInv, NEW k \in Key, NEW v \in Value, table.occupied < table.capacity, InsertEntry(k, v)
  PROVE  IInv'
<1>1. Position(table, k) # {}
  BY RoomForKey DEF IInv, MaskIsModulo, GoodTable, TableType
<1>2. op' = Idle /\ new' = new /\ cursor' = cursor
  BY DEF InsertEntry
<1>3. GoodTable(table') /\ table'.capacity = table.capacity
  <2>1. CASE UNCHANGED table
    BY <2>1 DEF IInv
  <2>2. ASSUME NEW p \in Position(table, k), ~Holds(table.slots[p], k)
        PROVE  GoodTable(Stored(table, p, k, v)) /\ Stored(table, p, k, v).capacity = table.capacity
    BY <2>2, StoredGood DEF IInv, Stored, Updated
  <2>3. \A p, q \in Position(table, k) : p = q
    BY DEF Position
  <2>. QED
    BY <2>1, <2>2, <2>3 DEF InsertEntry
<1>4. result'.status # "INTERNAL_ERROR"
  BY <1>1 DEF InsertEntry, Return, Status
<1>5. TypeOK' /\ MaskIsModulo'
  BY <1>2, <1>3 DEF IInv, TypeOK, MaskIsModulo, GoodTable
<1>. QED
  BY <1>2, <1>3, <1>4, <1>5 DEF IInv, Idle

\* Below the occupation threshold some slot is not occupied.
LEMMA RoomUnlessTooFull ==
  ASSUME IInv, ~TooFull
  PROVE  table.occupied < table.capacity
<1>. DEFINE x == OccupationPct * table.capacity
<1>1. table.capacity \in Nat /\ table.occupied \in Nat
  BY DEF IInv, GoodTable, TableType
<1>2. x \in Nat /\ x <= 100 * table.capacity
  BY <1>1, ThresholdAssumption
<1>3. table.occupied < x \div 100
  BY <1>1, <1>2 DEF TooFull
<1>. QED
  BY <1>1, <1>2, <1>3

\* An insertion rehashes into a larger table, or finds room in this one.
LEMMA InsertStep ==
  ASSUME IInv, NEW k \in Key, NEW v \in Value, Insert(k, v)
  PROVE  IInv'
<1>1. /\ table.capacity \in Nat /\ table.occupied \in Nat /\ table.occupied <= table.capacity
      /\ table.capacity = 0 \/ PowerOf2(table.capacity)
  BY OccupiedBound DEF IInv, GoodTable, TableType, MaskIsModulo
<1>2. op = Idle
  BY DEF Insert
<1>3. CASE TooFull \/ TooManyCollisions(k)
  <2>. DEFINE n == CapacityGrow(table.capacity)
              o == [what |-> "insert", key |-> k, value |-> v]
  <2>1. n \in Nat /\ PowerOf2(n) /\ table.occupied < n
    BY <1>1, GrowPower
  <2>2. BeginRehash(n, o)
    BY <1>3 DEF Insert
  <2>3. o \in [what : {"insert"}, key : Key, value : Value]
    OBVIOUS
  <2>. HIDE DEF n, o
  <2>. QED
    BY <1>2, <2>1, <2>2, <2>3, BeginRehashStep
<1>4. CASE ~(TooFull \/ TooManyCollisions(k))
  <2>1. table.occupied < table.capacity
    BY <1>4, RoomUnlessTooFull
  <2>. QED
    BY <1>4, <2>1, InsertEntryStep DEF Insert
<1>. QED
  BY <1>3, <1>4

\* A rehash has room for the entry it copies, whose key is not in the new table yet.
LEMMA RehashPosition ==
  ASSUME IInv, Copying, cursor \in OccupiedSlots(table)
  PROVE  LET k == table.slots[cursor].key
         IN  /\ k \in Key /\ table.slots[cursor].value \in Value
             /\ table.slots[cursor] = OCCUPIED(k, table.slots[cursor].value)
             /\ \A p \in Position(new, k) : ~Holds(new.slots[p], k)
<1>. DEFINE k == table.slots[cursor].key
<1>1. table.slots[cursor] \in Slot /\ table.slots[cursor].state = "OCCUPIED"
  BY DEF IInv, TypeOK, TableType, OccupiedSlots
<1>2. k \in Key /\ table.slots[cursor].value \in Value
      /\ table.slots[cursor] = OCCUPIED(k, table.slots[cursor].value)
  BY <1>1, SlotForms
<1>3. ASSUME NEW p \in Position(new, k), Holds(new.slots[p], k)
      PROVE  FALSE
  <2>1. p \in OccupiedSlots(new)
    BY <1>2, <1>3, PositionSound DEF IInv, Holds, OccupiedSlots
  <2>2. PICK q \in Copied : new.slots[p] = table.slots[q]
    BY <2>1 DEF Copying
  <2>3. q \in OccupiedSlots(table) /\ q < cursor /\ table.slots[q].key = k
    BY <1>3, <2>2 DEF Copied, Holds
  <2>4. q = cursor
    BY <2>3 DEF IInv, GoodTable, UniqueIn
  <2>. QED
    BY <2>3, <2>4 DEF IInv, TypeOK
<1>. QED
  BY <1>2, <1>3

\* Copying one entry into the new arrays keeps it (the loop of rehash).
LEMMA RehashEntryStep ==
  ASSUME IInv, RehashEntry
  PROVE  IInv'
<1>1. Copying /\ cursor < table.capacity /\ cursor \in Nat /\ cursor' = cursor + 1
      /\ UNCHANGED <<table, op, removed, result>> /\ table.capacity \in Nat
  BY DEF RehashEntry, IInv, TypeOK, TableType
<1>2. IsFiniteSet(Copied)
  <2>1. IsFiniteSet(OccupiedSlots(table))
    BY OccupiedFinite DEF IInv, GoodTable
  <2>. QED
    BY <2>1, FS_Subset DEF Copied
<1>3. CASE cursor \notin OccupiedSlots(table)
  <2>1. new' = new
    BY <1>1, <1>3 DEF RehashEntry, OccupiedSlots, Indices
  <2>2. Copied' = Copied
    BY <1>1, <1>3 DEF Copied, OccupiedSlots, Indices
  <2>3. Copying'
    BY <1>1, <2>1, <2>2 DEF Copying
  <2>4. TypeOK' /\ MaskIsModulo'
    BY <1>1, <2>1 DEF IInv, TypeOK, MaskIsModulo
  <2>. QED
    BY <1>1, <2>1, <2>3, <2>4 DEF IInv
<1>4. CASE cursor \in OccupiedSlots(table)
  <2>. DEFINE k == table.slots[cursor].key
              v == table.slots[cursor].value
  <2>1. k \in Key /\ v \in Value /\ table.slots[cursor] = OCCUPIED(k, v)
        /\ \A p \in Position(new, k) : ~Holds(new.slots[p], k)
    BY <1>1, <1>4, RehashPosition
  <2>2. PICK p \in Position(new, k) : new' = Stored(new, p, k, v)
    BY <1>1, <1>4 DEF RehashEntry, OccupiedSlots
  <2>. HIDE DEF k, v
  <2>3. /\ GoodTable(new')
        /\ OccupiedSlots(new') = OccupiedSlots(new) \cup {p}
        /\ new'.slots = [new.slots EXCEPT ![p] = OCCUPIED(k, v)]
        /\ p \in Indices(new.capacity) /\ p \notin OccupiedSlots(new)
    <3>1. GoodTable(new) /\ ~Holds(new.slots[p], k)
      BY <2>1, <2>2 DEF IInv
    <3>2. PICK u : u = Stored(new, p, k, v)
      OBVIOUS
    <3>3. /\ GoodTable(u) /\ OccupiedSlots(u) = OccupiedSlots(new) \cup {p}
          /\ u.slots = [new.slots EXCEPT ![p] = OCCUPIED(k, v)]
          /\ p \in Indices(new.capacity) /\ p \notin OccupiedSlots(new)
      BY <2>1, <2>2, <3>1, <3>2, StoredGood
    <3>. QED
      BY <2>2, <3>2, <3>3
  <2>4. new'.capacity = new.capacity /\ new'.occupied = new.occupied + 1
    BY <2>2 DEF Stored, Updated
  <2>5. Copied' = Copied \cup {cursor} /\ cursor \notin Copied
    BY <1>1, <1>4 DEF Copied, OccupiedSlots, Indices
  <2>6. Cardinality(Copied') = Cardinality(Copied) + 1
    BY <1>2, <2>5, FS_AddElement
  <2>7. new'.slots[p] = table.slots[cursor]
        /\ \A q \in OccupiedSlots(new) : new'.slots[q] = new.slots[q]
    BY <2>1, <2>3 DEF IInv, TypeOK, TableType, OccupiedSlots
  <2>8. Copying'
    <3>1. \A q \in Copied' : \E r \in OccupiedSlots(new') : new'.slots[r] = table.slots[q]
      BY <1>1, <2>3, <2>5, <2>7 DEF Copying
    <3>2. \A r \in OccupiedSlots(new') : \E q \in Copied' : new'.slots[r] = table.slots[q]
      BY <1>1, <2>3, <2>5, <2>7 DEF Copying
    <3>3. cursor' <= table.capacity /\ new'.occupied = Cardinality(Copied')
      BY <1>1, <2>4, <2>6 DEF Copying
    <3>. QED
      BY <1>1, <2>4, <3>1, <3>2, <3>3 DEF Copying
  <2>9. TypeOK'
    <3>1. TableType(new')
      BY <2>3 DEF GoodTable
    <3>. QED
      BY <1>1, <3>1 DEF IInv, TypeOK
  <2>10. MaskIsModulo'
    BY <1>1, <2>4 DEF IInv, MaskIsModulo
  <2>. QED
    BY <1>1, <2>3, <2>8, <2>9, <2>10 DEF IInv
<1>. QED
  BY <1>3, <1>4

\* When the copy is complete, the new table holds the entries of the old one.
LEMMA CopyComplete ==
  ASSUME IInv, Copying, cursor = table.capacity
  PROVE  Copied = OccupiedSlots(table) /\ new.occupied = table.occupied
<1>1. Copied = OccupiedSlots(table)
  BY DEF Copied, OccupiedSlots, Indices, IInv, TypeOK, TableType
<1>. QED
  BY <1>1 DEF Copying, IInv, GoodTable

\* Exchanging the arrays at the end of rehash keeps it: all was copied.
LEMMA SwapStep ==
  ASSUME IInv, FinishResize \/ SwapForInsert
  PROVE  IInv'
<1>1. Copying /\ cursor = table.capacity /\ table' = new /\ new' = NewTable(0) /\ cursor' = 0
  BY DEF IInv, FinishResize, SwapForInsert
<1>2. GoodTable(new') /\ new'.capacity = 0
  BY <1>1, NewTableGood DEF NewTable
<1>3. table'.occupied < table'.capacity
  BY <1>1, CopyComplete DEF Copying
<1>4. MaskIsModulo'
  BY <1>1, <1>2 DEF IInv, MaskIsModulo
<1>5. CASE FinishResize
  <2>1. op' = Idle /\ result' = Status("OK")
    BY <1>5 DEF FinishResize, Return
  <2>2. TypeOK'
    BY <1>1, <1>2, <2>1 DEF IInv, TypeOK, GoodTable
  <2>. QED
    BY <1>1, <1>2, <1>4, <2>1, <2>2 DEF IInv, Idle, Status
<1>6. CASE SwapForInsert
  <2>1. op'.what = "insert_entry" /\ op' \in [what : {"insert", "insert_entry"}, key : Key, value : Value]
        /\ result' = result
    BY <1>6 DEF SwapForInsert, IInv, TypeOK, Idle
  <2>2. TypeOK'
    BY <1>1, <1>2, <2>1 DEF IInv, TypeOK, GoodTable
  <2>. QED
    BY <1>1, <1>2, <1>3, <1>4, <2>1, <2>2 DEF IInv
<1>. QED
  BY <1>5, <1>6

\* An operation that leaves the table alone.
LEMMA QuietStep ==
  ASSUME IInv, op = Idle, UNCHANGED <<table, op, new, cursor>>, result'.status # "INTERNAL_ERROR"
  PROVE  IInv'
BY DEF IInv, TypeOK, MaskIsModulo, Idle

\* An operation that replaces an idle table by a good one of the same capacity.
LEMMA UpdateStep ==
  ASSUME IInv, op = Idle, UNCHANGED <<op, new, cursor>>, GoodTable(table'),
         table'.capacity = table.capacity, result'.status # "INTERNAL_ERROR"
  PROVE  IInv'
BY DEF IInv, TypeOK, MaskIsModulo, Idle, GoodTable

\* kefir_hashtable_delete keeps it: a mark is left, so probes go on.
LEMMA DeleteStep ==
  ASSUME IInv, NEW k \in Key, Delete(k)
  PROVE  IInv'
<1>1. op = Idle /\ UNCHANGED <<op, new, cursor>>
  BY DEF Delete
<1>2. CASE Locate(table, k) = {}
  BY <1>1, <1>2, QuietStep DEF Delete, Return, Status
<1>3. CASE Locate(table, k) # {}
  <2>1. PICK p \in Locate(table, k) : table' = Updated(table, p, DELETED, table.occupied - 1)
    BY <1>3 DEF Delete
  <2>2. p \in OccupiedSlots(table)
    BY LocateSound DEF IInv
  <2>3. GoodTable(table') /\ table'.capacity = table.capacity
    BY <2>1, <2>2, DeletedGood DEF IInv
  <2>4. result'.status # "INTERNAL_ERROR"
    BY <1>3 DEF Delete, Return, Status
  <2>. QED
    BY <1>1, <2>3, <2>4, UpdateStep
<1>. QED
  BY <1>2, <1>3

\* A value assigned through kefir_hashtable_at_mut keeps it.
LEMMA AtMutStep ==
  ASSUME IInv, NEW k \in Key, NEW v \in Value, AtMut(k, v)
  PROVE  IInv'
<1>1. op = Idle /\ UNCHANGED <<op, new, cursor>>
  BY DEF AtMut
<1>2. CASE Locate(table, k) = {}
  BY <1>1, <1>2, QuietStep DEF AtMut, Return, Status
<1>3. CASE Locate(table, k) # {}
  <2>1. PICK p \in Locate(table, k) : table' = Updated(table, p, OCCUPIED(k, v), table.occupied)
    BY <1>3 DEF AtMut
  <2>2. p \in OccupiedSlots(table) /\ table.slots[p].key = k
    BY LocateSound DEF IInv
  <2>3. GoodTable(table') /\ table'.capacity = table.capacity
    BY <2>1, <2>2, AssignedGood DEF IInv
  <2>4. result'.status # "INTERNAL_ERROR"
    BY <1>3 DEF AtMut, Return, Status
  <2>. QED
    BY <1>1, <2>3, <2>4, UpdateStep
<1>. QED
  BY <1>2, <1>3

\* kefir_hashtable_clear keeps it.
LEMMA ClearStep ==
  ASSUME IInv, Clear
  PROVE  IInv'
<1>1. table.capacity \in Nat
  BY DEF IInv, TypeOK, TableType
<1>2. GoodTable(table') /\ table'.capacity = table.capacity
  BY <1>1, NewTableGood DEF Clear, NewTable
<1>. QED
  BY <1>2, UpdateStep DEF Clear, Return, Status

\* The lookups at, at2 and has keep it.
LEMMA AtKeyStep ==
  ASSUME IInv, NEW k \in Key, AtKey(k)
  PROVE  IInv'
<1>1. result'.status # "INTERNAL_ERROR"
  BY DEF AtKey, Return, Status, Found
<1>. QED
  BY <1>1, QuietStep DEF AtKey

\* trim and ensure only choose capacities the entries fit in.
LEMMA ResizeStep ==
  ASSUME IInv, Trim \/ \E c \in EnsureCapacities : Ensure(c)
  PROVE  IInv'
<1>1. table.capacity \in Nat /\ table.occupied \in Nat /\ table.occupied <= table.capacity
  BY OccupiedBound DEF IInv, GoodTable, TableType
<1>2. op = Idle
  BY DEF Trim, Ensure
<1>3. CASE NoResize
  BY <1>2, <1>3, QuietStep DEF NoResize, Return, Status
<1>4. ASSUME NEW n \in Nat, PowerOf2(n), table.occupied < n, ResizeTo(n)
      PROVE  IInv'
  <2>1. BeginRehash(n, [what |-> "resize"])
    BY <1>4 DEF ResizeTo
  <2>. QED
    BY <1>2, <1>4, <2>1, BeginRehashStep
<1>5. ASSUME Trim, ~NoResize
      PROVE  \E n \in Nat : PowerOf2(n) /\ table.occupied < n /\ ResizeTo(n)
  <2>. DEFINE c == CapacityTrim(table.occupied)
  <2>1. c \in Nat /\ table.occupied <= c
    BY <1>1 DEF CapacityTrim
  <2>. HIDE DEF c
  <2>2. PICK n \in NextPowerOf2(c) : ResizeTo(n)
    BY <1>5 DEF Trim, c
  <2>3. n \in Nat /\ c < n /\ PowerOf2(n)
    BY <2>1 DEF NextPowerOf2
  <2>. QED
    BY <1>1, <2>1, <2>2, <2>3
<1>6. ASSUME NEW c \in EnsureCapacities, Ensure(c), ~NoResize
      PROVE  \E n \in Nat : PowerOf2(n) /\ table.occupied < n /\ ResizeTo(n)
  <2>1. c \in Nat
    BY EnsureAssumption
  <2>2. PICK n \in NextPowerOf2(c) : table.capacity < n /\ ResizeTo(n)
    BY <1>6 DEF Ensure
  <2>3. n \in Nat /\ PowerOf2(n)
    BY <2>1 DEF NextPowerOf2
  <2>. QED
    BY <1>1, <2>2, <2>3
<1>. QED
  BY <1>3, <1>4, <1>5, <1>6

\* Every step preserves the invariant.
LEMMA NextPreserves == IInv /\ [Next]_vars => IInv'
<1>. SUFFICES ASSUME IInv, [Next]_vars PROVE IInv'
  OBVIOUS
<1>1. CASE UNCHANGED vars
  BY <1>1 DEF IInv, TypeOK, MaskIsModulo, Copying, Copied, vars
<1>2. ASSUME NEW k \in Key, Delete(k) \/ AtKey(k) \/ \E v \in Value : Insert(k, v) \/ AtMut(k, v)
      PROVE  IInv'
  BY <1>2, DeleteStep, AtKeyStep, InsertStep, AtMutStep
<1>3. CASE Clear
  BY <1>3, ClearStep
<1>4. CASE Trim \/ \E n \in EnsureCapacities : Ensure(n)
  BY <1>4, ResizeStep
<1>5. CASE RehashEntry
  BY <1>5, RehashEntryStep
<1>6. CASE FinishResize \/ SwapForInsert
  BY <1>6, SwapStep
<1>7. CASE FinishInsert
  <2>1. op.key \in Key /\ op.value \in Value /\ table.occupied < table.capacity
    BY <1>7 DEF FinishInsert, IInv, TypeOK, Idle
  <2>. QED
    BY <1>7, <2>1, InsertEntryStep DEF FinishInsert
<1>. QED
  BY <1>1, <1>2, <1>3, <1>4, <1>5, <1>6, <1>7 DEF Next

\* Both tables are good, and a rehash in progress has copied what it has passed.
THEOREM Invariance == Spec => []IInv
BY InitHolds, NextPreserves, PTL DEF Spec

\* The arrays keep the length of the capacity, and the capacity stays a power of
\* two, which makes the mask a remainder.
THEOREM TypeCorrect == Spec => [](TypeOK /\ MaskIsModulo)
BY Invariance, PTL DEF IInv

\* Every entry is reached by the probe for its key.
THEOREM EntriesReachable == Spec => []Reachable
<1>1. IInv => Reachable
  BY DEF IInv, GoodTable, Reachable
<1>. QED
  BY <1>1, Invariance, PTL

\* No key is stored twice.
THEOREM KeysUnique == Spec => []Unique
<1>1. IInv => Unique
  BY DEF IInv, GoodTable, Unique
<1>. QED
  BY <1>1, Invariance, PTL

\* KEFIR_HASHTABLE_HAS finds a key exactly when a slot holds it.
THEOREM LookupCorrect == Spec => []LookupExact
<1>1. IInv => LookupExact
  BY LocateSound DEF IInv, LookupExact
<1>. QED
  BY <1>1, Invariance, PTL

\* occupied counts the occupied slots.
THEOREM CountCorrect == Spec => []OccupiedCounts
<1>1. IInv => OccupiedCounts
  BY DEF IInv, GoodTable, OccupiedCounts
<1>. QED
  BY <1>1, Invariance, PTL

\* An insertion or a rehash always finds a position: the error "Unable to find
\* position for element insertion" cannot occur.
THEOREM RoomAlways == Spec => []AlwaysRoom
<1>1. ASSUME IInv, op.what \in {"insert", "resize"}, NEW k \in Key
      PROVE  Position(new, k) # {}
  <2>1. Copying
    BY <1>1 DEF IInv
  <2>2. IsFiniteSet(OccupiedSlots(table)) /\ Copied \in SUBSET OccupiedSlots(table)
    BY <1>1, OccupiedFinite DEF IInv, GoodTable, Copied
  <2>3. Cardinality(Copied) <= Cardinality(OccupiedSlots(table))
    BY <2>2, FS_Subset
  <2>4. new.occupied < new.capacity
    BY <1>1, <2>1, <2>3 DEF Copying, IInv, GoodTable, TableType
  <2>. QED
    BY <1>1, <2>1, <2>4, RoomForKey DEF Copying, IInv
<1>2. IInv => AlwaysRoom
  BY <1>1 DEF AlwaysRoom, IInv
<1>. QED
  BY <1>2, Invariance, PTL

-----------------------------------------------------------------------------
(* The table implements the map *)

Keys(t) == {t.slots[p].key : p \in OccupiedSlots(t)}

\* The contents of a good table: the value of each of its entries.
LEMMA ContentsForm ==
  ASSUME NEW t, GoodTable(t)
  PROVE  /\ DOMAIN Contents(t) = Keys(t)
         /\ \A p \in OccupiedSlots(t) : Contents(t)[t.slots[p].key] = t.slots[p].value
<1>1. DOMAIN Contents(t) = Keys(t)
  BY DEF Contents, Keys
<1>2. ASSUME NEW p \in OccupiedSlots(t)
      PROVE  Contents(t)[t.slots[p].key] = t.slots[p].value
  <2>. DEFINE k == t.slots[p].key
              c == CHOOSE q \in OccupiedSlots(t) : t.slots[q].key = k
  <2>1. c \in OccupiedSlots(t) /\ t.slots[c].key = k
    OBVIOUS
  <2>2. c = p
    BY <2>1 DEF GoodTable, UniqueIn
  <2>. QED
    BY <2>2 DEF Contents
<1>. QED
  BY <1>1, <1>2

\* Whatever function gives each entry its value is the contents.
LEMMA ContentsUnique ==
  ASSUME NEW t, GoodTable(t), NEW f, f = [k \in Keys(t) |-> f[k]],
         \A p \in OccupiedSlots(t) : f[t.slots[p].key] = t.slots[p].value
  PROVE  Contents(t) = f
<1>. DEFINE g == Contents(t)
<1>1. g = [k \in Keys(t) |-> g[k]]
  BY DEF Contents, Keys
<1>2. \A p \in OccupiedSlots(t) : g[t.slots[p].key] = t.slots[p].value
  BY ContentsForm
<1>. HIDE DEF g
<1>3. ASSUME NEW k \in Keys(t)
      PROVE  g[k] = f[k]
  <2>1. PICK p \in OccupiedSlots(t) : k = t.slots[p].key
    BY DEF Keys
  <2>. QED
    BY <1>2, <2>1
<1>4. g = f
  BY <1>1, <1>3
<1>. QED
  BY <1>4 DEF g

\* insert_entry is an insertion into the map, or its refusal.
LEMMA InsertEntryRefines ==
  ASSUME IInv, NEW k \in Key, NEW v \in Value, table.occupied < table.capacity, InsertEntry(k, v)
  PROVE  M!Insert(k, v)
<1>0. GoodTable(table) /\ DOMAIN Contents(table) = Keys(table)
  BY ContentsForm DEF IInv
<1>1. CASE \E p \in Position(table, k) : ~Holds(table.slots[p], k)
  <2>1. PICK p \in Position(table, k) : table' = Stored(table, p, k, v)
    BY <1>1 DEF InsertEntry
  <2>2. ~Holds(table.slots[p], k)
    BY <1>1 DEF Position
  <2>3. /\ GoodTable(table')
        /\ OccupiedSlots(table') = OccupiedSlots(table) \cup {p}
        /\ \A q \in OccupiedSlots(table) : table.slots[q].key # k
        /\ table'.slots = [table.slots EXCEPT ![p] = OCCUPIED(k, v)]
        /\ p \in Indices(table.capacity) /\ p \notin OccupiedSlots(table)
    <3>1. GoodTable(table) /\ k \in Key /\ v \in Value /\ p \in Position(table, k) /\ ~Holds(table.slots[p], k)
      BY <1>0, <2>2
    <3>2. PICK t : t = table
      OBVIOUS
    <3>3. GoodTable(t) /\ p \in Position(t, k) /\ ~Holds(t.slots[p], k)
      BY <3>1, <3>2
    <3>4. /\ GoodTable(Stored(t, p, k, v)) /\ OccupiedSlots(Stored(t, p, k, v)) = OccupiedSlots(t) \cup {p}
          /\ \A q \in OccupiedSlots(t) : t.slots[q].key # k
          /\ Stored(t, p, k, v).slots = [t.slots EXCEPT ![p] = OCCUPIED(k, v)]
          /\ p \in Indices(t.capacity) /\ p \notin OccupiedSlots(t)
      BY ONLY <3>1, <3>3, StoredGood, SMTT(40)
    <3>. QED
      BY <2>1, <3>2, <3>4
  <2>4. /\ table'.slots[p].key = k /\ table'.slots[p].value = v
        /\ \A q \in OccupiedSlots(table) : table'.slots[q] = table.slots[q]
    <3>1. DOMAIN table.slots = Indices(table.capacity)
      BY <1>0 DEF GoodTable, TableType
    <3>2. table'.slots[p] = OCCUPIED(k, v)
      BY <2>3, <3>1
    <3>3. \A q \in OccupiedSlots(table) : table'.slots[q] = table.slots[q]
      BY <2>3, <3>1 DEF OccupiedSlots
    <3>4. OCCUPIED(k, v).key = k /\ OCCUPIED(k, v).value = v
      BY OccupiedForm
    <3>. QED
      BY ONLY <3>2, <3>3, <3>4
  <2>5. k \notin Keys(table) /\ Keys(table') = Keys(table) \cup {k}
    BY <2>3, <2>4 DEF Keys
  <2>. DEFINE f == [x \in Keys(table) \cup {k} |-> IF x = k THEN v ELSE Contents(table)[x]]
  <2>6. f = [x \in Keys(table') |-> f[x]]
    BY <2>5
  <2>7. \A q \in OccupiedSlots(table') : f[table'.slots[q].key] = table'.slots[q].value
    <3>1. f[k] = v /\ \A x \in Keys(table) : x # k => f[x] = Contents(table)[x]
      OBVIOUS
    <3>. HIDE DEF f
    <3>2. SUFFICES ASSUME NEW q \in OccupiedSlots(table)
                   PROVE  f[table'.slots[q].key] = table'.slots[q].value
      BY <2>3, <2>4, <3>1
    <3>3. table.slots[q].key \in Keys(table) /\ table.slots[q].key # k
          /\ Contents(table)[table.slots[q].key] = table.slots[q].value
      BY <1>0, <2>3, ContentsForm DEF Keys
    <3>. QED
      BY <2>4, <3>1, <3>3
  <2>8. Contents(table') = f
    <3>. HIDE DEF f
    <3>1. GoodTable(table')
      BY <2>3
    <3>. QED
      BY <2>6, <2>7, <3>1, ContentsUnique
  <2>9. Return(Status("OK"), {})
    BY <1>1 DEF InsertEntry
  <2>. QED
    BY <1>0, <2>5, <2>8, <2>9 DEF M!Insert, M!MapWith, M!Status, Return, Status
<1>2. CASE ~\E p \in Position(table, k) : ~Holds(table.slots[p], k)
  <2>1. PICK p \in Position(table, k) : Holds(table.slots[p], k)
    BY <1>2, RoomForKey DEF IInv, MaskIsModulo, GoodTable, TableType
  <2>2. k \in Keys(table)
    BY <1>0, <2>1, PositionSound DEF Keys, OccupiedSlots, Holds
  <2>3. table' = table /\ Return(Status("ALREADY_EXISTS"), {})
    BY <1>2, <2>1 DEF InsertEntry
  <2>. QED
    BY <1>0, <2>2, <2>3 DEF M!Insert, M!Status, Return, Status
<1>. QED
  BY <1>1, <1>2

\* kefir_hashtable_delete is a deletion from the map, or its refusal.
LEMMA DeleteRefines ==
  ASSUME IInv, NEW k \in Key, Delete(k)
  PROVE  M!Delete(k)
<1>0. GoodTable(table) /\ DOMAIN Contents(table) = Keys(table)
      /\ Locate(table, k) = {q \in OccupiedSlots(table) : table.slots[q].key = k}
  BY ContentsForm, LocateSound DEF IInv
<1>1. CASE Locate(table, k) = {}
  <2>1. k \notin Keys(table)
    BY <1>0, <1>1 DEF Keys
  <2>2. table' = table /\ Return(Status("NOT_FOUND"), {})
    BY <1>1 DEF Delete
  <2>. QED
    BY <1>0, <2>1, <2>2 DEF M!Delete, M!Status, Return, Status
<1>2. CASE Locate(table, k) # {}
  <2>1. PICK p \in Locate(table, k) :
          /\ table' = Updated(table, p, DELETED, table.occupied - 1)
          /\ Return(Status("OK"), {<<k, table.slots[p].value>>})
    BY <1>2 DEF Delete
  <2>2. p \in OccupiedSlots(table) /\ table.slots[p].key = k
    BY <1>0
  <2>3. /\ GoodTable(table')
        /\ OccupiedSlots(table') = OccupiedSlots(table) \ {p}
        /\ \A q \in OccupiedSlots(table') : table'.slots[q] = table.slots[q]
    BY <1>0, <2>1, <2>2, DeletedGood
  <2>4. \A q \in OccupiedSlots(table) : q # p => table.slots[q].key # k
    BY <1>0, <2>2 DEF GoodTable, UniqueIn
  <2>5. Keys(table') = Keys(table) \ {k} /\ k \in Keys(table)
    BY <2>2, <2>3, <2>4 DEF Keys
  <2>. DEFINE f == [x \in Keys(table) \ {k} |-> Contents(table)[x]]
  <2>6. f = [x \in Keys(table') |-> f[x]]
    BY <2>5
  <2>7. \A q \in OccupiedSlots(table') : f[table'.slots[q].key] = table'.slots[q].value
    <3>1. \A x \in Keys(table') : f[x] = Contents(table)[x]
      BY <2>5
    <3>. HIDE DEF f
    <3>2. SUFFICES ASSUME NEW q \in OccupiedSlots(table')
                   PROVE  f[table'.slots[q].key] = table'.slots[q].value
      OBVIOUS
    <3>3. table'.slots[q].key \in Keys(table') /\ q \in OccupiedSlots(table)
          /\ table'.slots[q] = table.slots[q]
      BY <2>3 DEF Keys
    <3>4. Contents(table)[table.slots[q].key] = table.slots[q].value
      BY <1>0, <3>3, ContentsForm
    <3>. QED
      BY <3>1, <3>3, <3>4
  <2>8. Contents(table') = f
    <3>. HIDE DEF f
    <3>. QED
      BY <2>3, <2>6, <2>7, ContentsUnique
  <2>9. Contents(table)[k] = table.slots[p].value
    BY <1>0, <2>2, ContentsForm
  <2>. QED
    BY <1>0, <2>1, <2>5, <2>8, <2>9 DEF M!Delete, M!MapWithout, M!Restrict, M!Status, Return, Status
<1>. QED
  BY <1>1, <1>2

\* kefir_hashtable_at_mut is an assignment to a key of the map.
LEMMA AtMutRefines ==
  ASSUME IInv, NEW k \in Key, NEW v \in Value, AtMut(k, v)
  PROVE  M!Assign(k, v)
<1>0. GoodTable(table) /\ DOMAIN Contents(table) = Keys(table)
      /\ Locate(table, k) = {q \in OccupiedSlots(table) : table.slots[q].key = k}
  BY ContentsForm, LocateSound DEF IInv
<1>1. CASE Locate(table, k) = {}
  <2>1. k \notin Keys(table)
    BY <1>0, <1>1 DEF Keys
  <2>2. table' = table /\ Return(Status("NOT_FOUND"), {})
    BY <1>1 DEF AtMut
  <2>. QED
    BY <1>0, <2>1, <2>2 DEF M!Assign, M!Status, Return, Status
<1>2. CASE Locate(table, k) # {}
  <2>1. PICK p \in Locate(table, k) :
          /\ table' = Updated(table, p, OCCUPIED(k, v), table.occupied)
          /\ Return(Status("OK"), {})
    BY <1>2 DEF AtMut
  <2>2. p \in OccupiedSlots(table) /\ table.slots[p].key = k
    BY <1>0
  <2>3. /\ GoodTable(table')
        /\ OccupiedSlots(table') = OccupiedSlots(table)
        /\ table'.slots[p] = OCCUPIED(k, v)
        /\ \A q \in OccupiedSlots(table) : q # p => table'.slots[q] = table.slots[q]
    <3>1. PICK u : u = Updated(table, p, OCCUPIED(table.slots[p].key, v), table.occupied)
      OBVIOUS
    <3>2. /\ GoodTable(u)
          /\ OccupiedSlots(u) = OccupiedSlots(table)
          /\ u.slots[p] = OCCUPIED(table.slots[p].key, v)
          /\ \A q \in OccupiedSlots(table) : q # p => u.slots[q] = table.slots[q]
      BY <1>0, <2>2, <3>1, AssignedGood
    <3>3. table' = u
      BY <2>1, <2>2, <3>1
    <3>. QED
      BY <2>2, <3>2, <3>3
  <2>4. \A q \in OccupiedSlots(table) : q # p => table.slots[q].key # k
    BY <1>0, <2>2 DEF GoodTable, UniqueIn
  <2>5. table'.slots[p].key = k /\ table'.slots[p].value = v
    BY <2>3, OccupiedForm
  <2>6. Keys(table') = Keys(table) \cup {k} /\ k \in Keys(table)
    BY <2>2, <2>3, <2>5 DEF Keys
  <2>. DEFINE f == [x \in Keys(table) \cup {k} |-> IF x = k THEN v ELSE Contents(table)[x]]
  <2>7. f = [x \in Keys(table') |-> f[x]]
    BY <2>6
  <2>8. \A q \in OccupiedSlots(table') : f[table'.slots[q].key] = table'.slots[q].value
    <3>1. f[k] = v /\ \A x \in Keys(table) : x # k => f[x] = Contents(table)[x]
      OBVIOUS
    <3>. HIDE DEF f
    <3>2. SUFFICES ASSUME NEW q \in OccupiedSlots(table), q # p
                   PROVE  f[table'.slots[q].key] = table'.slots[q].value
      BY <2>3, <2>5, <3>1
    <3>3. table.slots[q].key \in Keys(table) /\ table.slots[q].key # k
          /\ Contents(table)[table.slots[q].key] = table.slots[q].value
      BY <1>0, <2>4, <3>2, ContentsForm DEF Keys
    <3>. QED
      BY <2>3, <3>1, <3>2, <3>3
  <2>9. Contents(table') = f
    <3>. HIDE DEF f
    <3>. QED
      BY <2>3, <2>7, <2>8, ContentsUnique
  <2>. QED
    BY <1>0, <2>1, <2>6, <2>9 DEF M!Assign, M!MapWith, M!Status, Return, Status
<1>. QED
  BY <1>1, <1>2

\* The lookups at, at2 and has answer what the map holds.
LEMMA AtKeyRefines ==
  ASSUME IInv, NEW k \in Key, AtKey(k)
  PROVE  M!Lookup(k)
<1>0. GoodTable(table) /\ DOMAIN Contents(table) = Keys(table)
      /\ Locate(table, k) = {q \in OccupiedSlots(table) : table.slots[q].key = k}
  BY ContentsForm, LocateSound DEF IInv
<1>1. CASE Locate(table, k) = {}
  <2>1. k \notin Keys(table)
    BY <1>0, <1>1 DEF Keys
  <2>. QED
    BY <1>0, <1>1, <2>1 DEF AtKey, Return, M!Lookup, M!Status, Status
<1>2. CASE Locate(table, k) # {}
  <2>. DEFINE p == CHOOSE q \in Locate(table, k) : TRUE
  <2>1. p \in Locate(table, k)
    BY <1>2
  <2>2. k \in Keys(table) /\ Contents(table)[k] = table.slots[p].value
    BY <1>0, <2>1, ContentsForm DEF Keys
  <2>. QED
    BY <1>0, <1>2, <2>2 DEF AtKey, Return, M!Lookup, M!Found, Found
<1>. QED
  BY <1>1, <1>2

\* kefir_hashtable_clear empties the map.
LEMMA ClearRefines ==
  ASSUME IInv, Clear
  PROVE  M!Clear
<1>1. GoodTable(table) /\ DOMAIN Contents(table) = Keys(table) /\ table.capacity \in Nat
  BY ContentsForm DEF IInv, GoodTable, TableType
<1>2. OccupiedSlots(table') = {}
  BY <1>1, NewTableGood DEF Clear
<1>3. Contents(table') = M!EmptyMap
  BY <1>2 DEF Contents, M!EmptyMap
<1>4. Removed = M!Entries(Contents(table))
  <2>. DEFINE f == Contents(table)
  <2>1. \A p \in OccupiedSlots(table) : f[table.slots[p].key] = table.slots[p].value
    BY <1>1, ContentsForm
  <2>2. M!Entries(f) = {<<k, f[k]>> : k \in Keys(table)}
    BY <1>1 DEF M!Entries
  <2>. HIDE DEF f
  <2>3. {<<k, f[k]>> : k \in Keys(table)}
          = {<<table.slots[p].key, table.slots[p].value>> : p \in OccupiedSlots(table)}
    BY <2>1 DEF Keys
  <2>. QED
    BY <2>2, <2>3 DEF Removed, f
<1>. QED
  BY <1>3, <1>4 DEF Clear, Return, M!Clear, M!Status, Status

\* The end of a copy is invisible.
LEMMA SwapRefines ==
  ASSUME IInv, Copying, cursor = table.capacity
  PROVE  Contents(new) = Contents(table)
<1>1. GoodTable(table) /\ GoodTable(new) /\ DOMAIN Contents(table) = Keys(table)
  BY ContentsForm DEF IInv
<1>2. Copied = OccupiedSlots(table)
  BY CopyComplete
<1>3. Keys(new) = Keys(table)
  BY <1>2 DEF Copying, Keys
<1>4. \A p \in OccupiedSlots(new) : Contents(table)[new.slots[p].key] = new.slots[p].value
  <2>1. SUFFICES ASSUME NEW p \in OccupiedSlots(new)
                 PROVE  Contents(table)[new.slots[p].key] = new.slots[p].value
    OBVIOUS
  <2>2. PICK q \in OccupiedSlots(table) : new.slots[p] = table.slots[q]
    BY <1>2 DEF Copying
  <2>3. Contents(table)[table.slots[q].key] = table.slots[q].value
    BY <1>1, ContentsForm
  <2>. QED
    BY <2>2, <2>3
<1>5. Contents(table) = [k \in Keys(new) |-> Contents(table)[k]]
  <2>1. Contents(table) = [k \in Keys(table) |-> Contents(table)[k]]
    BY DEF Contents, Keys
  <2>. QED
    BY <1>3, <2>1, Zenon
<1>. QED
  BY <1>1, <1>4, <1>5, ContentsUnique

\* Beginning a rehash changes nothing, or reports that there is no memory for it.
LEMMA BeginRehashRefines ==
  ASSUME NEW n, NEW o, BeginRehash(n, o)
  PROVE  M!Resize \/ UNCHANGED M!mapVars
BY DEF BeginRehash, Return, Status, M!Resize, M!Status, M!mapVars

\* Every step of the table is a step of the map or invisible.
LEMMA StepRefines == IInv /\ [Next]_vars => [M!MapNext]_(M!mapVars)
<1>. SUFFICES ASSUME IInv, [Next]_vars PROVE M!MapNext \/ UNCHANGED M!mapVars
  OBVIOUS
<1>1. CASE UNCHANGED vars
  BY <1>1 DEF vars, M!mapVars
<1>2. ASSUME NEW k \in Key, Delete(k) \/ AtKey(k) \/ \E v \in Value : AtMut(k, v)
      PROVE  M!MapNext
  BY <1>2, DeleteRefines, AtKeyRefines, AtMutRefines DEF M!MapNext
<1>3. ASSUME NEW k \in Key, NEW v \in Value, Insert(k, v)
      PROVE  M!MapNext \/ UNCHANGED M!mapVars
  <2>1. CASE TooFull \/ TooManyCollisions(k)
    BY <1>3, <2>1, BeginRehashRefines DEF Insert, M!MapNext
  <2>2. CASE ~(TooFull \/ TooManyCollisions(k))
    <3>1. InsertEntry(k, v)
      BY <1>3, <2>2 DEF Insert
    <3>2. table.occupied < table.capacity
      BY <2>2, RoomUnlessTooFull
    <3>. QED
      BY <3>1, <3>2, InsertEntryRefines DEF M!MapNext
  <2>. QED
    BY <2>1, <2>2
<1>4. CASE Clear
  BY <1>4, ClearRefines DEF M!MapNext
<1>5. CASE Trim \/ \E c \in EnsureCapacities : Ensure(c)
  <2>1. NoResize \/ \E n \in Nat : ResizeTo(n)
    <3>1. CASE Trim
      <4>1. CapacityTrim(table.occupied) \in Nat
        BY DEF CapacityTrim, IInv, TypeOK, TableType
      <4>. QED
        BY <3>1, <4>1 DEF Trim, NextPowerOf2
    <3>2. CASE \E c \in EnsureCapacities : Ensure(c)
      BY <3>2, EnsureAssumption DEF Ensure, NextPowerOf2
    <3>. QED
      BY <1>5, <3>1, <3>2
  <2>. QED
    BY <2>1, BeginRehashRefines DEF NoResize, ResizeTo, Return, Status, M!MapNext, M!Resize, M!Status
<1>6. CASE RehashEntry
  BY <1>6 DEF RehashEntry, M!mapVars
<1>7. CASE FinishResize
  <2>1. Copying /\ cursor = table.capacity /\ table' = new
    BY <1>7 DEF FinishResize, IInv
  <2>2. Contents(table') = Contents(table)
    BY <2>1, SwapRefines
  <2>. QED
    BY <1>7, <2>2 DEF FinishResize, Return, Status, M!MapNext, M!Resize, M!Status
<1>8. CASE SwapForInsert
  <2>1. Copying /\ cursor = table.capacity /\ table' = new
    BY <1>8 DEF SwapForInsert, IInv
  <2>2. Contents(table') = Contents(table)
    BY <2>1, SwapRefines
  <2>. QED
    BY <1>8, <2>2 DEF SwapForInsert, M!mapVars
<1>9. CASE FinishInsert
  <2>1. op.key \in Key /\ op.value \in Value /\ table.occupied < table.capacity
    BY <1>9 DEF FinishInsert, IInv, TypeOK, Idle
  <2>. QED
    BY <1>9, <2>1, InsertEntryRefines DEF FinishInsert, M!MapNext
<1>. QED
  BY <1>1, <1>2, <1>3, <1>4, <1>5, <1>6, <1>7, <1>8, <1>9 DEF Next

\* The hash table implements the abstract map: through collisions, deletion marks,
\* rehashes and failed allocations each operation of hashtable.c has the effect
\* and the result a finite function would give.
THEOREM ImplementsMap == Spec => IsMap
<1>1. Init => M!MapInit
  <2>1. ASSUME Init
        PROVE  Contents(table) = M!EmptyMap
    <3>1. OccupiedSlots(table) = {}
      BY <2>1, NewTableGood DEF Init
    <3>. QED
      BY <3>1 DEF Contents, M!EmptyMap
  <2>. QED
    BY <2>1 DEF Init, M!MapInit, M!Status, Status
<1>. QED
  BY <1>1, Invariance, StepRefines, PTL DEF Spec, IsMap, M!MapSpec

=============================================================================
