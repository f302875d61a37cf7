----------------------------- MODULE HashTable -----------------------------
(* The open-addressing hash table (source/core/hashtable.c): double hashing   *)
(* over a power of two of slots, deletion marks, growth when the table is too *)
(* full or an insertion collides too often, and trimming.                     *)
(*                                                                            *)
(* A slot stands for one element of entry_states together with the element of *)
(* entries it makes valid.  A rehash is taken entry by entry, so that the new *)
(* table and the old one are both part of the state.                          *)
EXTENDS Integers, FiniteSets, FiniteSetsExt, Functions, PowersOfTwo, TLC

CONSTANTS
  Key, Value,
  Upper, Lower,         \* the two halves of the hash of each key
  OccupationPct,        \* KEFIR_REHASH_OCCUPATION_THRESHOLD_PCT (80)
  CollisionThreshold,   \* KEFIR_REHASH_COLLISION_THRESHOLD (32)
  TrimPct,              \* KEFIR_REHASH_TRIM_THRESHOLD_PCT (15)
  EnsureCapacities,     \* the arguments of kefir_hashtable_ensure
  MaxCapacity           \* bound: no operation that may grow beyond it is begun

ASSUME HashAssumption == Upper \in [Key -> Nat] /\ Lower \in [Key -> Nat]
ASSUME ThresholdAssumption ==
  OccupationPct \in 0 .. 100 /\ CollisionThreshold \in Nat /\ TrimPct \in Nat
ASSUME EnsureAssumption == EnsureCapacities \subseteq Nat

VARIABLES
  table,     \* struct kefir_hashtable
  op,        \* the operation that waits for a rehash
  new,       \* the table a rehash is filling
  cursor,    \* the slot of the old table it has reached
  removed,   \* the entries the removal callback has seen in the last operation
  result     \* what the last operation returned

vars == <<table, op, new, cursor, removed, result>>

EMPTY == [state |-> "EMPTY"]
DELETED == [state |-> "DELETED"]
OCCUPIED(k, v) == [state |-> "OCCUPIED", key |-> k, value |-> v]
Slot == {EMPTY, DELETED} \cup {OCCUPIED(k, v) : k \in Key, v \in Value}

Indices(n) == 0 .. n - 1
NewTable(n) == [capacity |-> n, slots |-> [i \in Indices(n) |-> EMPTY], occupied |-> 0]

CapacityGrow(n) == IF n = 0 THEN 4 ELSE n * 2

CapacityTrim(n) == IF n * 4 > 4 THEN n * 4 ELSE 4

\* The smallest power of two above x (of a power of two, the next one).
NextPowerOf2(x) == {p \in x + 1 .. 2 * x + 1 : PowerOf2(p)}

Status(s) == [status |-> s]
Found(v) == [status |-> "OK", value |-> v]

-----------------------------------------------------------------------------
(* Probing *)

\* Mutant: the lowest bit of the step is not set.
StepEven(k) == Lower[k]

\* The step is the lower half with its lowest bit set, so that it is coprime
\* with the capacity.
Step(k) == IF Lower[k] % 2 = 0 THEN Lower[k] + 1 ELSE Lower[k]

\* See MaskIsModulo for the mask of KEFIR_HASHTABLE_WRAPAROUND.
Probe(t, k, i) == (Upper[k] + i * Step(k)) % t.capacity
At(t, k, i) == t.slots[Probe(t, k, i)]

Holds(s, k) == s.state = "OCCUPIED" /\ s.key = k

\* Where the probe for a key ends.
Stops(t, k) == {i \in Indices(t.capacity) : At(t, k, i) = EMPTY \/ Holds(At(t, k, i), k)}
Stop(t, k) == LET S == Stops(t, k) IN IF S = {} THEN t.capacity ELSE Min(S)
DeletedBefore(t, k) ==
  LET stop == Stop(t, k) IN {i \in Indices(t.capacity) : i < stop /\ At(t, k, i) = DELETED}

\* The slots insert_entry may use: the one that holds the key, else the first
\* deletion mark on the way, else the empty slot the probe ends at.
Position(t, k) ==
  LET s == Stop(t, k)
      chosen == IF s < t.capacity /\ At(t, k, s) # EMPTY THEN {s}
                ELSE IF DeletedBefore(t, k) # {} THEN {Min(DeletedBefore(t, k))}
                ELSE {s} \cap Indices(t.capacity)
  IN  {Probe(t, k, i) : i \in chosen}

\* found_collisions: the first slot is looked at once more by the loop.
Collisions(t, k) ==
  LET s == Stop(t, k) IN IF s = 0 THEN 0 ELSE IF s < t.capacity THEN s + 1 ELSE s

\* KEFIR_HASHTABLE_HAS: the slots of the key an unbroken probe reaches.
Locate(t, k) ==
  {Probe(t, k, i) : i \in {j \in Indices(t.capacity) :
     /\ t.occupied > 0
     /\ Holds(At(t, k, j), k)
     /\ \A h \in Indices(j) : At(t, k, h) # EMPTY}}

Updated(t, p, s, n) ==
  [capacity |-> t.capacity, slots |-> [t.slots EXCEPT ![p] = s], occupied |-> n]
Stored(t, p, k, v) == Updated(t, p, OCCUPIED(k, v), t.occupied + 1)

-----------------------------------------------------------------------------
(* Operations *)

Idle == [what |-> "none"]

Init ==
  /\ table = NewTable(0)
  /\ op = Idle
  /\ new = NewTable(0)
  /\ cursor = 0
  /\ removed = {}
  /\ result = Status("OK")

Return(r, gone) == result' = r /\ removed' = gone

\* The end of kefir_hashtable_insert: insert_entry in a table that is not, or
\* no longer, to be rehashed.
InsertEntry(k, v) ==
  /\ IF \E p \in Position(table, k) : ~Holds(table.slots[p], k)
     THEN /\ \E p \in Position(table, k) : table' = Stored(table, p, k, v)
          /\ Return(Status("OK"), {})
     ELSE /\ UNCHANGED table
          /\ Return(Status(IF Position(table, k) = {} THEN "INTERNAL_ERROR" ELSE "ALREADY_EXISTS"), {})
  /\ op' = Idle
  /\ UNCHANGED <<new, cursor>>

TooFull == table.capacity = 0 \/ table.occupied >= (OccupationPct * table.capacity) \div 100
TooManyCollisions(k) ==
  /\ \E p \in Position(table, k) : table.slots[p].state # "OCCUPIED"
  /\ Collisions(table, k) >= CollisionThreshold

\* rehash: the two allocations, which may fail, then the copy.
BeginRehash(n, o) ==
  \/ /\ op' = o
     /\ new' = NewTable(n)
     /\ cursor' = 0
     /\ UNCHANGED <<table, removed, result>>
  \/ /\ Return(Status("MEMALLOC_FAILURE"), {})
     /\ op' = Idle
     /\ UNCHANGED <<table, new, cursor>>

Insert(k, v) ==
  /\ op = Idle
  /\ TooFull \/ TooManyCollisions(k) => CapacityGrow(table.capacity) <= MaxCapacity
  /\ IF TooFull \/ TooManyCollisions(k)
     THEN BeginRehash(CapacityGrow(table.capacity), [what |-> "insert", key |-> k, value |-> v])
     ELSE InsertEntry(k, v)

\* One turn of the loop of rehash; insert_entry does not rehash in turn.
RehashEntry ==
  LET s == table.slots[cursor]
  IN  /\ op.what \in {"insert", "resize"}
      /\ cursor < table.capacity
      /\ \/ s.state = "OCCUPIED" /\ \E p \in Position(new, s.key) : new' = Stored(new, p, s.key, s.value)
         \/ s.state # "OCCUPIED" /\ UNCHANGED new
      /\ cursor' = cursor + 1
      /\ UNCHANGED <<table, op, removed, result>>

\* The new arrays replace the old ones; trim and ensure return.
FinishResize ==
  /\ op.what = "resize"
  /\ cursor = table.capacity
  /\ table' = new
  /\ op' = Idle
  /\ new' = NewTable(0)
  /\ cursor' = 0
  /\ Return(Status("OK"), {})

\* An insertion first replaces the arrays, then inserts its own entry.
SwapForInsert ==
  /\ op.what = "insert"
  /\ cursor = table.capacity
  /\ table' = new
  /\ op' = [op EXCEPT !.what = "insert_entry"]
  /\ new' = NewTable(0)
  /\ cursor' = 0
  /\ UNCHANGED <<removed, result>>

FinishInsert ==
  /\ op.what = "insert_entry"
  /\ InsertEntry(op.key, op.value)

\* Mutant: a deleted slot becomes empty.
DeleteEmpty(k) ==
  /\ op = Idle
  /\ IF Locate(table, k) = {}
     THEN UNCHANGED table /\ Return(Status("NOT_FOUND"), {})
     ELSE \E p \in Locate(table, k) :
            /\ table' = Updated(table, p, EMPTY, table.occupied - 1)
            /\ Return(Status("OK"), {<<k, table.slots[p].value>>})
  /\ UNCHANGED <<op, new, cursor>>

Delete(k) ==
  /\ op = Idle
  /\ IF Locate(table, k) = {}
     THEN UNCHANGED table /\ Return(Status("NOT_FOUND"), {})
     ELSE \E p \in Locate(table, k) :
            /\ table' = Updated(table, p, DELETED, table.occupied - 1)
            /\ Return(Status("OK"), {<<k, table.slots[p].value>>})
  /\ UNCHANGED <<op, new, cursor>>

\* kefir_hashtable_at, _at2 and _has.
AtKey(k) ==
  /\ op = Idle
  /\ Return(IF Locate(table, k) = {} THEN Status("NOT_FOUND")
            ELSE Found(table.slots[CHOOSE p \in Locate(table, k) : TRUE].value), {})
  /\ UNCHANGED <<table, op, new, cursor>>

\* kefir_hashtable_at_mut, and the assignment through the pointer it returns.
AtMut(k, v) ==
  /\ op = Idle
  /\ IF Locate(table, k) = {}
     THEN UNCHANGED table /\ Return(Status("NOT_FOUND"), {})
     ELSE \E p \in Locate(table, k) :
            /\ table' = Updated(table, p, OCCUPIED(k, v), table.occupied)
            /\ Return(Status("OK"), {})
  /\ UNCHANGED <<op, new, cursor>>

OccupiedSlots(t) == {i \in Indices(t.capacity) : t.slots[i].state = "OCCUPIED"}

Removed == {<<table.slots[i].key, table.slots[i].value>> : i \in OccupiedSlots(table)}
Clear ==
  /\ op = Idle
  /\ table' = NewTable(table.capacity)
  /\ Return(Status("OK"), Removed)
  /\ UNCHANGED <<op, new, cursor>>

ResizeTo(n) == BeginRehash(n, [what |-> "resize"])
NoResize == Return(Status("OK"), {}) /\ UNCHANGED <<table, op, new, cursor>>

Trim ==
  /\ op = Idle
  /\ \E n \in NextPowerOf2(CapacityTrim(table.occupied)) :
       IF (table.capacity * TrimPct) \div 100 > table.occupied /\ n < table.capacity
       THEN ResizeTo(n)
       ELSE NoResize

Ensure(c) ==
  /\ op = Idle
  /\ \E n \in NextPowerOf2(c) :
       /\ n <= MaxCapacity
       /\ IF table.capacity < n THEN ResizeTo(n) ELSE NoResize

Next ==
  \/ \E k \in Key : Delete(k) \/ AtKey(k) \/ \E v \in Value : Insert(k, v) \/ AtMut(k, v)
  \/ Clear \/ Trim \/ \E n \in EnsureCapacities : Ensure(n)
  \/ RehashEntry \/ FinishResize \/ SwapForInsert \/ FinishInsert

Spec == Init /\ [][Next]_vars

-----------------------------------------------------------------------------
(* Properties *)

TableType(t) ==
  /\ t.capacity \in Nat
  /\ t.slots \in [Indices(t.capacity) -> Slot]
  /\ t.occupied \in Nat
  /\ t = [capacity |-> t.capacity, slots |-> t.slots, occupied |-> t.occupied]

\* The arrays have the length of the capacity and the states of their entries.
TypeOK ==
  /\ TableType(table)
  /\ TableType(new)
  /\ cursor \in Nat
  /\ op = Idle \/ op = [what |-> "resize"]
       \/ op \in [what : {"insert", "insert_entry"}, key : Key, value : Value]

\* KEFIR_HASHTABLE_WRAPAROUND masks with capacity - 1, which is the remainder
\* only while the capacity is a power of two: whatever sequence of growth,
\* trimming and reservation led to it.
MaskIsModulo == \A n \in {table.capacity, new.capacity} : n = 0 \/ PowerOf2(n)

\* Every entry is found by the probe for its key: no empty slot comes before it,
\* through deletions, reuse of deletion marks and rehashes.
ReachableIn(t) ==
  \A p \in OccupiedSlots(t) :
    \E i \in Indices(t.capacity) :
      /\ Probe(t, t.slots[p].key, i) = p
      /\ \A h \in Indices(i) : At(t, t.slots[p].key, h) # EMPTY
Reachable == ReachableIn(table) /\ ReachableIn(new)

\* No key occupies two slots, although a deletion mark before its slot could
\* take a second copy.
UniqueIn(t) ==
  \A p, q \in OccupiedSlots(t) : t.slots[p].key = t.slots[q].key => p = q
Unique == UniqueIn(table) /\ UniqueIn(new)

\* The search of KEFIR_HASHTABLE_HAS finds a key exactly when a slot holds it.
LookupExact ==
  \A k \in Key : Locate(table, k) = {p \in OccupiedSlots(table) : table.slots[p].key = k}

\* There is always room: an insertion never reports "Unable to find position for
\* element insertion", not even in a table full of deletion marks, and a rehash
\* never loses an entry for want of a slot.
AlwaysRoom ==
  /\ result.status # "INTERNAL_ERROR"
  /\ op.what \in {"insert", "resize"} /\ cursor < table.capacity =>
       \A k \in Key : Position(new, k) # {}

\* occupied counts the occupied slots; the growth decision depends on it.
OccupiedCounts ==
  /\ table.occupied = Cardinality(OccupiedSlots(table))
  /\ new.occupied = Cardinality(OccupiedSlots(new))

\* The table is a map: each operation has the effect and the result the abstract
\* specification allows, and a rehash is invisible.
Contents(t) ==
  [k \in {t.slots[p].key : p \in OccupiedSlots(t)} |->
     t.slots[CHOOSE p \in OccupiedSlots(t) : t.slots[p].key = k].value]
M == INSTANCE Map WITH map <- Contents(table)
IsMap == M!MapSpec
=============================================================================
