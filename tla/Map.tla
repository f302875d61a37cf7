-------------------------------- MODULE Map --------------------------------
(* What the hash containers promise their callers: a partial function from   *)
(* keys to values.  An insertion never overwrites; every operation reports   *)
(* what it did; the removal callback sees each entry that leaves, once; an   *)
(* operation that runs out of memory changes nothing.                        *)
EXTENDS Functions

CONSTANTS Key, Value

VARIABLES
  map,       \* the entries
  removed,   \* the entries handed to the removal callback by the last operation
  result     \* what the last operation returned

mapVars == <<map, removed, result>>

Status(s) == [status |-> s]
Found(v) == [status |-> "OK", value |-> v]
Entries(f) == {<<k, f[k]>> : k \in DOMAIN f}
MapWith(f, k, v) == [x \in DOMAIN f \cup {k} |-> IF x = k THEN v ELSE f[x]]
MapWithout(f, k) == Restrict(f, DOMAIN f \ {k})
EmptyMap == [k \in {} |-> k]

MapInit == map = EmptyMap /\ removed = {} /\ result = Status("OK")

Insert(k, v) ==
  /\ removed' = {}
  /\ IF k \in DOMAIN map
     THEN map' = map /\ result' = Status("ALREADY_EXISTS")
     ELSE map' = MapWith(map, k, v) /\ result' = Status("OK")

Assign(k, v) ==
  /\ removed' = {}
  /\ IF k \in DOMAIN map
     THEN map' = MapWith(map, k, v) /\ result' = Status("OK")
     ELSE map' = map /\ result' = Status("NOT_FOUND")

Delete(k) ==
  IF k \in DOMAIN map
  THEN map' = MapWithout(map, k) /\ removed' = {<<k, map[k]>>} /\ result' = Status("OK")
  ELSE map' = map /\ removed' = {} /\ result' = Status("NOT_FOUND")

Lookup(k) ==
  /\ UNCHANGED map
  /\ removed' = {}
  /\ result' = IF k \in DOMAIN map THEN Found(map[k]) ELSE Status("NOT_FOUND")

Clear == map' = EmptyMap /\ removed' = Entries(map) /\ result' = Status("OK")

\* Reserving or giving back space, and running out of it.
Resize == UNCHANGED map /\ removed' = {} /\ result' \in {Status("OK"), Status("MEMALLOC_FAILURE")}

MapNext ==
  \/ \E k \in Key : Delete(k) \/ Lookup(k) \/ \E v \in Value : Insert(k, v) \/ Assign(k, v)
  \/ Clear
  \/ Resize

MapSpec == MapInit /\ [][MapNext]_mapVars
=============================================================================
