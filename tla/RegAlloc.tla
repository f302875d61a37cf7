------------------------------ MODULE RegAlloc ------------------------------
(***************************************************************************)
(* The target-IR register allocator of the kefir code generator            *)
(* (source/codegen/target-ir/regalloc.c) with its amd64 back end           *)
(* (source/codegen/target-ir/amd64/regalloc.c).                            *)
(*                                                                         *)
(* The allocator walks the dominator tree breadth first, puts every value  *)
(* of a block on a work list and empties the list: a value takes the       *)
(* register or spill area of a coalescing partner if it can, else a free   *)
(* register, else evicts the coldest interfering value that is colder than *)
(* itself (which goes back on the work list), else is spilled.             *)
(*                                                                         *)
(* A location is a register or the number of a spill slot; an allocation   *)
(* is a set of locations: {r} for a register, i .. i+n-1 for a spill area  *)
(* of n slots at index i, {} for a value that needs no storage.            *)
(***************************************************************************)
EXTENDS Integers, Sequences, FiniteSets, Functions

CONSTANTS
  Value,      \* value references of the function
  Block,      \* basic blocks
  Entry,      \* entry block
  GPReg,      \* allocatable general purpose registers
  SSEReg,     \* allocatable floating point registers
  NONE,       \* "absent": no allocation, no requirement, no hotness record
  MaxUses,    \* UINT32_MAX, the "uses" field of the maximal hotness
  MaxRuns,    \* allocator runs per function: 2 when fully optimizing, else 1
  Funcs       \* the functions the allocator may be given

Reg == GPReg \cup SSEReg
Kind == {"gp", "fp", "spill", "na", "resource"}
Hotness == [uses : Nat, len : Nat]

(***************************************************************************)
(* What the allocator is given: for each value its kind, the register it   *)
(* requires, how often each other value appears in its interference list   *)
(* (interference.c appends without looking for duplicates), its coalescing *)
(* partners, its hotness, whether it can be rematerialized, whether all    *)
(* its uses are copies, the spill area it needs; and for each block its    *)
(* values and the blocks it immediately dominates.                         *)
(***************************************************************************)
FuncType ==
  [kind : [Value -> Kind], req : [Value -> Reg \cup {NONE}],
   mult : [Value -> [Value -> Nat]], coal : [Value -> SUBSET Value],
   hot : [Value -> Hotness \cup {NONE}], remat : [Value -> BOOLEAN],
   copyOnly : [Value -> BOOLEAN],
   area : [Value -> [length : Nat \ {0}, alignment : Nat \ {0}]],
   values : [Block -> Seq(Value)], dom : [Block -> Seq(Block)]]

RegClass(f, v) ==
  IF f.kind[v] = "gp" THEN GPReg ELSE IF f.kind[v] = "fp" THEN SSEReg ELSE {}

ASSUME ConstantsAssumption ==
  /\ IsFiniteSet(Value) /\ Entry \in Block
  /\ MaxUses \in Nat /\ MaxRuns \in Nat
  /\ NONE \notin Reg \cup Nat
  /\ Reg \cap Nat = {} /\ GPReg \cap SSEReg = {}

ASSUME FuncsAssumption ==
  \A f \in Funcs :
    /\ f \in FuncType
    /\ \A v \in Value : f.req[v] # NONE => f.req[v] \in RegClass(f, v)
    /\ \A v \in Value : f.mult[v][v] = 0
    /\ \A v, w \in Value : f.mult[v][w] = f.mult[w][v]

VARIABLES
  fn,          \* the function being allocated
  allocation,  \* regalloc->allocation
  blockQueue,  \* state->block_queue
  pending,     \* values of the current block not yet put on the work list
  valueQueue,  \* state->value_queue, the work list
  spillSlots,  \* state_payload->spill_slots_length
  frame,       \* stack_frame->requirements: used_registers, spill_area_slots
  presented,   \* history: values of the blocks that were put on the work list
  status,      \* "run", "done", or "error" (KEFIR_INVALID_STATE)
  runs         \* allocator runs started

vars == <<fn, allocation, blockQueue, pending, valueQueue, spillSlots, frame,
          presented, status, runs>>

\* A value without an entry in the allocation table; no allocation holds NONE.
Unallocated == {NONE}
Allocated(v) == allocation[v] # Unallocated
Neighbours(v) == {w \in Value : fn.mult[v][w] > 0}

Frame == [used : SUBSET Reg, slots : Nat]

TypeOK ==
  /\ fn \in Funcs
  /\ allocation \in [Value -> (SUBSET (Reg \cup Nat)) \cup {Unallocated}]
  /\ blockQueue \in Seq(Block) /\ pending \in Seq(Value) /\ valueQueue \in Seq(Value)
  /\ spillSlots \in Nat
  /\ frame \in Frame
  /\ presented \in SUBSET Value
  /\ status \in {"run", "done", "error"} /\ runs \in Nat

-----------------------------------------------------------------------------
(* Hotness: uses per instruction of lifetime, compared by cross            *)
(* multiplication; a rematerializable value counts half.                   *)

HotnessMax == [uses |-> MaxUses, len |-> 0]

GetValueHotness(v) ==
  IF fn.hot[v] = NONE THEN HotnessMax
  ELSE [fn.hot[v] EXCEPT !.len = IF fn.remat[v] THEN 2 * @ ELSE @]

HotnessLess(l, r) == l.uses * r.len < r.uses * l.len

-----------------------------------------------------------------------------
(* Conflicts and hints.                                                    *)

\* Mutant: a required register is not reserved before its value is allocated.
ConflictOfAllocated(w) ==
  IF fn.kind[w] = "resource" THEN {} ELSE IF Allocated(w) THEN allocation[w] ELSE {}

ConflictOf(w) ==
  IF fn.kind[w] = "resource" THEN {}
  ELSE IF fn.req[w] # NONE THEN {fn.req[w]}
  ELSE IF Allocated(w) THEN allocation[w] ELSE {}

\* Locations whose conflict counter is positive after build_constraints_and_hints.
Conflicts(v) == UNION {ConflictOf(w) : w \in Neighbours(v)}

\* Mutant: a flag per location instead of a counter.
ConflictsUnflagged(v, e) == Conflicts(v) \ ConflictOf(e)

\* ... and after remove_conflict took one from the counter of the evicted
\* neighbour e: it reaches zero only if nothing else was counted there.
ConflictsWithout(v, e) ==
  (UNION {ConflictOf(w) : w \in Neighbours(v) \ {e}})
    \cup (IF fn.mult[v][e] > 1 THEN ConflictOf(e) ELSE {})

Hints(v) ==
  {{fn.req[w]} : w \in {x \in fn.coal[v] : fn.req[x] # NONE}}
    \cup {allocation[w] : w \in {x \in fn.coal[v] : fn.req[x] = NONE /\ Allocated(x)}}

-----------------------------------------------------------------------------
(* do_allocate. A grant is what one of its exits leaves behind: the         *)
(* allocation it returns, the number of spill slots in use, and the stack  *)
(* frame after the exit's own call of use_register or use_spill_space.     *)

SpillArea(i, n) == i .. i + n - 1

UseRegister(r) == [frame EXCEPT !.used = @ \cup {r}]

UseSpillSpace(i, n) == [frame EXCEPT !.slots = IF @ < i + n THEN i + n ELSE @]

AreaShape(v) ==
  IF fn.kind[v] = "gp" THEN [length |-> 1, alignment |-> 1]
  ELSE IF fn.kind[v] = "fp" THEN [length |-> 2, alignment |-> 2]
  ELSE fn.area[v]

\* allocate_spill_area: the indices its search accepts, and the index it
\* falls back to behind the slots in use, which ensure_spill_area makes.
FittingIndices(n, a, occupied) ==
  {i \in 0 .. spillSlots - 1 :
     i % a = 0 /\ i + n < spillSlots /\ SpillArea(i, n) \cap occupied = {}}

NextAligned(a) == ((spillSlots + a - 1) \div a) * a

AllocateSpillArea(n, a, occupied) ==
  LET fits == FittingIndices(n, a, occupied) IN
  IF fits # {} THEN {i \in fits : \A k \in fits : i <= k} ELSE {NextAligned(a)}

SlotsWith(i, n) == IF spillSlots < i + n THEN i + n ELSE spillSlots

\* Mutant: takes a partner's area whatever its length and alignment.
HintedIndicesAnyShape(v, occupied) ==
  {i \in 0 .. spillSlots - 1 : \E h \in Hints(v) : i \in h /\ h \cap occupied = {}}

\* Where the areas of coalescing partners begin that have the right shape and
\* are free.
HintedIndices(v, occupied) ==
  LET n == AreaShape(v).length IN
  {i \in 0 .. spillSlots - n : /\ i % AreaShape(v).alignment = 0
                               /\ SpillArea(i, n) \in Hints(v)
                               /\ SpillArea(i, n) \cap occupied = {}}

NoStorage == [to |-> {}, slots |-> spillSlots, frame |-> frame]

RequiredRegister(v) ==
  [to |-> {fn.req[v]}, slots |-> spillSlots, frame |-> UseRegister(fn.req[v])]

\* Mutant: the partner is trusted to have reported the register.
HintedRegistersUnreported(v, occupied) ==
  {[to |-> {r}, slots |-> spillSlots, frame |-> frame] :
     r \in {x \in RegClass(fn, v) \ occupied : {x} \in Hints(v)}}

HintedRegisters(v, occupied) ==
  {[to |-> {r}, slots |-> spillSlots, frame |-> UseRegister(r)] :
     r \in {x \in RegClass(fn, v) \ occupied : {x} \in Hints(v)}}

FreeRegisters(v, occupied) ==
  {[to |-> {r}, slots |-> spillSlots, frame |-> UseRegister(r)] :
     r \in RegClass(fn, v) \ occupied}

HintedAreas(v, occupied) ==
  LET n == AreaShape(v).length IN
  {[to |-> SpillArea(i, n), slots |-> spillSlots, frame |-> UseSpillSpace(i, n)] :
     i \in HintedIndices(v, occupied)}

NewAreas(v, occupied) ==
  LET n == AreaShape(v).length IN
  {[to |-> SpillArea(i, n), slots |-> SlotsWith(i, n), frame |-> UseSpillSpace(i, n)] :
     i \in AllocateSpillArea(n, AreaShape(v).alignment, occupied)}

\* A spill area, taken from a coalescing partner or else new.
Spill(v, occupied) ==
  IF HintedAreas(v, occupied) # {} THEN HintedAreas(v, occupied) ELSE NewAreas(v, occupied)

\* The grants of do_allocate; none is KEFIR_OUT_OF_SPACE. The registers are
\* tried in the order of the register class and the hints in the order of
\* their encoding: any of the ones that qualify may come first.
DoAllocate(v, occupied, optimistic) ==
  IF fn.kind[v] = "na" THEN {NoStorage}
  ELSE IF fn.kind[v] = "spill" THEN Spill(v, occupied)
  ELSE IF fn.req[v] # NONE THEN {RequiredRegister(v)}
  ELSE IF HintedRegisters(v, occupied) # {} THEN HintedRegisters(v, occupied)
  ELSE IF fn.copyOnly[v] /\ HintedAreas(v, occupied) # {} THEN HintedAreas(v, occupied)
  ELSE IF FreeRegisters(v, occupied) # {} THEN FreeRegisters(v, occupied)
  ELSE IF optimistic THEN {}
  ELSE Spill(v, occupied)

-----------------------------------------------------------------------------
(* The work list.                                                          *)

\* Every way to order a finite set; the interference and coalescing lists are
\* iterated in an order that depends on hashing.
Orders(S) == {s \in [1 .. Cardinality(S) -> S] : IsInjective(s)}

\* Unallocated coalescing partners, pushed in front of the work list.
Partners(v) == {w \in fn.coal[v] : ~Allocated(w) /\ fn.kind[w] # "resource"}

\* Mutant: the hotness of the neighbour is not compared.
EvictionCandidatesAny(v) ==
  {w \in Neighbours(v) : /\ fn.req[w] = NONE /\ fn.kind[w] \in {"gp", "fp"}
                         /\ Allocated(w) /\ \E r \in Reg : allocation[w] = {r}}

\* The neighbours try_evict_neighbor looks at, and the ones it may settle on.
EvictionCandidates(v) ==
  {w \in Neighbours(v) : /\ fn.req[w] = NONE /\ fn.kind[w] \in {"gp", "fp"}
                         /\ Allocated(w) /\ \E r \in Reg : allocation[w] = {r}
                         /\ HotnessLess(GetValueHotness(w), GetValueHotness(v))}

Evicted(v) ==
  IF GetValueHotness(v) = HotnessMax THEN {}
  ELSE {w \in EvictionCandidates(v) : \A x \in EvictionCandidates(v) :
          ~HotnessLess(GetValueHotness(x), GetValueHotness(w))}

-----------------------------------------------------------------------------
Init ==
  /\ fn \in Funcs
  /\ allocation = [v \in Value |-> Unallocated]
  /\ blockQueue = <<Entry>> /\ pending = <<>> /\ valueQueue = <<>>
  /\ spillSlots = 0 /\ frame = [used |-> {}, slots |-> 0] /\ presented = {}
  /\ status = "run" /\ runs = 1

\* regalloc_run_impl takes the next block of the dominator tree.
NextBlock ==
  /\ status = "run" /\ valueQueue = <<>> /\ pending = <<>> /\ blockQueue # <<>>
  /\ pending' = fn.values[Head(blockQueue)]
  /\ blockQueue' = Tail(blockQueue) \o fn.dom[Head(blockQueue)]
  /\ UNCHANGED <<fn, allocation, valueQueue, spillSlots, frame, presented, status, runs>>

\* do_regalloc_block puts the next value of the block on the work list; values
\* that are indirect outputs or resources are passed over.
NextValue ==
  /\ status = "run" /\ valueQueue = <<>> /\ pending # <<>>
  /\ pending' = Tail(pending)
  /\ IF fn.kind[Head(pending)] = "resource" THEN UNCHANGED <<valueQueue, presented>>
     ELSE /\ valueQueue' = <<Head(pending)>>
          /\ presented' = presented \cup {Head(pending)}
  /\ UNCHANGED <<fn, allocation, blockQueue, spillSlots, frame, status, runs>>

\* The work list once do_regalloc took v from it and pushed v's partners.
Rests(v) == {order \o Tail(valueQueue) : order \in Orders(Partners(v))}

Current == Head(valueQueue)
HasCurrent == status = "run" /\ valueQueue # <<>>

\* do_regalloc finds the value allocated already.
SkipAllocated ==
  /\ HasCurrent /\ Allocated(Current)
  /\ valueQueue' \in Rests(Current)
  /\ UNCHANGED <<fn, allocation, blockQueue, pending, spillSlots, frame, presented,
                 status, runs>>

\* A required register is taken by a neighbour: KEFIR_INVALID_STATE.
RequirementConflict(v) ==
  /\ fn.kind[v] \in {"gp", "fp"} /\ fn.req[v] # NONE
  /\ fn.req[v] \in Conflicts(v)

FailConstraint ==
  /\ HasCurrent /\ ~Allocated(Current) /\ RequirementConflict(Current)
  /\ status' = "error"
  /\ UNCHANGED <<fn, allocation, blockQueue, pending, valueQueue, spillSlots, frame,
                 presented, runs>>

\* What do_allocate did to the spill slots and to the stack frame.
Take(g) ==
  /\ spillSlots' = g.slots
  /\ frame' = g.frame
  /\ UNCHANGED <<fn, blockQueue, pending, presented, status, runs>>

\* The first, optimistic do_allocate succeeds.
Allocate ==
  /\ HasCurrent /\ ~Allocated(Current) /\ ~RequirementConflict(Current)
  /\ \E g \in DoAllocate(Current, Conflicts(Current), TRUE) :
       /\ allocation' = [allocation EXCEPT ![Current] = g.to]
       /\ Take(g)
  /\ valueQueue' \in Rests(Current)

OutOfSpace ==
  /\ HasCurrent /\ ~Allocated(Current) /\ ~RequirementConflict(Current)
  /\ DoAllocate(Current, Conflicts(Current), TRUE) = {}

\* It runs out of registers and try_evict_neighbor finds nothing colder.
SpillCurrent ==
  /\ OutOfSpace /\ Evicted(Current) = {}
  /\ \E g \in DoAllocate(Current, Conflicts(Current), FALSE) :
       /\ allocation' = [allocation EXCEPT ![Current] = g.to]
       /\ Take(g)
  /\ valueQueue' \in Rests(Current)

\* ... or it evicts e, which goes to the end of the work list.
Evict(e) ==
  /\ OutOfSpace /\ e \in Evicted(Current)
  /\ \E g \in DoAllocate(Current, ConflictsWithout(Current, e), FALSE) :
       /\ allocation' = [allocation EXCEPT ![e] = Unallocated, ![Current] = g.to]
       /\ Take(g)
  /\ \E rest \in Rests(Current) : valueQueue' = Append(rest, e)

Finish ==
  /\ status = "run" /\ valueQueue = <<>> /\ pending = <<>> /\ blockQueue = <<>>
  /\ status' = "done"
  /\ UNCHANGED <<fn, allocation, blockQueue, pending, valueQueue, spillSlots, frame,
                 presented, runs>>

\* After hot copies and rematerialization changed the function, the allocator
\* is reset and run again; the stack frame keeps what the first run used.
Rerun ==
  /\ status = "done" /\ runs < MaxRuns
  /\ fn' \in Funcs
  /\ allocation' = [v \in Value |-> Unallocated]
  /\ blockQueue' = <<Entry>> /\ pending' = <<>> /\ valueQueue' = <<>>
  /\ spillSlots' = 0 /\ presented' = {}
  /\ status' = "run" /\ runs' = runs + 1
  /\ UNCHANGED frame

Step ==
  \/ NextBlock \/ NextValue \/ SkipAllocated \/ FailConstraint
  \/ Allocate \/ SpillCurrent \/ (\E e \in Value : Evict(e)) \/ Finish

Next == Step \/ Rerun

Spec == Init /\ [][Next]_vars
FairSpec == Spec /\ WF_vars(Step)

-----------------------------------------------------------------------------
(* Properties.                                                             *)

\* Two values that are alive at the same time never share a register or a
\* spill slot, at any point of the allocation: not after an eviction, not when
\* several neighbours sat in the register that was freed, not when an area is
\* inherited from a coalescing partner (regalloc.c, do_regalloc).
NoConflict ==
  \A v, w \in Value :
    /\ w \in Neighbours(v) /\ fn.kind[v] # "resource" /\ fn.kind[w] # "resource"
    /\ Allocated(v) /\ Allocated(w)
    => allocation[v] \cap allocation[w] = {}

\* Every allocation suits its value, wherever it was inherited from: a required
\* register is the one given, a register is of the value's class, a spill area
\* has the size and alignment the value needs (amd64/regalloc.c, do_allocate).
AllocationFits ==
  \A v \in Value : Allocated(v) =>
    \/ fn.kind[v] = "na" /\ allocation[v] = {}
    \/ /\ fn.kind[v] \in {"gp", "fp"} /\ fn.req[v] # NONE
       /\ allocation[v] = {fn.req[v]}
    \/ /\ fn.kind[v] \in {"gp", "fp"} /\ fn.req[v] = NONE
       /\ \E r \in RegClass(fn, v) : allocation[v] = {r}
    \/ /\ fn.kind[v] \in {"gp", "fp", "spill"} /\ fn.req[v] = NONE
       /\ \E i \in 0 .. spillSlots - AreaShape(v).length :
            /\ i % AreaShape(v).alignment = 0
            /\ allocation[v] = SpillArea(i, AreaShape(v).length)

\* The allocator reports conflicting constraints only when the function really
\* asks for the impossible: two interfering values that require one register.
\* No choice it made itself (a hint, a free register, an eviction) may be the
\* cause (amd64/regalloc.c, do_allocate).
ErrorIsGenuine ==
  status = "error" =>
    \E v \in Value : \E w \in Neighbours(v) :
      fn.req[v] # NONE /\ fn.req[w] = fn.req[v]

\* The stack frame knows of every register in use, so that the prologue saves
\* it, and reserves every slot in use: whichever exit of do_allocate granted
\* it, in an optimistic try or after an eviction, from a partner that is only
\* entitled to it, and in the second run, which counts its slots from zero in
\* the frame of the first (amd64/regalloc.c, amd64/stack_frame.c).
FrameCovers ==
  \A v \in Value : Allocated(v) => /\ allocation[v] \cap Reg \subseteq frame.used
                                  /\ \A i \in allocation[v] \ Reg : i < frame.slots

\* No value is lost on the way: once put on the work list, a value has an
\* allocation or waits in the work list, also while it is evicted and while
\* partners are pushed in front of it (regalloc.c, do_regalloc).
NoneForgotten ==
  \A v \in presented : Allocated(v) \/ v \in Range(valueQueue)

\* When the allocator finishes, every storable value of every block of the
\* dominator tree has an allocation, the evicted ones included.
Completed ==
  status = "done" =>
    \A b \in {Entry} \cup UNION {Range(fn.dom[c]) : c \in Block} :
      \A v \in Range(fn.values[b]) : fn.kind[v] # "resource" => Allocated(v)

\* A value loses its allocation only to a strictly hotter value that gets one
\* in the same step, and a required register is never taken away
\* (regalloc.c, try_evict_neighbor).
EvictedForHotter ==
  [][\A w \in Value : Allocated(w) /\ allocation'[w] = Unallocated =>
       \/ runs' > runs
       \/ /\ fn.req[w] = NONE
          /\ \E v \in Value : /\ ~Allocated(v) /\ allocation'[v] # Unallocated
                              /\ HotnessLess(GetValueHotness(w), GetValueHotness(v))]_vars

\* Evictions and partners pushed in front of the work list never keep the
\* allocator busy for ever (regalloc.c, do_regalloc).
Terminates == status = "run" ~> status # "run"

=============================================================================
