----------------------------- MODULE CodegenX87 -----------------------------
(***************************************************************************)
(* The code generator's x87 register stack.  Long doubles stay on the      *)
(* stack of the floating-point unit from the instruction that computes     *)
(* them to the one that uses them; the generator keeps a list of which     *)
(* instruction's value is where, and stores a value to its virtual         *)
(* register (a spill slot) when room is needed, at calls and branches, and *)
(* when an instruction that is not its only user takes it.                 *)
(*                                                                         *)
(* A long double is the number of the instruction that computes it.  s is  *)
(* the list, and the machine as the code generated so far leaves it.       *)
(***************************************************************************)
EXTENDS Integers, Sequences, FiniteSets, SequencesExt

CONSTANTS Capacity,         \* X87_STACK_CAPACITY, and the number of registers
          MaxValues,        \* how many long doubles a function computes
          ValgrindCompatible,   \* the configuration option valgrind_compatible_x87
          Twice             \* instructions that may take one value for both operands, of
                            \* "operation", "comparison", "copysign", "pair", "relation"

VARIABLES s,        \* [list, slot, top, mem, tmp, fault]
          used,     \* per value: "no", "sole" (its only use is behind), "many"
          right,    \* whether the code of every instruction found its operands
          returned  \* the value the function has returned, 0 before

vars == <<s, used, right, returned>>

NoId == 0
Empty == 0
Wrong == -1

Values == 1..MaxValues

(***************************************************************************)
(* The floating-point unit: eight slots and a top pointer.  Reading an     *)
(* empty slot, or pushing onto an occupied one, is a stack fault.          *)
(***************************************************************************)
Slot(x, i) == (x.top + i) % Capacity
St(x, i) == x.slot[Slot(x, i)]
Depth(x) == Cardinality({k \in DOMAIN x.slot : x.slot[k] # Empty})

Push(x, v) ==
    [x EXCEPT !.top = (@ - 1) % Capacity, !.slot[(x.top - 1) % Capacity] = v,
              !.fault = @ \/ x.slot[(x.top - 1) % Capacity] # Empty]
Drop(x) ==
    [x EXCEPT !.top = (@ + 1) % Capacity, !.slot[x.top] = Empty, !.fault = @ \/ x.slot[x.top] = Empty]

Fld(x, i) == Push([x EXCEPT !.fault = @ \/ St(x, i) = Empty], St(x, i))
FldMem(x, r) == Push(x, x.mem[r])
FldTmp(x) == Push(x, x.tmp)
FstpMem(x, r) == Drop([x EXCEPT !.mem[r] = St(x, 0)])
FstpTmp(x) == Drop([x EXCEPT !.tmp = St(x, 0)])
Fstp(x, i) == Drop([x EXCEPT !.slot[Slot(x, i)] = St(x, 0)])
Fxch(x, i) ==
    [x EXCEPT !.slot[x.top] = St(x, i), !.slot[Slot(x, i)] = St(x, 0),
              !.fault = @ \/ St(x, 0) = Empty \/ St(x, i) = Empty]
Fdecstp(x) == [x EXCEPT !.top = (@ - 1) % Capacity]
\* An arithmetic instruction that replaces the top of the stack.
Replace(x, v) == [x EXCEPT !.slot[x.top] = v]

(***************************************************************************)
(* The list.                                                               *)
(***************************************************************************)
Exchange(x, k) == FoldLeft(LAMBDA y, i : Fxch(y, i), x, [i \in 1..k |-> i])

IndexIn(x, r) == CHOOSE k \in DOMAIN x.list : x.list[k] = r
OnStack(x, r) == \E k \in DOMAIN x.list : x.list[k] = r

\* The value at the bottom of the stack goes to its virtual register.
SpillTail(x) ==
    LET tail == Last(x.list)
        turned == IF ValgrindCompatible THEN Exchange(x, Len(x.list) - 1) ELSE Fdecstp(x)
        stored == IF tail = NoId THEN Fstp(turned, 0) ELSE FstpMem(turned, tail)
    IN  [stored EXCEPT !.list = Front(x.list)]

RECURSIVE X87Ensure(_, _)
X87Ensure(x, capacity) ==
    IF Len(x.list) + capacity > Capacity THEN X87Ensure(SpillTail(x), capacity) ELSE x

Listed(x, r) == [x EXCEPT !.list = <<r>> \o @]

X87Push(x, r) == Listed(X87Ensure(x, 1), r)
X87Pop(x) == [x EXCEPT !.list = Tail(@)]

\* The value of r on top of the stack.
X87Load(x, r) ==
    IF OnStack(x, r)
    THEN LET k == IndexIn(x, r)
         IN  [Exchange(x, k - 1) EXCEPT !.list = <<r>> \o RemoveAt(x.list, k)]
    ELSE Listed(FldMem(X87Ensure(x, 1), r), r)

\* Taking a value without a thought of its other users.
X87ConsumeForgetting(x, r, sole) == x

\* An instruction takes r off the stack: unless it is its only user, r is stored.
X87ConsumeBy(x, r, sole) ==
    IF sole \/ ~OnStack(x, r) THEN x
    ELSE LET index == IndexIn(x, r) - 1
         IN  IF Len(x.list) < Capacity THEN FstpMem(Fld(x, index), r)
             ELSE LET freed == FstpTmp(x)
                      copied == IF index # 0 THEN Fld(freed, index - 1) ELSE FldTmp(freed)
                  IN  FldTmp(FstpMem(copied, r))

\* r, or a copy of r that has no name, on top of the stack.
X87LoadConsumeBy(x, r, sole) ==
    IF sole THEN X87Load(x, r)
    ELSE IF Len(x.list) < Capacity
    THEN Listed(IF OnStack(x, r) THEN Fld(x, IndexIn(x, r) - 1) ELSE FldMem(x, r), NoId)
    ELSE FldMem(FstpMem(X87Load(x, r), r), r)

RECURSIVE X87Flush(_)
X87Flush(x) ==
    IF x.list = <<>> THEN x
    ELSE LET stored == IF Head(x.list) # NoId THEN FstpMem(x, Head(x.list)) ELSE Fstp(x, 0)
         IN  X87Flush(X87Pop(stored))

Discard(x, k) == FoldLeft(LAMBDA y, i : Fstp(y, 0), x, [i \in 1..k |-> i])
\* Every caller preserves nothing of what it clears.
X87Clear(x) == [Discard(x, Len(x.list)) EXCEPT !.list = <<>>]

(***************************************************************************)
(* What the code of an instruction does to s: [x, read, result], where     *)
(* read is what it found where it expected its operands.                   *)
(***************************************************************************)
\* The operands of a comparison or an operation, both popped from the list; the first one
\* is on top.  With one value twice, the second copy is made on the machine only.
BothLoaded(x, a, b, sole) ==
    IF a # b
    THEN X87Pop(X87Pop(X87ConsumeBy(X87ConsumeBy(X87Load(X87Load(x, b), a), a, sole[a]), b, sole[b])))
    ELSE Fld(X87Pop(X87Ensure(X87ConsumeBy(X87Load(x, a), a, sole[a]), 1)), 0)

BothTaken(x, a, b, sole) ==
    IF a # b THEN X87Pop(X87Pop(X87LoadConsumeBy(X87LoadConsumeBy(x, b, sole[b]), a, sole[a])))
    ELSE Fld(X87Pop(X87Ensure(X87LoadConsumeBy(x, a, sole[a]), 1)), 0)

OneTaken(x, a, sole) == X87Pop(X87ConsumeBy(X87Load(x, a), a, sole[a]))

\* faddp and its like: the two topmost values become the result.
LongDoubleBinaryOp(x, a, b, sole, n) ==
    LET y == X87Push(BothTaken(x, a, b, sole), n)
        got == <<St(y, 0), St(y, 1)>>
    IN  [x |-> Replace(Drop(y), IF got = <<a, b>> THEN n ELSE Wrong), read |-> got]

LongDoubleNeg(x, a, sole, n) ==
    LET y == X87Push(OneTaken(x, a, sole), n)
    IN  [x |-> Replace(y, IF St(y, 0) = a THEN n ELSE Wrong), read |-> <<St(y, 0)>>]

\* fucomip or fcomip, then fstp.
LongDoubleCompare(x, a, b, sole) ==
    LET y == BothLoaded(x, a, b, sole)
    IN  [x |-> Fstp(Drop(y), 0), read |-> <<St(y, 0), St(y, 1)>>]

\* Comparing in the order of the other relation.
LongDoubleLessSwapped(x, a, b, sole) == LongDoubleCompare(x, a, b, sole)

LongDoubleLess(x, a, b, sole) == LongDoubleCompare(x, b, a, sole)

\* fistp, fstp to a float or to memory.
LongDoubleStore(x, a, sole) ==
    LET y == OneTaken(x, a, sole)
    IN  [x |-> Fstp(y, 0), read |-> <<St(y, 0)>>]

\* fabs, then fucomip with infinity, and fstp.
IsFiniteL(x, a, sole) ==
    LET y == X87Pop(X87Ensure(X87ConsumeBy(X87Load(x, a), a, sole[a]), 1))
    IN  [x |-> Fstp(Drop(Push(y, Wrong)), 0), read |-> <<St(y, 0)>>]

\* The constant 2^63 joins the value on the stack, and both are gone in the end.
LongDoubleToUint(x, a, sole) ==
    LET y == X87Pop(X87Ensure(X87ConsumeBy(X87Load(x, a), a, sole[a]), 1))
        z == Fxch(Push(y, Wrong), 1)
    IN  [x |-> Drop(Fstp(z, 1)), read |-> <<St(z, 0)>>]

\* fxam of the second operand, then the first one with that sign.
Copysign(x, a, b, sole, n) ==
    LET signed == X87Load(x, b)
        y == X87Pop(X87Ensure(X87ConsumeBy(X87Load(signed, a), a, sole[a]), 1))
        got == <<St(y, 0), St(signed, 0)>>
        z == Fstp(Fld(Replace(y, IF got = <<a, b>> THEN n ELSE Wrong), 0), 1)
    IN  [x |-> X87Push(z, n), read |-> got]

\* Both parts go to memory, the imaginary one from the top.
ComplexLongDoubleFrom(x, a, b, sole) ==
    LET loaded == X87ConsumeBy(X87Load(X87Load(x, a), b), a, sole[a])
        y == IF a # b THEN X87Pop(X87Pop(X87ConsumeBy(loaded, b, sole[b])))
             ELSE Fld(X87Ensure(X87Pop(loaded), 2), 0)
    IN  [x |-> Fstp(Fstp(y, 0), 0), read |-> <<St(y, 1), St(y, 0)>>]

\* Compares both with zero, which is on the stack meanwhile; neither is taken.
LongDoublePairTruncate(x, a, b) ==
    LET second == X87Ensure(X87Load(x, b), 1)
        first == X87Ensure(X87Load(Fstp(Push(second, Wrong), 0), a), 1)
    IN  [x |-> Fstp(Push(first, Wrong), 0), read |-> <<St(first, 0), St(second, 0)>>]

\* fucomi of the two topmost values, which stay where they are.
Relation(x, a, b) ==
    LET y == X87Load(X87Load(x, b), a)
    IN  [x |-> y, read |-> <<St(y, 0), St(y, 1)>>]

\* fucomi of the top with itself.
IsNanL(x, a) == LET y == X87Load(x, a) IN [x |-> y, read |-> <<St(y, 0)>>]

\* The returned value sinks to the bottom, and the others are popped.
ReturnX87(x, r) ==
    IF OnStack(x, r)
    THEN LET k == IndexIn(x, r)
             size == Len(x.list)
             first == IF k # 1 THEN Fxch(x, k - 1) ELSE x
             sunk == IF size # 1 THEN Fxch(first, size - 1) ELSE first
         IN  [Discard(sunk, size - 1) EXCEPT !.list = <<>>]
    ELSE FldMem(X87Clear(x), r)

(***************************************************************************)
(* Instructions.  Whether the instruction at hand is the only user of an   *)
(* operand is chosen when it is used for the first time.                   *)
(***************************************************************************)
Computed == {r \in Values : used[r] # "new"}
Usable == {r \in Computed : used[r] # "sole"}
Next1 == CHOOSE n \in Values : used[n] = "new" /\ \A k \in Values : k < n => used[k] # "new"
CanCompute == returned = NoId /\ \E n \in Values : used[n] = "new"

\* The choices of "only user" for the operands in R.
Soles(R) == {f \in [R -> BOOLEAN] : \A r \in R : f[r] => used[r] = "no"}
Using(u, R, f) == [r \in Values |-> IF r \in R THEN (IF f[r] THEN "sole" ELSE "many") ELSE u[r]]

Does(effect, operands) ==
    /\ s' = effect.x
    /\ right' = (right /\ effect.read = operands)
    /\ UNCHANGED returned

\* An argument, a constant, a load, a conversion, a call's result: pushed, then loaded.
Produce ==
    /\ CanCompute
    /\ LET n == Next1
       IN  /\ Does([x |-> Push(X87Push(s, n), n), read |-> <<>>], <<>>)
           /\ used' = [used EXCEPT ![n] = "no"]

BinaryOp ==
    /\ CanCompute
    /\ \E a, b \in Usable : \E f \in Soles({a, b}) :
         /\ a = b => "operation" \in Twice
         /\ Does(LongDoubleBinaryOp(s, a, b, f, Next1), <<a, b>>)
         /\ used' = [Using(used, {a, b}, f) EXCEPT ![Next1] = "no"]

Neg ==
    /\ CanCompute
    /\ \E a \in Usable : \E f \in Soles({a}) :
         /\ Does(LongDoubleNeg(s, a, f, Next1), <<a>>)
         /\ used' = [Using(used, {a}, f) EXCEPT ![Next1] = "no"]

CopysignL ==
    /\ CanCompute
    /\ \E a, b \in Usable : \E f \in Soles({a, b}) :
         /\ a = b => "copysign" \in Twice
         /\ Does(Copysign(s, a, b, f, Next1), <<a, b>>)
         /\ used' = [Using(used, {a, b}, f) EXCEPT ![Next1] = "no"]

EqualsOrGreater ==
    /\ returned = NoId
    /\ \E a, b \in Usable : \E f \in Soles({a, b}) :
         /\ a = b => "comparison" \in Twice
         /\ Does(LongDoubleCompare(s, a, b, f), <<a, b>>)
         /\ used' = Using(used, {a, b}, f)

Less ==
    /\ returned = NoId
    /\ \E a, b \in Usable : \E f \in Soles({a, b}) :
         /\ a = b => "comparison" \in Twice
         /\ Does(LongDoubleLess(s, a, b, f), <<b, a>>)
         /\ used' = Using(used, {a, b}, f)

Store ==
    /\ returned = NoId
    /\ \E a \in Usable : \E f \in Soles({a}) :
         /\ Does(LongDoubleStore(s, a, f), <<a>>)
         /\ used' = Using(used, {a}, f)

ToUintOrFinite ==
    /\ returned = NoId
    /\ \E a \in Usable : \E f \in Soles({a}) :
         /\ \/ Does(LongDoubleToUint(s, a, f), <<a>>)
            \/ Does(IsFiniteL(s, a, f), <<a>>)
         /\ used' = Using(used, {a}, f)

ComplexFrom ==
    /\ returned = NoId
    /\ \E a, b \in Usable : \E f \in Soles({a, b}) :
         /\ a = b => "pair" \in Twice
         /\ Does(ComplexLongDoubleFrom(s, a, b, f), <<a, b>>)
         /\ used' = Using(used, {a, b}, f)

PairTruncate ==
    /\ returned = NoId
    /\ \E a, b \in Usable :
         /\ Does(LongDoublePairTruncate(s, a, b), <<a, b>>)
         /\ used' = Using(used, {a, b}, [r \in {a, b} |-> FALSE])

IsRelation ==
    /\ returned = NoId
    /\ \E a, b \in Usable :
         /\ a = b => "relation" \in Twice
         /\ Does(Relation(s, a, b), <<a, b>>)
         /\ used' = Using(used, {a, b}, [r \in {a, b} |-> FALSE])

IsNan ==
    /\ returned = NoId
    /\ \E a \in Usable :
         /\ Does(IsNanL(s, a), <<a>>)
         /\ used' = Using(used, {a}, [r \in {a} |-> FALSE])

\* Calls, branches, atomic operations, inline assembly and isinf need an empty stack.
FlushStack ==
    /\ returned = NoId
    /\ Does([x |-> X87Flush(s), read |-> <<>>], <<>>)
    /\ UNCHANGED used

Return ==
    /\ returned = NoId
    /\ \E r \in Usable :
         /\ returned' = r
         /\ s' = ReturnX87(s, r)
    /\ UNCHANGED <<used, right>>

Init ==
    /\ s = [list |-> <<>>, slot |-> [k \in 0..(Capacity - 1) |-> Empty], top |-> 0,
            mem |-> [r \in Values |-> Wrong], tmp |-> Wrong, fault |-> FALSE]
    /\ used = [r \in Values |-> "new"]
    /\ right = TRUE
    /\ returned = NoId

Next ==
    \/ Produce \/ BinaryOp \/ Neg \/ CopysignL \/ EqualsOrGreater \/ Less \/ Store \/ ToUintOrFinite
    \/ ComplexFrom \/ PairTruncate \/ IsRelation \/ IsNan \/ FlushStack \/ Return

Spec == Init /\ [][Next]_vars

(***************************************************************************)
(* Properties.                                                             *)
(***************************************************************************)
TypeOK ==
    /\ s.list \in Seq(Values \union {NoId})
    /\ Len(s.list) <= Capacity
    /\ s.slot \in [0..(Capacity - 1) -> Values \union {Empty, Wrong}]
    /\ s.top \in 0..(Capacity - 1)
    /\ used \in [Values -> {"new", "no", "sole", "many"}]
    /\ returned \in Values \union {NoId}

\* The code never pushes onto a full register stack and never reads an empty register,
\* which the floating-point unit would answer with a NaN.
NoStackFault == ~s.fault

\* Between two instructions the list is the register stack: as deep, and with the value of
\* every listed instruction in its place.
ListMirrorsStack ==
    returned = NoId =>
        /\ Depth(s) = Len(s.list)
        /\ \A k \in DOMAIN s.list : s.list[k] # NoId => St(s, k - 1) = s.list[k]

\* The code of an instruction finds its operands, in their order.
OperandsRight == right

\* A value that may be used again is on the register stack or in its virtual register.
Recoverable ==
    returned = NoId => \A r \in Usable : OnStack(s, r) \/ s.mem[r] = r

\* A function that returns a long double leaves it alone on the register stack, as the
\* caller expects.
ReturnedAlone == returned # NoId => Depth(s) = 1 /\ St(s, 0) = returned
=============================================================================
