---------------------------- MODULE MCRegAlloc ----------------------------
(* Instances of RegAlloc: four values over one general purpose and one     *)
(* floating point register, so that every third value must evict or spill. *)
EXTENDS RegAlloc, TLC

CONSTANTS v1, v2, v3, v4, ax, xmm, none, b1, b2

MCValue == {v1, v2, v3, v4}
MCBlock == {b1, b2}

Pairs == {{v, w} : v, w \in MCValue} \ {{v} : v \in MCValue}

\* Two blocks, the second dominated by the first.
Func(kind, req, mult, coal, hot, remat, copies) ==
  [kind |-> kind, req |-> req,
   mult |-> [v \in MCValue |-> [w \in MCValue |-> IF v = w THEN 0 ELSE mult[{v, w}]]],
   coal |-> [v \in MCValue |-> {w \in MCValue \ {v} : {v, w} \in coal}],
   hot |-> hot, remat |-> remat, copyOnly |-> [v \in MCValue |-> copies],
   area |-> [v \in MCValue |-> [length |-> 2, alignment |-> 2]],
   values |-> (b1 :> <<v1, v2>> @@ b2 :> <<v3, v4>>),
   dom |-> (b1 :> <<b2>> @@ b2 :> <<>>)]

Kinds(a, b, c, d) == v1 :> a @@ v2 :> b @@ v3 :> c @@ v4 :> d
H(u, l) == [uses |-> u, len |-> l]

NoReq == [v \in MCValue |-> none]
Req1 == [NoReq EXCEPT ![v3] = ax]
Req2 == [NoReq EXCEPT ![v1] = ax, ![v3] = ax]

Hot(a, b, c, d) == v1 :> a @@ v2 :> b @@ v3 :> c @@ v4 :> d
HotRising  == Hot(H(1, 2), H(1, 1), H(2, 1), H(3, 1))
HotMixed   == Hot(H(2, 1), H(1, 1), H(1, 0), H(1, 1))
HotOdd     == Hot(H(0, 0), H(1, 2), none, H(1, 1))
NoRemat    == [v \in MCValue |-> FALSE]
SomeRemat  == [NoRemat EXCEPT ![v1] = TRUE, ![v4] = TRUE]

Free(m) == {p \in Pairs : m[p] = 0}

\* Every interference graph over four values, listed once or twice, with every
\* remaining pair coalesced or none, over one register of the class.
Evictions ==
  {Func(Kinds("gp", "gp", "gp", "gp"), q, m, c, h, r, y) :
     q \in {NoReq, Req1, Req2}, m \in [Pairs -> {0, 1}] \cup [Pairs -> {0, 2}],
     c \in {{}}, h \in {HotRising, HotMixed, HotOdd}, r \in {NoRemat, SomeRemat}, y \in {FALSE}}

Coalescings ==
  UNION {{Func(k, q, m, Free(m), h, NoRemat, y) :
            k \in {Kinds("gp", "gp", "gp", "gp"), Kinds("fp", "fp", "gp", "spill"),
                   Kinds("fp", "spill", "fp", "fp"), Kinds("gp", "na", "resource", "gp")},
            q \in {NoReq}, h \in {HotRising, HotOdd}, y \in BOOLEAN} : m \in [Pairs -> {0, 1}]}
  \cup {Func(Kinds("gp", "gp", "gp", "gp"), q, m, Free(m), HotRising, NoRemat, FALSE) :
          q \in {Req1, Req2}, m \in [Pairs -> {0, 1}]}

SafetyFuncs == Evictions \cup Coalescings

\* A few functions for two consecutive runs and for termination.
RerunFuncs ==
  UNION {{Func(k, q, m, c, h, NoRemat, FALSE) :
            k \in {Kinds("gp", "gp", "gp", "fp"), Kinds("gp", "gp", "gp", "gp")},
            q \in {NoReq, Req1}, c \in {{}, Free(m)}, h \in {HotRising, HotMixed}} :
           m \in {[p \in Pairs |-> 1], [p \in Pairs |-> IF v1 \in p THEN 0 ELSE 1]}}

\* One run of the allocator on every function, two on the few.
VARIABLE twice
Two == INSTANCE RegAlloc WITH Funcs <- RerunFuncs, MaxRuns <- 2

MCInit == (twice = FALSE /\ Init) \/ (twice = TRUE /\ Two!Init)
MCNext == UNCHANGED twice /\ IF twice THEN Two!Next ELSE Next
MCSpec == MCInit /\ [][MCNext]_<<vars, twice>> /\ WF_vars(Step)
===========================================================================
