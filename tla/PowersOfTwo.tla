----------------------------- MODULE PowersOfTwo ----------------------------
(* Powers of two by what divides them, a form that proofs can use.           *)
EXTENDS Integers

\* No odd number but 1 divides a power of two.
PowerOf2(n) == n > 0 /\ \A d \in 1 .. n : n % d = 0 => d = 1 \/ d % 2 = 0
=============================================================================
