---------------------------- MODULE MCContainers ----------------------------
(***************************************************************************)
(* Small containers: hash tables, AVL trees, interval trees and token      *)
(* buffers.  A behaviour is about one of them; the others stay as they     *)
(* were initialised.                                                       *)
(***************************************************************************)
EXTENDS HashTable, TokenBuffer

CONSTANTS k1, k2, k3, k4, v1, v2

VARIABLES
  kind,                                          \* the container the behaviour is about
  root, node, treeOp, treeRemoved, treeResult,   \* HashTree
  maxEnd, chain, request, inserts                \* IntervalTree, on the same tree

rawTree == <<root, node, treeOp, treeRemoved, treeResult>>
rangeVars == <<maxEnd, chain, request, inserts>>
allVars == <<kind, vars, rawTree, rangeVars, bufferVars>>

\* Hash tables: keys that collide on their first slot, on their step, or on both.  Four
\* keys in tables of up to eight slots; two keys and two values, up to sixteen.
FourKeys == {k1, k2, k3, k4}
FourUpper == k1 :> 1 @@ k2 :> 1 @@ k3 :> 2 @@ k4 :> 5
FourLower == k1 :> 2 @@ k2 :> 1 @@ k3 :> 6 @@ k4 :> 2
Four == INSTANCE HashTable WITH Value <- {v1}
Two == INSTANCE HashTable WITH Key <- {k1, k2}, EnsureCapacities <- {0, 3, 8}, MaxCapacity <- 16

\* Trees of up to six keys, two of which share their hash.
SixHash == <<5, 1, 1, 2, 7, 4>>
Tree == INSTANCE HashTree WITH Key <- 1..6, Hash <- SixHash, MayFail <- TRUE, FirstMayFail <- FALSE,
          op <- treeOp, removed <- treeRemoved, result <- treeResult

\* Source maps whose ranges nest and overlap; they are inserted in any order.
SomeRanges == {<<1, 2>>, <<2, 4>>, <<3, 9>>, <<3, 5>>, <<4, 6>>, <<6, 8>>}
Map2 == INSTANCE IntervalTree WITH Key <- 1..7, Hash <- [k \in 1..7 |-> k], MayFail <- TRUE, FirstMayFail <- TRUE,
          Ranges <- SomeRanges, Location <- {"a"}, MaxInserts <- 5,
          op <- treeOp, removed <- treeRemoved, result <- treeResult

\* Two buffers whose chunks are closed at four tokens.
TwoBuffers == {"a", "b"}
FiveTokens == [a |-> <<{1}, {2}, {2}, {2}, {2}>>, b |-> <<>>]

MCInit ==
  /\ kind \in {"table", "wide table", "tree", "source map", "tokens"}
  /\ Init
  /\ Map2!IntervalInit
  /\ BufferInit

MCNext ==
  \/ kind = "table" /\ Four!Next /\ UNCHANGED <<kind, rawTree, rangeVars, bufferVars>>
  \/ kind = "wide table" /\ Two!Next /\ UNCHANGED <<kind, rawTree, rangeVars, bufferVars>>
  \/ kind = "tree" /\ Tree!Next /\ UNCHANGED <<kind, vars, rangeVars, bufferVars>>
  \/ kind = "source map" /\ Map2!IntervalNext /\ UNCHANGED <<kind, vars, bufferVars>>
  \/ kind = "tokens" /\ BufferNext /\ UNCHANGED <<kind, vars, rawTree, rangeVars>>

MCSpec == MCInit /\ [][MCNext]_allVars

\* The tree after every rotation and every removal: the links up and down agree, between
\* operations it is balanced, and every search (exact, bounds, extremes, successor)
\* answers what the set of its keys says.
TreeSearchable == kind = "tree" => Tree!LinksAgree /\ Tree!Balanced /\ Tree!SearchExact

\* The tree implements the abstract map: no insertion is lost, no deletion takes another
\* key with it, and the removal callback sees exactly what leaves.
TreeIsMap == [][kind = "tree" => Tree!OrderedMap!MapNext \/ UNCHANGED Tree!OrderedMap!mapVars]_allVars

\* The source map finds the innermost range around a position: the bound of a branch never
\* falls below a range in it, a search returns covering ranges in order, and one that
\* finds anything passes over none.
RangesFound ==
  kind = "source map" => Map2!BoundNeverLow /\ Map2!FoundAreCovering /\ Map2!FoundIsComplete
=============================================================================
