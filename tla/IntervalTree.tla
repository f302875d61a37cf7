---------------------------- MODULE IntervalTree ----------------------------
(* The interval tree of source/core/interval_tree.c and the source map that  *)
(* source/ir/debug.c keeps in it: ranges of instructions with the source     *)
(* locations they come from.                                                 *)
(*                                                                           *)
(* The tree is the AVL tree of HashTree keyed by where an interval begins;   *)
(* each entry holds the ends of its intervals and the largest end below it,  *)
(* which on_link_modify recomputes when the AVL tree relinks nodes.          *)
EXTENDS HashTree, Sequences

CONSTANTS
  Ranges,      \* the ranges <<begin, end>> a function's instructions have
  Location,    \* source locations
  MaxInserts   \* bound on the number of insertions

VARIABLES
  maxEnd,      \* max_subtree_end of each entry
  chain,       \* for each interval, the locations recorded for it, newest first
  request,     \* the insertion in progress
  inserts      \* counts insertions

treeVars == <<vars, maxEnd, chain, request, inserts>>

NoRequest == <<>>
NoInterval == <<NIL, NIL>>

Ends(ch, k) == {r[2] : r \in {x \in DOMAIN ch : x[1] = k}}

\* One turn of update_node_subtree_max_end.
EntryMax(m, n, ch, k) ==
  Max({IF Ends(ch, k) = {} THEN k ELSE Max(Ends(ch, k))}
      \cup {m[n[k][s]] : s \in {x \in Sides : n[k][x] # NIL}})

RECURSIVE UpdateMaxEnd(_, _, _, _)
UpdateMaxEnd(m, n, ch, k) ==
  IF k = NIL THEN m
  ELSE UpdateMaxEnd([m EXCEPT ![k] = EntryMax(m, n, ch, k)], n, ch, n[k].parent)

\* The calls of on_link_modify at the end of balance_node, for the old root r.
Relinked(m, n, r) ==
  UpdateMaxEnd(UpdateMaxEnd(UpdateMaxEnd(m, n, chain, n[r].left), n, chain, n[r].right), n, chain, r)

-----------------------------------------------------------------------------
IntervalInit ==
  /\ Init
  /\ maxEnd = [k \in {} |-> NIL]
  /\ chain = [r \in {} |-> <<>>]
  /\ request = NoRequest
  /\ inserts = 0

\* kefir_ir_debug_function_source_map_insert up to the entry of the range; the
\* new entry is linked into the AVL tree while it has no intervals yet.
BeginInsert(r, l) ==
  /\ request = NoRequest
  /\ inserts < MaxInserts
  /\ inserts' = inserts + 1
  /\ request' = <<r, l>>
  /\ IF Has(r[1])
     THEN UNCHANGED <<vars, maxEnd>>
     ELSE /\ Insert(r[1])
          /\ LET fresh == [k \in DOMAIN node' |-> IF k = r[1] THEN r[2] ELSE maxEnd[k]]
                 leaf  == UpdateMaxEnd(fresh, node', chain, r[1])
             IN maxEnd' = UpdateMaxEnd(leaf, node', chain, node'[r[1]].parent)
  /\ UNCHANGED chain

\* Memory for the entry or for its AVL node is not available.
FailEntry(r) ==
  /\ MayFail
  /\ request = NoRequest
  /\ inserts < MaxInserts
  /\ ~Has(r[1])
  /\ inserts' = inserts + 1
  /\ UNCHANGED <<vars, maxEnd, chain, request>>

Rebalance ==
  /\ request # NoRequest
  /\ Balance
  /\ maxEnd' = IF Deep(node, op.at) = {} THEN maxEnd ELSE Relinked(maxEnd, node', op.at)
  /\ UNCHANGED <<chain, request, inserts>>

Linked == op.kind = "insert" /\ Finish /\ UNCHANGED <<maxEnd, chain, request, inserts>>

\* The bound of the entry and of the branches above it, raised to the end of the range.
Raised(r, ch) ==
  UpdateMaxEnd([maxEnd EXCEPT ![r[1]] = Max({@, r[2]})], node, ch, node[r[1]].parent)

\* The interval is added to its entry; a location for a range that is already
\* there goes in front of the chain.
AddInterval ==
  /\ request # NoRequest /\ op = Idle
  /\ LET r == request[1]
         known == r \in DOMAIN chain
     IN /\ chain' = [x \in DOMAIN chain \cup {r} |->
                       IF x # r THEN chain[x]
                       ELSE IF known THEN <<request[2]>> \o chain[r] ELSE <<request[2]>>]
        /\ maxEnd' = IF known THEN maxEnd
                     ELSE Raised(r, chain')
  /\ request' = NoRequest
  /\ UNCHANGED <<vars, inserts>>

\* Memory for the interval is not available: the entry stays without it.  The
\* first node of an entry is an exception: kefir_hashtree_insert does not see
\* that the root of an empty tree was not allocated, and the bound is raised.
FailInterval ==
  /\ MayFail
  /\ request # NoRequest /\ op = Idle
  /\ \/ UNCHANGED maxEnd
     \/ Ends(chain, request[1][1]) = {} /\ maxEnd' = Raised(request[1], chain)
  /\ request' = NoRequest
  /\ UNCHANGED <<vars, chain, inserts>>

IntervalNext ==
  \/ \E r \in Ranges : FailEntry(r) \/ \E l \in Location : BeginInsert(r, l)
  \/ Rebalance
  \/ Linked
  \/ AddInterval
  \/ FailInterval

IntervalSpec == IntervalInit /\ [][IntervalNext]_treeVars

-----------------------------------------------------------------------------
(* Searches *)

\* Mutant: an interval that ends at the position counts.
FirstBeyondClosed(k, pos) ==
  LET beyond == {e \in Ends(chain, k) : e >= pos}
  IN IF beyond = {} THEN NoInterval ELSE <<k, Min(beyond)>>

\* The first interval of an entry that reaches beyond a position: the ends from
\* their lower bound on.
FirstBeyond(k, pos) ==
  LET beyond == {e \in Ends(chain, k) : e > pos}
  IN IF beyond = {} THEN NoInterval ELSE <<k, Min(beyond)>>

RECURSIVE FindMinNode(_, _)
FindMinNode(k, pos) ==
  IF k = NIL THEN NoInterval
  ELSE LET l == node[k].left
       IN IF pos < k \/ (l # NIL /\ pos >= l /\ pos < maxEnd[l]) THEN FindMinNode(l, pos)
          ELSE IF pos >= maxEnd[k] THEN NoInterval
          ELSE IF FirstBeyond(k, pos) # NoInterval THEN FirstBeyond(k, pos)
          ELSE FindMinNode(node[k].right, pos)

\* The loop of kefir_interval_tree_find_next over the entries behind k.
RECURSIVE NextEntry(_, _)
NextEntry(k, pos) ==
  IF k = NIL \/ pos < k THEN NoInterval
  ELSE IF pos < maxEnd[k] /\ FirstBeyond(k, pos) # NoInterval THEN FirstBeyond(k, pos)
  ELSE NextEntry(NextNode(node, k), pos)

FindNext(r, pos) ==
  LET later == {e \in Ends(chain, r[1]) : e > r[2]}
  IN IF later # {} THEN <<r[1], Min(later)>> ELSE NextEntry(NextNode(node, r[1]), pos)

RECURSIVE FoundFrom(_, _)
FoundFrom(r, pos) == IF r = NoInterval THEN <<>> ELSE <<r>> \o FoundFrom(FindNext(r, pos), pos)

\* What the loop of kefir_ir_debug_function_source_map_find sees.
Found(pos) == FoundFrom(FindMinNode(root, pos), pos)

WidthKept(best, r) == best = NoInterval \/ r[2] - r[1] <= best[2] - best[1]

RECURSIVE MostPrecise(_, _)
MostPrecise(best, found) ==
  IF found = <<>> THEN best
  ELSE MostPrecise(IF WidthKept(best, Head(found)) THEN Head(found) ELSE best, Tail(found))

\* The range and the location that a position is attributed to: within a range
\* the loop runs down the chain and keeps its last element.
FindLocation(pos) ==
  LET r == MostPrecise(NoInterval, Found(pos))
  IN IF r = NoInterval THEN <<>> ELSE <<r, chain[r][Len(chain[r])]>>

-----------------------------------------------------------------------------
(* Properties *)

Quiet == request = NoRequest
Positions == UNION {r[1] .. r[2] : r \in Ranges}
Covering(pos) == {r \in DOMAIN chain : r[1] <= pos /\ pos < r[2]}

\* The keys of a branch.
Branch(k) ==
  LET Above[x \in DOMAIN node] == x = k \/ (node[x].parent # NIL /\ Above[node[x].parent])
  IN {x \in DOMAIN node : Above[x]}

\* The bound of a branch never falls below an interval in it, whatever
\* rotations and failed allocations came before: pruning a branch by its bound
\* is safe.
BoundNeverLow ==
  Quiet => \A k \in DOMAIN node : \A r \in DOMAIN chain : r[1] \in Branch(k) => maxEnd[k] >= r[2]

\* A search returns intervals that cover the position, each once, and in
\* ascending order: neither the "Unexpected source location" of the source map
\* nor the internal error of kefir_interval_tree_find_next can occur.
FoundAreCovering ==
  Quiet => \A pos \in Positions :
    /\ \A i \in DOMAIN Found(pos) : Found(pos)[i] \in Covering(pos)
    /\ \A i, j \in DOMAIN Found(pos) : i < j =>
         \/ Found(pos)[i][1] < Found(pos)[j][1]
         \/ Found(pos)[i][1] = Found(pos)[j][1] /\ Found(pos)[i][2] < Found(pos)[j][2]

\* A search that finds anything finds everything: the first interval found is
\* the first that covers the position, and none behind it is passed over, so
\* that the location reported is the innermost one (of two ranges of the same
\* width, the one that begins later).
FoundIsComplete ==
  Quiet => \A pos \in Positions :
    FindLocation(pos) # <<>> =>
      LET r == FindLocation(pos)[1]
      IN \A x \in Covering(pos) : \/ r[2] - r[1] < x[2] - x[1]
                                  \/ r[2] - r[1] = x[2] - x[1] /\ r[1] >= x[1]

\* "Unable to find source location for requested position" is reported only for
\* a position that no range covers.
CoveredIsFound == Quiet => \A pos \in Positions : Covering(pos) # {} => FindLocation(pos) # <<>>
=============================================================================
