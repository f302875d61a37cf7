------------------------------ MODULE HashTree ------------------------------
(* The AVL tree of source/core/hashtree.c, an ordered map that serves as the *)
(* symbol tables, chunk lists and interval trees of the compiler.            *)
(*                                                                           *)
(* A node is named by its key; links and heights are the fields of struct    *)
(* kefir_hashtree_node.  An insertion or a deletion relinks in one step and  *)
(* then rebalances one level per step on the way up to the root, as the      *)
(* recursion of node_insert and the loop of kefir_hashtree_delete do.        *)
EXTENDS Integers, FiniteSets, FiniteSetsExt, Functions

CONSTANTS
  Key,        \* positive numbers, compared by ops->compare
  Hash,       \* ops->hash
  MayFail,    \* whether node_alloc may fail
  FirstMayFail  \* whether it may fail for the first node of a tree

NIL == 0      \* the null pointer

VARIABLES
  root,      \* tree->root
  node,      \* the allocated nodes
  op,        \* the operation in progress and the node it balances next
  removed,   \* the entries the removal callback has seen in the last operation
  result     \* what the last operation returned

vars == <<root, node, op, removed, result>>

Sides == {"left", "right"}
Other(s) == IF s = "left" THEN "right" ELSE "left"
NodeAlloc(p) == [left |-> NIL, right |-> NIL, parent |-> p, height |-> 0]
Idle == [kind |-> "none", key |-> NIL, at |-> NIL]
Status(s) == [status |-> s]

Less(a, b) == Hash[a] < Hash[b] \/ (Hash[a] = Hash[b] /\ a < b)

-----------------------------------------------------------------------------
(* Heights and rotations *)

Height(n, k) == IF k = NIL THEN 0 ELSE n[k].height + 1
EvalHeight(n, k) == Max({Height(n, n[k].left), Height(n, n[k].right)})
BalanceFactor(n, k) == IF k = NIL THEN 0 ELSE Height(n, n[k].right) - Height(n, n[k].left)
UpdateHeight(n, k) == [n EXCEPT ![k].height = EvalHeight(n, k)]

SetParent(n, k, p) == IF k = NIL THEN n ELSE [n EXCEPT ![k].parent = p]

\* The parent of a node that moves away gets another child in its place.
Redirect(n, p, old, new) ==
  CASE p = NIL           -> n
    [] n[p].left = old   -> [n EXCEPT ![p].left = new]
    [] OTHER             -> [n EXCEPT ![p].right = new]

\* Mutant: the subtree that changes sides keeps its old parent.
RotateOrphan(n, r, s) ==
  LET up    == n[r][s]
      moved == n[up][Other(s)]
      p     == n[r].parent
      links == [n EXCEPT ![r][s] = moved, ![up][Other(s)] = r, ![up].parent = p, ![r].parent = up]
  IN UpdateHeight(UpdateHeight(Redirect(links, p, r, up), r), up)

\* right_rotate for s = "left", left_rotate for s = "right": the child on side
\* s takes the place of r.
Rotate(n, r, s) ==
  LET up    == n[r][s]
      moved == n[up][Other(s)]
      p     == n[r].parent
      links == [n EXCEPT ![r][s] = moved, ![up][Other(s)] = r, ![up].parent = p, ![r].parent = up]
      nodes == SetParent(Redirect(links, p, r, up), moved, r)
  IN UpdateHeight(UpdateHeight(nodes, r), up)

\* left_right_rotate and right_left_rotate.
DoubleRotate(n, r, s) == Rotate(Rotate(n, n[r][s], Other(s)), r, s)

\* The side on which r is too deep, if any.
Deep(n, r) == {s \in Sides : Height(n, n[r][s]) > Height(n, n[r][Other(s)]) + 1}

\* Whether one rotation is enough: the child does not lean the other way.
Single(n, r, s) ==
  LET c == n[r][s] IN Height(n, n[c][s]) >= Height(n, n[c][Other(s)])

BalanceNode(n, r) ==
  IF Deep(n, r) = {} THEN UpdateHeight(n, r)
  ELSE LET s == CHOOSE s \in Deep(n, r) : TRUE
       IN IF Single(n, r, s) THEN Rotate(n, r, s) ELSE DoubleRotate(n, r, s)

\* The node that stands where r stood.
BalancedRoot(n, r) ==
  IF Deep(n, r) = {} THEN r
  ELSE LET s == CHOOSE s \in Deep(n, r) : TRUE
           c == n[r][s]
       IN IF Single(n, r, s) THEN c ELSE n[c][Other(s)]

-----------------------------------------------------------------------------
(* Searches *)

RECURSIVE NodeFind(_, _, _)
NodeFind(n, r, k) ==
  IF r = NIL THEN NIL
  ELSE IF Less(k, r) THEN NodeFind(n, n[r].left, k)
  ELSE IF Less(r, k) THEN NodeFind(n, n[r].right, k)
  ELSE r

\* The last node not behind k; best is *result.
RECURSIVE NodeFindLowerBound(_, _, _, _)
NodeFindLowerBound(n, r, k, best) ==
  IF r = NIL THEN best
  ELSE IF Less(k, r) THEN NodeFindLowerBound(n, n[r].left, k, best)
  ELSE IF Less(r, k) THEN NodeFindLowerBound(n, n[r].right, k, r)
  ELSE r

RECURSIVE NodeFindUpperBound(_, _, _, _)
NodeFindUpperBound(n, r, k, best) ==
  IF r = NIL THEN best
  ELSE IF Less(k, r) THEN NodeFindUpperBound(n, n[r].left, k, r)
  ELSE IF Less(r, k) THEN NodeFindUpperBound(n, n[r].right, k, best)
  ELSE r

\* min_node and node_minimum for "left", max_node for "right".
RECURSIVE Outermost(_, _, _)
Outermost(n, r, s) ==
  IF r = NIL \/ n[r][s] = NIL THEN r ELSE Outermost(n, n[r][s], s)

\* The first ancestor of r that is behind k.
RECURSIVE AncestorBehind(_, _, _)
AncestorBehind(n, r, k) ==
  IF n[r].parent = NIL THEN NIL
  ELSE IF Less(k, n[r].parent) THEN n[r].parent
  ELSE AncestorBehind(n, n[r].parent, k)

NextNode(n, k) ==
  IF n[k].right # NIL THEN Outermost(n, n[k].right, "left") ELSE AncestorBehind(n, k, k)

\* Where node_insert links a new node: the last node on the search path.
RECURSIVE InsertionPoint(_, _, _)
InsertionPoint(n, r, k) ==
  LET s == IF Less(k, r) THEN "left" ELSE "right"
  IN IF n[r][s] = NIL THEN <<r, s>> ELSE InsertionPoint(n, n[r][s], k)

-----------------------------------------------------------------------------
(* Operations *)

Init ==
  /\ root = NIL
  /\ node = [k \in {} |-> NodeAlloc(NIL)]
  /\ op = Idle
  /\ removed = {}
  /\ result = Status("OK")

Has(k) == NodeFind(node, root, k) # NIL

InsertFirst(k) ==
  /\ root = NIL
  /\ root' = k
  /\ node' = [x \in {k} |-> NodeAlloc(NIL)]
  /\ op' = [kind |-> "insert", key |-> k, at |-> NIL]

InsertLeaf(k) ==
  /\ root # NIL
  /\ LET place == InsertionPoint(node, root, k)
         p     == place[1]
         with  == [x \in DOMAIN node \cup {k} |-> IF x = k THEN NodeAlloc(p) ELSE node[x]]
     IN /\ node' = [with EXCEPT ![p][place[2]] = k]
        /\ op' = [kind |-> "insert", key |-> k, at |-> p]
  /\ UNCHANGED root

Insert(k) ==
  /\ op = Idle
  /\ ~Has(k)
  /\ InsertFirst(k) \/ InsertLeaf(k)
  /\ UNCHANGED <<removed, result>>

InsertExisting(k) ==
  /\ op = Idle
  /\ Has(k)
  /\ removed' = {}
  /\ result' = Status("ALREADY_EXISTS")
  /\ UNCHANGED <<root, node, op>>

\* Without memory for the node.  kefir_hashtree_insert does not look at the
\* first node of a tree: it goes on with a null root and returns KEFIR_OK.
InsertFails(k) ==
  /\ MayFail
  /\ op = Idle
  /\ ~Has(k)
  /\ \/ /\ root # NIL
        /\ removed' = {}
        /\ result' = Status("MEMALLOC_FAILURE")
        /\ UNCHANGED op
     \/ /\ root = NIL
        /\ FirstMayFail
        /\ op' = [kind |-> "insert", key |-> k, at |-> NIL]
        /\ UNCHANGED <<removed, result>>
  /\ UNCHANGED <<root, node>>

\* What takes the place of a removed node: its only child, or the first node of
\* its right branch.
Replacement(n, k) ==
  IF n[k].left # NIL /\ n[k].right # NIL THEN Outermost(n, n[k].right, "left")
  ELSE IF n[k].left # NIL THEN n[k].left ELSE n[k].right

\* Where the rebalancing starts.
LowestModified(n, k) ==
  LET repl == Replacement(n, k)
  IN IF n[k].left = NIL \/ n[k].right = NIL THEN n[k].parent
     ELSE IF n[repl].parent = k THEN repl ELSE n[repl].parent

\* The replacement takes over both branches, and leaves its own right branch to
\* its parent.
Adopted(n, k) ==
  LET repl == Replacement(n, k)
      low  == n[repl].parent
      l    == SetParent([n EXCEPT ![repl].left = n[k].left], n[k].left, repl)
      rest == SetParent([l EXCEPT ![low].left = n[repl].right], n[repl].right, low)
  IN IF n[k].left = NIL \/ n[k].right = NIL THEN n
     ELSE IF low = k THEN l
     ELSE SetParent([rest EXCEPT ![repl].right = n[k].right], n[k].right, repl)

Unlinked(n, k) ==
  LET p     == n[k].parent
      repl  == Replacement(n, k)
      nodes == Redirect(SetParent(Adopted(n, k), repl, p), p, k, repl)
  IN Restrict(IF n[k].left = NIL \/ n[k].right = NIL THEN nodes ELSE UpdateHeight(nodes, repl),
              DOMAIN n \ {k})

Delete(k) ==
  /\ op = Idle
  /\ Has(k)
  /\ node' = Unlinked(node, k)
  /\ root' = IF node[k].parent = NIL THEN Replacement(node, k) ELSE root
  /\ op' = [kind |-> "delete", key |-> k, at |-> LowestModified(node, k)]
  /\ UNCHANGED <<removed, result>>

DeleteMissing(k) ==
  /\ op = Idle
  /\ ~Has(k)
  /\ removed' = {}
  /\ result' = Status("NOT_FOUND")
  /\ UNCHANGED <<root, node, op>>

\* One call of balance_node on the way up.
Balance ==
  /\ op.at # NIL
  /\ LET r == BalancedRoot(node, op.at)
     IN /\ node' = BalanceNode(node, op.at)
        /\ root' = IF root = op.at THEN r ELSE root
        /\ op' = [op EXCEPT !.at = node'[r].parent]
  /\ UNCHANGED <<removed, result>>

\* Mutant: the removal callback is not called.
FinishSilent ==
  /\ op.kind \in {"insert", "delete"}
  /\ op.at = NIL
  /\ op' = Idle
  /\ removed' = {}
  /\ result' = Status("OK")
  /\ UNCHANGED <<root, node>>

Finish ==
  /\ op.kind \in {"insert", "delete"}
  /\ op.at = NIL
  /\ op' = Idle
  /\ removed' = IF op.kind = "delete" THEN {<<op.key, op.key>>} ELSE {}
  /\ result' = Status("OK")
  /\ UNCHANGED <<root, node>>

\* kefir_hashtree_clean and kefir_hashtree_free.
Clean ==
  /\ op = Idle
  /\ root' = NIL
  /\ node' = [k \in {} |-> NodeAlloc(NIL)]
  /\ removed' = {<<k, k>> : k \in DOMAIN node}
  /\ result' = Status("OK")
  /\ UNCHANGED op

At(k) ==
  /\ op = Idle
  /\ removed' = {}
  /\ result' = IF Has(k) THEN [status |-> "OK", value |-> k] ELSE Status("NOT_FOUND")
  /\ UNCHANGED <<root, node, op>>

Next ==
  \/ \E k \in Key : \/ Insert(k) \/ InsertExisting(k) \/ InsertFails(k)
                    \/ Delete(k) \/ DeleteMissing(k) \/ At(k)
  \/ Balance
  \/ Finish
  \/ Clean

Spec == Init /\ [][Next]_vars
-----------------------------------------------------------------------------
(* Properties *)

\* Links, the root and the node to balance next are null or lead to an
\* allocated node, never to a freed one.
TypeOK ==
  LET Link == DOMAIN node \cup {NIL}
  IN /\ DOMAIN node \subseteq Key
     /\ \A k \in DOMAIN node : node[k] \in [left : Link, right : Link, parent : Link, height : Nat]
     /\ root \in Link
     /\ op \in [kind : {"none", "insert", "delete"}, key : Key \cup {NIL}, at : Link]

\* Links down and links up agree after every rotation and every removal, and
\* no node is lost: deletion never meets the "Malformed binary tree" of
\* kefir_hashtree_delete, and parent pointers lead to the root.
LinksAgree ==
  /\ root # NIL => node[root].parent = NIL
  /\ \A k \in DOMAIN node :
       /\ \A s \in Sides : node[k][s] # NIL => node[node[k][s]].parent = k
       /\ node[k].parent # NIL => \E s \in Sides : node[node[k].parent][s] = k
  /\ \A k \in DOMAIN node : NodeFind(node, root, k) = k

\* Between operations every height is exact and no node leans by more than one
\* level: what the assertions at the start of each operation rely on.
Balanced ==
  op = Idle => \A k \in DOMAIN node : /\ node[k].height = EvalHeight(node, k)
                                      /\ BalanceFactor(node, k) \in -1 .. 1

\* The assertions of balance_node and of the loop in kefir_hashtree_delete: a
\* node is never met with a factor beyond two, and afterwards it and the node
\* that has taken its place are balanced.
BalanceAsserted ==
  [][op.at # NIL => /\ BalanceFactor(node, op.at) \in -2 .. 2
                    /\ BalanceFactor(node', op.at) \in -1 .. 1
                    /\ BalanceFactor(node', BalancedRoot(node, op.at)) \in -1 .. 1]_vars

Before(k) == {x \in DOMAIN node : Less(x, k) \/ x = k}
After(k) == {x \in DOMAIN node : Less(k, x) \/ x = k}
Last(S) == IF S = {} THEN NIL ELSE CHOOSE x \in S : \A y \in S : y = x \/ Less(y, x)
First(S) == IF S = {} THEN NIL ELSE CHOOSE x \in S : \A y \in S : y = x \/ Less(x, y)

\* Every search answers what the set of keys says: exact lookups, the bounds on
\* both sides (token buffers find the chunk of an index by the lower bound), the
\* extremes, and the successor that iteration follows up the parent links.
SearchExact ==
  /\ \A k \in Key :
       /\ (NodeFind(node, root, k) # NIL) <=> (k \in DOMAIN node)
       /\ NodeFindLowerBound(node, root, k, NIL) = Last(Before(k))
       /\ NodeFindUpperBound(node, root, k, NIL) = First(After(k))
  /\ Outermost(node, root, "left") = First(DOMAIN node)
  /\ Outermost(node, root, "right") = Last(DOMAIN node)
  /\ \A k \in DOMAIN node : NextNode(node, k) = First(After(k) \ {k})

\* An insertion that returns KEFIR_OK has put its key in the tree.
InsertedIsFound ==
  [][op.kind = "insert" /\ op' = Idle => NodeFind(node', root', op.key) # NIL]_vars

\* An operation takes effect when it returns.
Visible ==
  LET found == {k \in Key : Has(k)}
  IN CASE op.kind = "insert" -> found \ {op.key}
       [] op.kind = "delete" -> found \cup {op.key}
       [] OTHER              -> found

OrderedMap == INSTANCE Map WITH Value <- Key, map <- [k \in Visible |-> k]

\* The tree implements the map of Map.tla: no insertion is lost, no deletion
\* takes another key with it, the removal callback sees exactly what leaves.
IsMap == OrderedMap!MapSpec
=============================================================================
