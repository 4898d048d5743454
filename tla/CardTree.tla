------------------------------- MODULE CardTree -------------------------------
(***************************************************************************)
(* The tree that scripts build and the card view shows: the nodes that     *)
(* dyntree_model.c links, with the numbers it caches in them, the rows     *)
(* that the view keeps from the row_inserted and row_deleted signals (it   *)
(* knows no more than their paths), and the loops of a script over         *)
(* nodes.children() and nodes.find(), which hold the node that comes next. *)
(*                                                                         *)
(* Of the attributes of a node a search only tells whether they match.     *)
(***************************************************************************)
EXTENDS Integers, FiniteSets, SequencesExt

CONSTANTS
  Nodes,    \* memory for nodes
  Null,     \* no node: in a link, the end; as a parent, the invisible root
  Nothing   \* no removal, no loop

ASSUME TreeAssumption ==
  IsFiniteSet(Nodes) /\ Null \notin Nodes /\ Nothing \notin Nodes \cup {Null}

VARIABLES
  alive,                        \* the nodes that are allocated
  root,                         \* ctm->root
  parent, prev, next, children, \* the links of a node
  sibling_index, n_children,    \* what it caches of its place
  matches,                      \* what a search says of its attributes
  rows,                         \* the rows of the view below each of its rows
  removing,                     \* the node being removed, Null for all of them
  loop                          \* the loop the script is in

links == <<root, parent, prev, next, children>>
cached == <<sibling_index, n_children>>
vars == <<alive, links, cached, matches, rows, removing, loop>>

Places == Nodes \cup {Null}

Init ==
  /\ alive = {} /\ root = Null
  /\ parent = [n \in Nodes |-> Null] /\ prev = [n \in Nodes |-> Null]
  /\ next = [n \in Nodes |-> Null] /\ children = [n \in Nodes |-> Null]
  /\ sibling_index = [n \in Nodes |-> 0] /\ n_children = [n \in Nodes |-> 0]
  /\ matches = [n \in Nodes |-> FALSE]
  /\ rows = [p \in Places |-> <<>>]
  /\ removing = Nothing /\ loop = Nothing

-------------------------------------------------------------------------------
(***************************************************************************)
(* Ways through the links, no longer than there are nodes.                 *)
(***************************************************************************)
Depth == Cardinality(Nodes)

FirstOf(p) == IF p = Null THEN root ELSE children[p]

Chain[k \in Nat] ==
  [n \in Places |->
     IF n = Null \/ k = 0 THEN <<>> ELSE <<n>> \o Chain[k - 1][next[n]]]

Siblings(p) == Chain[Depth][FirstOf(p)]

\* dyntree_model_get_path(), get_iter() and iter_nth_child().
PathUp[k \in Nat] ==
  [n \in Places |->
     IF n = Null \/ k = 0 THEN <<>>
     ELSE Append(PathUp[k - 1][parent[n]], sibling_index[n])]

PathOf(n) == PathUp[Depth][n]

NthOf(list, i) == IF i \in 0..(Len(list) - 1) THEN list[i + 1] ELSE Nothing

\* The node that a path leads to, through the lists of children.
Follow(path, lists) ==
  LET at[k \in Nat] ==
        IF k = 0 THEN Null
        ELSE IF at[k - 1] = Nothing THEN Nothing
        ELSE NthOf(lists[at[k - 1]], path[k])
  IN  at[Len(path)]

GetIter(path) == Follow(path, [p \in Places |-> Siblings(p)])

\* A node and those it is below of, up to the invisible root.
Lineage[k \in Nat] ==
  [n \in Places |->
     IF n = Null \/ k = 0 THEN {Null} ELSE {n} \cup Lineage[k - 1][parent[n]]]

\* The nodes below n, and n.
Family(n) == {m \in alive : n \in Lineage[Depth][m]}

FirstLeaf[k \in Nat] ==
  [n \in Places |->
     IF k = 0 \/ FirstOf(n) = Null THEN n ELSE FirstLeaf[k - 1][FirstOf(n)]]

-------------------------------------------------------------------------------
(***************************************************************************)
(* The view resolves the path of a signal in the rows it has.              *)
(***************************************************************************)
RowAt(path) == Follow(path, rows)

RowInserted(path, n) ==
  LET p == RowAt(Front(path)) i == Last(path) + 1
  IN IF p # Nothing /\ i \in 1..(Len(rows[p]) + 1)
     THEN rows' = [rows EXCEPT ![p] = InsertAt(@, i, n)]
     ELSE UNCHANGED rows

RowDeleted(path) ==
  LET p == RowAt(Front(path)) i == Last(path) + 1
  IN IF RowAt(path) # Nothing
     THEN rows' = [rows EXCEPT ![p] = RemoveAt(@, i), ![RowAt(path)] = <<>>]
     ELSE UNCHANGED rows

-------------------------------------------------------------------------------
(***************************************************************************)
(* dyntree_model_iter_append(): the new node n is the last child of p.     *)
(***************************************************************************)
LinkAfter(last, p, n) ==
  /\ parent' = [parent EXCEPT ![n] = p]
  /\ prev' = [prev EXCEPT ![n] = last]
  /\ next' = [m \in Nodes |-> IF m = last THEN n ELSE IF m = n THEN Null ELSE next[m]]
  /\ root' = IF p = Null /\ last = Null THEN n ELSE root
  /\ children' = [m \in Nodes |->
       IF m = p /\ last = Null THEN n ELSE IF m = n THEN Null ELSE children[m]]
  /\ sibling_index' = [sibling_index EXCEPT ![n] =
       IF last = Null THEN 0 ELSE sibling_index[last] + 1]
  /\ n_children' = [m \in Nodes |->
       IF m = p THEN IF last = Null THEN 1 ELSE n_children[m] + 1
       ELSE IF m = n THEN 0 ELSE n_children[m]]

\* Mistake: the siblings are not walked to their end.
LinkAfterFirst(p, n) == LinkAfter(FirstOf(p), p, n)

LinkLast(p, n) ==
  LinkAfter(IF FirstOf(p) = Null THEN Null ELSE Last(Siblings(p)), p, n)

Appends(p, n) ==
  /\ removing = Nothing
  /\ p \in alive \cup {Null} /\ n \in Nodes \ alive
  /\ alive' = alive \cup {n}
  /\ LinkLast(p, n)
  /\ \E match \in BOOLEAN : matches' = [matches EXCEPT ![n] = match]
  /\ RowInserted(PathOf(n)', n)
  /\ UNCHANGED <<removing, loop>>

-------------------------------------------------------------------------------
(***************************************************************************)
(* internal_dyntree_model_iter_remove(): children first, and a signal for  *)
(* each node once it is gone, with the path it had before.                 *)
(***************************************************************************)
UnlinkAs(n, prevs) ==
  /\ root' = IF prev[n] = Null /\ parent[n] = Null THEN next[n] ELSE root
  /\ children' = [m \in Nodes |->
       IF prev[n] = Null /\ m = parent[n] THEN next[n] ELSE children[m]]
  /\ next' = [m \in Nodes |->
       IF m = prev[n] THEN next[n] ELSE IF m = n THEN Null ELSE next[m]]
  /\ prev' = prevs
  /\ parent' = [parent EXCEPT ![n] = Null]

\* Mistake: the node that followed is not told.
UnlinkOneWay(n) == UnlinkAs(n, [prev EXCEPT ![n] = Null])

Unlink(n) ==
  UnlinkAs(n, [m \in Nodes |->
                 IF m = next[n] THEN prev[n] ELSE IF m = n THEN Null ELSE prev[m]])

\* dyntree_model_node_reindex_from_parent(), once the node n is unlinked.
Renumbered(n, list) ==
  [m \in Nodes |->
     IF m = n THEN 0
     ELSE IF m \in ToSet(list) THEN SelectInSeq(list, LAMBDA x : x = m) - 1
     ELSE sibling_index[m]]

Recounted(p, list) == [m \in Nodes |-> IF m = p THEN Len(list) ELSE n_children[m]]

\* Mistake: the siblings are numbered, but not counted.
ReindexUncounted(n, p) ==
  sibling_index' = Renumbered(n, Siblings(p)') /\ UNCHANGED n_children

\* Mistake: they are counted and keep their numbers.
ReindexUnnumbered(n, p) ==
  UNCHANGED sibling_index /\ n_children' = Recounted(p, Siblings(p)')

Reindex(n, p) ==
  sibling_index' = Renumbered(n, Siblings(p)') /\ n_children' = Recounted(p, Siblings(p)')

\* The node that a loop holds is not among those removed: no script may do that.
NotHeld(n) == loop # Nothing => ~loop.more \/ loop.node \notin Family(n)

Removes(n) ==
  /\ removing = Nothing
  /\ n \in alive \cup {Null} /\ NotHeld(n)
  /\ removing' = IF n = Null /\ root = Null THEN Nothing ELSE n
  /\ UNCHANGED <<alive, links, cached, matches, rows, loop>>

\* A loop has no say about nodes that are gone.
Forgets(n) ==
  loop' = IF loop = Nothing THEN loop
          ELSE [loop EXCEPT !.due = @ \ {n}, !.seen = @ \ {n}]

Frees(n, p) ==
  /\ Unlink(n)
  /\ Reindex(n, p)
  /\ RowDeleted(PathOf(n))
  /\ alive' = alive \ {n} /\ matches' = [matches EXCEPT ![n] = FALSE]
  /\ Forgets(n)

RemovesLeaf ==
  /\ removing # Nothing
  /\ \E n \in alive, p \in Places :
       n = FirstLeaf[Depth][removing] /\ p = parent[n] /\ Frees(n, p)
  /\ removing' = IF removing \notin alive' /\ (removing # Null \/ root' = Null)
                 THEN Nothing ELSE removing

-------------------------------------------------------------------------------
(***************************************************************************)
(* dyntree_model_iter_find_first() and find_next(): in document order from *)
(* a node r.                                                               *)
(***************************************************************************)
Climb[k \in Nat] ==
  [r \in Places |-> [n \in Nodes |->
     IF next[n] # Null THEN next[n]
     ELSE IF parent[n] \in {Null, r} \/ k = 0 THEN Null
     ELSE Climb[k - 1][r][parent[n]]]]

\* Mistake: from the last of its siblings the search does not go up.
FollowingLevel(n, r) == IF children[n] # Null THEN children[n] ELSE next[n]

\* Mistake: it goes up to the parent and not past it.
FollowingParent(n, r) ==
  IF children[n] # Null THEN children[n]
  ELSE IF n = r THEN Null
  ELSE IF next[n] # Null THEN next[n] ELSE parent[n]

Following(n, r) ==
  IF children[n] # Null THEN children[n]
  ELSE IF n = r THEN Null
  ELSE Climb[Depth][r][n]

MatchAfter[k \in Nat] ==
  [r \in Places |-> [n \in Nodes |->
     LET m == Following(n, r)
     IN IF m = Null \/ k = 0 THEN Null
        ELSE IF matches[m] THEN m ELSE MatchAfter[k - 1][r][m]]]

\* Without a node the search is from the first one of the tree.
SearchRoot(p) == IF p = Null THEN root ELSE p

FindNext(n, p) == MatchAfter[Depth][SearchRoot(p)][n]

FindFirst(p) ==
  IF SearchRoot(p) = Null THEN Null
  ELSE IF matches[SearchRoot(p)] THEN SearchRoot(p)
  ELSE FindNext(SearchRoot(p), p)

-------------------------------------------------------------------------------
(***************************************************************************)
(* for n in nodes.children(p), for n in nodes.find(p, ...): the iterator   *)
(* gives the node it holds and at once looks for the next one, before the  *)
(* body of the loop does anything.  due and seen are not in the code: the  *)
(* nodes to be visited when the loop began, and those that were.           *)
(***************************************************************************)
LoopOver(kind, p, first, due) ==
  loop' = [kind |-> kind, of |-> p, node |-> first, more |-> first # Null,
           due |-> due, seen |-> {}]

StartsChildren(p) ==
  /\ removing = Nothing /\ loop = Nothing /\ p \in alive \cup {Null}
  /\ LoopOver("children", p, FirstOf(p), ToSet(Siblings(p)))
  /\ UNCHANGED <<alive, links, cached, matches, rows, removing>>

StartsFind(p) ==
  /\ removing = Nothing /\ loop = Nothing /\ p \in alive \cup {Null}
  /\ LoopOver("find", p, FindFirst(p), {m \in Family(p) : matches[m]})
  /\ UNCHANGED <<alive, links, cached, matches, rows, removing>>

Yields ==
  /\ removing = Nothing /\ loop # Nothing /\ loop.more
  /\ LET following == IF loop.kind = "children" THEN next[loop.node]
                      ELSE FindNext(loop.node, loop.of)
     IN loop' = [loop EXCEPT !.node = IF following = Null THEN @ ELSE following,
                             !.more = following # Null,
                             !.due = @ \ {loop.node}, !.seen = @ \cup {loop.node}]
  /\ UNCHANGED <<alive, links, cached, matches, rows, removing>>

\* The loop is over, or is left with a break.
Leaves ==
  /\ removing = Nothing /\ loop # Nothing
  /\ loop' = Nothing
  /\ UNCHANGED <<alive, links, cached, matches, rows, removing>>

-------------------------------------------------------------------------------
Next ==
  \/ \E p \in Places : \/ \E n \in Nodes : Appends(p, n)
                       \/ Removes(p) \/ StartsChildren(p) \/ StartsFind(p)
  \/ RemovesLeaf \/ Yields \/ Leaves

Spec == Init /\ [][Next]_vars

-------------------------------------------------------------------------------
\* Links lead to nodes that are there, never to one that was freed.
TreeTypeOK ==
  /\ alive \subseteq Nodes /\ root \in alive \cup {Null}
  /\ \A link \in {parent, prev, next, children} :
       link \in [Nodes -> Places] /\ \A n \in alive : link[n] \in alive \cup {Null}
  /\ sibling_index \in [Nodes -> Nat] /\ n_children \in [Nodes -> Nat]
  /\ matches \in [Nodes -> BOOLEAN] /\ rows \in [Places -> Seq(Nodes)]
  /\ removing \in alive \cup {Null, Nothing}
  /\ loop # Nothing =>
       /\ loop.kind \in {"children", "find"} /\ loop.of \in Places
       /\ loop.more => loop.node \in alive
       /\ loop.due \subseteq alive /\ loop.seen \subseteq alive

\* After each signal, also in the middle of a removal, the view has the rows
\* that the tree has, in their order.
ViewMirrors == \A p \in alive \cup {Null} : rows[p] = Siblings(p)

\* The numbers cached in the nodes are right: a path leads back to its node and
\* a node has as many children as it says.
IndexesRight ==
  \A n \in alive : GetIter(PathOf(n)) = n /\ n_children[n] = Len(Siblings(n))

\* A loop visits every child, or every match below its node, that was there
\* when it began and is still there, whatever its body appends and removes: but
\* for a search without a node, which sees the first top-level node only.
LoopMissesNone ==
  loop # Nothing /\ ~loop.more /\ ~(loop.kind = "find" /\ loop.of = Null) => loop.due = {}

\* No node is visited twice.
LoopVisitsOnce == [][Yields => loop.node \notin loop.seen]_vars

(***************************************************************************)
(* The nodes that are being removed are gone for the scripts at once.      *)
(***************************************************************************)
Remaining ==
  LET doomed == IF removing = Nothing THEN {}
                ELSE IF removing = Null THEN Places
                ELSE Family(removing)
  IN [p \in Places |->
        IF p \in doomed \/ p \notin alive \cup {Null} THEN <<>>
        ELSE RemoveFirst(Siblings(p), removing)]

Promise == INSTANCE OrderedTree WITH Root <- Null, kids <- Remaining

\* The tree is the ordered tree that its scripts expect.
KeepsPromise == Promise!TreeSpec
===============================================================================
