------------------------------ MODULE OrderedTree ------------------------------
(***************************************************************************)
(* What the card tree promises to the scripts: an ordered tree under an    *)
(* invisible root, in which a node is appended after its siblings and      *)
(* removed with everything below it, the others keeping their order.       *)
(***************************************************************************)
EXTENDS SequencesExt

CONSTANTS
  Nodes,  \* the nodes there can be
  Root    \* the invisible root

VARIABLE kids  \* the children of each node

Present == UNION {ToSet(s) : s \in Range(kids)}

\* The least set of nodes that has n and all children of what it has.
Closed(S) == \A p \in S : ToSet(kids[p]) \subseteq S

Family(n) ==
  {m \in Nodes \cup {Root} :
     \A S \in SUBSET (Nodes \cup {Root}) : n \in S /\ Closed(S) => m \in S}

Without(n) ==
  LET gone == Family(n)
  IN [p \in DOMAIN kids |->
        IF p \in gone THEN <<>> ELSE RemoveFirst(kids[p], n)]

Appends(p, n) ==
  /\ p \in Present \cup {Root} /\ n \notin Present
  /\ kids' = [kids EXCEPT ![p] = Append(@, n)]

Removes(n) ==
  /\ n \in Present \cup {Root}
  /\ kids' = Without(n)

TreeInit == kids = [p \in Nodes \cup {Root} |-> <<>>]

TreeNext ==
  \E n \in Nodes \cup {Root} :
    \/ \E p \in Nodes \cup {Root} : Appends(p, n) /\ n # Root
    \/ Removes(n)

TreeSpec == TreeInit /\ [][TreeNext]_kids
===============================================================================
