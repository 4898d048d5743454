---------------------------- MODULE CardTreeProofs ----------------------------
(***************************************************************************)
(* The card tree of CardTree for any number of nodes: its links lead to    *)
(* nodes that are there, the view shows the rows it has, the numbers it    *)
(* caches are right, and the loops of a script miss no node and visit none *)
(* twice.  The rows of the view are lists; the invariant says that the     *)
(* links thread these lists, and that from each node the parents lead up   *)
(* to the invisible root, which bounds all the ways through the links.     *)
(***************************************************************************)
EXTENDS CardTree, SequenceTheorems, FiniteSetTheorems, WellFoundedInduction, TLAPS

-------------------------------------------------------------------------------
(***************************************************************************)
(* The inductive invariant.                                                *)
(***************************************************************************)
Living == alive \cup {Null}

Item(list, i) == IF i \in 1..Len(list) THEN list[i] ELSE Null

Loops ==
  [kind : {"children", "find"}, of : Places, node : Places, more : BOOLEAN,
   due : SUBSET Nodes, seen : SUBSET Nodes]

Typed ==
  /\ alive \subseteq Nodes /\ root \in Places
  /\ parent \in [Nodes -> Places] /\ prev \in [Nodes -> Places]
  /\ next \in [Nodes -> Places] /\ children \in [Nodes -> Places]
  /\ sibling_index \in [Nodes -> Nat] /\ n_children \in [Nodes -> Nat]
  /\ matches \in [Nodes -> BOOLEAN] /\ rows \in [Places -> Seq(Nodes)]
  /\ removing \in alive \cup {Null, Nothing} /\ loop \in Loops \cup {Nothing}

\* The links thread the rows of the view.
Headed == \A p \in Living : FirstOf(p) = Item(rows[p], 1)

Linked ==
  \A p \in Living : \A i \in 1..Len(rows[p]) :
    LET n == rows[p][i]
    IN /\ n \in alive /\ parent[n] = p /\ sibling_index[n] = i - 1
       /\ next[n] = Item(rows[p], i + 1) /\ prev[n] = Item(rows[p], i - 1)

\* Every node is in its place, and counts the rows below it.
Placed ==
  \A n \in alive :
    /\ parent[n] \in Living
    /\ Item(rows[parent[n]], sibling_index[n] + 1) = n
    /\ n_children[n] = Len(rows[n])

Unused == \A n \in Nodes \ alive : rows[n] = <<>>

\* above[n] are the nodes from n up to the invisible root, which is reached.
Rooted(above) ==
  /\ above \in [Places -> SUBSET alive] /\ above[Null] = {}
  /\ \A n \in alive :
       /\ above[n] = above[parent[n]] \cup {n} /\ n \notin above[parent[n]]
       /\ \A a \in above[n] :
            /\ above[a] \subseteq above[n]
            /\ a = n \/ \E c \in above[n] : parent[c] = a
            /\ \A b \in above[n] : a \in above[b] \/ b \in above[a]

\* Document order.
Before(m, n, above) ==
  \/ m \in above[n] /\ m # n
  \/ \E a \in above[m], b \in above[n] :
       parent[a] = parent[b] /\ sibling_index[a] < sibling_index[b]

\* What a loop that goes on has seen is behind it and what it is due is ahead.
ChildrenLoop ==
  /\ parent[loop.node] = loop.of
  /\ \A m \in loop.due :
       parent[m] = loop.of /\ sibling_index[loop.node] <= sibling_index[m]
  /\ \A m \in loop.seen :
       parent[m] = loop.of /\ sibling_index[m] < sibling_index[loop.node]

FindLoop(above) ==
  /\ loop.of # Null =>
       \A m \in loop.due :
         /\ loop.of \in above[m] /\ matches[m]
         /\ m = loop.node \/ Before(loop.node, m, above)
  /\ \A m \in loop.seen : Before(m, loop.node, above)

Looping(above) ==
  loop # Nothing =>
    /\ loop.due \subseteq alive /\ loop.seen \subseteq alive
    /\ loop.more =>
         /\ loop.node \in alive
         /\ removing # Nothing => removing \in alive /\ removing \notin above[loop.node]
         /\ loop.kind = "children" => ChildrenLoop
         /\ loop.kind = "find" => FindLoop(above)
    /\ ~loop.more => LoopMissesNone

Grown(above) ==
  Headed /\ Linked /\ Placed /\ Unused /\ Rooted(above)

TreeInv == Typed /\ \E above : Grown(above) /\ Looping(above)

-------------------------------------------------------------------------------
(***************************************************************************)
(* Induction over the naturals, for a set, and the functions it defines.   *)
(***************************************************************************)
LEMMA NatSetInduction ==
  ASSUME NEW S, 0 \in S, \A n \in Nat : n \in S => n + 1 \in S
  PROVE  \A n \in Nat : n \in S
<1> DEFINE T == {n \in Nat : n \notin S}
           R == OpToRel(<, Nat)
<1>1. SUFFICES ASSUME T # {} PROVE FALSE
  OBVIOUS
<1>2. IsWellFoundedOn(R, Nat)
  BY NatLessThanWellFounded
<1>3. PICK x \in T : \A y \in T : ~ (<<y, x>> \in R)
  <2> HIDE DEF R
  <2> QED
    BY <1>1, <1>2, WFMin
<1>4. x # 0 /\ x \in Nat /\ x - 1 \in Nat /\ x - 1 + 1 = x
  OBVIOUS
<1>5. x - 1 \in T
  BY <1>4
<1>6. <<x - 1, x>> \in R
  BY <1>4 DEF OpToRel
<1> QED
  BY <1>3, <1>5, <1>6

StepsOn(V) == [Nat -> [V -> V]]

Iterates(f, V, b, g) ==
  f \in [Nat -> V] /\ f[0] = b /\ \A k \in Nat : f[k + 1] = g[k][f[k]]

LEMMA Iteration ==
  ASSUME NEW V, NEW b \in V, NEW g \in StepsOn(V)
  PROVE  \E f : Iterates(f, V, b, g)
<1> USE DEF StepsOn
<1> DEFINE Upto(m, c) ==
             /\ c \in [0..m -> V] /\ c[0] = b
             /\ \A k \in 0..(m - 1) : c[k + 1] = g[k][c[k]]
           The(m) == CHOOSE c : Upto(m, c)
<1>1. ASSUME NEW m \in Nat, NEW c, Upto(m, c), NEW l \in Nat, NEW d, Upto(l, d)
      PROVE  \A j \in Nat : j <= m /\ j <= l => c[j] = d[j]
  <2> DEFINE S == {j \in Nat : j <= m /\ j <= l => c[j] = d[j]}
  <2>1. 0 \in S
    BY <1>1
  <2>2. ASSUME NEW j \in Nat, j \in S PROVE j + 1 \in S
    BY <1>1, <2>2
  <2>3. \A j \in Nat : j \in S
    <3> HIDE DEF S
    <3> QED
      BY <2>1, <2>2, NatSetInduction
  <2> QED
    BY <2>3
<1>2. \A m \in Nat : Upto(m, The(m))
  <2> DEFINE S == {m \in Nat : \E c : Upto(m, c)}
  <2>1. 0 \in S
    <3>1. Upto(0, [j \in 0..0 |-> b])
      OBVIOUS
    <3> QED
      BY <3>1
  <2>2. ASSUME NEW m \in Nat, m \in S PROVE m + 1 \in S
    <3>1. PICK c : Upto(m, c)
      BY <2>2
    <3> DEFINE d == [j \in 0..(m + 1) |-> IF j = m + 1 THEN g[m][c[m]] ELSE c[j]]
    <3>2. g[m][c[m]] \in V
      BY <3>1
    <3>3. Upto(m + 1, d)
      BY <3>1, <3>2
    <3> HIDE DEF d, Upto
    <3> QED
      BY <3>3
  <2>3. \A m \in Nat : m \in S
    <3> HIDE DEF S
    <3> QED
      BY <2>1, <2>2, NatSetInduction
  <2> QED
    BY <2>3
<1> DEFINE f == [m \in Nat |-> The(m)[m]]
<1>3. f \in [Nat -> V] /\ f[0] = b
  <2> HIDE DEF The
  <2> QED
    BY <1>2
<1>4. ASSUME NEW k \in Nat PROVE f[k + 1] = g[k][f[k]]
  <2> HIDE DEF The
  <2>1. Upto(k, The(k)) /\ Upto(k + 1, The(k + 1)) /\ k + 1 \in Nat
    BY <1>2
  <2>2. The(k)[k] = The(k + 1)[k]
    <3> HIDE DEF Upto
    <3> QED
      BY <1>1, <2>1
  <2>3. The(k + 1)[k + 1] = g[k][The(k + 1)[k]]
    BY <2>1
  <2> QED
    BY <2>2, <2>3
<1>5. Iterates(f, V, b, g)
  <2> HIDE DEF f
  <2> QED
    BY <1>3, <1>4 DEF Iterates
<1> QED
  BY <1>5

LEMMA Stays ==
  ASSUME NEW V, NEW c, c[0] \in V, \A k \in Nat : c[k] \in V => c[k + 1] \in V
  PROVE  \A k \in Nat : c[k] \in V
<1> DEFINE S == {k \in Nat : c[k] \in V}
<1>1. 0 \in S /\ \A k \in Nat : k \in S => k + 1 \in S
  OBVIOUS
<1> HIDE DEF S
<1>2. \A k \in Nat : k \in S
  BY <1>1, NatSetInduction
<1> QED
  BY <1>2 DEF S

-------------------------------------------------------------------------------
(***************************************************************************)
(* The ways through the links, step by step.                               *)
(***************************************************************************)
Chaining(c, nx) ==
  c = [k \in Nat |->
         [n \in Places |-> IF n = Null \/ k = 0 THEN <<>> ELSE <<n>> \o c[k - 1][nx[n]]]]

LEMMA ChainExists ==
  ASSUME NEW nx \in [Nodes -> Places]
  PROVE  \E c : Chaining(c, nx)
<1> DEFINE V == [Places -> Seq(Nodes)]
           b == [n \in Places |-> <<>>]
           g == [k \in Nat |-> [v \in V |->
                   [n \in Places |-> IF n = Null THEN <<>> ELSE <<n>> \o v[nx[n]]]]]
<1>1. b \in V /\ g \in StepsOn(V)
  BY DEF StepsOn, Places
<1>2. PICK f : Iterates(f, V, b, g)
  <2> HIDE DEF V, b, g
  <2> QED
    BY <1>1, Iteration, Zenon
<1> DEFINE e(v, k) ==
             [n \in Places |-> IF n = Null \/ k = 0 THEN <<>> ELSE <<n>> \o v[nx[n]]]
<1>3. \A v : e(v, 0) = b
  OBVIOUS
<1>4. ASSUME NEW k \in Nat, NEW v \in V PROVE e(v, k + 1) = g[k][v]
  <2>1. k + 1 # 0
    OBVIOUS
  <2> HIDE DEF V
  <2> QED
    BY <2>1
<1> HIDE DEF V, b, g, e
<1>5. ASSUME NEW k \in Nat PROVE f[k] = e(f[k - 1], k)
  <2>1. CASE k = 0
    BY <1>2, <1>3, <2>1 DEF Iterates
  <2>2. CASE k # 0
    <3>1. k - 1 \in Nat /\ k = (k - 1) + 1
      BY <2>2
    <3> QED
      BY <1>2, <1>4, <3>1 DEF Iterates
  <2> QED
    BY <2>1, <2>2
<1>6. f = [k \in Nat |-> e(f[k - 1], k)]
  BY <1>2, <1>5 DEF Iterates
<1> QED
  BY <1>6 DEF Chaining, e

Chained(c, nx) ==
  /\ c[0] = [n \in Places |-> <<>>]
  /\ \A k \in Nat : c[k + 1] =
       [n \in Places |-> IF n = Null THEN <<>> ELSE <<n>> \o c[k][nx[n]]]
  /\ \A k \in Nat : c[k] \in [Places -> Seq(Nodes)]

LEMMA ChainSteps ==
  ASSUME NEW nx \in [Nodes -> Places], NEW c, Chaining(c, nx)
  PROVE  Chained(c, nx)
<1> DEFINE e(v, k) ==
             [n \in Places |-> IF n = Null \/ k = 0 THEN <<>> ELSE <<n>> \o v[nx[n]]]
           g(v) ==
             [n \in Places |-> IF n = Null THEN <<>> ELSE <<n>> \o v[nx[n]]]
           V == [Places -> Seq(Nodes)]
<1>1. c = [k \in Nat |-> e(c[k - 1], k)]
  BY DEF Chaining
<1>2. e(c[0 - 1], 0) = [n \in Places |-> <<>>] /\ [n \in Places |-> <<>>] \in V
  BY DEF Places
<1>3. \A k \in Nat : e(c[k], k + 1) = g(c[k])
  <2>1. \A k \in Nat : k + 1 # 0
    OBVIOUS
  <2> QED
    BY <2>1
<1>4. \A v \in V : g(v) \in V
  BY DEF Places
<1> HIDE DEF e, g, V
<1>5. c[0] = e(c[0 - 1], 0) /\ \A k \in Nat : c[k + 1] = e(c[k], k + 1)
  BY <1>1
<1>6. c[0] \in V /\ \A k \in Nat : c[k] \in V => c[k + 1] \in V
  BY <1>2, <1>3, <1>4, <1>5, Zenon
<1>7. \A k \in Nat : c[k] \in V
  BY <1>6, Stays, Zenon
<1> QED
  BY <1>2, <1>3, <1>5, <1>7, Zenon DEF g, V, Chained

Pathing(c, pa, si) ==
  c = [k \in Nat |->
         [n \in Places |-> IF n = Null \/ k = 0 THEN <<>> ELSE Append(c[k - 1][pa[n]], si[n])]]

LEMMA PathExists ==
  ASSUME NEW pa \in [Nodes -> Places], NEW si \in [Nodes -> Nat]
  PROVE  \E c : Pathing(c, pa, si)
<1> DEFINE V == [Places -> Seq(Nat)]
           b == [n \in Places |-> <<>>]
           g == [k \in Nat |-> [v \in V |->
                   [n \in Places |-> IF n = Null THEN <<>> ELSE Append(v[pa[n]], si[n])]]]
<1>1. b \in V /\ g \in StepsOn(V)
  BY DEF StepsOn, Places
<1>2. PICK f : Iterates(f, V, b, g)
  <2> HIDE DEF V, b, g
  <2> QED
    BY <1>1, Iteration, Zenon
<1> DEFINE e(v, k) ==
             [n \in Places |-> IF n = Null \/ k = 0 THEN <<>> ELSE Append(v[pa[n]], si[n])]
<1>3. \A v : e(v, 0) = b
  OBVIOUS
<1>4. ASSUME NEW k \in Nat, NEW v \in V PROVE e(v, k + 1) = g[k][v]
  <2>1. k + 1 # 0
    OBVIOUS
  <2> HIDE DEF V
  <2> QED
    BY <2>1
<1> HIDE DEF V, b, g, e
<1>5. ASSUME NEW k \in Nat PROVE f[k] = e(f[k - 1], k)
  <2>1. CASE k = 0
    BY <1>2, <1>3, <2>1 DEF Iterates
  <2>2. CASE k # 0
    <3>1. k - 1 \in Nat /\ k = (k - 1) + 1
      BY <2>2
    <3> QED
      BY <1>2, <1>4, <3>1 DEF Iterates
  <2> QED
    BY <2>1, <2>2
<1>6. f = [k \in Nat |-> e(f[k - 1], k)]
  BY <1>2, <1>5 DEF Iterates
<1> QED
  BY <1>6 DEF Pathing, e

Pathed(c, pa, si) ==
  /\ c[0] = [n \in Places |-> <<>>]
  /\ \A k \in Nat : c[k + 1] =
       [n \in Places |-> IF n = Null THEN <<>> ELSE Append(c[k][pa[n]], si[n])]
  /\ \A k \in Nat : c[k] \in [Places -> Seq(Nat)]

LEMMA PathSteps ==
  ASSUME NEW pa \in [Nodes -> Places], NEW si \in [Nodes -> Nat], NEW c, Pathing(c, pa, si)
  PROVE  Pathed(c, pa, si)
<1> DEFINE e(v, k) ==
             [n \in Places |-> IF n = Null \/ k = 0 THEN <<>> ELSE Append(v[pa[n]], si[n])]
           g(v) ==
             [n \in Places |-> IF n = Null THEN <<>> ELSE Append(v[pa[n]], si[n])]
           V == [Places -> Seq(Nat)]
<1>1. c = [k \in Nat |-> e(c[k - 1], k)]
  BY DEF Pathing
<1>2. e(c[0 - 1], 0) = [n \in Places |-> <<>>] /\ [n \in Places |-> <<>>] \in V
  BY DEF Places
<1>3. \A k \in Nat : e(c[k], k + 1) = g(c[k])
  <2>1. \A k \in Nat : k + 1 # 0
    OBVIOUS
  <2> QED
    BY <2>1
<1>4. \A v \in V : g(v) \in V
  BY DEF Places
<1> HIDE DEF e, g, V
<1>5. c[0] = e(c[0 - 1], 0) /\ \A k \in Nat : c[k + 1] = e(c[k], k + 1)
  BY <1>1
<1>6. c[0] \in V /\ \A k \in Nat : c[k] \in V => c[k + 1] \in V
  BY <1>2, <1>3, <1>4, <1>5, Zenon
<1>7. \A k \in Nat : c[k] \in V
  BY <1>6, Stays, Zenon
<1> QED
  BY <1>2, <1>3, <1>5, <1>7, Zenon DEF g, V, Pathed

Ancestry(c, pa) ==
  c = [k \in Nat |->
         [n \in Places |-> IF n = Null \/ k = 0 THEN {Null} ELSE {n} \cup c[k - 1][pa[n]]]]

LEMMA LineageExists ==
  ASSUME NEW pa \in [Nodes -> Places]
  PROVE  \E c : Ancestry(c, pa)
<1> DEFINE V == [Places -> SUBSET Places]
           b == [n \in Places |-> {Null}]
           g == [k \in Nat |-> [v \in V |->
                   [n \in Places |-> IF n = Null THEN {Null} ELSE {n} \cup v[pa[n]]]]]
<1>1. b \in V /\ g \in StepsOn(V)
  BY DEF StepsOn, Places
<1>2. PICK f : Iterates(f, V, b, g)
  <2> HIDE DEF V, b, g
  <2> QED
    BY <1>1, Iteration, Zenon
<1> DEFINE e(v, k) ==
             [n \in Places |-> IF n = Null \/ k = 0 THEN {Null} ELSE {n} \cup v[pa[n]]]
<1>3. \A v : e(v, 0) = b
  OBVIOUS
<1>4. ASSUME NEW k \in Nat, NEW v \in V PROVE e(v, k + 1) = g[k][v]
  <2>1. k + 1 # 0
    OBVIOUS
  <2> HIDE DEF V
  <2> QED
    BY <2>1
<1> HIDE DEF V, b, g, e
<1>5. ASSUME NEW k \in Nat PROVE f[k] = e(f[k - 1], k)
  <2>1. CASE k = 0
    BY <1>2, <1>3, <2>1 DEF Iterates
  <2>2. CASE k # 0
    <3>1. k - 1 \in Nat /\ k = (k - 1) + 1
      BY <2>2
    <3> QED
      BY <1>2, <1>4, <3>1 DEF Iterates
  <2> QED
    BY <2>1, <2>2
<1>6. f = [k \in Nat |-> e(f[k - 1], k)]
  BY <1>2, <1>5 DEF Iterates
<1> QED
  BY <1>6 DEF Ancestry, e

Descended(c, pa) ==
  /\ c[0] = [n \in Places |-> {Null}]
  /\ \A k \in Nat : c[k + 1] =
       [n \in Places |-> IF n = Null THEN {Null} ELSE {n} \cup c[k][pa[n]]]
  /\ \A k \in Nat : c[k] \in [Places -> SUBSET Places]

LEMMA LineageSteps ==
  ASSUME NEW pa \in [Nodes -> Places], NEW c, Ancestry(c, pa)
  PROVE  Descended(c, pa)
<1> DEFINE e(v, k) ==
             [n \in Places |-> IF n = Null \/ k = 0 THEN {Null} ELSE {n} \cup v[pa[n]]]
           g(v) ==
             [n \in Places |-> IF n = Null THEN {Null} ELSE {n} \cup v[pa[n]]]
           V == [Places -> SUBSET Places]
<1>1. c = [k \in Nat |-> e(c[k - 1], k)]
  BY DEF Ancestry
<1>2. e(c[0 - 1], 0) = [n \in Places |-> {Null}] /\ [n \in Places |-> {Null}] \in V
  BY DEF Places
<1>3. \A k \in Nat : e(c[k], k + 1) = g(c[k])
  <2>1. \A k \in Nat : k + 1 # 0
    OBVIOUS
  <2> QED
    BY <2>1
<1>4. \A v \in V : g(v) \in V
  BY DEF Places
<1> HIDE DEF e, g, V
<1>5. c[0] = e(c[0 - 1], 0) /\ \A k \in Nat : c[k + 1] = e(c[k], k + 1)
  BY <1>1
<1>6. c[0] \in V /\ \A k \in Nat : c[k] \in V => c[k + 1] \in V
  BY <1>2, <1>3, <1>4, <1>5, Zenon
<1>7. \A k \in Nat : c[k] \in V
  BY <1>6, Stays, Zenon
<1> QED
  BY <1>2, <1>3, <1>5, <1>7, Zenon DEF g, V, Descended

Leafing(c, rt, ch) ==
  c = [k \in Nat |->
         [n \in Places |-> IF k = 0 \/ (IF n = Null THEN rt ELSE ch[n]) = Null THEN n ELSE c[k - 1][IF n = Null THEN rt ELSE ch[n]]]]

LEMMA FirstLeafExists ==
  ASSUME NEW rt \in Places, NEW ch \in [Nodes -> Places]
  PROVE  \E c : Leafing(c, rt, ch)
<1> DEFINE V == [Places -> Places]
           b == [n \in Places |-> n]
           g == [k \in Nat |-> [v \in V |->
                   [n \in Places |-> IF (IF n = Null THEN rt ELSE ch[n]) = Null THEN n ELSE v[IF n = Null THEN rt ELSE ch[n]]]]]
<1>1. b \in V /\ g \in StepsOn(V)
  BY DEF StepsOn, Places
<1>2. PICK f : Iterates(f, V, b, g)
  <2> HIDE DEF V, b, g
  <2> QED
    BY <1>1, Iteration, Zenon
<1> DEFINE e(v, k) ==
             [n \in Places |-> IF k = 0 \/ (IF n = Null THEN rt ELSE ch[n]) = Null THEN n ELSE v[IF n = Null THEN rt ELSE ch[n]]]
<1>3. \A v : e(v, 0) = b
  OBVIOUS
<1>4. ASSUME NEW k \in Nat, NEW v \in V PROVE e(v, k + 1) = g[k][v]
  <2>1. k + 1 # 0
    OBVIOUS
  <2> HIDE DEF V
  <2> QED
    BY <2>1
<1> HIDE DEF V, b, g, e
<1>5. ASSUME NEW k \in Nat PROVE f[k] = e(f[k - 1], k)
  <2>1. CASE k = 0
    BY <1>2, <1>3, <2>1 DEF Iterates
  <2>2. CASE k # 0
    <3>1. k - 1 \in Nat /\ k = (k - 1) + 1
      BY <2>2
    <3> QED
      BY <1>2, <1>4, <3>1 DEF Iterates
  <2> QED
    BY <2>1, <2>2
<1>6. f = [k \in Nat |-> e(f[k - 1], k)]
  BY <1>2, <1>5 DEF Iterates
<1> QED
  BY <1>6 DEF Leafing, e

Leafed(c, rt, ch) ==
  /\ c[0] = [n \in Places |-> n]
  /\ \A k \in Nat : c[k + 1] =
       [n \in Places |-> IF (IF n = Null THEN rt ELSE ch[n]) = Null THEN n ELSE c[k][IF n = Null THEN rt ELSE ch[n]]]
  /\ \A k \in Nat : c[k] \in [Places -> Places]

LEMMA FirstLeafSteps ==
  ASSUME NEW rt \in Places, NEW ch \in [Nodes -> Places], NEW c, Leafing(c, rt, ch)
  PROVE  Leafed(c, rt, ch)
<1> DEFINE e(v, k) ==
             [n \in Places |-> IF k = 0 \/ (IF n = Null THEN rt ELSE ch[n]) = Null THEN n ELSE v[IF n = Null THEN rt ELSE ch[n]]]
           g(v) ==
             [n \in Places |-> IF (IF n = Null THEN rt ELSE ch[n]) = Null THEN n ELSE v[IF n = Null THEN rt ELSE ch[n]]]
           V == [Places -> Places]
<1>1. c = [k \in Nat |-> e(c[k - 1], k)]
  BY DEF Leafing
<1>2. e(c[0 - 1], 0) = [n \in Places |-> n] /\ [n \in Places |-> n] \in V
  BY DEF Places
<1>3. \A k \in Nat : e(c[k], k + 1) = g(c[k])
  <2>1. \A k \in Nat : k + 1 # 0
    OBVIOUS
  <2> QED
    BY <2>1
<1>4. \A v \in V : g(v) \in V
  BY DEF Places
<1> HIDE DEF e, g, V
<1>5. c[0] = e(c[0 - 1], 0) /\ \A k \in Nat : c[k + 1] = e(c[k], k + 1)
  BY <1>1
<1>6. c[0] \in V /\ \A k \in Nat : c[k] \in V => c[k + 1] \in V
  BY <1>2, <1>3, <1>4, <1>5, Zenon
<1>7. \A k \in Nat : c[k] \in V
  BY <1>6, Stays, Zenon
<1> QED
  BY <1>2, <1>3, <1>5, <1>7, ZenonT(60) DEF g, V, Leafed

Climbing(c, nx, pa) ==
  c = [k \in Nat |->
         [r \in Places |-> [n \in Nodes |->
            IF nx[n] # Null THEN nx[n]
            ELSE IF pa[n] \in {Null, r} \/ k = 0 THEN Null
            ELSE c[k - 1][r][pa[n]]]]]

LEMMA ClimbExists ==
  ASSUME NEW nx \in [Nodes -> Places], NEW pa \in [Nodes -> Places]
  PROVE  \E c : Climbing(c, nx, pa)
<1> DEFINE V == [Places -> [Nodes -> Places]]
           b == [r \in Places |-> [n \in Nodes |-> nx[n]]]
           g == [k \in Nat |-> [v \in V |->
                   [r \in Places |-> [n \in Nodes |->
            IF nx[n] # Null THEN nx[n]
            ELSE IF pa[n] \in {Null, r} THEN Null
            ELSE v[r][pa[n]]]]]]
<1>1. b \in V /\ g \in StepsOn(V)
  BY DEF StepsOn, Places
<1>2. PICK f : Iterates(f, V, b, g)
  <2> HIDE DEF V, b, g
  <2> QED
    BY <1>1, Iteration, Zenon
<1> DEFINE e(v, k) ==
             [r \in Places |-> [n \in Nodes |->
            IF nx[n] # Null THEN nx[n]
            ELSE IF pa[n] \in {Null, r} \/ k = 0 THEN Null
            ELSE v[r][pa[n]]]]
<1>3. \A v : e(v, 0) = b
  OBVIOUS
<1>4. ASSUME NEW k \in Nat, NEW v \in V PROVE e(v, k + 1) = g[k][v]
  <2>1. k + 1 # 0
    OBVIOUS
  <2> HIDE DEF V
  <2> QED
    BY <2>1
<1> HIDE DEF V, b, g, e
<1>5. ASSUME NEW k \in Nat PROVE f[k] = e(f[k - 1], k)
  <2>1. CASE k = 0
    BY <1>2, <1>3, <2>1 DEF Iterates
  <2>2. CASE k # 0
    <3>1. k - 1 \in Nat /\ k = (k - 1) + 1
      BY <2>2
    <3> QED
      BY <1>2, <1>4, <3>1 DEF Iterates
  <2> QED
    BY <2>1, <2>2
<1>6. f = [k \in Nat |-> e(f[k - 1], k)]
  BY <1>2, <1>5 DEF Iterates
<1> QED
  BY <1>6 DEF Climbing, e

Climbed(c, nx, pa) ==
  /\ c[0] = [r \in Places |-> [n \in Nodes |-> nx[n]]]
  /\ \A k \in Nat : c[k + 1] =
       [r \in Places |-> [n \in Nodes |->
     IF nx[n] # Null THEN nx[n]
     ELSE IF pa[n] \in {Null, r} THEN Null
     ELSE c[k][r][pa[n]]]]
  /\ \A k \in Nat : c[k] \in [Places -> [Nodes -> Places]]

LEMMA ClimbSteps ==
  ASSUME NEW nx \in [Nodes -> Places], NEW pa \in [Nodes -> Places], NEW c, Climbing(c, nx, pa)
  PROVE  Climbed(c, nx, pa)
<1> DEFINE e(v, k) ==
             [r \in Places |-> [n \in Nodes |->
            IF nx[n] # Null THEN nx[n]
            ELSE IF pa[n] \in {Null, r} \/ k = 0 THEN Null
            ELSE v[r][pa[n]]]]
           g(v) ==
             [r \in Places |-> [n \in Nodes |->
            IF nx[n] # Null THEN nx[n]
            ELSE IF pa[n] \in {Null, r} THEN Null
            ELSE v[r][pa[n]]]]
           V == [Places -> [Nodes -> Places]]
<1>1. c = [k \in Nat |-> e(c[k - 1], k)]
  BY DEF Climbing
<1>2. e(c[0 - 1], 0) = [r \in Places |-> [n \in Nodes |-> nx[n]]] /\ [r \in Places |-> [n \in Nodes |-> nx[n]]] \in V
  BY DEF Places
<1>3. \A k \in Nat : e(c[k], k + 1) = g(c[k])
  <2>1. \A k \in Nat : k + 1 # 0
    OBVIOUS
  <2> QED
    BY <2>1
<1>4. \A v \in V : g(v) \in V
  BY DEF Places
<1> HIDE DEF e, g, V
<1>5. c[0] = e(c[0 - 1], 0) /\ \A k \in Nat : c[k + 1] = e(c[k], k + 1)
  BY <1>1
<1>6. c[0] \in V /\ \A k \in Nat : c[k] \in V => c[k + 1] \in V
  BY <1>2, <1>3, <1>4, <1>5, ZenonT(60)
<1>7. \A k \in Nat : c[k] \in V
  BY <1>6, Stays, Zenon
<1> QED
  BY <1>2, <1>3, <1>5, <1>7, Zenon DEF g, V, Climbed

LEMMA Recursions ==
  /\ next \in [Nodes -> Places] => Chained(Chain, next)
  /\ parent \in [Nodes -> Places] /\ sibling_index \in [Nodes -> Nat] =>
       Pathed(PathUp, parent, sibling_index)
  /\ parent \in [Nodes -> Places] => Descended(Lineage, parent)
  /\ root \in Places /\ children \in [Nodes -> Places] => Leafed(FirstLeaf, root, children)
  /\ next \in [Nodes -> Places] /\ parent \in [Nodes -> Places] => Climbed(Climb, next, parent)
<1>1. next \in [Nodes -> Places] => Chained(Chain, next)
  <2>1. next \in [Nodes -> Places] => Chaining(Chain, next)
    BY ChainExists, Zenon DEF Chain, Chaining
  <2> QED
    BY <2>1, ChainSteps, Zenon
<1>2. parent \in [Nodes -> Places] /\ sibling_index \in [Nodes -> Nat] => Pathed(PathUp, parent, sibling_index)
  <2>1. parent \in [Nodes -> Places] /\ sibling_index \in [Nodes -> Nat] => Pathing(PathUp, parent, sibling_index)
    BY PathExists, Zenon DEF PathUp, Pathing
  <2> QED
    BY <2>1, PathSteps, Zenon
<1>3. parent \in [Nodes -> Places] => Descended(Lineage, parent)
  <2>1. parent \in [Nodes -> Places] => Ancestry(Lineage, parent)
    BY LineageExists, Zenon DEF Lineage, Ancestry
  <2> QED
    BY <2>1, LineageSteps, Zenon
<1>4. root \in Places /\ children \in [Nodes -> Places] => Leafed(FirstLeaf, root, children)
  <2>1. root \in Places /\ children \in [Nodes -> Places] => Leafing(FirstLeaf, root, children)
    BY FirstLeafExists, Zenon DEF FirstLeaf, Leafing, FirstOf
  <2> QED
    BY <2>1, FirstLeafSteps, Zenon
<1>5. next \in [Nodes -> Places] /\ parent \in [Nodes -> Places] => Climbed(Climb, next, parent)
  <2>1. next \in [Nodes -> Places] /\ parent \in [Nodes -> Places] => Climbing(Climb, next, parent)
    BY ClimbExists, Zenon DEF Climb, Climbing
  <2> QED
    BY <2>1, ClimbSteps, Zenon
<1> QED
  BY <1>1, <1>2, <1>3, <1>4, <1>5, Zenon

-------------------------------------------------------------------------------
(***************************************************************************)
(* A path that is one longer leads one level further.                      *)
(***************************************************************************)
Tracing(c, path, lists) ==
  c = [k \in Nat |->
         IF k = 0 THEN Null
         ELSE IF c[k - 1] = Nothing THEN Nothing
         ELSE NthOf(lists[c[k - 1]], path[k])]

Deeper(v, i, lists) == IF v = Nothing THEN Nothing ELSE NthOf(lists[v], i)

Found == Places \cup {Nothing}

LEMMA DeeperFinds ==
  ASSUME NEW lists \in [Places -> Seq(Nodes)], NEW v \in Found, NEW i
  PROVE  Deeper(v, i, lists) \in Found
BY DEF Found, Places, Deeper, NthOf

LEMMA TraceExists ==
  ASSUME NEW lists \in [Places -> Seq(Nodes)], NEW path
  PROVE  \E c : Tracing(c, path, lists)
<1> DEFINE g == [k \in Nat |-> [v \in Found |-> Deeper(v, path[k + 1], lists)]]
<1>1. Null \in Found /\ g \in StepsOn(Found)
  BY DeeperFinds DEF StepsOn, Found, Places
<1>2. PICK f : Iterates(f, Found, Null, g)
  <2> HIDE DEF g
  <2> QED
    BY <1>1, Iteration, Zenon
<1> DEFINE e(v, k) == IF k = 0 THEN Null ELSE Deeper(v, path[k], lists)
<1>3. \A v : e(v, 0) = Null
  OBVIOUS
<1>4. ASSUME NEW k \in Nat, NEW v \in Found PROVE e(v, k + 1) = g[k][v]
  BY k + 1 # 0
<1> HIDE DEF g, e
<1>5. ASSUME NEW k \in Nat PROVE f[k] = e(f[k - 1], k)
  <2>1. CASE k = 0
    BY <1>2, <1>3, <2>1 DEF Iterates
  <2>2. CASE k # 0
    <3>1. k - 1 \in Nat /\ k = (k - 1) + 1
      BY <2>2
    <3> QED
      BY <1>2, <1>4, <3>1 DEF Iterates
  <2> QED
    BY <2>1, <2>2
<1>6. f = [k \in Nat |-> e(f[k - 1], k)]
  BY <1>2, <1>5 DEF Iterates
<1> QED
  BY <1>6 DEF Tracing, e, Deeper

LEMMA TraceSteps ==
  ASSUME NEW lists \in [Places -> Seq(Nodes)], NEW path, NEW c, Tracing(c, path, lists)
  PROVE  /\ c[0] = Null
         /\ \A k \in Nat : c[k + 1] = Deeper(c[k], path[k + 1], lists)
<1> DEFINE e(v, k) == IF k = 0 THEN Null ELSE Deeper(v, path[k], lists)
<1>1. c = [k \in Nat |-> e(c[k - 1], k)]
  BY DEF Tracing, Deeper
<1>2. \A v : e(v, 0) = Null
  OBVIOUS
<1>3. \A k \in Nat : e(c[k], k + 1) = Deeper(c[k], path[k + 1], lists)
  <2>1. \A k \in Nat : k + 1 # 0
    OBVIOUS
  <2> QED
    BY <2>1
<1> HIDE DEF e
<1>4. c[0] = e(c[0 - 1], 0) /\ \A k \in Nat : c[k + 1] = e(c[k], k + 1)
  BY <1>1
<1> QED
  BY <1>2, <1>3, <1>4, Zenon

LEMMA FollowTraces ==
  ASSUME NEW lists \in [Places -> Seq(Nodes)], NEW path
  PROVE  \E c : Tracing(c, path, lists) /\ Follow(path, lists) = c[Len(path)]
<1> DEFINE at == CHOOSE c : Tracing(c, path, lists)
<1>1. Tracing(at, path, lists)
  BY TraceExists, Zenon
<1>2. Follow(path, lists) = at[Len(path)]
  BY Zenon DEF Follow, Tracing
<1> QED
  BY <1>1, <1>2, Zenon

LEMMA FollowNowhere ==
  ASSUME NEW lists \in [Places -> Seq(Nodes)]
  PROVE  Follow(<<>>, lists) = Null
<1>1. PICK c : Tracing(c, <<>>, lists) /\ Follow(<<>>, lists) = c[Len(<<>>)]
  BY FollowTraces, Zenon
<1>2. c[0] = Null
  BY <1>1, TraceSteps, Zenon
<1> QED
  BY <1>1, <1>2

LEMMA FollowAppend ==
  ASSUME NEW lists \in [Places -> Seq(Nodes)], NEW path \in Seq(Nat), NEW i \in Nat
  PROVE  Follow(Append(path, i), lists) = Deeper(Follow(path, lists), i, lists)
<1> DEFINE longer == Append(path, i)
<1>1. /\ longer \in Seq(Nat) /\ Len(longer) = Len(path) + 1 /\ Len(path) \in Nat
      /\ longer[Len(path) + 1] = i
      /\ \A k \in 1..Len(path) : longer[k] = path[k]
  BY AppendProperties
<1> HIDE DEF longer
<1>2. PICK c : Tracing(c, path, lists) /\ Follow(path, lists) = c[Len(path)]
  BY FollowTraces, Zenon
<1>3. PICK d : Tracing(d, longer, lists) /\ Follow(longer, lists) = d[Len(longer)]
  BY FollowTraces, Zenon
<1>4. /\ c[0] = Null /\ d[0] = Null
      /\ \A k \in Nat : c[k + 1] = Deeper(c[k], path[k + 1], lists)
      /\ \A k \in Nat : d[k + 1] = Deeper(d[k], longer[k + 1], lists)
  BY <1>2, <1>3, TraceSteps, Zenon
<1> DEFINE S == {k \in Nat : k <= Len(path) => c[k] = d[k]}
<1>5. 0 \in S
  BY <1>4
<1>6. ASSUME NEW k \in Nat, k \in S PROVE k + 1 \in S
  <2>1. CASE k + 1 <= Len(path)
    <3>1. k + 1 \in 1..Len(path) /\ c[k] = d[k]
      BY <1>1, <1>6, <2>1
    <3>2. path[k + 1] = longer[k + 1]
      BY <1>1, <3>1
    <3>3. c[k + 1] = d[k + 1]
      BY <1>4, <3>1, <3>2
    <3> QED
      BY <3>3
  <2>2. CASE ~(k + 1 <= Len(path))
    BY <2>2
  <2> QED
    BY <2>1, <2>2
<1> HIDE DEF S
<1>7. Len(path) \in S
  BY <1>1, <1>5, <1>6, NatSetInduction
<1>8. c[Len(path)] = d[Len(path)]
  BY <1>1, <1>7 DEF S
<1>9. d[Len(path) + 1] = Deeper(d[Len(path)], i, lists)
  BY <1>1, <1>4
<1> QED
  BY <1>1, <1>2, <1>3, <1>8, <1>9 DEF longer

-------------------------------------------------------------------------------
(***************************************************************************)
(* Lists of siblings.                                                      *)
(***************************************************************************)
LEMMA ItemInList ==
  ASSUME NEW s \in Seq(Nodes), NEW i \in Int
  PROVE  /\ Item(s, i) \in Places
         /\ Item(s, i) # Null <=> i \in 1..Len(s)
         /\ i \in 1..Len(s) => Item(s, i) = s[i] /\ s[i] \in Nodes
<1>1. i \in 1..Len(s) => s[i] \in Nodes
  BY ElementOfSeq
<1> QED
  BY <1>1, TreeAssumption DEF Item, Places

\* Links that thread a list lead through it.
LEMMA ChainIsList ==
  ASSUME NEW nx, NEW c, Chained(c, nx),
         NEW s \in Seq(Nodes), \A i \in 1..Len(s) : nx[s[i]] = Item(s, i + 1)
  PROVE  \A k \in Nat : Len(s) <= k => c[k][Item(s, 1)] = s
<1> DEFINE Rest(j) == SubSeq(s, j, Len(s))
           S == {k \in Nat : \A j \in 1..(Len(s) + 1) :
                   Len(s) - j < k => c[k][Item(s, j)] = Rest(j)}
<1>1. Len(s) \in Nat
  BY LenProperties
<1>2. Item(s, Len(s) + 1) = Null /\ Rest(Len(s) + 1) = <<>>
  BY <1>1, SubSeqEmpty DEF Item
<1>0. /\ c[0] = [n \in Places |-> <<>>]
      /\ \A k \in Nat : c[k + 1] =
           [n \in Places |-> IF n = Null THEN <<>> ELSE <<n>> \o c[k][nx[n]]]
  BY DEF Chained
<1>3. c[0][Null] = <<>> /\ \A k \in Nat : c[k + 1][Null] = <<>>
  BY <1>0 DEF Places
<1>4. ASSUME NEW k \in Nat, NEW j \in 1..Len(s), c[k][Item(s, j + 1)] = Rest(j + 1)
      PROVE  c[k + 1][Item(s, j)] = Rest(j)
  <2>1. Item(s, j) = s[j] /\ s[j] \in Nodes /\ s[j] # Null
    BY ItemInList, TreeAssumption
  <2>2. c[k + 1][s[j]] = <<s[j]>> \o c[k][nx[s[j]]]
    BY <1>0, <2>1 DEF Places
  <2>3. nx[s[j]] = Item(s, j + 1)
    OBVIOUS
  <2>4. Rest(j) = <<s[j]>> \o Rest(j + 1)
    BY <1>1, SubSeqRecursiveFirst
  <2> QED
    BY <1>4, <2>1, <2>2, <2>3, <2>4
<1> HIDE DEF Rest
<1>5. 0 \in S
  <2>1. ASSUME NEW j \in 1..(Len(s) + 1), Len(s) - j < 0
        PROVE  c[0][Item(s, j)] = Rest(j)
    <3>1. j = Len(s) + 1
      BY <1>1, <2>1
    <3> QED
      BY <1>2, <1>3, <3>1
  <2> QED
    BY <2>1
<1>6. ASSUME NEW k \in Nat, k \in S PROVE k + 1 \in S
  <2>1. ASSUME NEW j \in 1..(Len(s) + 1), Len(s) - j < k + 1
        PROVE  c[k + 1][Item(s, j)] = Rest(j)
    <3>1. CASE j = Len(s) + 1
      BY <1>2, <1>3, <3>1
    <3>2. CASE j # Len(s) + 1
      <4>1. j \in 1..Len(s) /\ j + 1 \in 1..(Len(s) + 1) /\ Len(s) - (j + 1) < k
        BY <1>1, <2>1, <3>2
      <4>2. c[k][Item(s, j + 1)] = Rest(j + 1)
        BY <1>6, <4>1
      <4> QED
        BY <1>4, <4>1, <4>2
    <3> QED
      BY <3>1, <3>2
  <2> QED
    BY <2>1
<1>7. \A k \in Nat : k \in S
  <2> HIDE DEF S
  <2> QED
    BY <1>5, <1>6, NatSetInduction
<1>8. Rest(1) = s
  BY SubSeqFull DEF Rest
<1> QED
  BY <1>1, <1>7, <1>8

LEMMA ListIsShort ==
  ASSUME NEW s \in Seq(Nodes),
         \A i, j \in 1..Len(s) : s[i] = s[j] => i = j
  PROVE  Len(s) <= Depth
<1>1. Len(s) \in Nat /\ s \in Injection(1..Len(s), Nodes)
  BY LenProperties DEF Injection, IsInjective
<1>2. Cardinality(1..Len(s)) <= Cardinality(Nodes)
  BY <1>1, FS_Injection, TreeAssumption
<1>3. Cardinality(1..Len(s)) = Len(s)
  BY <1>1, FS_Interval
<1> QED
  BY <1>2, <1>3 DEF Depth

LEMMA DepthIsNat == Depth \in Nat
BY TreeAssumption, FS_CardinalityType DEF Depth

LEMMA InsertedLast ==
  ASSUME NEW s \in Seq(Nodes), NEW n \in Nodes
  PROVE  LET t == InsertAt(s, Len(s) + 1, n)
         IN /\ t \in Seq(Nodes) /\ Len(t) = Len(s) + 1
            /\ t[Len(s) + 1] = n /\ \A j \in 1..Len(s) : t[j] = s[j]
<1>1. Len(s) \in Nat
  BY LenProperties
<1>2. SubSeq(s, 1, (Len(s) + 1) - 1) = s
  BY <1>1, SubSeqFull
<1>3. SubSeq(s, Len(s) + 1, Len(s)) = <<>>
  BY <1>1, SubSeqEmpty
<1> DEFINE t == Append(s, n)
<1>4. /\ t \in Seq(Nodes) /\ Len(t) = Len(s) + 1
      /\ t[Len(s) + 1] = n /\ \A j \in 1..Len(s) : t[j] = s[j]
  BY AppendProperties
<1>5. t = s \o <<n>>
  BY AppendIsConcat
<1> HIDE DEF t
<1>6. t \o <<>> = t
  BY <1>4, ConcatEmptySeq
<1>7. InsertAt(s, Len(s) + 1, n) = t
  BY <1>2, <1>3, <1>5, <1>6 DEF InsertAt
<1> QED
  BY <1>4, <1>7

LEMMA FrontOfAppend ==
  ASSUME NEW s \in Seq(Nat), NEW i \in Nat
  PROVE  Front(Append(s, i)) = s /\ Last(Append(s, i)) = i
<1> DEFINE t == Append(s, i)
<1>1. Len(s) \in Nat
  BY LenProperties
<1>2. t \in Seq(Nat) /\ Len(t) = Len(s) + 1 /\ t[Len(s) + 1] = i
      /\ \A j \in 1..Len(s) : t[j] = s[j]
  BY AppendProperties
<1> HIDE DEF t
<1>3. /\ SubSeq(t, 1, Len(s)) \in Seq(Nat) /\ Len(SubSeq(t, 1, Len(s))) = Len(s)
      /\ \A j \in 1..Len(s) : SubSeq(t, 1, Len(s))[j] = t[j]
  BY <1>1, <1>2, SubSeqProperties, ElementOfSeq
<1>4. SubSeq(t, 1, Len(s)) = s
  BY <1>1, <1>2, <1>3, SeqEqual
<1>5. Front(t) = s /\ Last(t) = i
  BY <1>1, <1>2, <1>4 DEF Front, Last
<1> QED
  BY <1>5 DEF t

LEMMA RemovedFrom ==
  ASSUME NEW s \in Seq(Nodes), NEW i \in 1..Len(s)
  PROVE  LET t == RemoveAt(s, i)
         IN /\ t \in Seq(Nodes) /\ Len(t) = Len(s) - 1
            /\ \A j \in 1..Len(t) : t[j] = IF j < i THEN s[j] ELSE s[j + 1]
<1> DEFINE u == SubSeq(s, 1, i - 1)
           v == SubSeq(s, i + 1, Len(s))
<1>1. Len(s) \in Nat /\ \A j \in 1..Len(s) : s[j] \in Nodes
  BY LenProperties, ElementOfSeq
<1>2. /\ u \in Seq(Nodes) /\ Len(u) = i - 1
      /\ \A j \in 1..(i - 1) : u[j] = s[j]
  BY <1>1, SubSeqProperties
<1>3. /\ v \in Seq(Nodes) /\ Len(v) = Len(s) - i
      /\ \A j \in 1..(Len(s) - i) : v[j] = s[i + j]
  BY <1>1, SubSeqProperties
<1> HIDE DEF u, v
<1>4. /\ u \o v \in Seq(Nodes) /\ Len(u \o v) = Len(s) - 1
      /\ \A j \in 1..(Len(s) - 1) : (u \o v)[j] = IF j <= i - 1 THEN u[j] ELSE v[j - (i - 1)]
  <2>1. /\ u \o v \in Seq(Nodes) /\ Len(u \o v) = Len(u) + Len(v)
        /\ \A j \in 1..(Len(u) + Len(v)) :
             (u \o v)[j] = IF j <= Len(u) THEN u[j] ELSE v[j - Len(u)]
    BY <1>2, <1>3, ConcatProperties
  <2>2. Len(u) = i - 1 /\ Len(u) + Len(v) = Len(s) - 1
    BY <1>1, <1>2, <1>3
  <2> QED
    BY <2>1, <2>2
<1>5. ASSUME NEW j \in 1..(Len(s) - 1)
      PROVE  (u \o v)[j] = IF j < i THEN s[j] ELSE s[j + 1]
  <2>1. CASE j < i
    BY <1>1, <1>2, <1>4, <2>1
  <2>2. CASE ~(j < i)
    <3>1. j - (i - 1) \in 1..(Len(s) - i) /\ i + (j - (i - 1)) = j + 1
      BY <1>1, <2>2
    <3> QED
      BY <1>1, <1>3, <1>4, <2>2, <3>1
  <2> QED
    BY <2>1, <2>2
<1> QED
  BY <1>4, <1>5 DEF RemoveAt, u, v

LEMMA FoundAt ==
  ASSUME NEW s \in Seq(Nodes), \A i, j \in 1..Len(s) : s[i] = s[j] => i = j,
         NEW m, NEW i \in 1..Len(s), s[i] = m
  PROVE  SelectInSeq(s, LAMBDA x : x = m) = i
<1> DEFINE I == {j \in 1..Len(s) : s[j] = m}
<1>1. I = {i}
  OBVIOUS
<1>2. Len(s) \in Nat /\ i \in Nat
  BY LenProperties
<1>3. Min({i}) = i
  BY <1>2 DEF Min
<1>4. (IF I # {} THEN Min(I) ELSE 0) = i
  <2> HIDE DEF I
  <2> QED
    BY <1>1, <1>3
<1> QED
  BY <1>4 DEF SelectInSeq

-------------------------------------------------------------------------------
(***************************************************************************)
(* The way up from a node, and the path that leads back to it.             *)
(***************************************************************************)
Rises(live, pa, above) ==
  /\ live \subseteq Nodes /\ above \in [Places -> SUBSET live]
  /\ \A n \in live : /\ pa[n] \in live \cup {Null}
                     /\ above[n] = above[pa[n]] \cup {n} /\ n \notin above[pa[n]]

LEMMA Ranks ==
  ASSUME NEW live, NEW pa, NEW above, Rises(live, pa, above)
  PROVE  /\ \A n \in live \cup {Null} :
              /\ IsFiniteSet(above[n]) /\ Cardinality(above[n]) \in Nat
              /\ Cardinality(above[n]) <= Depth
         /\ \A n \in live : Cardinality(above[n]) = Cardinality(above[pa[n]]) + 1
<1>1. ASSUME NEW n \in live \cup {Null}
      PROVE  /\ IsFiniteSet(above[n]) /\ Cardinality(above[n]) \in Nat
             /\ Cardinality(above[n]) <= Depth
  <2>1. above[n] \in SUBSET Nodes
    BY DEF Rises, Places
  <2> QED
    BY <2>1, TreeAssumption, FS_Subset, FS_CardinalityType DEF Depth
<1>2. ASSUME NEW n \in live PROVE Cardinality(above[n]) = Cardinality(above[pa[n]]) + 1
  <2>1. /\ pa[n] \in live \cup {Null}
        /\ above[n] = above[pa[n]] \cup {n} /\ n \notin above[pa[n]]
    BY DEF Rises
  <2>2. IsFiniteSet(above[pa[n]])
    BY <1>1, <2>1
  <2>3. Cardinality(above[pa[n]] \cup {n}) = Cardinality(above[pa[n]]) + 1
    BY <2>1, <2>2, FS_AddElement, Zenon
  <2> QED
    BY <2>1, <2>3, Zenon
<1> QED
  BY <1>1, <1>2

LeadBack(up, places, above, lists) ==
  \A k \in Nat : \A n \in places :
    Cardinality(above[n]) <= k =>
      up[k][n] \in Seq(Nat) /\ Follow(up[k][n], lists) = n

\* A node that is placed in the list of its parent is at the end of its path.
LEMMA PathLeads ==
  ASSUME NEW live, NEW pa, NEW above, Rises(live, pa, above),
         NEW si \in [Nodes -> Nat], NEW lists \in [Places -> Seq(Nodes)],
         \A n \in live : NthOf(lists[pa[n]], si[n]) = n,
         NEW up, Pathed(up, pa, si)
  PROVE  LeadBack(up, live \cup {Null}, above, lists)
<1> DEFINE Leads(k, n) == up[k][n] \in Seq(Nat) /\ Follow(up[k][n], lists) = n
           S == {k \in Nat : \A n \in live \cup {Null} :
                   Cardinality(above[n]) <= k => Leads(k, n)}
<1>1. /\ up[0] = [n \in Places |-> <<>>]
      /\ \A k \in Nat : up[k + 1] =
           [n \in Places |-> IF n = Null THEN <<>> ELSE Append(up[k][pa[n]], si[n])]
  BY DEF Pathed
<1>2. live \subseteq Nodes /\ Null \notin live /\ \A n \in live : pa[n] \in live \cup {Null}
  BY TreeAssumption DEF Rises
<1>3. up[0][Null] = <<>> /\ \A k \in Nat : up[k + 1][Null] = <<>>
  BY <1>1 DEF Places
<1>4. Leads(0, Null) /\ \A k \in Nat : Leads(k + 1, Null)
  <2>1. Follow(<<>>, lists) = Null
    BY FollowNowhere, Zenon
  <2>2. <<>> \in Seq(Nat)
    OBVIOUS
  <2> QED
    BY <1>3, <2>1, <2>2, Zenon
<1>5. ASSUME NEW k \in Nat, NEW n \in live, Leads(k, pa[n]) PROVE Leads(k + 1, n)
  <2>1. up[k + 1][n] = Append(up[k][pa[n]], si[n])
    BY <1>1, <1>2, ZenonT(60) DEF Places
  <2>2. si[n] \in Nat /\ up[k][pa[n]] \in Seq(Nat) /\ Follow(up[k][pa[n]], lists) = pa[n]
    BY <1>2, <1>5
  <2>3. Follow(up[k + 1][n], lists) = Deeper(pa[n], si[n], lists)
    BY <2>1, <2>2, FollowAppend
  <2>4. pa[n] # Nothing
    BY <1>2, TreeAssumption
  <2>5. Deeper(pa[n], si[n], lists) = n
    BY <2>4 DEF Deeper
  <2>6. up[k + 1][n] \in Seq(Nat)
    BY <2>1, <2>2, AppendProperties
  <2> QED
    BY <2>3, <2>5, <2>6
<1> HIDE DEF Leads
<1>6. 0 \in S
  <2>1. \A n \in live : ~(Cardinality(above[n]) <= 0)
    BY Ranks, <1>2
  <2> QED
    BY <1>4, <2>1
<1>7. ASSUME NEW k \in Nat, k \in S PROVE k + 1 \in S
  <2>1. ASSUME NEW n \in live, Cardinality(above[n]) <= k + 1 PROVE Leads(k + 1, n)
    <3>1. pa[n] \in live \cup {Null} /\ Cardinality(above[pa[n]]) <= k
      BY <1>2, <2>1, Ranks
    <3> QED
      BY <1>5, <1>7, <3>1
  <2> QED
    BY <1>4, <2>1
<1>8. \A k \in Nat : k \in S
  <2> HIDE DEF S
  <2> QED
    BY <1>6, <1>7, NatSetInduction
<1> QED
  BY <1>8 DEF Leads, LeadBack

\* The lineage of a node is what is above it, and the invisible root.
LEMMA LineageIsAbove ==
  ASSUME NEW live, NEW pa, NEW above, Rises(live, pa, above), above[Null] = {},
         NEW line, Descended(line, pa)
  PROVE  \A n \in live \cup {Null} : line[Depth][n] = above[n] \cup {Null}
<1> DEFINE Is(k, n) == line[k][n] = above[n] \cup {Null}
           S == {k \in Nat : \A n \in live \cup {Null} :
                   Cardinality(above[n]) <= k => Is(k, n)}
<1>1. /\ line[0] = [n \in Places |-> {Null}]
      /\ \A k \in Nat : line[k + 1] =
           [n \in Places |-> IF n = Null THEN {Null} ELSE {n} \cup line[k][pa[n]]]
  BY DEF Descended
<1>2. /\ live \subseteq Nodes /\ Null \notin live
      /\ \A n \in live : pa[n] \in live \cup {Null} /\ above[n] = above[pa[n]] \cup {n}
  BY TreeAssumption DEF Rises
<1>3. Is(0, Null) /\ \A k \in Nat : Is(k + 1, Null)
  BY <1>1 DEF Places
<1>4. ASSUME NEW k \in Nat, NEW n \in live, Is(k, pa[n]) PROVE Is(k + 1, n)
  <2>1. line[k + 1][n] = {n} \cup line[k][pa[n]]
    <3>1. n \in Places /\ n # Null
      BY <1>2 DEF Places
    <3>2. line[k + 1] =
            [m \in Places |-> IF m = Null THEN {Null} ELSE {m} \cup line[k][pa[m]]]
      BY <1>1
    <3> QED
      BY <3>1, <3>2
  <2> QED
    BY <1>2, <1>4, <2>1
<1> HIDE DEF Is
<1>5. 0 \in S
  <2>1. \A n \in live : ~(Cardinality(above[n]) <= 0)
    BY Ranks, <1>2
  <2> QED
    BY <1>3, <2>1
<1>6. ASSUME NEW k \in Nat, k \in S PROVE k + 1 \in S
  <2>1. ASSUME NEW n \in live, Cardinality(above[n]) <= k + 1 PROVE Is(k + 1, n)
    <3>1. pa[n] \in live \cup {Null} /\ Cardinality(above[pa[n]]) <= k
      BY <1>2, <2>1, Ranks
    <3> QED
      BY <1>4, <1>6, <3>1
  <2> QED
    BY <1>3, <2>1
<1>7. \A k \in Nat : k \in S
  <2> HIDE DEF S
  <2> QED
    BY <1>5, <1>6, NatSetInduction
<1> QED
  BY <1>7, Ranks, DepthIsNat DEF Is

-------------------------------------------------------------------------------
(***************************************************************************)
(* What the invariant says of the links of a state.                        *)
(***************************************************************************)
Threaded(p) ==
  /\ next \in [Nodes -> Places] /\ rows[p] \in Seq(Nodes)
  /\ FirstOf(p) = Item(rows[p], 1)
  /\ \A i \in 1..Len(rows[p]) : next[rows[p][i]] = Item(rows[p], i + 1)
  /\ \A i, j \in 1..Len(rows[p]) : rows[p][i] = rows[p][j] => i = j

\* Links that thread a row are a list of siblings.
LEMMA ThreadIsSiblings == \A p \in Places : Threaded(p) => Siblings(p) = rows[p]
<1> SUFFICES ASSUME NEW p \in Places, Threaded(p) PROVE Siblings(p) = rows[p]
  OBVIOUS
<1>1. Chained(Chain, next)
  BY Recursions DEF Threaded
<1>2. Len(rows[p]) <= Depth
  BY ListIsShort DEF Threaded
<1>3. \A k \in Nat : Len(rows[p]) <= k => Chain[k][Item(rows[p], 1)] = rows[p]
  BY <1>1, ChainIsList DEF Threaded
<1>4. Chain[Depth][Item(rows[p], 1)] = rows[p]
  BY <1>2, <1>3, DepthIsNat
<1> QED
  BY <1>4 DEF Siblings, Threaded

LEMMA RowsAreDistinct ==
  ASSUME Typed, Linked, NEW p \in Living
  PROVE  \A i, j \in 1..Len(rows[p]) : rows[p][i] = rows[p][j] => i = j
<1>1. \A i \in 1..Len(rows[p]) : sibling_index[rows[p][i]] = i - 1
  BY DEF Linked
<1> QED
  BY <1>1

LEMMA RowsAreSiblings ==
  ASSUME Typed, Headed, Linked
  PROVE  \A p \in Living : p \in Places /\ rows[p] \in Seq(Nodes) /\ Siblings(p) = rows[p]
<1> SUFFICES ASSUME NEW p \in Living
             PROVE  p \in Places /\ rows[p] \in Seq(Nodes) /\ Siblings(p) = rows[p]
  OBVIOUS
<1>1. p \in Places /\ rows[p] \in Seq(Nodes)
  BY DEF Typed, Living, Places
<1>2. Threaded(p)
  BY <1>1, RowsAreDistinct DEF Threaded, Typed, Headed, Linked
<1> QED
  BY <1>1, <1>2, ThreadIsSiblings

LEMMA ParentsRise ==
  ASSUME Typed, Placed, NEW above, Rooted(above)
  PROVE  Rises(alive, parent, above)
BY DEF Typed, Placed, Rooted, Rises, Living

LEMMA InPlace ==
  ASSUME Typed, Placed, NEW n \in alive
  PROVE  /\ n \in Nodes /\ n # Null /\ parent[n] \in Living /\ parent[n] \in Places
         /\ sibling_index[n] \in Nat /\ rows[parent[n]] \in Seq(Nodes)
         /\ sibling_index[n] + 1 \in 1..Len(rows[parent[n]])
         /\ rows[parent[n]][sibling_index[n] + 1] = n
         /\ NthOf(rows[parent[n]], sibling_index[n]) = n
<1>1. /\ n \in Nodes /\ n # Null /\ parent[n] \in Living /\ parent[n] \in Places
      /\ sibling_index[n] \in Nat /\ rows[parent[n]] \in Seq(Nodes)
  BY TreeAssumption DEF Typed, Placed, Living, Places
<1>2. Item(rows[parent[n]], sibling_index[n] + 1) = n
  BY DEF Placed
<1>3. /\ sibling_index[n] + 1 \in 1..Len(rows[parent[n]])
      /\ rows[parent[n]][sibling_index[n] + 1] = n
  BY <1>1, <1>2 DEF Item
<1>4. sibling_index[n] \in 0..(Len(rows[parent[n]]) - 1)
  BY <1>1, <1>3, LenProperties
<1> QED
  BY <1>1, <1>3, <1>4 DEF NthOf

\* The path of a node leads to it in every tree that has the rows.
LEMMA PathsLead ==
  ASSUME Typed, Placed, NEW above, Rooted(above),
         NEW lists \in [Places -> Seq(Nodes)], \A p \in Living : lists[p] = rows[p]
  PROVE  LeadBack(PathUp, Living, above, lists)
<1>1. Pathed(PathUp, parent, sibling_index)
  BY Recursions DEF Typed
<1>2. Rises(alive, parent, above)
  BY ParentsRise
<1>3. \A n \in alive : NthOf(lists[parent[n]], sibling_index[n]) = n
  BY InPlace
<1>4. sibling_index \in [Nodes -> Nat]
  BY DEF Typed
<1> QED
  BY <1>1, <1>2, <1>3, <1>4, PathLeads, Zenon DEF Living

LEMMA PathOfNode ==
  ASSUME Typed, Placed, NEW above, Rooted(above), NEW n \in alive
  PROVE  /\ RowAt(PathOf(n)) = n
         /\ RowAt(Front(PathOf(n))) = parent[n]
         /\ Last(PathOf(n)) = sibling_index[n]
<1>1. Rises(alive, parent, above) /\ n \in Living
  BY ParentsRise DEF Living
<1>2. rows \in [Places -> Seq(Nodes)]
  BY DEF Typed
<1>3. /\ n \in Nodes /\ n # Null /\ n \in Places
      /\ parent[n] \in Living /\ sibling_index[n] \in Nat
  BY InPlace DEF Places
<1>4. /\ Cardinality(above[n]) <= Depth /\ Cardinality(above[parent[n]]) \in Nat
      /\ Cardinality(above[n]) = Cardinality(above[parent[n]]) + 1
      /\ Depth \in Nat
  BY <1>1, <1>3, Ranks, DepthIsNat DEF Living
<1>5. Depth - 1 \in Nat /\ (Depth - 1) + 1 = Depth /\ Cardinality(above[parent[n]]) <= Depth - 1
  BY <1>4
<1> DEFINE front == PathUp[Depth - 1][parent[n]]
<1>6. front \in Seq(Nat) /\ Follow(front, rows) = parent[n]
  BY <1>2, <1>3, <1>5, PathsLead DEF LeadBack
<1>7. Follow(PathUp[Depth][n], rows) = n
  BY <1>1, <1>2, <1>4, PathsLead DEF LeadBack
<1>8. PathUp[Depth][n] = Append(front, sibling_index[n])
  <2>1. PathUp[(Depth - 1) + 1] =
          [m \in Places |-> IF m = Null THEN <<>>
                            ELSE Append(PathUp[Depth - 1][parent[m]], sibling_index[m])]
    BY <1>5, Recursions DEF Pathed, Typed
  <2> QED
    BY <1>3, <1>5, <2>1
<1> HIDE DEF front
<1>9. ASSUME NEW path, path = Append(front, sibling_index[n])
      PROVE  Front(path) = front /\ Last(path) = sibling_index[n]
  BY <1>3, <1>6, <1>9, FrontOfAppend
<1> QED
  BY <1>6, <1>7, <1>8, <1>9 DEF PathOf, RowAt

LEMMA LinksLive ==
  ASSUME Typed, Headed, Linked, Placed
  PROVE  /\ \A p \in Living : FirstOf(p) \in Living
         /\ \A n \in alive : /\ parent[n] \in Living /\ next[n] \in Living
                             /\ prev[n] \in Living /\ children[n] \in Living
<1>1. ASSUME NEW p \in Living, NEW i \in Int PROVE Item(rows[p], i) \in Living
  BY DEF Linked, Item, Living
<1>2. ASSUME NEW p \in Living PROVE FirstOf(p) \in Living
  BY <1>1 DEF Headed
<1>3. ASSUME NEW n \in alive
      PROVE  /\ parent[n] \in Living /\ next[n] \in Living
             /\ prev[n] \in Living /\ children[n] \in Living
  <2> DEFINE p == parent[n]
             i == sibling_index[n] + 1
  <2>1. p \in Living /\ i \in 1..Len(rows[p]) /\ rows[p][i] = n /\ i \in Int
    BY InPlace
  <2>2. next[n] = Item(rows[p], i + 1) /\ prev[n] = Item(rows[p], i - 1)
    BY <2>1 DEF Linked
  <2>3. children[n] = FirstOf(n) /\ n \in Living
    BY InPlace DEF FirstOf, Living
  <2> HIDE DEF p, i
  <2> QED
    BY <1>1, <1>2, <2>1, <2>2, <2>3 DEF p
<1> QED
  BY <1>2, <1>3

LEMMA IndexesFollow ==
  ASSUME Typed, NEW above, Grown(above)
  PROVE  IndexesRight
<1> DEFINE lists == [p \in Places |-> Siblings(p)]
<1>1. Typed /\ Headed /\ Linked /\ Placed /\ Rooted(above)
  BY DEF Grown
<1>2. \A p \in Places : FirstOf(p) \in Places
  BY DEF FirstOf, Typed, Places
<1>3. Chain[Depth] \in [Places -> Seq(Nodes)]
  BY DepthIsNat, Recursions DEF Chained, Typed
<1>4. lists \in [Places -> Seq(Nodes)]
  BY <1>2, <1>3 DEF Siblings
<1>5. \A p \in Living : lists[p] = rows[p]
  BY <1>1, RowsAreSiblings
<1>6. \A n \in alive : GetIter(PathOf(n)) = Follow(PathUp[Depth][n], lists)
  BY DEF GetIter, PathOf
<1>7. \A n \in Living : Cardinality(above[n]) <= Depth
  BY <1>1, ParentsRise, Ranks DEF Living
<1> HIDE DEF lists
<1>8. LeadBack(PathUp, Living, above, lists)
  BY <1>1, <1>4, <1>5, PathsLead
<1>9. \A n \in alive : GetIter(PathOf(n)) = n
  BY <1>6, <1>7, <1>8, DepthIsNat DEF LeadBack, Living
<1>10. \A n \in alive : n_children[n] = Len(Siblings(n))
  BY <1>1, RowsAreSiblings DEF Placed, Living
<1> QED
  BY <1>9, <1>10 DEF IndexesRight

LEMMA TreeImplies ==
  TreeInv => TreeTypeOK /\ ViewMirrors /\ IndexesRight /\ LoopMissesNone
<1> SUFFICES ASSUME Typed, NEW above, Grown(above), Looping(above)
             PROVE  TreeTypeOK /\ ViewMirrors /\ IndexesRight /\ LoopMissesNone
  BY DEF TreeInv
<1>1. ViewMirrors
  BY RowsAreSiblings DEF ViewMirrors, Grown, Living
<1>2. IndexesRight
  BY IndexesFollow
<1>3. LoopMissesNone
  BY DEF Looping, LoopMissesNone
<1>4. TreeTypeOK
  <2>1. /\ root \in alive \cup {Null}
        /\ \A n \in alive : /\ parent[n] \in alive \cup {Null} /\ next[n] \in alive \cup {Null}
                            /\ prev[n] \in alive \cup {Null} /\ children[n] \in alive \cup {Null}
    <3>1. root = FirstOf(Null) /\ Null \in Living
      BY DEF FirstOf, Living
    <3> QED
      BY <3>1, LinksLive DEF Grown, Living
  <2>2. loop # Nothing =>
          /\ loop.kind \in {"children", "find"} /\ loop.of \in Places
          /\ loop.more => loop.node \in alive
          /\ loop.due \subseteq alive /\ loop.seen \subseteq alive
    BY DEF Typed, Loops, Looping
  <2> QED
    BY <2>1, <2>2 DEF TreeTypeOK, Typed
<1> QED
  BY <1>1, <1>2, <1>3, <1>4

-------------------------------------------------------------------------------
(***************************************************************************)
(* The steps.                                                              *)
(***************************************************************************)
LEMMA TreeInitInv == Init => TreeInv
<1> SUFFICES ASSUME Init PROVE TreeInv
  OBVIOUS
<1> DEFINE above == [p \in Places |-> {}]
<1>1. Typed
  BY DEF Init, Typed, Places
<1>2. alive = {} /\ Living = {Null} /\ rows[Null] = <<>> /\ Len(rows[Null]) = 0
  BY DEF Init, Living, Places
<1>3. Headed /\ Linked /\ Placed /\ Unused
  BY <1>2 DEF Init, Headed, Linked, Placed, Unused, FirstOf, Item, Places
<1>4. Rooted(above)
  BY <1>2 DEF Rooted, Places
<1>5. Looping(above)
  BY DEF Init, Looping
<1> HIDE DEF above
<1> QED
  BY <1>1, <1>3, <1>4, <1>5 DEF TreeInv, Grown

\* The siblings after which a node is appended, and its place.
LastIn(list) == Item(list, Len(list))

LinkedAtEnd(p, n) ==
  /\ parent' = [parent EXCEPT ![n] = p]
  /\ prev' = [prev EXCEPT ![n] = LastIn(rows[p])]
  /\ next' = [m \in Nodes |-> IF m = LastIn(rows[p]) THEN n
                              ELSE IF m = n THEN Null ELSE next[m]]
  /\ root' = IF p = Null /\ rows[p] = <<>> THEN n ELSE root
  /\ children' = [m \in Nodes |-> IF m = p /\ rows[p] = <<>> THEN n
                                  ELSE IF m = n THEN Null ELSE children[m]]
  /\ sibling_index' = [sibling_index EXCEPT ![n] = Len(rows[p])]
  /\ n_children' = [m \in Nodes |-> IF m = p THEN Len(rows[p]) + 1
                                    ELSE IF m = n THEN 0 ELSE n_children[m]]

Appended(p, n) ==
  /\ p \in Living /\ n \in Nodes \ alive
  /\ alive' = alive \cup {n}
  /\ LinkedAtEnd(p, n)
  /\ rows' = [rows EXCEPT ![p] = InsertAt(@, Len(rows[p]) + 1, n)]
  /\ \E match \in BOOLEAN : matches' = [matches EXCEPT ![n] = match]
  /\ removing = Nothing /\ removing' = removing /\ loop' = loop

LEMMA LinkedLast ==
  ASSUME Typed, NEW above, Grown(above), NEW p \in Living, NEW n \in Nodes \ alive, LinkLast(p, n)
  PROVE  LinkedAtEnd(p, n)
<1> DEFINE s == rows[p]
<1>1. p \in Places /\ s \in Seq(Nodes) /\ Siblings(p) = s /\ Len(s) \in Nat
  BY RowsAreSiblings, LenProperties DEF Grown
<1>2. FirstOf(p) = Item(s, 1)
  BY DEF Grown, Headed
<1>3. s = <<>> <=> Len(s) = 0
  BY <1>1
<1>4. (IF FirstOf(p) = Null THEN Null ELSE Last(Siblings(p))) = LastIn(s)
  BY <1>1, <1>2, ItemInList DEF LastIn, Last, Item
<1>5. LastIn(s) = Null <=> s = <<>>
  BY <1>1, <1>3, ItemInList DEF LastIn
<1>6. LinkAfter(LastIn(s), p, n)
  BY <1>4 DEF LinkLast
<1>7. LastIn(s) # Null => sibling_index[LastIn(s)] + 1 = Len(s)
  <2>1. LastIn(s) # Null => Len(s) \in 1..Len(s) /\ LastIn(s) = s[Len(s)]
    BY <1>1, <1>3, <1>5 DEF LastIn, Item
  <2> QED
    BY <1>1, <2>1 DEF Grown, Linked
<1>8. p # Null /\ s # <<>> => n_children[p] = Len(s)
  BY DEF Grown, Placed, Living
<1> HIDE DEF s
<1>9. (IF LastIn(s) = Null THEN 0 ELSE sibling_index[LastIn(s)] + 1) = Len(s)
  BY <1>1, <1>3, <1>5, <1>7
<1>10. \A m \in Nodes : m = p =>
         (IF LastIn(s) = Null THEN 1 ELSE n_children[m] + 1) = Len(s) + 1
  BY <1>1, <1>3, <1>5, <1>8, TreeAssumption
<1> QED
  BY <1>5, <1>6, <1>9, <1>10 DEF LinkAfter, LinkedAtEnd, s

LEMMA RecursionsNext ==
  (parent \in [Nodes -> Places] /\ sibling_index \in [Nodes -> Nat] =>
     Pathed(PathUp, parent, sibling_index))'
BY Recursions, PTL

\* The view finds the place of the new node by its path.
LEMMA RowAppended ==
  ASSUME Typed, NEW above, Grown(above), NEW p \in Living, NEW n \in Nodes \ alive,
         LinkLast(p, n), RowInserted(PathOf(n)', n)
  PROVE  rows' = [rows EXCEPT ![p] = InsertAt(@, Len(rows[p]) + 1, n)]
<1> DEFINE s == rows[p]
           path == PathOf(n)'
<1>1. p \in Places /\ s \in Seq(Nodes) /\ Len(s) \in Nat /\ p # n
  BY RowsAreSiblings, LenProperties, TreeAssumption DEF Grown, Living
<1>2. parent' = [parent EXCEPT ![n] = p] /\ sibling_index' = [sibling_index EXCEPT ![n] = Len(s)]
  BY LinkedLast DEF LinkedAtEnd
<1>3. parent' \in [Nodes -> Places] /\ sibling_index' \in [Nodes -> Nat]
  BY <1>1, <1>2 DEF Typed
<1>4. Pathed(PathUp', parent', sibling_index')
  BY <1>3, RecursionsNext
<1>5. /\ alive \subseteq Nodes /\ rows \in [Places -> Seq(Nodes)]
      /\ \A m \in alive : parent'[m] = parent[m] /\ sibling_index'[m] = sibling_index[m]
  BY <1>2 DEF Typed
<1>6. Rises(alive, parent, above)
  BY ParentsRise DEF Grown
<1>7. Rises(alive, parent', above)
  BY <1>5, <1>6 DEF Rises
<1>8. \A m \in alive : NthOf(rows[parent'[m]], sibling_index'[m]) = m
  BY <1>5, InPlace DEF Grown
<1>9. LeadBack(PathUp', alive \cup {Null}, above, rows)
  BY <1>3, <1>4, <1>5, <1>7, <1>8, PathLeads
<1>10. Depth - 1 \in Nat /\ (Depth - 1) + 1 = Depth /\ Cardinality(above[p]) <= Depth - 1
  <2>1. above[p] \in SUBSET (Nodes \ {n})
    BY <1>1, <1>6 DEF Rises
  <2>2. /\ IsFiniteSet(Nodes \ {n}) /\ Cardinality(Nodes \ {n}) = Depth - 1
        /\ Cardinality(Nodes \ {n}) \in Nat
    BY TreeAssumption, FS_RemoveElement, FS_CardinalityType DEF Depth
  <2>3. Cardinality(above[p]) <= Cardinality(Nodes \ {n})
    BY <2>1, <2>2, FS_Subset
  <2> QED
    BY <2>2, <2>3, DepthIsNat
<1> DEFINE front == PathUp'[Depth - 1][p]
<1>11. front \in Seq(Nat) /\ Follow(front, rows) = p
  BY <1>9, <1>10 DEF LeadBack, Living
<1>12. path = Append(front, Len(s))
  <2>1. PathUp'[(Depth - 1) + 1] =
          [m \in Places |-> IF m = Null THEN <<>>
                            ELSE Append(PathUp'[Depth - 1][parent'[m]], sibling_index'[m])]
    BY <1>4, <1>10 DEF Pathed
  <2>2. n \in Places /\ n # Null /\ parent'[n] = p /\ sibling_index'[n] = Len(s)
    BY <1>2, TreeAssumption DEF Typed, Places
  <2>3. path = PathUp'[Depth][n]
    BY DEF PathOf
  <2> HIDE DEF path, s
  <2> QED
    BY <1>10, <2>1, <2>2, <2>3
<1> HIDE DEF front, path, s
<1>13. Front(path) = front /\ Last(path) = Len(s)
  BY <1>1, <1>11, <1>12, FrontOfAppend
<1>14. RowInserted(path, n)
  BY DEF path
<1>15. RowAt(Front(path)) = p /\ p # Nothing
  BY <1>1, <1>11, <1>13, TreeAssumption DEF RowAt, Places
<1>16. Len(s) + 1 \in 1..(Len(rows[p]) + 1)
  BY <1>1 DEF s
<1> QED
  BY <1>13, <1>14, <1>15, <1>16 DEF RowInserted, s

LEMMA AppendsAppended ==
  ASSUME Typed, NEW above, Grown(above), NEW p, NEW n, Appends(p, n)
  PROVE  Appended(p, n)
<1>1. /\ p \in Living /\ n \in Nodes \ alive /\ alive' = alive \cup {n}
      /\ LinkLast(p, n) /\ RowInserted(PathOf(n)', n)
      /\ \E match \in BOOLEAN : matches' = [matches EXCEPT ![n] = match]
      /\ removing = Nothing /\ removing' = removing /\ loop' = loop
  BY DEF Appends, Living
<1>2. LinkedAtEnd(p, n)
  BY <1>1, LinkedLast
<1>3. rows' = [rows EXCEPT ![p] = InsertAt(@, Len(rows[p]) + 1, n)]
  BY <1>1, RowAppended
<1> QED
  BY <1>1, <1>2, <1>3, Zenon DEF Appended

LEMMA AppendedFacts ==
  ASSUME Typed, NEW above, Grown(above), NEW p, NEW n, Appended(p, n)
  PROVE  /\ p \in Living /\ p \in Places /\ n \in Nodes /\ n \notin alive /\ n # Null /\ n # p
         /\ rows[p] \in Seq(Nodes) /\ Len(rows[p]) \in Nat /\ rows[n] = <<>>
         /\ rows'[p] \in Seq(Nodes) /\ Len(rows'[p]) = Len(rows[p]) + 1
         /\ \A j \in 1..Len(rows[p]) : rows'[p][j] = rows[p][j]
         /\ rows'[p][Len(rows[p]) + 1] = n
         /\ \A q \in Places \ {p} : rows'[q] = rows[q]
         /\ LastIn(rows[p]) \in alive \cup {Null}
         /\ LastIn(rows[p]) # Null => parent[LastIn(rows[p])] = p
         /\ Living' = Living \cup {n}
<1>1. /\ p \in Living /\ p \in Places /\ n \in Nodes /\ n \notin alive /\ n # Null /\ n # p
      /\ rows[p] \in Seq(Nodes) /\ Len(rows[p]) \in Nat
  BY RowsAreSiblings, LenProperties, TreeAssumption DEF Appended, Grown, Living
<1>2. rows[n] = <<>>
  BY <1>1 DEF Grown, Unused
<1>3. rows' = [rows EXCEPT ![p] = InsertAt(@, Len(rows[p]) + 1, n)]
  BY DEF Appended
<1>4. rows'[p] = InsertAt(rows[p], Len(rows[p]) + 1, n) /\ \A q \in Places \ {p} : rows'[q] = rows[q]
  BY <1>1, <1>3 DEF Typed
<1>5. /\ rows'[p] \in Seq(Nodes) /\ Len(rows'[p]) = Len(rows[p]) + 1
      /\ \A j \in 1..Len(rows[p]) : rows'[p][j] = rows[p][j]
      /\ rows'[p][Len(rows[p]) + 1] = n
  <2>1. PICK u : u = InsertAt(rows[p], Len(rows[p]) + 1, n)
    OBVIOUS
  <2>2. /\ u \in Seq(Nodes) /\ Len(u) = Len(rows[p]) + 1
        /\ u[Len(rows[p]) + 1] = n /\ \A j \in 1..Len(rows[p]) : u[j] = rows[p][j]
    BY <1>1, <2>1, InsertedLast
  <2> QED
    BY <1>4, <2>1, <2>2
<1>6. Len(rows[p]) \in 1..Len(rows[p]) =>
        LastIn(rows[p]) \in alive /\ parent[LastIn(rows[p])] = p
  BY <1>1 DEF Grown, Linked, LastIn, Item
<1>7. Len(rows[p]) \notin 1..Len(rows[p]) => LastIn(rows[p]) = Null
  BY DEF LastIn, Item
<1> QED
  BY <1>1, <1>2, <1>4, <1>5, <1>6, <1>7 DEF Appended, Living

LEMMA AppendedTyped ==
  ASSUME Typed, NEW above, Grown(above), NEW p, NEW n, Appended(p, n)
  PROVE  Typed'
<1>1. LastIn(rows[p]) \in Places /\ Len(rows[p]) + 1 \in Nat /\ Null \in Places
  BY AppendedFacts DEF Typed, Places
<1>2. alive' \subseteq Nodes /\ root' \in Places /\ removing' \in alive' \cup {Null, Nothing}
  BY AppendedFacts DEF Typed, Appended, LinkedAtEnd, Places
<1>3. /\ parent' \in [Nodes -> Places] /\ prev' \in [Nodes -> Places]
      /\ sibling_index' \in [Nodes -> Nat]
  BY <1>1, AppendedFacts DEF Typed, Appended, LinkedAtEnd
<1>4. /\ next' \in [Nodes -> Places] /\ children' \in [Nodes -> Places]
      /\ n_children' \in [Nodes -> Nat]
  BY <1>1, AppendedFacts DEF Typed, Appended, LinkedAtEnd, Places
<1>5. matches' \in [Nodes -> BOOLEAN] /\ loop' \in Loops \cup {Nothing}
  BY DEF Typed, Appended
<1>6. rows' \in [Places -> Seq(Nodes)]
  <2>1. InsertAt(rows[p], Len(rows[p]) + 1, n) \in Seq(Nodes)
    BY AppendedFacts, InsertedLast
  <2> QED
    BY <2>1 DEF Typed, Appended
<1> QED
  BY <1>2, <1>3, <1>4, <1>5, <1>6 DEF Typed

LEMMA AppendedThreads ==
  ASSUME Typed, NEW above, Grown(above), NEW p, NEW n, Appended(p, n)
  PROVE  Headed' /\ Linked' /\ Placed' /\ Unused'
<1> DEFINE s == rows[p]
           t == rows'[p]
           last == LastIn(s)
<1>1. /\ p \in Living /\ p \in Places /\ n \in Nodes /\ n \notin alive /\ n # Null /\ n # p
      /\ s \in Seq(Nodes) /\ Len(s) \in Nat /\ rows[n] = <<>>
      /\ t \in Seq(Nodes) /\ Len(t) = Len(s) + 1
      /\ \A j \in 1..Len(s) : t[j] = s[j]
      /\ t[Len(s) + 1] = n
      /\ \A q \in Places \ {p} : rows'[q] = rows[q]
      /\ last \in alive \cup {Null}
      /\ last # Null => parent[last] = p
      /\ Living' = Living \cup {n}
  BY AppendedFacts
<1>2. /\ alive' = alive \cup {n}
      /\ parent'[n] = p /\ prev'[n] = last /\ next'[n] = Null /\ children'[n] = Null
      /\ sibling_index'[n] = Len(s) /\ n_children'[n] = 0
      /\ root' = IF p = Null /\ s = <<>> THEN n ELSE root
      /\ \A m \in Nodes \ {n} :
           /\ parent'[m] = parent[m] /\ prev'[m] = prev[m]
           /\ next'[m] = IF m = last THEN n ELSE next[m]
           /\ children'[m] = IF m = p /\ s = <<>> THEN n ELSE children[m]
           /\ sibling_index'[m] = sibling_index[m]
           /\ n_children'[m] = IF m = p THEN Len(s) + 1 ELSE n_children[m]
  BY <1>1 DEF Appended, LinkedAtEnd, Typed
<1>3. alive \subseteq Nodes /\ Living = alive \cup {Null} /\ Null \notin alive
  BY TreeAssumption DEF Typed, Living
<1>4. s = <<>> <=> Len(s) = 0
  BY <1>1
<1>5. last = Item(s, Len(s))
  BY DEF LastIn
<1>6. \A q \in Living \ {p} : rows'[q] = rows[q] /\ q # n
  BY <1>1, <1>3 DEF Places
<1>7. rows'[n] = <<>> /\ Len(rows'[n]) = 0
  BY <1>1 DEF Places
<1> HIDE DEF s, t, last
<1>8. Item(t, 1) = IF s = <<>> THEN n ELSE Item(s, 1)
  BY <1>1, <1>4 DEF Item
<1>9. Headed'
  <2>1. FirstOf(p)' = Item(t, 1)
    <3>1. FirstOf(p) = Item(s, 1)
      BY <1>1 DEF Grown, Headed, s
    <3>2. FirstOf(p)' = IF s = <<>> THEN n ELSE FirstOf(p)
      BY <1>1, <1>2, <1>3 DEF FirstOf
    <3> QED
      BY <1>8, <3>1, <3>2
  <2>2. FirstOf(n)' = Item(rows'[n], 1)
    BY <1>1, <1>2, <1>7 DEF FirstOf, Item
  <2>3. ASSUME NEW q \in Living \ {p} PROVE FirstOf(q)' = Item(rows'[q], 1)
    <3>1. FirstOf(q)' = FirstOf(q)
      BY <1>2, <1>3, <1>6 DEF FirstOf
    <3>2. FirstOf(q) = Item(rows[q], 1)
      BY DEF Grown, Headed
    <3> QED
      BY <1>6, <3>1, <3>2
  <2>4. \A q \in Living' : FirstOf(q)' = Item(rows'[q], 1)
    BY <1>1, <2>1, <2>2, <2>3 DEF t
  <2> QED
    BY <2>4 DEF Headed, Item
<1> DEFINE Joined(q, i, m) ==
             /\ m \in alive' /\ parent'[m] = q /\ sibling_index'[m] = i - 1
             /\ next'[m] = Item(rows'[q], i + 1) /\ prev'[m] = Item(rows'[q], i - 1)
<1>10. ASSUME NEW q \in Living, NEW i \in 1..Len(rows[q])
       PROVE  /\ rows[q][i] \in alive /\ parent[rows[q][i]] = q
              /\ sibling_index[rows[q][i]] = i - 1
              /\ next[rows[q][i]] = Item(rows[q], i + 1)
              /\ prev[rows[q][i]] = Item(rows[q], i - 1)
  BY DEF Grown, Linked
<1>11. \A q \in Living' : \A i \in 1..Len(rows'[q]) : Joined(q, i, rows'[q][i])
  <2>1. ASSUME NEW q \in Living \ {p}, NEW i \in 1..Len(rows'[q]) PROVE Joined(q, i, rows'[q][i])
    <3>1. rows'[q] = rows[q]
      BY <1>6
    <3>2. PICK m : m = rows[q][i]
      OBVIOUS
    <3>3. /\ m \in alive /\ parent[m] = q /\ sibling_index[m] = i - 1
          /\ next[m] = Item(rows[q], i + 1) /\ prev[m] = Item(rows[q], i - 1)
      BY <1>10, <3>1, <3>2
    <3>4. m # last /\ m \in Nodes \ {n}
      BY <1>1, <1>3, <3>3
    <3> QED
      BY <1>2, <3>1, <3>2, <3>3, <3>4
  <2>2. ASSUME NEW i \in 1..Len(s) PROVE Joined(p, i, t[i])
    <3>1. PICK m : m = s[i]
      OBVIOUS
    <3>2. /\ m \in alive /\ parent[m] = p /\ sibling_index[m] = i - 1
          /\ next[m] = Item(s, i + 1) /\ prev[m] = Item(s, i - 1)
      BY <1>1, <1>10, <3>1 DEF s
    <3>3. m \in Nodes \ {n} /\ t[i] = m /\ i \in Nat
      BY <1>1, <1>3, <3>1, <3>2
    <3>4. next'[m] = Item(t, i + 1)
      <4>1. CASE i = Len(s)
        <5>1. last = m
          BY <1>5, <3>1, <4>1 DEF Item
        <5>2. Item(t, i + 1) = n
          BY <1>1, <4>1 DEF Item
        <5> QED
          BY <1>2, <3>3, <5>1, <5>2
      <4>2. CASE i # Len(s)
        <5>1. i + 1 \in 1..Len(s) /\ Len(s) \in 1..Len(s)
          BY <1>1, <4>2
        <5>2. Item(t, i + 1) = Item(s, i + 1)
          BY <1>1, <5>1 DEF Item
        <5>3. sibling_index[last] = Len(s) - 1
          BY <1>1, <1>5, <1>10, <5>1 DEF Item, s
        <5>4. m # last
          BY <1>1, <3>2, <4>2, <5>3
        <5> QED
          BY <1>2, <3>2, <3>3, <5>2, <5>4
      <4> QED
        BY <4>1, <4>2
    <3>5. prev'[m] = Item(t, i - 1)
      BY <1>1, <1>2, <3>2, <3>3 DEF Item
    <3> QED
      BY <1>2, <3>2, <3>3, <3>4, <3>5 DEF t
  <2>3. Joined(p, Len(s) + 1, n)
    <3>1. Item(t, Len(s) + 2) = Null /\ Item(t, Len(s)) = last
      BY <1>1, <1>5 DEF Item
    <3>2. (Len(s) + 1) - 1 = Len(s) /\ (Len(s) + 1) + 1 = Len(s) + 2
      BY <1>1
    <3> QED
      BY <1>2, <3>1, <3>2 DEF t
  <2>4. ASSUME NEW i \in 1..Len(t) PROVE Joined(p, i, t[i])
    <3>1. i \in 1..Len(s) \/ i = Len(s) + 1
      BY <1>1
    <3> HIDE DEF Joined
    <3> QED
      BY <1>1, <2>2, <2>3, <3>1
  <2> HIDE DEF Joined
  <2> QED
    BY <1>1, <1>7, <2>1, <2>4 DEF t
<1>12. Linked'
  BY <1>11 DEF Linked, Item
<1>13. Placed'
  <2>1. ASSUME NEW m \in alive
        PROVE  /\ parent'[m] \in Living' /\ Item(rows'[parent'[m]], sibling_index'[m] + 1) = m
               /\ n_children'[m] = Len(rows'[m])
    <3>1. /\ parent[m] \in Living /\ sibling_index[m] \in Nat
          /\ Item(rows[parent[m]], sibling_index[m] + 1) = m /\ n_children[m] = Len(rows[m])
      BY InPlace DEF Grown, Placed
    <3>2. m \in Nodes \ {n} /\ m \in Living /\ m # Null
      BY <1>1, <1>3
    <3>3. parent'[m] = parent[m] /\ sibling_index'[m] = sibling_index[m]
      BY <1>2, <3>2
    <3>4. Item(rows'[parent[m]], sibling_index[m] + 1) = m
      <4>1. CASE parent[m] = p
        <5>1. sibling_index[m] + 1 \in 1..Len(s) /\ s[sibling_index[m] + 1] = m
          BY <3>1, <3>2, <4>1 DEF Item, s
        <5> QED
          BY <1>1, <4>1, <5>1 DEF Item, t
      <4>2. CASE parent[m] # p
        BY <1>6, <3>1, <4>2
      <4> QED
        BY <4>1, <4>2
    <3>5. n_children'[m] = Len(rows'[m])
      BY <1>1, <1>2, <1>6, <3>1, <3>2 DEF t
    <3> QED
      BY <1>1, <3>1, <3>3, <3>4, <3>5
  <2>2. /\ parent'[n] \in Living' /\ Item(rows'[parent'[n]], sibling_index'[n] + 1) = n
        /\ n_children'[n] = Len(rows'[n])
    BY <1>1, <1>2, <1>7 DEF Item, t
  <2>3. \A m \in alive' :
          /\ parent'[m] \in Living' /\ Item(rows'[parent'[m]], sibling_index'[m] + 1) = m
          /\ n_children'[m] = Len(rows'[m])
    BY <1>2, <2>1, <2>2
  <2> QED
    BY <2>3 DEF Placed, Item
<1>14. Unused'
  <2>1. ASSUME NEW m \in Nodes \ alive' PROVE rows'[m] = <<>>
    <3>1. m \in Nodes \ alive /\ m \in Places \ {p}
      BY <1>1, <1>2, <1>3, TreeAssumption DEF Places
    <3> QED
      BY <1>1, <3>1 DEF Grown, Unused
  <2> QED
    BY <2>1 DEF Unused
<1> QED
  BY <1>9, <1>12, <1>13, <1>14

LEMMA AppendedRoots ==
  ASSUME Typed, NEW above, Grown(above), NEW p, NEW n, Appended(p, n)
  PROVE  Rooted([above EXCEPT ![n] = above[p] \cup {n}])'
<1>new. PICK new : new = [above EXCEPT ![n] = above[p] \cup {n}]
  OBVIOUS
<1>1. /\ p \in Living /\ p \in Places /\ n \in Nodes /\ n \notin alive /\ n # Null /\ n # p
      /\ alive \subseteq Nodes /\ alive' = alive \cup {n} /\ Null \notin alive /\ Null \in Places
      /\ parent'[n] = p /\ \A m \in alive : parent'[m] = parent[m]
      /\ n \in Places
  <2>1. /\ p \in Living /\ p \in Places /\ n \in Nodes /\ n \notin alive /\ n # Null /\ n # p
    BY AppendedFacts
  <2>2. alive \subseteq Nodes /\ Null \notin alive /\ Null \in Places /\ n \in Places
    BY <2>1, TreeAssumption DEF Typed, Places
  <2>3. alive' = alive \cup {n} /\ parent' = [parent EXCEPT ![n] = p]
    BY DEF Appended, LinkedAtEnd
  <2>4. parent'[n] = p /\ \A m \in alive : parent'[m] = parent[m]
    BY <2>1, <2>2, <2>3 DEF Typed
  <2> QED
    BY <2>1, <2>2, <2>3, <2>4
<1>2. /\ above \in [Places -> SUBSET alive] /\ above[Null] = {}
      /\ \A m \in alive :
           /\ above[m] = above[parent[m]] \cup {m} /\ m \notin above[parent[m]]
           /\ parent[m] \in Living
           /\ \A a \in above[m] :
                /\ above[a] \subseteq above[m]
                /\ a = m \/ \E c \in above[m] : parent[c] = a
                /\ \A b \in above[m] : a \in above[b] \/ b \in above[a]
  BY DEF Grown, Rooted, Placed
<1>3. /\ new \in [Places -> SUBSET alive'] /\ new[n] = above[p] \cup {n}
      /\ \A q \in Places \ {n} : new[q] = above[q]
  BY <1>new, <1>1, <1>2
<1>4. \A m \in Living : new[m] = above[m] /\ above[m] \subseteq alive
  BY <1>1, <1>2, <1>3 DEF Living, Places
<1> DEFINE Good(m) ==
             /\ new[m] = new[parent'[m]] \cup {m} /\ m \notin new[parent'[m]]
             /\ \A a \in new[m] :
                  /\ new[a] \subseteq new[m]
                  /\ a = m \/ \E c \in new[m] : parent'[c] = a
                  /\ \A b \in new[m] : a \in new[b] \/ b \in new[a]
<1>5. ASSUME NEW m \in alive PROVE Good(m)
  <2>1. parent'[m] = parent[m] /\ new[m] = above[m] /\ new[parent[m]] = above[parent[m]]
    BY <1>1, <1>2, <1>4 DEF Living
  <2>2. \A a \in above[m] : a \in alive /\ new[a] = above[a] /\ parent'[a] = parent[a]
    BY <1>1, <1>4 DEF Living
  <2> QED
    BY <1>2, <2>1, <2>2
<1>6. Good(n)
  <2>1. new[n] = new[parent'[n]] \cup {n} /\ n \notin new[parent'[n]]
    BY <1>1, <1>3, <1>4
  <2>2. \A a \in above[p] : a \in alive /\ new[a] = above[a] /\ parent'[a] = parent[a]
    BY <1>1, <1>4 DEF Living
  <2>3. \A a \in above[p] :
          /\ p \in alive /\ above[a] \subseteq above[p]
          /\ a = p \/ \E c \in above[p] : parent[c] = a
          /\ \A b \in above[p] : a \in above[b] \/ b \in above[a]
    BY <1>1, <1>2 DEF Living
  <2>4. ASSUME NEW a \in new[n]
        PROVE  /\ new[a] \subseteq new[n]
               /\ a = n \/ \E c \in new[n] : parent'[c] = a
               /\ \A b \in new[n] : a \in new[b] \/ b \in new[a]
    <3>1. CASE a = n
      BY <3>1
    <3>2. CASE a # n
      <4>1. a \in above[p]
        BY <1>3, <3>2
      <4> QED
        BY <1>1, <1>3, <2>2, <2>3, <4>1
    <3> QED
      BY <3>1, <3>2
  <2> QED
    BY <2>1, <2>4
<1>7. new[Null] = {}
  BY <1>1, <1>2, <1>3
<1>8. Rooted(new)'
  <2> HIDE DEF Good
  <2>1. \A m \in alive' : Good(m)
    BY <1>1, <1>5, <1>6
  <2> QED
    BY <1>3, <1>7, <2>1 DEF Rooted, Good
<1> QED
  BY <1>new, <1>8

\* A loop goes on over the nodes that stay, if they stay in order.
LEMMA LoopKept ==
  ASSUME NEW above, Rooted(above), Looping(above), loop # Nothing,
         NEW keep \in SUBSET alive, keep \subseteq alive', NEW new,
         \A m \in keep : /\ new[m] = above[m] /\ above[m] \subseteq keep
                         /\ parent'[m] = parent[m] /\ matches'[m] = matches[m]
                         /\ sibling_index[m] \in Nat /\ sibling_index'[m] \in Nat,
         \A a, b \in keep : parent[a] = parent[b] =>
           (sibling_index'[a] < sibling_index'[b] <=> sibling_index[a] < sibling_index[b]),
         loop'.kind = loop.kind, loop'.of = loop.of,
         loop'.node = loop.node, loop'.more = loop.more,
         loop'.due \subseteq loop.due \cap keep, loop'.seen \subseteq loop.seen \cap keep,
         loop.more =>
           /\ loop.node \in keep
           /\ removing' # Nothing => removing' = removing /\ removing \in alive'
  PROVE  Looping(new)'
<1>1. \A m, x \in keep : Before(m, x, above) => Before(m, x, new)'
  BY DEF Before
<1>2. ASSUME loop'.more, loop.kind = "children" PROVE ChildrenLoop'
  <2>1. ChildrenLoop /\ loop.node \in keep
    BY <1>2 DEF Looping
  <2>2. parent'[loop.node] = loop.of
    BY <2>1 DEF ChildrenLoop
  <2>3. ASSUME NEW m \in loop'.due
        PROVE  parent'[m] = loop.of /\ sibling_index'[loop.node] <= sibling_index'[m]
    <3>1. m \in keep /\ parent[m] = loop.of /\ sibling_index[loop.node] <= sibling_index[m]
      BY <2>1 DEF ChildrenLoop
    <3>2. ~(sibling_index[m] < sibling_index[loop.node]) /\ parent[m] = parent[loop.node]
      BY <2>1, <3>1 DEF ChildrenLoop
    <3> QED
      BY <2>1, <3>1, <3>2
  <2>4. ASSUME NEW m \in loop'.seen
        PROVE  parent'[m] = loop.of /\ sibling_index'[m] < sibling_index'[loop.node]
    BY <2>1 DEF ChildrenLoop
  <2> QED
    BY <2>2, <2>3, <2>4 DEF ChildrenLoop
<1>3. ASSUME loop'.more, loop.kind = "find" PROVE FindLoop(new)'
  <2>1. FindLoop(above) /\ loop.node \in keep
    BY <1>3 DEF Looping
  <2>2. PICK at : at = loop.node
    OBVIOUS
  <2>3. ASSUME loop.of # Null
        PROVE  \A m \in loop'.due :
                 /\ loop.of \in new[m] /\ matches'[m]
                 /\ m = at \/ Before(at, m, new)'
    BY <1>1, <2>1, <2>2, <2>3 DEF FindLoop
  <2>4. \A m \in loop'.seen : Before(m, at, new)'
    BY <1>1, <2>1, <2>2 DEF FindLoop
  <2>5. loop'.node = at /\ loop'.of = loop.of
    BY <2>2
  <2> QED
    BY <2>3, <2>4, <2>5 DEF FindLoop, Before
<1>4. loop'.due \subseteq alive' /\ loop'.seen \subseteq alive'
  OBVIOUS
<1>5. ASSUME loop'.more
      PROVE  /\ loop'.node \in alive'
             /\ removing' # Nothing => removing' \in alive' /\ removing' \notin new[loop'.node]
  BY <1>5 DEF Looping
<1>6. ASSUME ~loop'.more PROVE LoopMissesNone'
  BY <1>6 DEF Looping, LoopMissesNone
<1> QED
  BY <1>2, <1>3, <1>4, <1>5, <1>6 DEF Looping

LEMMA AppendsInv ==
  ASSUME TreeInv, NEW p, NEW n, Appends(p, n)
  PROVE  TreeInv'
<1>1. PICK above : Typed /\ Grown(above) /\ Looping(above)
  BY DEF TreeInv
<1>2. Appended(p, n)
  BY <1>1, AppendsAppended
<1>3. PICK new : new = [above EXCEPT ![n] = above[p] \cup {n}]
  OBVIOUS
<1>4. Typed'
  BY <1>1, <1>2, AppendedTyped
<1>5. Headed' /\ Linked' /\ Placed' /\ Unused'
  BY <1>1, <1>2, AppendedThreads
<1>6. Rooted(new)'
  BY <1>1, <1>2, <1>3, AppendedRoots DEF Rooted
<1>7. Looping(new)'
  <2>1. CASE loop = Nothing
    BY <1>2, <2>1 DEF Looping, Appended
  <2>2. CASE loop # Nothing
    <3>1. Rooted(above) /\ n \notin alive /\ n \in Nodes /\ alive \subseteq Nodes
      BY <1>1, <1>2 DEF Grown, Appended, Typed
    <3>2. \A m \in alive : /\ new[m] = above[m] /\ above[m] \subseteq alive
                           /\ parent'[m] = parent[m] /\ matches'[m] = matches[m]
                           /\ sibling_index[m] \in Nat /\ sibling_index'[m] = sibling_index[m]
      BY <1>1, <1>2, <1>3, <3>1 DEF Typed, Rooted, Appended, LinkedAtEnd, Places
    <3>3. loop' = loop /\ removing' = Nothing /\ alive \subseteq alive'
      BY <1>2 DEF Appended
    <3>4. loop.due \subseteq alive /\ loop.seen \subseteq alive
          /\ (loop.more => loop.node \in alive)
      BY <1>1, <2>2 DEF Looping
    <3> QED
      BY <1>1, <2>2, <3>1, <3>2, <3>3, <3>4, LoopKept
  <2> QED
    BY <2>1, <2>2
<1> QED
  BY <1>4, <1>5, <1>6, <1>7 DEF TreeInv, Grown

\* Going down to the first child ends at a leaf.
LEMMA FirstLeafIsLeaf ==
  ASSUME Typed, NEW above, Grown(above), NEW r \in Living
  PROVE  LET f == FirstLeaf[Depth][r]
         IN f \in Living /\ FirstOf(f) = Null /\ (r \in alive => f \in alive /\ r \in above[f])
<1> DEFINE Leafy(k, q) ==
             LET f == FirstLeaf[k][q]
             IN f \in Living /\ FirstOf(f) = Null /\ (q \in alive => f \in alive /\ q \in above[f])
           S == {k \in Nat : \A q \in Living :
                   Cardinality(alive) <= k + Cardinality(above[q]) => Leafy(k, q)}
<1>1. /\ FirstLeaf[0] = [n \in Places |-> n]
      /\ \A k \in Nat : \A q \in Places : FirstLeaf[k + 1][q] =
           IF FirstOf(q) = Null THEN q ELSE FirstLeaf[k][FirstOf(q)]
  <2>1. Leafed(FirstLeaf, root, children)
    BY Recursions DEF Typed
  <2>2. /\ FirstLeaf[0] = [n \in Places |-> n]
        /\ \A k \in Nat : FirstLeaf[k + 1] =
             [n \in Places |-> IF FirstOf(n) = Null THEN n ELSE FirstLeaf[k][FirstOf(n)]]
    BY <2>1, Zenon DEF Leafed, FirstOf
  <2> QED
    BY <2>2, ZenonT(60)
<1>2. /\ alive \subseteq Nodes /\ Living \subseteq Places /\ Null \notin alive
      /\ IsFiniteSet(alive) /\ Cardinality(alive) \in Nat /\ Cardinality(alive) <= Depth
  <2>1. alive \in SUBSET Nodes
    BY DEF Typed
  <2> QED
    BY <2>1, TreeAssumption, FS_Subset, FS_CardinalityType DEF Depth, Living, Places
<1>3. Rises(alive, parent, above)
  BY ParentsRise DEF Grown
<1>4. \A q \in Living : Cardinality(above[q]) \in Nat
  BY <1>3, Ranks DEF Living
<1>5. ASSUME NEW q \in Living, FirstOf(q) # Null
      PROVE  /\ FirstOf(q) \in alive /\ above[FirstOf(q)] = above[q] \cup {FirstOf(q)}
             /\ FirstOf(q) \notin above[q]
             /\ Cardinality(above[FirstOf(q)]) = Cardinality(above[q]) + 1
  <2>1. FirstOf(q) = Item(rows[q], 1)
    BY DEF Grown, Headed
  <2>2. FirstOf(q) \in alive /\ parent[FirstOf(q)] = q
    BY <1>5, <2>1 DEF Grown, Linked, Item
  <2> QED
    BY <1>3, <2>2, Ranks DEF Grown, Rooted
<1>6. ASSUME NEW q \in Living PROVE above[q] \in SUBSET alive /\ (q \in alive => q \in above[q])
  BY <1>2 DEF Grown, Rooted
<1>7. 0 \in S
  <2>1. ASSUME NEW q \in Living, Cardinality(alive) <= 0 + Cardinality(above[q])
        PROVE  Leafy(0, q)
    <3>1. above[q] = alive
      <4>1. Cardinality(above[q]) <= Cardinality(alive)
        BY <1>2, <1>6, FS_Subset
      <4>2. Cardinality(alive) = Cardinality(above[q])
        BY <1>2, <1>4, <2>1, <4>1
      <4> QED
        BY <1>2, <1>6, <4>2, FS_Subset
    <3>2. FirstOf(q) = Null
      BY <1>5, <3>1
    <3> QED
      BY <1>1, <1>2, <1>6, <3>2
  <2> HIDE DEF Leafy
  <2> QED
    BY <2>1
<1>8. ASSUME NEW k \in Nat, k \in S PROVE k + 1 \in S
  <2>1. ASSUME NEW q \in Living, Cardinality(alive) <= (k + 1) + Cardinality(above[q])
        PROVE  Leafy(k + 1, q)
    <3>1. CASE FirstOf(q) = Null
      <4>1. FirstLeaf[k + 1][q] = q
        BY <1>1, <1>2, <3>1
      <4> QED
        BY <1>6, <3>1, <4>1
    <3>2. CASE FirstOf(q) # Null
      <4>1. PICK c \in alive : c = FirstOf(q)
        BY <1>5, <3>2
      <4>2. FirstLeaf[k + 1][q] = FirstLeaf[k][c]
        BY <1>1, <1>2, <3>2, <4>1
      <4>3. /\ above[c] = above[q] \cup {c}
            /\ Cardinality(above[c]) = Cardinality(above[q]) + 1 /\ c \in Living
        BY <1>5, <3>2, <4>1 DEF Living
      <4>4. Cardinality(alive) <= k + Cardinality(above[c])
        BY <1>2, <1>4, <2>1, <4>3
      <4>5. Leafy(k, c)
        BY <1>8, <4>3, <4>4
      <4>6. \A f \in alive : c \in above[f] => above[c] \subseteq above[f]
        BY DEF Grown, Rooted
      <4> QED
        BY <1>6, <4>2, <4>3, <4>5, <4>6
    <3> QED
      BY <3>1, <3>2
  <2> HIDE DEF Leafy
  <2> QED
    BY <2>1
<1>9. Depth \in S
  <2> HIDE DEF S
  <2> QED
    BY <1>7, <1>8, NatSetInduction, DepthIsNat
<1>10. Cardinality(alive) <= Depth + Cardinality(above[r])
  BY <1>2, <1>4, DepthIsNat
<1> QED
  BY <1>9, <1>10

(***************************************************************************)
(* A leaf n, the child number i of p, is unlinked, and signalled.          *)
(***************************************************************************)
Leaf(n, p) == n \in alive /\ p = parent[n] /\ FirstOf(n) = Null

LEMMA LeafFacts ==
  ASSUME Typed, NEW above, Grown(above), NEW n, NEW p, Leaf(n, p)
  PROVE  /\ n \in alive /\ n \in Nodes /\ n # Null /\ n \in Places /\ n \in Living
         /\ p \in Living /\ p \in Places /\ p # n
         /\ rows[p] \in Seq(Nodes) /\ Len(rows[p]) \in Nat
         /\ sibling_index[n] \in Nat /\ sibling_index[n] + 1 \in 1..Len(rows[p])
         /\ rows[p][sibling_index[n] + 1] = n
         /\ rows[n] = <<>> /\ Len(rows[n]) = 0
         /\ next[n] = Item(rows[p], sibling_index[n] + 2)
         /\ prev[n] = Item(rows[p], sibling_index[n])
<1>1. /\ n \in alive /\ n \in Nodes /\ n # Null /\ n \in Places /\ n \in Living
      /\ p \in Living /\ p \in Places /\ rows[p] \in Seq(Nodes) /\ Len(rows[p]) \in Nat
      /\ sibling_index[n] \in Nat /\ sibling_index[n] + 1 \in 1..Len(rows[p])
      /\ rows[p][sibling_index[n] + 1] = n
  BY InPlace, LenProperties DEF Leaf, Grown, Living, Places
<1>2. p # n
  BY <1>1 DEF Leaf, Grown, Rooted
<1>3. rows[n] \in Seq(Nodes) /\ Item(rows[n], 1) = Null
  BY <1>1 DEF Leaf, Grown, Headed, Typed
<1>4. Len(rows[n]) = 0 /\ rows[n] = <<>>
  BY <1>3, ItemInList, LenProperties, EmptySeq
<1>5. /\ next[n] = Item(rows[p], (sibling_index[n] + 1) + 1)
      /\ prev[n] = Item(rows[p], (sibling_index[n] + 1) - 1)
  BY <1>1 DEF Grown, Linked
<1>6. (sibling_index[n] + 1) + 1 = sibling_index[n] + 2 /\ (sibling_index[n] + 1) - 1 = sibling_index[n]
  BY <1>1
<1> QED
  BY <1>1, <1>2, <1>4, <1>5, <1>6

LEMMA RowFreed ==
  ASSUME Typed, NEW above, Grown(above), NEW n, NEW p, Leaf(n, p), RowDeleted(PathOf(n))
  PROVE  /\ rows' = [rows EXCEPT ![p] = RemoveAt(@, sibling_index[n] + 1), ![n] = <<>>]
         /\ rows'[p] = RemoveAt(rows[p], sibling_index[n] + 1) /\ rows'[n] = <<>>
         /\ \A q \in Places \ {p} : rows'[q] = rows[q]
         /\ rows'[p] \in Seq(Nodes) /\ Len(rows'[p]) = Len(rows[p]) - 1
         /\ \A j \in 1..Len(rows'[p]) :
              rows'[p][j] = IF j < sibling_index[n] + 1 THEN rows[p][j] ELSE rows[p][j + 1]
<1>1. /\ n \in alive /\ n \in Nodes /\ n # Null /\ n \in Places /\ p \in Places /\ p # n
      /\ rows[p] \in Seq(Nodes) /\ sibling_index[n] + 1 \in 1..Len(rows[p]) /\ rows[n] = <<>>
      /\ n # Nothing
  BY LeafFacts, TreeAssumption
<1>2. /\ RowAt(PathOf(n)) = n /\ RowAt(Front(PathOf(n))) = p
      /\ Last(PathOf(n)) = sibling_index[n]
  BY <1>1, PathOfNode DEF Grown, Leaf
<1>3. rows' = [rows EXCEPT ![p] = RemoveAt(@, sibling_index[n] + 1), ![n] = <<>>]
  BY <1>1, <1>2 DEF RowDeleted
<1>4. /\ rows'[p] = RemoveAt(rows[p], sibling_index[n] + 1) /\ rows'[n] = <<>>
      /\ \A q \in Places \ {p} : rows'[q] = rows[q]
  BY <1>1, <1>3 DEF Typed
<1>5. PICK u : u = RemoveAt(rows[p], sibling_index[n] + 1)
  OBVIOUS
<1>6. /\ u \in Seq(Nodes) /\ Len(u) = Len(rows[p]) - 1
      /\ \A j \in 1..Len(u) : u[j] = IF j < sibling_index[n] + 1 THEN rows[p][j] ELSE rows[p][j + 1]
  BY <1>1, <1>5, RemovedFrom
<1> QED
  BY <1>3, <1>4, <1>5, <1>6

LEMMA ThreadIsSiblingsNext == \A p \in Places : Threaded(p)' => Siblings(p)' = rows'[p]
<1>1. (\A p \in Places : Threaded(p) => Siblings(p) = rows[p])'
  BY ThreadIsSiblings, PTL
<1> QED
  BY <1>1

LEMMA Unlinked ==
  ASSUME Typed, NEW above, Grown(above), NEW n, NEW p, Leaf(n, p), Unlink(n)
  PROVE  /\ root' \in Places /\ next' \in [Nodes -> Places] /\ prev' \in [Nodes -> Places]
         /\ children' \in [Nodes -> Places] /\ parent' \in [Nodes -> Places]
         /\ parent'[n] = Null
         /\ \A q \in Living : FirstOf(q)' =
              IF q = p /\ prev[n] = Null THEN next[n] ELSE FirstOf(q)
         /\ \A m \in Nodes \ {n} :
              /\ parent'[m] = parent[m]
              /\ next'[m] = IF m = prev[n] THEN next[n] ELSE next[m]
              /\ prev'[m] = IF m = next[n] THEN prev[n] ELSE prev[m]
<1>1. /\ n \in Nodes /\ p = parent[n] /\ p \in Living /\ next[n] \in Places /\ prev[n] \in Places
      /\ Living \subseteq Places
  BY LeafFacts DEF Leaf, Typed, Living, Places
<1>2. parent' = [parent EXCEPT ![n] = Null] /\ Null \in Places
  BY DEF Unlink, UnlinkAs, Places
<1>3. next' = [m \in Nodes |-> IF m = prev[n] THEN next[n] ELSE IF m = n THEN Null ELSE next[m]]
  BY DEF Unlink, UnlinkAs
<1>4. prev' = [m \in Nodes |-> IF m = next[n] THEN prev[n] ELSE IF m = n THEN Null ELSE prev[m]]
  BY DEF Unlink, UnlinkAs
<1>5. children' = [m \in Nodes |-> IF prev[n] = Null /\ m = p THEN next[n] ELSE children[m]]
  BY <1>1 DEF Unlink, UnlinkAs
<1>6. root' = IF prev[n] = Null /\ p = Null THEN next[n] ELSE root
  BY <1>1 DEF Unlink, UnlinkAs
<1>7. root' \in Places /\ children' \in [Nodes -> Places] /\ parent' \in [Nodes -> Places]
  BY <1>1, <1>2, <1>5, <1>6 DEF Typed
<1>8. next' \in [Nodes -> Places] /\ prev' \in [Nodes -> Places]
  BY <1>1, <1>2, <1>3, <1>4 DEF Typed
<1>9. parent'[n] = Null /\ \A m \in Nodes \ {n} :
        /\ parent'[m] = parent[m]
        /\ next'[m] = IF m = prev[n] THEN next[n] ELSE next[m]
        /\ prev'[m] = IF m = next[n] THEN prev[n] ELSE prev[m]
  BY <1>1, <1>2, <1>3, <1>4 DEF Typed
<1>10. ASSUME NEW q \in Living
       PROVE  FirstOf(q)' = IF q = p /\ prev[n] = Null THEN next[n] ELSE FirstOf(q)
  <2>1. q = Null \/ q \in Nodes
    BY <1>1 DEF Places
  <2> QED
    BY <1>5, <1>6, <2>1 DEF FirstOf
<1> QED
  BY <1>7, <1>8, <1>9, <1>10

LEMMA FreedSiblings ==
  ASSUME Typed, NEW above, Grown(above), NEW n, NEW p, Leaf(n, p),
         Unlink(n), RowDeleted(PathOf(n))
  PROVE  /\ FirstOf(p)' = Item(rows'[p], 1)
         /\ \A j \in 1..Len(rows'[p]) :
              /\ rows'[p][j] \in alive \ {n} /\ parent[rows'[p][j]] = p
              /\ next'[rows'[p][j]] = Item(rows'[p], j + 1)
              /\ prev'[rows'[p][j]] = Item(rows'[p], j - 1)
              /\ \A h \in 1..Len(rows'[p]) : rows'[p][h] = rows'[p][j] => h = j
         /\ Siblings(p)' = rows'[p]
<1> DEFINE s == rows[p]
           t == rows'[p]
           i == sibling_index[n] + 1
<1>1. /\ n \in alive /\ n \in Nodes /\ p \in Living /\ p \in Places
      /\ s \in Seq(Nodes) /\ Len(s) \in Nat /\ i \in Nat /\ i \in 1..Len(s) /\ s[i] = n
      /\ next[n] = Item(s, i + 1) /\ prev[n] = Item(s, i - 1)
  <2>1. sibling_index[n] + 2 = i + 1 /\ sibling_index[n] = i - 1
    BY LeafFacts
  <2> QED
    BY <2>1, LeafFacts
<1>2. /\ t \in Seq(Nodes) /\ Len(t) = Len(s) - 1
      /\ \A j \in 1..Len(t) : t[j] = IF j < i THEN s[j] ELSE s[j + 1]
  BY RowFreed
<1>3. ASSUME NEW j \in 1..Len(s)
      PROVE  /\ s[j] \in alive /\ s[j] \in Nodes /\ s[j] # Null /\ parent[s[j]] = p
             /\ next[s[j]] = Item(s, j + 1) /\ prev[s[j]] = Item(s, j - 1)
             /\ \A h \in 1..Len(s) : s[h] = s[j] => h = j
  <2>1. /\ s[j] \in alive /\ parent[s[j]] = p
        /\ next[s[j]] = Item(s, j + 1) /\ prev[s[j]] = Item(s, j - 1)
    BY <1>1 DEF Grown, Linked
  <2>2. \A h \in 1..Len(s) : s[h] = s[j] => h = j
    BY <1>1, RowsAreDistinct DEF Grown
  <2> QED
    BY <2>1, <2>2, TreeAssumption DEF Typed
<1>4. FirstOf(p) = Item(s, 1) /\ FirstOf(p)' = IF prev[n] = Null THEN next[n] ELSE FirstOf(p)
  BY <1>1, Unlinked DEF Grown, Headed
<1>5. \A m \in Nodes \ {n} :
        /\ next'[m] = IF m = prev[n] THEN next[n] ELSE next[m]
        /\ prev'[m] = IF m = next[n] THEN prev[n] ELSE prev[m]
  BY Unlinked
<1> HIDE DEF s, t, i
<1>6. FirstOf(p)' = Item(t, 1)
  <2>1. CASE i = 1
    <3>1. prev[n] = Null /\ next[n] = Item(s, 2)
      BY <1>1, <2>1 DEF Item
    <3>2. Item(t, 1) = Item(s, 2)
      BY <1>1, <1>2, <2>1 DEF Item
    <3> QED
      BY <1>4, <3>1, <3>2
  <2>2. CASE i # 1
    <3>1. prev[n] # Null
      <4>1. i - 1 \in 1..Len(s)
        BY <1>1, <2>2
      <4> QED
        BY <1>1, <1>3, <4>1 DEF Item
    <3>2. Item(t, 1) = Item(s, 1)
      BY <1>1, <1>2, <2>2 DEF Item
    <3> QED
      BY <1>4, <3>1, <3>2
  <2> QED
    BY <2>1, <2>2
<1>7. ASSUME NEW j \in 1..Len(t)
      PROVE  /\ t[j] \in alive \ {n} /\ parent[t[j]] = p
             /\ next'[t[j]] = Item(t, j + 1) /\ prev'[t[j]] = Item(t, j - 1)
             /\ \A h \in 1..Len(t) : t[h] = t[j] => h = j
  <2> DEFINE x == IF j < i THEN j ELSE j + 1
  <2>1. x \in 1..Len(s) /\ x # i /\ t[j] = s[x] /\ x \in Nat /\ j \in Nat
    BY <1>1, <1>2
  <2>2. s[x] \in Nodes \ {n} /\ s[x] \in alive /\ parent[s[x]] = p
    BY <1>1, <1>3, <2>1
  <2>3. s[x] = prev[n] <=> x = i - 1
    <3>1. CASE i - 1 \in 1..Len(s)
      BY <1>1, <1>3, <2>1, <3>1 DEF Item
    <3>2. CASE i - 1 \notin 1..Len(s)
      BY <1>1, <1>3, <2>1, <3>2 DEF Item
    <3> QED
      BY <3>1, <3>2
  <2>4. s[x] = next[n] <=> x = i + 1
    <3>1. CASE i + 1 \in 1..Len(s)
      BY <1>1, <1>3, <2>1, <3>1 DEF Item
    <3>2. CASE i + 1 \notin 1..Len(s)
      BY <1>1, <1>3, <2>1, <3>2 DEF Item
    <3> QED
      BY <3>1, <3>2
  <2>5. next[s[x]] = Item(s, x + 1) /\ prev[s[x]] = Item(s, x - 1)
    BY <1>3, <2>1
  <2>6. next'[s[x]] = Item(t, j + 1)
    <3>1. Item(t, j + 1) = IF x = i - 1 THEN Item(s, i + 1) ELSE Item(s, x + 1)
      <4> HIDE DEF x
      <4>1. j + 1 \in 1..Len(t) <=> (IF x = i - 1 THEN i + 1 ELSE x + 1) \in 1..Len(s)
        BY <1>1, <1>2 DEF x
      <4>2. j + 1 \in 1..Len(t) => t[j + 1] = s[IF x = i - 1 THEN i + 1 ELSE x + 1]
        BY <1>1, <1>2 DEF x
      <4> QED
        BY <4>1, <4>2 DEF Item
    <3> HIDE DEF x
    <3> QED
      BY <1>1, <1>5, <2>2, <2>3, <2>5, <3>1
  <2>7. prev'[s[x]] = Item(t, j - 1)
    <3>1. Item(t, j - 1) = IF x = i + 1 THEN Item(s, i - 1) ELSE Item(s, x - 1)
      <4> HIDE DEF x
      <4>1. j - 1 \in 1..Len(t) <=> (IF x = i + 1 THEN i - 1 ELSE x - 1) \in 1..Len(s)
        BY <1>1, <1>2 DEF x
      <4>2. j - 1 \in 1..Len(t) => t[j - 1] = s[IF x = i + 1 THEN i - 1 ELSE x - 1]
        BY <1>1, <1>2 DEF x
      <4> QED
        BY <4>1, <4>2 DEF Item
    <3> HIDE DEF x
    <3> QED
      BY <1>1, <1>5, <2>2, <2>4, <2>5, <3>1
  <2>8. ASSUME NEW h \in 1..Len(t), t[h] = t[j] PROVE h = j
    <3>1. t[h] = s[IF h < i THEN h ELSE h + 1] /\ (IF h < i THEN h ELSE h + 1) \in 1..Len(s)
      BY <1>1, <1>2
    <3>2. (IF h < i THEN h ELSE h + 1) = x
      BY <1>3, <2>1, <2>8, <3>1
    <3> QED
      BY <1>1, <3>2
  <2> HIDE DEF x
  <2> QED
    BY <2>1, <2>2, <2>6, <2>7, <2>8
<1>8. Threaded(p)'
  <2>1. next' \in [Nodes -> Places]
    BY Unlinked
  <2>2. \A h, j \in 1..Len(t) : t[h] = t[j] => h = j
    BY <1>7
  <2> QED
    BY <1>2, <1>6, <1>7, <2>1, <2>2 DEF Threaded, Item, t
<1>9. Siblings(p)' = t
  BY <1>1, <1>8, ThreadIsSiblingsNext DEF t
<1> QED
  BY <1>6, <1>7, <1>9 DEF t

LEMMA FreedIndexes ==
  ASSUME Typed, NEW above, Grown(above), NEW n, NEW p, Leaf(n, p), Frees(n, p)
  PROVE  /\ sibling_index' \in [Nodes -> Nat] /\ n_children' \in [Nodes -> Nat]
         /\ \A j \in 1..Len(rows'[p]) : sibling_index'[rows'[p][j]] = j - 1
         /\ \A m \in alive : m # n /\ parent[m] # p => sibling_index'[m] = sibling_index[m]
         /\ \A m \in Nodes : n_children'[m] = IF m = p THEN Len(rows'[p]) ELSE n_children[m]
<1> DEFINE t == rows'[p]
<1>1. Unlink(n) /\ RowDeleted(PathOf(n)) /\ Reindex(n, p)
  BY DEF Frees
<1>2. /\ t \in Seq(Nodes) /\ Siblings(p)' = t
      /\ \A j \in 1..Len(t) : /\ t[j] \in alive \ {n} /\ parent[t[j]] = p
                              /\ \A h \in 1..Len(t) : t[h] = t[j] => h = j
  BY <1>1, RowFreed, FreedSiblings
<1> HIDE DEF t
<1>3. /\ sibling_index' = Renumbered(n, t) /\ n_children' = Recounted(p, t)
      /\ Len(t) \in Nat /\ alive \subseteq Nodes
      /\ sibling_index \in [Nodes -> Nat] /\ n_children \in [Nodes -> Nat]
  BY <1>1, <1>2, LenProperties DEF Reindex, Typed
<1>4. ASSUME NEW m PROVE m \in ToSet(t) <=> \E j \in 1..Len(t) : t[j] = m
  BY <1>2, LenProperties DEF ToSet
<1>5. ASSUME NEW m, NEW j \in 1..Len(t), t[j] = m
      PROVE  SelectInSeq(t, LAMBDA x : x = m) = j
  BY <1>2, <1>5, FoundAt DEF SelectInSeq
<1>6. ASSUME NEW m \in Nodes, m # n, m \notin ToSet(t) PROVE sibling_index'[m] = sibling_index[m]
  BY <1>3, <1>6 DEF Renumbered
<1>7. ASSUME NEW m \in Nodes, m # n, NEW j \in 1..Len(t), t[j] = m PROVE sibling_index'[m] = j - 1
  <2>1. m \in ToSet(t)
    BY <1>4, <1>7
  <2>2. sibling_index'[m] = SelectInSeq(t, LAMBDA x : x = m) - 1
    BY <1>3, <1>7, <2>1 DEF Renumbered
  <2>3. SelectInSeq(t, LAMBDA x : x = m) = j
    BY <1>5, <1>7 DEF SelectInSeq
  <2> QED
    BY <2>2, <2>3 DEF SelectInSeq
<1>8. sibling_index' \in [Nodes -> Nat]
  <2>1. sibling_index' = [m \in Nodes |-> sibling_index'[m]]
    BY <1>3 DEF Renumbered
  <2>2. ASSUME NEW m \in Nodes PROVE sibling_index'[m] \in Nat
    <3>1. CASE m = n
      BY <1>3, <3>1 DEF Renumbered
    <3>2. CASE m # n /\ m \notin ToSet(t)
      BY <1>3, <1>6, <3>2
    <3>3. CASE m # n /\ m \in ToSet(t)
      BY <1>3, <1>4, <1>7, <3>3
    <3> QED
      BY <3>1, <3>2, <3>3
  <2> QED
    BY <2>1, <2>2
<1>9. n_children' \in [Nodes -> Nat] /\ \A m \in Nodes :
        n_children'[m] = IF m = p THEN Len(t) ELSE n_children[m]
  BY <1>3 DEF Recounted
<1>10. \A j \in 1..Len(t) : sibling_index'[t[j]] = j - 1
  BY <1>2, <1>3, <1>7
<1>11. \A m \in alive : m # n /\ parent[m] # p => sibling_index'[m] = sibling_index[m]
  BY <1>2, <1>3, <1>4, <1>6, SMTT(30)
<1> QED
  BY <1>8, <1>9, <1>10, <1>11 DEF t

LEMMA FreedThreads ==
  ASSUME Typed, NEW above, Grown(above), NEW n, NEW p, Leaf(n, p), Frees(n, p)
  PROVE  Headed' /\ Linked' /\ Placed' /\ Unused'
<1> DEFINE s == rows[p]
           t == rows'[p]
           i == sibling_index[n] + 1
<1>1. /\ n \in alive /\ n \in Nodes /\ n # Null /\ n \in Places /\ p \in Living /\ p \in Places
      /\ p # n /\ p = parent[n] /\ s \in Seq(Nodes) /\ Len(s) \in Nat
      /\ i \in 1..Len(s) /\ s[i] = n /\ i \in Nat /\ rows[n] = <<>>
      /\ next[n] = Item(s, i + 1) /\ prev[n] = Item(s, i - 1)
  <2>1. sibling_index[n] + 2 = i + 1 /\ sibling_index[n] = i - 1
    BY LeafFacts
  <2> QED
    BY <2>1, LeafFacts DEF Leaf
<1>2. Unlink(n) /\ RowDeleted(PathOf(n)) /\ alive' = alive \ {n}
  BY DEF Frees
<1>3. /\ rows'[n] = <<>> /\ \A q \in Places \ {p} : rows'[q] = rows[q]
      /\ t \in Seq(Nodes) /\ Len(t) = Len(s) - 1
      /\ \A j \in 1..Len(t) : t[j] = IF j < i THEN s[j] ELSE s[j + 1]
  BY <1>2, RowFreed
<1>4. /\ FirstOf(p)' = Item(t, 1)
      /\ \A j \in 1..Len(t) :
           /\ t[j] \in alive \ {n} /\ parent[t[j]] = p
           /\ next'[t[j]] = Item(t, j + 1) /\ prev'[t[j]] = Item(t, j - 1)
  BY <1>2, FreedSiblings
<1>5. /\ \A q \in Living : FirstOf(q)' =
           IF q = p /\ prev[n] = Null THEN next[n] ELSE FirstOf(q)
      /\ \A m \in Nodes \ {n} :
           /\ parent'[m] = parent[m]
           /\ next'[m] = IF m = prev[n] THEN next[n] ELSE next[m]
           /\ prev'[m] = IF m = next[n] THEN prev[n] ELSE prev[m]
  BY <1>2, Unlinked
<1>6. /\ \A j \in 1..Len(t) : sibling_index'[t[j]] = j - 1
      /\ \A m \in alive : m # n /\ parent[m] # p => sibling_index'[m] = sibling_index[m]
      /\ \A m \in Nodes : n_children'[m] = IF m = p THEN Len(t) ELSE n_children[m]
  BY FreedIndexes
<1>7. /\ alive \subseteq Nodes /\ Living = alive \cup {Null} /\ Null \notin alive
      /\ Living \subseteq Places /\ Living' = Living \ {n}
  BY <1>1, <1>2, TreeAssumption DEF Typed, Living, Places
<1>8. \A q \in Living : \A j \in 1..Len(rows[q]) :
        /\ rows[q][j] \in alive /\ parent[rows[q][j]] = q /\ sibling_index[rows[q][j]] = j - 1
        /\ next[rows[q][j]] = Item(rows[q], j + 1) /\ prev[rows[q][j]] = Item(rows[q], j - 1)
  BY DEF Grown, Linked
<1>9. /\ prev[n] # Null => parent[prev[n]] = p
      /\ next[n] # Null => parent[next[n]] = p
  <2>1. \A j \in Int : Item(s, j) # Null => parent[Item(s, j)] = p
    BY <1>1, <1>8 DEF Item
  <2>2. i - 1 \in Int /\ i + 1 \in Int
    BY <1>1
  <2> HIDE DEF s, i
  <2> QED
    BY <1>1, <2>1, <2>2
<1> HIDE DEF s, t, i
<1>10. Headed'
  <2>1. ASSUME NEW q \in Living' PROVE FirstOf(q)' = Item(rows'[q], 1)
    <3>1. CASE q = p
      BY <1>4, <3>1 DEF t
    <3>2. CASE q # p
      <4>1. FirstOf(q)' = FirstOf(q) /\ rows'[q] = rows[q] /\ q \in Living
        BY <1>3, <1>5, <1>7, <3>2
      <4>2. FirstOf(q) = Item(rows[q], 1)
        BY <4>1 DEF Grown, Headed
      <4> QED
        BY <4>1, <4>2
    <3> QED
      BY <3>1, <3>2
  <2> QED
    BY <2>1 DEF Headed, Item
<1> DEFINE Joined(q, j, m) ==
             /\ m \in alive' /\ parent'[m] = q /\ sibling_index'[m] = j - 1
             /\ next'[m] = Item(rows'[q], j + 1) /\ prev'[m] = Item(rows'[q], j - 1)
<1>11. Linked'
  <2>1. ASSUME NEW j \in 1..Len(t) PROVE Joined(p, j, t[j])
    <3>1. t[j] \in Nodes \ {n} /\ t[j] \in alive'
      BY <1>2, <1>4, <1>7
    <3>2. parent'[t[j]] = p
      BY <1>4, <1>5, <3>1
    <3> QED
      BY <1>4, <1>6, <3>1, <3>2 DEF t
  <2>2. ASSUME NEW q \in Living', q # p, NEW j \in 1..Len(rows'[q]) PROVE Joined(q, j, rows'[q][j])
    <3>1. rows'[q] = rows[q] /\ q \in Living
      BY <1>3, <1>7, <2>2
    <3>2. PICK m : m = rows[q][j]
      OBVIOUS
    <3>3. /\ m \in alive /\ parent[m] = q /\ sibling_index[m] = j - 1
          /\ next[m] = Item(rows[q], j + 1) /\ prev[m] = Item(rows[q], j - 1)
      BY <1>8, <3>1, <3>2
    <3>4. m \in Nodes \ {n} /\ m # prev[n] /\ m # next[n] /\ m \in alive'
      BY <1>1, <1>2, <1>7, <1>9, <2>2, <3>3
    <3>5. sibling_index'[m] = sibling_index[m] /\ parent'[m] = parent[m]
      BY <1>5, <1>6, <2>2, <3>3, <3>4
    <3>6. next'[m] = next[m] /\ prev'[m] = prev[m]
      BY <1>5, <3>4
    <3> QED
      BY <3>1, <3>2, <3>3, <3>4, <3>5, <3>6
  <2>3. \A q \in Living' : \A j \in 1..Len(rows'[q]) : Joined(q, j, rows'[q][j])
    <3> HIDE DEF Joined
    <3> QED
      BY <2>1, <2>2 DEF t
  <2> QED
    BY <2>3 DEF Linked, Item
<1>12. Placed'
  <2>1. ASSUME NEW m \in alive'
        PROVE  /\ parent'[m] \in Living' /\ Item(rows'[parent'[m]], sibling_index'[m] + 1) = m
               /\ n_children'[m] = Len(rows'[m])
    <3>1. /\ m \in alive /\ m # n /\ m \in Nodes /\ m \in Places /\ m \in Living
          /\ parent'[m] = parent[m]
      BY <1>2, <1>5, <1>7
    <3>2. /\ parent[m] \in Living /\ sibling_index[m] \in Nat /\ rows[parent[m]] \in Seq(Nodes)
          /\ sibling_index[m] + 1 \in 1..Len(rows[parent[m]])
          /\ rows[parent[m]][sibling_index[m] + 1] = m
          /\ n_children[m] = Len(rows[m])
      BY <3>1, InPlace DEF Grown, Placed
    <3>3. parent[m] # n
      BY <1>1, <3>2
    <3>4. Item(rows'[parent[m]], sibling_index'[m] + 1) = m
      <4>1. CASE parent[m] = p
        <5> DEFINE x == sibling_index[m] + 1
                   j == IF x < i THEN x ELSE x - 1
        <5>1. x \in 1..Len(s) /\ s[x] = m /\ x # i /\ x \in Nat
          BY <1>1, <3>1, <3>2, <4>1 DEF s
        <5>2. j \in 1..Len(t) /\ t[j] = m
          BY <1>1, <1>3, <5>1, SMTT(30)
        <5>3. sibling_index'[m] + 1 = j
          BY <1>6, <5>2
        <5> QED
          BY <4>1, <5>2, <5>3 DEF Item, t
      <4>2. CASE parent[m] # p
        <5>1. rows'[parent[m]] = rows[parent[m]] /\ sibling_index'[m] = sibling_index[m]
          BY <1>3, <1>6, <1>7, <3>1, <3>2, <4>2
        <5> QED
          BY <3>2, <5>1 DEF Item
      <4> QED
        BY <4>1, <4>2
    <3>5. n_children'[m] = Len(rows'[m])
      BY <1>3, <1>6, <3>1, <3>2 DEF t
    <3> QED
      BY <1>7, <3>1, <3>2, <3>3, <3>4, <3>5
  <2> QED
    BY <2>1 DEF Placed, Item
<1>13. Unused'
  <2>1. ASSUME NEW m \in Nodes \ alive' PROVE rows'[m] = <<>>
    <3>1. CASE m = n
      BY <1>3, <3>1
    <3>2. CASE m # n
      <4>1. m \in Nodes \ alive /\ m \in Places \ {p}
        BY <1>1, <1>2, <1>7, <3>2, TreeAssumption DEF Places
      <4> QED
        BY <1>3, <4>1 DEF Grown, Unused
    <3> QED
      BY <3>1, <3>2
  <2> QED
    BY <2>1 DEF Unused
<1> QED
  BY <1>10, <1>11, <1>12, <1>13

LEMMA FreedTyped ==
  ASSUME Typed, NEW above, Grown(above), NEW n, NEW p, Leaf(n, p), Frees(n, p),
         removing' \in alive' \cup {Null, Nothing}
  PROVE  Typed'
<1>1. alive' = alive \ {n} /\ Unlink(n) /\ RowDeleted(PathOf(n)) /\ Forgets(n)
      /\ matches' = [matches EXCEPT ![n] = FALSE]
  BY DEF Frees
<1>2. /\ root' \in Places /\ next' \in [Nodes -> Places] /\ prev' \in [Nodes -> Places]
      /\ children' \in [Nodes -> Places] /\ parent' \in [Nodes -> Places]
  BY <1>1, Unlinked
<1>3. sibling_index' \in [Nodes -> Nat] /\ n_children' \in [Nodes -> Nat]
  BY FreedIndexes
<1>4. rows' \in [Places -> Seq(Nodes)]
  <2>1. /\ rows' = [rows EXCEPT ![p] = RemoveAt(@, sibling_index[n] + 1), ![n] = <<>>]
        /\ rows'[p] = RemoveAt(rows[p], sibling_index[n] + 1) /\ rows'[p] \in Seq(Nodes)
    BY <1>1, RowFreed
  <2>2. <<>> \in Seq(Nodes)
    OBVIOUS
  <2> QED
    BY <2>1, <2>2 DEF Typed
<1>5. matches' \in [Nodes -> BOOLEAN] /\ alive' \subseteq Nodes
  BY <1>1 DEF Typed
<1>6. loop' \in Loops \cup {Nothing}
  <2>1. CASE loop = Nothing
    BY <1>1, <2>1 DEF Forgets
  <2>2. CASE loop # Nothing
    BY <1>1, <2>2 DEF Forgets, Typed, Loops
  <2> QED
    BY <2>1, <2>2
<1> QED
  BY <1>2, <1>3, <1>4, <1>5, <1>6 DEF Typed

\* Nothing is below a leaf.
LEMMA NothingBelowLeaf ==
  ASSUME Typed, NEW above, Grown(above), NEW n, NEW p, Leaf(n, p)
  PROVE  \A m \in alive : m # n => n \notin above[m] /\ parent[m] # n
<1>1. \A m \in alive : parent[m] # n
  <2>1. rows[n] = <<>> /\ Len(rows[n]) = 0
    BY LeafFacts
  <2> QED
    BY <2>1, InPlace DEF Grown
<1>2. ASSUME NEW m \in alive, m # n, n \in above[m] PROVE FALSE
  <2>1. above[m] \subseteq alive
    BY DEF Grown, Rooted, Typed, Places
  <2>2. \E c \in above[m] : parent[c] = n
    BY <1>2 DEF Grown, Rooted
  <2> QED
    BY <1>1, <2>1, <2>2
<1> QED
  BY <1>1, <1>2

LEMMA FreedRoots ==
  ASSUME Typed, NEW above, Grown(above), NEW n, NEW p, Leaf(n, p), Frees(n, p),
         NEW new, new = [q \in Places |-> above[q] \ {n}]
  PROVE  Rooted(new)'
<1>1. alive' = alive \ {n} /\ alive \subseteq Nodes /\ \A m \in alive' : parent'[m] = parent[m]
  BY Unlinked DEF Frees, Typed
<1>2. /\ above \in [Places -> SUBSET alive] /\ above[Null] = {}
      /\ \A m \in alive :
           /\ above[m] = above[parent[m]] \cup {m} /\ m \notin above[parent[m]]
           /\ parent[m] \in alive \cup {Null}
           /\ \A a \in above[m] :
                /\ above[a] \subseteq above[m]
                /\ a = m \/ \E c \in above[m] : parent[c] = a
                /\ \A b \in above[m] : a \in above[b] \/ b \in above[a]
  BY DEF Grown, Rooted, Placed, Living
<1>3. /\ new \in [Places -> SUBSET alive'] /\ new[Null] = {}
  BY <1>1, <1>2 DEF Places
<1>4. \A m \in alive' : new[m] = above[m] /\ above[m] \subseteq alive'
  <2>1. \A m \in alive' : n \notin above[m]
    BY <1>1, NothingBelowLeaf
  <2>2. \A m \in alive' : m \in Places /\ above[m] \subseteq alive
    BY <1>1, <1>2 DEF Places
  <2>3. \A m \in alive' : new[m] = above[m] \ {n}
    BY <2>2
  <2>4. \A m \in alive' : above[m] \ {n} = above[m]
    BY <2>1
  <2>5. \A m \in alive' : above[m] \ {n} \subseteq alive'
    BY <1>1, <2>2
  <2> QED
    BY <2>3, <2>4, <2>5, Zenon
<1>5. ASSUME NEW m \in alive'
      PROVE  /\ new[m] = new[parent'[m]] \cup {m} /\ m \notin new[parent'[m]]
             /\ \A a \in new[m] :
                  /\ new[a] \subseteq new[m]
                  /\ a = m \/ \E c \in new[m] : parent'[c] = a
                  /\ \A b \in new[m] : a \in new[b] \/ b \in new[a]
  <2>1. parent'[m] = parent[m] /\ new[m] = above[m] /\ m \in alive
    BY <1>1, <1>4
  <2>2. new[parent[m]] = above[parent[m]]
    <3>1. parent[m] \in alive' \cup {Null}
      BY <1>1, <1>2, <2>1, NothingBelowLeaf
    <3> QED
      BY <1>2, <1>3, <1>4, <3>1
  <2>3. \A a \in above[m] : a \in alive' /\ new[a] = above[a] /\ parent'[a] = parent[a]
    BY <1>1, <1>4
  <2>4. new[m] = new[parent'[m]] \cup {m} /\ m \notin new[parent'[m]]
    <3>1. above[m] = above[parent[m]] \cup {m} /\ m \notin above[parent[m]]
      BY <1>2, <2>1, Zenon
    <3>2. new[parent'[m]] = above[parent[m]]
      BY <2>1, <2>2, Zenon
    <3> QED
      BY <2>1, <3>1, <3>2, Zenon
  <2>5. ASSUME NEW a \in new[m]
        PROVE  /\ new[a] \subseteq new[m]
               /\ a = m \/ \E c \in new[m] : parent'[c] = a
               /\ \A b \in new[m] : a \in new[b] \/ b \in new[a]
    <3>1. a \in above[m]
      BY <2>1, <2>5, Zenon
    <3>2. new[a] \subseteq new[m]
      BY <1>2, <2>1, <2>3, <3>1, ZenonT(60)
    <3>3. a = m \/ \E c \in new[m] : parent'[c] = a
      <4>1. a = m \/ \E c \in above[m] : parent[c] = a
        BY <1>2, <2>1, <3>1, Zenon
      <4> QED
        BY <2>1, <2>3, <4>1, Zenon
    <3>4. \A b \in new[m] : a \in new[b] \/ b \in new[a]
      BY <1>2, <2>1, <2>3, <3>1, Zenon
    <3> QED
      BY <3>2, <3>3, <3>4, Zenon
  <2> QED
    BY <2>4, <2>5, Zenon
<1> QED
  BY <1>3, <1>5 DEF Rooted

\* The siblings of a leaf that is freed stay in their order.
LEMMA FreedOrder ==
  ASSUME Typed, NEW above, Grown(above), NEW n, NEW p, Leaf(n, p), Frees(n, p)
  PROVE  \A a, b \in alive \ {n} : parent[a] = parent[b] =>
           (sibling_index'[a] < sibling_index'[b] <=> sibling_index[a] < sibling_index[b])
<1> DEFINE s == rows[p]
           t == rows'[p]
           i == sibling_index[n] + 1
<1>1. s \in Seq(Nodes) /\ Len(s) \in Nat /\ i \in 1..Len(s) /\ s[i] = n /\ i \in Nat
  BY LeafFacts
<1>2. /\ Len(t) = Len(s) - 1
      /\ \A j \in 1..Len(t) : t[j] = IF j < i THEN s[j] ELSE s[j + 1]
  BY RowFreed DEF Frees
<1>3. /\ \A j \in 1..Len(t) : sibling_index'[t[j]] = j - 1
      /\ \A m \in alive : m # n /\ parent[m] # p => sibling_index'[m] = sibling_index[m]
  BY FreedIndexes
<1>4. ASSUME NEW m \in alive, m # n, parent[m] = p
      PROVE  /\ sibling_index[m] \in Nat /\ sibling_index[m] # i - 1
             /\ sibling_index'[m] = IF sibling_index[m] < i - 1 THEN sibling_index[m]
                                    ELSE sibling_index[m] - 1
  <2> DEFINE x == sibling_index[m] + 1
             j == IF x < i THEN x ELSE x - 1
  <2>1. x \in 1..Len(s) /\ s[x] = m /\ sibling_index[m] \in Nat
    BY <1>4, InPlace DEF Grown
  <2> HIDE DEF s, t, i
  <2>2. x # i
    BY <1>1, <1>4, <2>1
  <2>3. j \in 1..Len(t) /\ t[j] = m
    BY <1>1, <1>2, <2>1, <2>2
  <2>4. sibling_index'[m] = j - 1
    BY <1>3, <2>3
  <2> QED
    BY <1>1, <2>1, <2>2, <2>4
<1> HIDE DEF s, t, i
<1> QED
  BY <1>1, <1>3, <1>4

LEMMA RemovesLeafInv ==
  ASSUME TreeInv, RemovesLeaf
  PROVE  TreeInv'
<1>1. PICK above : Typed /\ Grown(above) /\ Looping(above)
  BY DEF TreeInv
<1>2. PICK n \in alive, p \in Places :
        n = FirstLeaf[Depth][removing] /\ p = parent[n] /\ Frees(n, p)
  BY DEF RemovesLeaf
<1>3. /\ removing # Nothing /\ removing \in Living
      /\ alive \subseteq Nodes /\ alive' = alive \ {n}
      /\ removing' = IF removing \notin alive' /\ (removing # Null \/ root' = Null)
                     THEN Nothing ELSE removing
  BY <1>1, <1>2 DEF RemovesLeaf, Typed, Frees, Living
<1>4. FirstOf(n) = Null /\ (removing \in alive => removing \in above[n])
  BY <1>1, <1>2, <1>3, FirstLeafIsLeaf
<1>5. Leaf(n, p)
  BY <1>2, <1>4 DEF Leaf
<1>6. removing' \in alive' \cup {Null, Nothing}
  BY <1>3
<1>7. Typed'
  BY <1>1, <1>2, <1>5, <1>6, FreedTyped
<1>8. Headed' /\ Linked' /\ Placed' /\ Unused'
  BY <1>1, <1>2, <1>5, FreedThreads
<1>9. PICK new : new = [q \in Places |-> above[q] \ {n}]
  OBVIOUS
<1>10. Rooted(new)'
  BY <1>1, <1>2, <1>5, <1>9, FreedRoots
<1>11. Looping(new)'
  <2>1. CASE loop = Nothing
    BY <1>2, <2>1 DEF Looping, Frees, Forgets
  <2>2. CASE loop # Nothing
    <3> DEFINE keep == alive \ {n}
    <3>1. Rooted(above) /\ keep \in SUBSET alive /\ keep \subseteq alive'
      BY <1>1, <1>3 DEF Grown
    <3>2. \A m \in keep : /\ n \notin above[m] /\ above[m] \subseteq keep /\ m \in Places
      BY <1>1, <1>3, <1>5, NothingBelowLeaf DEF Grown, Rooted, Places
    <3>3. ASSUME NEW m \in keep
          PROVE  /\ new[m] = above[m] /\ parent'[m] = parent[m] /\ matches'[m] = matches[m]
                 /\ sibling_index[m] \in Nat /\ sibling_index'[m] \in Nat
      <4>1. new[m] = above[m] \ {n} /\ n \notin above[m]
        BY <1>9, <3>2
      <4>2. m \in Nodes \ {n}
        BY <1>3
      <4>3. parent'[m] = parent[m]
        BY <1>1, <1>2, <1>5, <4>2, Unlinked DEF Frees
      <4>4. matches'[m] = matches[m]
        BY <1>1, <1>2, <4>2 DEF Frees, Typed
      <4>5. sibling_index[m] \in Nat /\ sibling_index'[m] \in Nat
        BY <1>1, <1>7, <4>2 DEF Typed
      <4>6. new[m] = above[m]
        BY <4>1
      <4> QED
        BY <4>3, <4>4, <4>5, <4>6
    <3>4. \A a, b \in keep : parent[a] = parent[b] =>
            (sibling_index'[a] < sibling_index'[b] <=> sibling_index[a] < sibling_index[b])
      BY <1>1, <1>2, <1>5, FreedOrder
    <3>5. loop \in Loops
      BY <1>1, <2>2 DEF Typed
    <3>6. loop' = [loop EXCEPT !.due = @ \ {n}, !.seen = @ \ {n}]
      BY <1>2, <2>2 DEF Frees, Forgets
    <3>7. /\ loop'.kind = loop.kind /\ loop'.of = loop.of
          /\ loop'.node = loop.node /\ loop'.more = loop.more
          /\ loop'.due = loop.due \ {n} /\ loop'.seen = loop.seen \ {n}
      BY <3>5, <3>6 DEF Loops
    <3>8. loop.due \subseteq alive /\ loop.seen \subseteq alive
      BY <1>1, <2>2 DEF Looping
    <3>9. loop.more => /\ loop.node \in keep
                       /\ removing' # Nothing => removing' = removing /\ removing \in alive'
      BY <1>1, <1>3, <1>4, <2>2, TreeAssumption DEF Looping
    <3>10. loop'.due \subseteq loop.due \cap keep /\ loop'.seen \subseteq loop.seen \cap keep
      BY <3>7, <3>8
    <3> HIDE DEF keep
    <3> QED
      BY <1>1, <2>2, <3>1, <3>2, <3>3, <3>4, <3>7, <3>9, <3>10, LoopKept
  <2> QED
    BY <2>1, <2>2
<1> QED
  BY <1>7, <1>8, <1>10, <1>11 DEF TreeInv, Grown

-------------------------------------------------------------------------------
(***************************************************************************)
(* The search, step by step.                                               *)
(***************************************************************************)
Searching(c) ==
  c = [k \in Nat |->
         [r \in Places |-> [n \in Nodes |->
            LET m == Following(n, r)
            IN IF m = Null \/ k = 0 THEN Null
               ELSE IF matches[m] THEN m ELSE c[k - 1][r][m]]]]

Searched(c) ==
  /\ c[0] = [r \in Places |-> [n \in Nodes |-> Null]]
  /\ \A k \in Nat : c[k + 1] =
       [r \in Places |-> [n \in Nodes |->
          LET m == Following(n, r)
          IN IF m = Null THEN Null ELSE IF matches[m] THEN m ELSE c[k][r][m]]]
  /\ \A k \in Nat : c[k] \in [Places -> [Nodes -> Places]]

LEMMA FollowingIsPlace ==
  ASSUME Typed, NEW n \in Nodes, NEW r \in Places
  PROVE  Following(n, r) \in Places
<1>1. Climb[Depth] \in [Places -> [Nodes -> Places]]
  BY Recursions, DepthIsNat DEF Typed, Climbed
<1> QED
  BY <1>1 DEF Following, Typed, Places

LEMMA SearchExists ==
  ASSUME Typed
  PROVE  \E c : Searching(c)
<1> DEFINE V == [Places -> [Nodes -> Places]]
           b == [r \in Places |-> [n \in Nodes |-> Null]]
           g == [k \in Nat |-> [v \in V |->
                   [r \in Places |-> [n \in Nodes |->
                      LET m == Following(n, r)
                      IN IF m = Null THEN Null ELSE IF matches[m] THEN m ELSE v[r][m]]]]]
<1>1. b \in V /\ g \in StepsOn(V)
  BY FollowingIsPlace DEF StepsOn, Places
<1>2. PICK f : Iterates(f, V, b, g)
  <2> HIDE DEF V, b, g
  <2> QED
    BY <1>1, Iteration, Zenon
<1> DEFINE e(v, k) ==
             [r \in Places |-> [n \in Nodes |->
                LET m == Following(n, r)
                IN IF m = Null \/ k = 0 THEN Null
                   ELSE IF matches[m] THEN m ELSE v[r][m]]]
<1>3. \A v : e(v, 0) = b
  OBVIOUS
<1>4. ASSUME NEW k \in Nat, NEW v \in V PROVE e(v, k + 1) = g[k][v]
  <2>1. k + 1 # 0
    OBVIOUS
  <2> HIDE DEF V
  <2> QED
    BY <2>1
<1> HIDE DEF V, b, g, e
<1>5. ASSUME NEW k \in Nat PROVE f[k] = e(f[k - 1], k)
  <2>1. CASE k = 0
    BY <1>2, <1>3, <2>1 DEF Iterates
  <2>2. CASE k # 0
    <3>1. k - 1 \in Nat /\ k = (k - 1) + 1
      BY <2>2
    <3> QED
      BY <1>2, <1>4, <3>1 DEF Iterates
  <2> QED
    BY <2>1, <2>2
<1>6. f = [k \in Nat |-> e(f[k - 1], k)]
  BY <1>2, <1>5 DEF Iterates
<1> QED
  BY <1>6 DEF Searching, e

LEMMA SearchSteps ==
  ASSUME Typed
  PROVE  Searched(MatchAfter)
<1> DEFINE c == MatchAfter
           e(v, k) ==
             [r \in Places |-> [n \in Nodes |->
                LET m == Following(n, r)
                IN IF m = Null \/ k = 0 THEN Null
                   ELSE IF matches[m] THEN m ELSE v[r][m]]]
           g(v) ==
             [r \in Places |-> [n \in Nodes |->
                LET m == Following(n, r)
                IN IF m = Null THEN Null ELSE IF matches[m] THEN m ELSE v[r][m]]]
           V == [Places -> [Nodes -> Places]]
           b == [r \in Places |-> [n \in Nodes |-> Null]]
<1>1. Searching(c)
  BY SearchExists, Zenon DEF MatchAfter, Searching
<1>2. c = [k \in Nat |-> e(c[k - 1], k)]
  BY <1>1 DEF Searching
<1>3. e(c[0 - 1], 0) = b /\ b \in V
  BY DEF Places
<1>4. \A k \in Nat : e(c[k], k + 1) = g(c[k])
  <2>1. \A k \in Nat : k + 1 # 0
    OBVIOUS
  <2> QED
    BY <2>1
<1>5. \A v \in V : g(v) \in V
  BY FollowingIsPlace DEF Places
<1> HIDE DEF e, g, V, b, c
<1>6. c[0] = e(c[0 - 1], 0) /\ \A k \in Nat : c[k + 1] = e(c[k], k + 1)
  BY <1>2
<1>7. c[0] \in V /\ \A k \in Nat : c[k] \in V => c[k + 1] \in V
  BY <1>3, <1>4, <1>5, <1>6, Zenon
<1>8. \A k \in Nat : c[k] \in V
  BY <1>7, Stays, Zenon
<1>9. Searched(c)
  BY <1>3, <1>4, <1>6, <1>8, Zenon DEF g, V, b, Searched
<1> QED
  BY <1>9 DEF c

-------------------------------------------------------------------------------
(***************************************************************************)
(* Document order, and the search that follows it.                         *)
(***************************************************************************)
LEMMA Ancestors ==
  ASSUME Typed, NEW above, Grown(above)
  PROVE  /\ above \in [Places -> SUBSET alive] /\ above[Null] = {}
         /\ \A n \in alive :
              /\ n \in Nodes /\ n \in Places /\ n # Null /\ n \in above[n]
              /\ parent[n] \in Places /\ sibling_index[n] \in Nat
              /\ above[n] = above[parent[n]] \cup {n} /\ n \notin above[parent[n]]
              /\ \A a \in above[n] :
                   /\ a \in alive /\ above[a] \subseteq above[n]
                   /\ a # n => a \in above[parent[n]]
                   /\ a = n \/ \E c \in above[n] : parent[c] = a
                   /\ \A b \in above[n] : a \in above[b] \/ b \in above[a]
<1>1. above \in [Places -> SUBSET alive] /\ above[Null] = {}
  BY DEF Grown, Rooted
<1>2. \A n \in alive : /\ n \in Nodes /\ n \in Places /\ n # Null
                       /\ parent[n] \in Places /\ sibling_index[n] \in Nat
  BY InPlace DEF Grown, Places
<1>3. \A n \in alive :
        /\ above[n] = above[parent[n]] \cup {n} /\ n \notin above[parent[n]]
        /\ \A a \in above[n] :
             /\ above[a] \subseteq above[n]
             /\ a = n \/ \E c \in above[n] : parent[c] = a
             /\ \A b \in above[n] : a \in above[b] \/ b \in above[a]
  BY DEF Grown, Rooted
<1>4. \A n \in alive : \A a \in above[n] : a \in alive
  BY <1>1, <1>2
<1>5. \A n \in alive : n \in above[n] /\ \A a \in above[n] : a # n => a \in above[parent[n]]
  BY <1>3
<1> QED
  BY <1>1, <1>2, <1>3, <1>4, <1>5, Zenon

\* On the way up from a node there is one node of each list of siblings.
LEMMA OneOfSiblings ==
  ASSUME Typed, NEW above, Grown(above), NEW m \in alive,
         NEW a \in above[m], NEW b \in above[m], parent[a] = parent[b]
  PROVE  a = b
<1>1. a \in alive /\ b \in alive /\ (a \in above[b] \/ b \in above[a])
  BY Ancestors
<1>2. ASSUME a \in above[b], a # b PROVE FALSE
  BY <1>1, <1>2, Ancestors
<1>3. ASSUME b \in above[a], a # b PROVE FALSE
  BY <1>1, <1>3, Ancestors
<1> QED
  BY <1>1, <1>2, <1>3

LEMMA NeverBeforeItself ==
  ASSUME Typed, NEW above, Grown(above), NEW m \in alive
  PROVE  ~Before(m, m, above)
<1>1. ASSUME NEW a \in above[m], NEW b \in above[m],
             parent[a] = parent[b], sibling_index[a] < sibling_index[b]
      PROVE  FALSE
  <2>1. a = b /\ a \in alive /\ sibling_index[a] \in Nat
    BY <1>1, OneOfSiblings, Ancestors
  <2> QED
    BY <1>1, <2>1
<1> QED
  BY <1>1 DEF Before

\* The links to a next sibling and to a first child.
LEMMA Neighbours ==
  ASSUME Typed, NEW above, Grown(above)
  PROVE  /\ \A q \in alive : next[q] # Null =>
              /\ next[q] \in alive /\ parent[next[q]] = parent[q]
              /\ sibling_index[next[q]] = sibling_index[q] + 1
         /\ \A q, b \in alive :
              parent[b] = parent[q] /\ sibling_index[q] < sibling_index[b] =>
                /\ next[q] # Null
                /\ b = next[q] \/ sibling_index[next[q]] < sibling_index[b]
         /\ \A p \in Living : FirstOf(p) # Null =>
              FirstOf(p) \in alive /\ parent[FirstOf(p)] = p /\ sibling_index[FirstOf(p)] = 0
         /\ \A b \in alive : LET c == FirstOf(parent[b])
                             IN c # Null /\ (b = c \/ sibling_index[c] < sibling_index[b])
<1>1. \A p \in Living : \A i \in 1..Len(rows[p]) :
        /\ rows[p][i] \in alive /\ parent[rows[p][i]] = p
        /\ sibling_index[rows[p][i]] = i - 1 /\ next[rows[p][i]] = Item(rows[p], i + 1)
  BY DEF Grown, Linked
<1>2. \A q \in alive :
        /\ parent[q] \in Living /\ sibling_index[q] \in Nat
        /\ rows[parent[q]] \in Seq(Nodes)
        /\ sibling_index[q] + 1 \in 1..Len(rows[parent[q]])
        /\ rows[parent[q]][sibling_index[q] + 1] = q /\ q # Null
  BY InPlace DEF Grown
<1>3. ASSUME NEW q \in alive, next[q] # Null
      PROVE  /\ next[q] \in alive /\ parent[next[q]] = parent[q]
             /\ sibling_index[next[q]] = sibling_index[q] + 1
  <2> DEFINE p == parent[q]
             i == sibling_index[q] + 1
  <2>1. p \in Living /\ i \in 1..Len(rows[p]) /\ rows[p][i] = q /\ i \in Nat
        /\ i - 1 = sibling_index[q]
    BY <1>2
  <2> HIDE DEF p, i
  <2>2. next[q] = Item(rows[p], i + 1)
    BY <1>1, <2>1
  <2>3. i + 1 \in 1..Len(rows[p]) /\ next[q] = rows[p][i + 1]
    BY <1>3, <2>2 DEF Item
  <2> QED
    BY <1>1, <2>1, <2>3 DEF p
<1>4. ASSUME NEW q \in alive, NEW b \in alive,
             parent[b] = parent[q], sibling_index[q] < sibling_index[b]
      PROVE  /\ next[q] # Null
             /\ b = next[q] \/ sibling_index[next[q]] < sibling_index[b]
  <2> DEFINE p == parent[q]
             i == sibling_index[q] + 1
             j == sibling_index[b] + 1
  <2>1. p \in Living /\ i \in 1..Len(rows[p]) /\ rows[p][i] = q /\ i \in Nat
        /\ i - 1 = sibling_index[q]
    BY <1>2
  <2>2. j \in 1..Len(rows[p]) /\ rows[p][j] = b /\ j \in Nat /\ i < j
        /\ j - 1 = sibling_index[b] /\ b # Null /\ Len(rows[p]) \in Nat
    BY <1>2, <1>4
  <2> HIDE DEF p, i, j
  <2>3. i + 1 \in 1..Len(rows[p])
    BY <2>1, <2>2
  <2>4. next[q] = rows[p][i + 1]
    BY <1>1, <2>1, <2>3 DEF Item
  <2>5. next[q] \in alive /\ sibling_index[next[q]] = i
    BY <1>1, <2>1, <2>3, <2>4
  <2>6. CASE j = i + 1
    BY <2>2, <2>4, <2>6
  <2>7. CASE j # i + 1
    <3>1. i < j - 1
      BY <2>1, <2>2, <2>7
    <3> QED
      BY <1>2, <2>2, <2>5, <3>1
  <2> QED
    BY <2>6, <2>7
<1>5. ASSUME NEW p \in Living, FirstOf(p) # Null
      PROVE  FirstOf(p) \in alive /\ parent[FirstOf(p)] = p /\ sibling_index[FirstOf(p)] = 0
  <2>1. FirstOf(p) = rows[p][1] /\ 1 \in 1..Len(rows[p])
    BY <1>5 DEF Grown, Headed, Item
  <2> QED
    BY <1>1, <2>1
<1>6. ASSUME NEW b \in alive
      PROVE  LET c == FirstOf(parent[b])
             IN c # Null /\ (b = c \/ sibling_index[c] < sibling_index[b])
  <2> DEFINE p == parent[b]
             j == sibling_index[b] + 1
  <2>1. p \in Living /\ j \in 1..Len(rows[p]) /\ rows[p][j] = b /\ j \in Nat
        /\ j - 1 = sibling_index[b] /\ b # Null /\ Len(rows[p]) \in Nat
    BY <1>2
  <2> HIDE DEF p, j
  <2>2. 1 \in 1..Len(rows[p]) /\ FirstOf(p) = rows[p][1]
    BY <2>1 DEF Grown, Headed, Item
  <2>3. FirstOf(p) \in alive /\ sibling_index[FirstOf(p)] = 0
    BY <1>1, <2>1, <2>2
  <2>4. FirstOf(p) # Null /\ (b = FirstOf(p) \/ sibling_index[FirstOf(p)] < sibling_index[b])
    BY <1>2, <2>1, <2>2, <2>3
  <2> QED
    BY <2>4 DEF p
<1> QED
  BY <1>3, <1>4, <1>5, <1>6

LEMMA ClimbRule ==
  ASSUME Typed, NEW n \in Nodes, NEW r \in Places
  PROVE  /\ Climb[0][r][n] = next[n]
         /\ \A k \in Nat :
              Climb[k + 1][r][n] =
                IF next[n] # Null THEN next[n]
                ELSE IF parent[n] \in {Null, r} THEN Null ELSE Climb[k][r][parent[n]]
<1>1. Climbed(Climb, next, parent)
  BY Recursions DEF Typed
<1>2. Climb[0] = [q \in Places |-> [m \in Nodes |-> next[m]]]
  BY <1>1 DEF Climbed
<1>3. Climb[0][r][n] = next[n]
  BY <1>2
<1>4. ASSUME NEW k \in Nat
      PROVE  Climb[k + 1][r][n] =
               IF next[n] # Null THEN next[n]
               ELSE IF parent[n] \in {Null, r} THEN Null ELSE Climb[k][r][parent[n]]
  <2>1. Climb[k + 1] =
          [q \in Places |-> [m \in Nodes |->
             IF next[m] # Null THEN next[m]
             ELSE IF parent[m] \in {Null, q} THEN Null ELSE Climb[k][q][parent[m]]]]
    BY <1>1 DEF Climbed
  <2> QED
    BY <2>1
<1> QED
  BY <1>3, <1>4

\* Where a climb from n lands: at a sibling, further on, of a node above n.
Lands(n, c, above) ==
  c # Null => c \in alive /\ \E q \in above[n] :
                parent[q] = parent[c] /\ sibling_index[q] < sibling_index[c]

LEMMA ClimbLands ==
  ASSUME Typed, NEW above, Grown(above)
  PROVE  \A k \in Nat : \A r \in Places, n \in alive : Lands(n, Climb[k][r][n], above)
<1> DEFINE S == {k \in Nat : \A r \in Places, n \in alive : Lands(n, Climb[k][r][n], above)}
<1>1. ASSUME NEW n \in alive PROVE Lands(n, next[n], above) /\ Lands(n, Null, above)
  <2>1. n \in above[n] /\ sibling_index[n] \in Nat
    BY Ancestors
  <2>2. next[n] # Null => next[n] \in alive /\ parent[n] = parent[next[n]]
                          /\ sibling_index[n] < sibling_index[next[n]]
    BY <2>1, Neighbours
  <2> QED
    BY <2>1, <2>2 DEF Lands
<1>2. 0 \in S
  BY <1>1, ClimbRule, Ancestors
<1>3. ASSUME NEW k \in Nat, k \in S PROVE k + 1 \in S
  <2>1. ASSUME NEW r \in Places, NEW n \in alive PROVE Lands(n, Climb[k + 1][r][n], above)
    <3>1. n \in Nodes /\ parent[n] \in Living
      BY InPlace DEF Grown
    <3>2. CASE next[n] # Null \/ parent[n] \in {Null, r}
      BY <1>1, <3>1, <3>2, ClimbRule, SMTT(30)
    <3>3. CASE ~(next[n] # Null \/ parent[n] \in {Null, r})
      <4>1. parent[n] \in alive /\ Climb[k + 1][r][n] = Climb[k][r][parent[n]]
        BY <3>1, <3>3, ClimbRule DEF Living
      <4>2. Lands(parent[n], Climb[k][r][parent[n]], above)
        BY <1>3, <4>1
      <4>3. above[parent[n]] \subseteq above[n]
        BY Ancestors
      <4> QED
        BY <4>1, <4>2, <4>3 DEF Lands
    <3> QED
      BY <3>2, <3>3
  <2> QED
    BY <2>1
<1>4. \A k \in Nat : k \in S
  <2> HIDE DEF S
  <2> QED
    BY <1>2, <1>3, NatSetInduction
<1> QED
  BY <1>4

\* It passes no node m that comes later, and only stops below r.
Reaches(n, r, c, above) ==
  \A m \in alive : \A a \in above[n], b \in above[m] :
    /\ parent[a] = parent[b] /\ sibling_index[a] < sibling_index[b] /\ a \notin above[r]
    => c # Null /\ (m = c \/ Before(c, m, above))

LEMMA ClimbReaches ==
  ASSUME Typed, NEW above, Grown(above)
  PROVE  \A k \in Nat : \A r \in Places, n \in alive :
           Cardinality(above[n]) <= k + 1 => Reaches(n, r, Climb[k][r][n], above)
<1> DEFINE S == {k \in Nat : \A r \in Places, n \in alive :
                   Cardinality(above[n]) <= k + 1 => Reaches(n, r, Climb[k][r][n], above)}
<1>1. ASSUME NEW n \in alive, NEW r \in Places, next[n] # Null
      PROVE  Reaches(n, r, next[n], above)
  <2> DEFINE c == next[n]
  <2>1. c \in alive /\ parent[c] = parent[n] /\ sibling_index[c] = sibling_index[n] + 1
    BY <1>1, Neighbours
  <2>2. ASSUME NEW m \in alive, NEW a \in above[n], NEW b \in above[m],
               parent[a] = parent[b], sibling_index[a] < sibling_index[b]
        PROVE  m = c \/ Before(c, m, above)
    <3>1. b \in alive /\ c \in above[c]
      BY <2>1, Ancestors
    <3>2. CASE a = n
      <4>1. b = c \/ sibling_index[c] < sibling_index[b]
        BY <2>2, <3>1, <3>2, Neighbours
      <4> QED
        BY <2>1, <2>2, <3>1, <3>2, <4>1 DEF Before
    <3>3. CASE a # n
      <4>1. a \in above[parent[n]] /\ above[parent[c]] \subseteq above[c]
        BY <2>1, <3>3, Ancestors
      <4>2. a \in above[c]
        BY <2>1, <4>1
      <4> QED
        BY <2>2, <4>2 DEF Before
    <3> QED
      BY <3>2, <3>3
  <2> HIDE DEF c
  <2> QED
    BY <1>1, <2>2 DEF Reaches, c
\* From the last of its siblings it goes up, unless nothing is left below r.
<1>2. ASSUME NEW n \in alive, NEW r \in Places, next[n] = Null,
             NEW a \in above[n], NEW m \in alive, NEW b \in above[m],
             parent[a] = parent[b], sibling_index[a] < sibling_index[b], a \notin above[r]
      PROVE  a \in above[parent[n]] /\ parent[n] \in alive /\ parent[n] # r
  <2>1. b \in alive
    BY Ancestors
  <2>2. a # n
    BY <1>2, <2>1, Neighbours
  <2>3. a \in above[parent[n]] /\ above[Null] = {}
    BY <2>2, Ancestors
  <2>4. parent[n] \in Living
    BY InPlace DEF Grown
  <2> QED
    BY <1>2, <2>3, <2>4 DEF Living
<1>3. Rises(alive, parent, above)
  BY ParentsRise DEF Grown
<1>4. 0 \in S
  <2>1. ASSUME NEW r \in Places, NEW n \in alive, Cardinality(above[n]) <= 1, next[n] = Null
        PROVE  Reaches(n, r, Null, above)
    <3>1. ASSUME NEW q \in alive PROVE Cardinality(above[q]) = Cardinality(above[parent[q]]) + 1
                                       /\ Cardinality(above[parent[q]]) \in Nat
      <4>1. parent[q] \in alive \cup {Null}
        BY InPlace DEF Grown, Living
      <4> QED
        BY <1>3, <4>1, Ranks
    <3>2. parent[n] \notin alive
      BY <2>1, <3>1
    <3> QED
      BY <1>2, <2>1, <3>2 DEF Reaches
  <2>2. ASSUME NEW r \in Places, NEW n \in alive, Cardinality(above[n]) <= 1
        PROVE  Reaches(n, r, Climb[0][r][n], above)
    <3>1. Climb[0][r][n] = next[n]
      BY ClimbRule, Ancestors
    <3> QED
      BY <1>1, <2>1, <2>2, <3>1
  <2> QED
    BY <2>2
<1>5. ASSUME NEW k \in Nat, k \in S PROVE k + 1 \in S
  <2>1. ASSUME NEW r \in Places, NEW n \in alive, Cardinality(above[n]) <= k + 1 + 1
        PROVE  Reaches(n, r, Climb[k + 1][r][n], above)
    <3>1. n \in Nodes
      BY Ancestors
    <3>2. CASE next[n] # Null
      BY <1>1, <3>1, <3>2, ClimbRule, ZenonT(60)
    <3>3. CASE next[n] = Null
      <4>1. CASE parent[n] \in alive /\ parent[n] # r
        <5>1. Climb[k + 1][r][n] = Climb[k][r][parent[n]]
          <6>1. parent[n] # Null
            BY <4>1, Ancestors
          <6> QED
            BY <3>1, <3>3, <4>1, <6>1, ClimbRule
        <5>2. Cardinality(above[parent[n]]) <= k + 1
          <6>1. Cardinality(above[n]) = Cardinality(above[parent[n]]) + 1
                /\ Cardinality(above[parent[n]]) \in Nat
            BY <1>3, <4>1, Ranks
          <6> QED
            BY <2>1, <6>1
        <5>3. Reaches(parent[n], r, Climb[k][r][parent[n]], above)
          BY <1>5, <4>1, <5>2
        <5> QED
          BY <1>2, <3>3, <5>1, <5>3 DEF Reaches
      <4>2. CASE ~(parent[n] \in alive /\ parent[n] # r)
        BY <1>2, <3>3, <4>2 DEF Reaches
      <4> QED
        BY <4>1, <4>2
    <3> QED
      BY <3>2, <3>3
  <2> QED
    BY <2>1
<1>6. \A k \in Nat : k \in S
  <2> HIDE DEF S
  <2> QED
    BY <1>4, <1>5, NatSetInduction
<1> QED
  BY <1>6

\* From n to f the search goes on in document order.
Advances(n, f, above) ==
  f # Null =>
    /\ f \in alive /\ Before(n, f, above)
    /\ \A s \in alive : Before(s, n, above) => Before(s, f, above)

LEMMA ChildAdvances ==
  ASSUME Typed, NEW above, Grown(above), NEW n \in alive, NEW f \in alive, parent[f] = n
  PROVE  Advances(n, f, above)
<1>1. /\ n \in above[n] /\ f \in above[f] /\ f \notin above[n]
      /\ above[f] = above[n] \cup {f} /\ n # f
  BY Ancestors
<1>2. Before(n, f, above)
  BY <1>1 DEF Before
<1>3. ASSUME NEW s \in alive, Before(s, n, above) PROVE Before(s, f, above)
  BY <1>1, <1>3 DEF Before
<1> QED
  BY <1>2, <1>3 DEF Advances

LEMMA ClimbAdvances ==
  ASSUME Typed, NEW above, Grown(above), NEW n \in alive, NEW f \in alive,
         NEW q \in above[n], parent[q] = parent[f], sibling_index[q] < sibling_index[f]
  PROVE  Advances(n, f, above)
<1>1. /\ q \in alive /\ f \in above[f] /\ f \notin above[parent[f]]
      /\ above[parent[f]] \subseteq above[f]
      /\ above[q] = above[parent[q]] \cup {q}
      /\ sibling_index[q] \in Nat /\ sibling_index[f] \in Nat
  BY Ancestors
<1>2. Before(n, f, above)
  BY <1>1 DEF Before
\* What is above n is above q, or below it.
<1>3. ASSUME NEW a \in above[n]
      PROVE  a \in alive /\ (q \in above[a] \/ (a # q /\ a \in above[f] /\ a # f))
  <2>1. a \in alive /\ (q \in above[a] \/ a \in above[q]) /\ a \in above[a]
    BY Ancestors
  <2> QED
    BY <1>1, <2>1
<1>4. ASSUME NEW s \in alive, s \in above[n], s # n PROVE Before(s, f, above)
  BY <1>1, <1>3, <1>4 DEF Before
<1>5. ASSUME NEW s \in alive, NEW a \in above[s], NEW b \in above[n],
             parent[a] = parent[b], sibling_index[a] < sibling_index[b]
      PROVE  Before(s, f, above)
  <2>1. a \in alive /\ b \in alive /\ sibling_index[a] \in Nat /\ sibling_index[b] \in Nat
        /\ above[a] \subseteq above[s]
    BY Ancestors
  <2>2. CASE b \in above[f]
    BY <1>5, <2>2 DEF Before
  <2>3. CASE b = q
    <3>1. sibling_index[a] < sibling_index[f]
      BY <1>1, <1>5, <2>1, <2>3
    <3> QED
      BY <1>1, <1>5, <2>3, <3>1 DEF Before
  <2>4. CASE q \in above[b] /\ b # q
    <3>1. q \in above[parent[b]] /\ above[parent[a]] \subseteq above[a]
      BY <2>1, <2>4, Ancestors
    <3>2. q \in above[s]
      BY <1>5, <2>1, <3>1
    <3> QED
      BY <1>1, <3>2 DEF Before
  <2> QED
    BY <1>3, <2>2, <2>3, <2>4
<1> QED
  BY <1>2, <1>4, <1>5 DEF Advances, Before

LEMMA FollowingAdvances ==
  ASSUME Typed, NEW above, Grown(above), NEW n \in alive, NEW r \in Places
  PROVE  Advances(n, Following(n, r), above)
<1>1. CASE children[n] # Null
  <2>1. n \in Living /\ FirstOf(n) = children[n]
    BY Ancestors DEF Living, FirstOf
  <2>2. children[n] \in alive /\ parent[children[n]] = n
    BY <1>1, <2>1, Neighbours
  <2> QED
    BY <1>1, <2>2, ChildAdvances DEF Following
<1>2. CASE children[n] = Null /\ n = r
  BY <1>2 DEF Following, Advances
<1>3. CASE children[n] = Null /\ n # r
  <2> DEFINE c == Climb[Depth][r][n]
  <2>1. Following(n, r) = c
    BY <1>3 DEF Following
  <2>2. Lands(n, c, above)
    BY ClimbLands, DepthIsNat
  <2> HIDE DEF c
  <2>3. CASE c = Null
    BY <2>1, <2>3 DEF Advances
  <2>4. CASE c # Null
    BY <2>1, <2>2, <2>4, ClimbAdvances DEF Lands
  <2> QED
    BY <2>3, <2>4
<1> QED
  BY <1>1, <1>2, <1>3

\* No node below r that comes after n is before the one that follows n.
LEMMA FollowingReaches ==
  ASSUME Typed, NEW above, Grown(above), NEW n \in alive, NEW r \in Places,
         NEW m \in alive, above[r] \subseteq above[m], Before(n, m, above)
  PROVE  LET f == Following(n, r) IN f # Null /\ (m = f \/ Before(f, m, above))
<1> DEFINE f == Following(n, r)
           Good == f # Null /\ (m = f \/ Before(f, m, above))
<1>1. n \in Living /\ FirstOf(n) = children[n] /\ n \in Nodes
  BY Ancestors DEF Living, FirstOf
<1>2. ASSUME n \in above[m], m # n PROVE Good
  <2>1. PICK c \in above[m] : parent[c] = n
    BY <1>2, Ancestors
  <2>2. c \in alive
    BY Ancestors
  <2>3. children[n] # Null /\ (c = children[n] \/ sibling_index[children[n]] < sibling_index[c])
    BY <1>1, <2>1, <2>2, Neighbours
  <2>4. f = children[n]
    BY <2>3 DEF Following
  <2>5. f \in alive /\ parent[f] = n /\ f \in above[f]
    BY <1>1, <2>3, <2>4, Neighbours, Ancestors
  <2> HIDE DEF f
  <2>6. CASE c = f
    BY <2>1, <2>3, <2>4, <2>6 DEF Before
  <2>7. CASE c # f
    BY <2>1, <2>3, <2>4, <2>5, <2>7 DEF Before
  <2> QED
    BY <2>6, <2>7
<1>3. ASSUME NEW a \in above[n], NEW b \in above[m],
             parent[a] = parent[b], sibling_index[a] < sibling_index[b]
      PROVE  Good
  <2>1. a \notin above[r]
    <3>1. ASSUME a \in above[r] PROVE FALSE
      <4>1. a \in above[m] /\ b \in alive /\ sibling_index[b] \in Nat
        BY <3>1, Ancestors
      <4>2. a = b
        BY <1>3, <4>1, OneOfSiblings
      <4> QED
        BY <1>3, <4>1, <4>2
    <3> QED
      BY <3>1
  <2>2. CASE children[n] # Null
    <3>1. f = children[n]
      BY <2>2 DEF Following
    <3>2. f \in alive /\ parent[f] = n
      BY <1>1, <2>2, <3>1, Neighbours
    <3> HIDE DEF f
    <3>3. a \in above[f]
      BY <3>2, Ancestors
    <3> QED
      BY <1>3, <2>2, <3>1, <3>3 DEF Before
  <2>3. CASE children[n] = Null
    <3>1. n # r
      BY <2>1
    <3>2. f = Climb[Depth][r][n]
      BY <2>3, <3>1 DEF Following
    <3>3. Reaches(n, r, Climb[Depth][r][n], above)
      <4>1. Rises(alive, parent, above)
        BY ParentsRise DEF Grown
      <4>2. Cardinality(above[n]) \in Nat /\ Cardinality(above[n]) <= Depth
        BY <4>1, Ranks
      <4> QED
        BY <4>2, ClimbReaches, DepthIsNat
    <3> HIDE DEF f
    <3> QED
      BY <1>3, <2>1, <3>2, <3>3 DEF Reaches
  <2> QED
    BY <2>2, <2>3
<1> QED
  BY <1>2, <1>3 DEF Before

LEMMA SearchRule ==
  ASSUME Typed, NEW n \in Nodes, NEW r \in Places
  PROVE  /\ MatchAfter[0][r][n] = Null
         /\ \A k \in Nat :
              MatchAfter[k + 1][r][n] =
                IF Following(n, r) = Null THEN Null
                ELSE IF matches[Following(n, r)] THEN Following(n, r)
                ELSE MatchAfter[k][r][Following(n, r)]
<1>1. Searched(MatchAfter)
  BY SearchSteps
<1>2. MatchAfter[0] = [q \in Places |-> [m \in Nodes |-> Null]]
  BY <1>1 DEF Searched
<1>3. MatchAfter[0][r][n] = Null
  BY <1>2
<1>4. ASSUME NEW k \in Nat
      PROVE  MatchAfter[k + 1][r][n] =
               IF Following(n, r) = Null THEN Null
               ELSE IF matches[Following(n, r)] THEN Following(n, r)
               ELSE MatchAfter[k][r][Following(n, r)]
  <2>1. MatchAfter[k + 1] =
          [q \in Places |-> [m \in Nodes |->
             LET f == Following(m, q)
             IN IF f = Null THEN Null ELSE IF matches[f] THEN f ELSE MatchAfter[k][q][f]]]
    BY <1>1 DEF Searched
  <2> QED
    BY <2>1
<1> QED
  BY <1>3, <1>4

\* A match that is found is further on.
LEMMA MatchAdvances ==
  ASSUME Typed, NEW above, Grown(above)
  PROVE  \A k \in Nat : \A r \in Places, n \in alive :
           LET g == MatchAfter[k][r][n]
           IN Advances(n, g, above) /\ (g # Null => matches[g])
<1> DEFINE Ok(n, g) == Advances(n, g, above) /\ (g # Null => matches[g])
           S == {k \in Nat : \A r \in Places, n \in alive : Ok(n, MatchAfter[k][r][n])}
<1>1. \A n \in alive : Ok(n, Null)
  BY DEF Advances
<1>2. 0 \in S
  BY <1>1, SearchRule, Ancestors
<1>3. ASSUME NEW k \in Nat, k \in S PROVE k + 1 \in S
  <2>1. ASSUME NEW r \in Places, NEW n \in alive PROVE Ok(n, MatchAfter[k + 1][r][n])
    <3>1. PICK f : f = Following(n, r)
      OBVIOUS
    <3>2. Advances(n, f, above) /\ n \in Nodes
      BY <3>1, FollowingAdvances, Ancestors
    <3>3. MatchAfter[k + 1][r][n] =
            IF f = Null THEN Null ELSE IF matches[f] THEN f ELSE MatchAfter[k][r][f]
      BY <3>1, <3>2, SearchRule
    <3>4. CASE f = Null
      BY <1>1, <3>3, <3>4
    <3>5. CASE f # Null /\ matches[f]
      BY <3>2, <3>3, <3>5
    <3>6. CASE f # Null /\ ~matches[f]
      <4>1. PICK g : g = MatchAfter[k][r][f]
        OBVIOUS
      <4>2. f \in alive /\ MatchAfter[k + 1][r][n] = g
        BY <3>2, <3>3, <3>6, <4>1 DEF Advances
      <4>3. Ok(f, g)
        BY <1>3, <4>1, <4>2
      <4>4. Ok(n, g)
        BY <3>2, <3>6, <4>3 DEF Advances
      <4> QED
        BY <4>2, <4>4
    <3> QED
      BY <3>4, <3>5, <3>6
  <2> QED
    BY <2>1
<1>4. \A k \in Nat : k \in S
  <2> HIDE DEF S
  <2> QED
    BY <1>2, <1>3, NatSetInduction
<1> QED
  BY <1>4

\* A search gets as far as it needs: at each step there is one node more behind.
Behind(n, above) == {s \in alive : Before(s, n, above)}

LEMMA BehindGrows ==
  ASSUME Typed, NEW above, Grown(above), NEW n \in alive
  PROVE  /\ Cardinality(Behind(n, above)) \in Nat /\ Cardinality(Behind(n, above)) < Depth
         /\ \A f : f # Null /\ Advances(n, f, above) =>
              Cardinality(Behind(n, above)) < Cardinality(Behind(f, above))
<1>1. /\ alive \subseteq Nodes /\ IsFiniteSet(Nodes)
      /\ \A m : Behind(m, above) \subseteq Nodes
  BY TreeAssumption DEF Typed, Behind
<1>2. \A m : IsFiniteSet(Behind(m, above)) /\ Cardinality(Behind(m, above)) \in Nat
  BY <1>1, FS_Subset, FS_CardinalityType
<1>3. n \notin Behind(n, above) /\ n \in Nodes
  BY <1>1, NeverBeforeItself DEF Behind
<1>4. Cardinality(Behind(n, above) \cup {n}) = Cardinality(Behind(n, above)) + 1
  BY <1>2, <1>3, FS_AddElement
<1>5. Cardinality(Behind(n, above)) < Depth
  <2>1. Behind(n, above) \cup {n} \subseteq Nodes
    BY <1>1, <1>3
  <2>2. Cardinality(Behind(n, above) \cup {n}) <= Depth
    BY <1>1, <2>1, FS_Subset DEF Depth
  <2> QED
    BY <1>2, <1>4, <2>2, DepthIsNat
<1>6. ASSUME NEW f, f # Null, Advances(n, f, above)
      PROVE  Cardinality(Behind(n, above)) < Cardinality(Behind(f, above))
  <2>1. Behind(n, above) \cup {n} \subseteq Behind(f, above)
    BY <1>6 DEF Advances, Behind
  <2>2. Cardinality(Behind(n, above) \cup {n}) <= Cardinality(Behind(f, above))
    BY <1>2, <2>1, FS_Subset
  <2> QED
    BY <1>2, <1>4, <2>2
<1> QED
  BY <1>2, <1>5, <1>6

\* No match below r that comes after n is before the one that is found.
LEMMA MatchReaches ==
  ASSUME Typed, NEW above, Grown(above), NEW r \in Places,
         NEW m \in alive, above[r] \subseteq above[m], matches[m]
  PROVE  \A k \in Nat : \A n \in alive :
           Depth <= Cardinality(Behind(n, above)) + k /\ Before(n, m, above) =>
             LET g == MatchAfter[k][r][n] IN g # Null /\ (m = g \/ Before(g, m, above))
<1> DEFINE Ok(g) == g # Null /\ (m = g \/ Before(g, m, above))
           S == {k \in Nat : \A n \in alive :
                   Depth <= Cardinality(Behind(n, above)) + k /\ Before(n, m, above) =>
                     Ok(MatchAfter[k][r][n])}
<1>1. 0 \in S
  <2>1. \A n \in alive : ~(Depth <= Cardinality(Behind(n, above)) + 0)
    BY BehindGrows, DepthIsNat
  <2> QED
    BY <2>1
<1>2. ASSUME NEW k \in Nat, k \in S PROVE k + 1 \in S
  <2>1. ASSUME NEW n \in alive, Depth <= Cardinality(Behind(n, above)) + (k + 1),
               Before(n, m, above)
        PROVE  Ok(MatchAfter[k + 1][r][n])
    <3>1. PICK f : f = Following(n, r)
      OBVIOUS
    <3>2. f # Null /\ (m = f \/ Before(f, m, above))
      BY <2>1, <3>1, FollowingReaches
    <3>3. Advances(n, f, above) /\ n \in Nodes
      BY <3>1, FollowingAdvances, Ancestors
    <3>4. MatchAfter[k + 1][r][n] = IF matches[f] THEN f ELSE MatchAfter[k][r][f]
      BY <3>1, <3>2, <3>3, SearchRule
    <3>5. CASE matches[f]
      BY <3>2, <3>4, <3>5
    <3>6. CASE ~matches[f]
      <4>1. f \in alive /\ Before(f, m, above)
        BY <3>2, <3>3, <3>6 DEF Advances
      <4>2. /\ Cardinality(Behind(n, above)) < Cardinality(Behind(f, above))
            /\ Cardinality(Behind(n, above)) \in Nat /\ Cardinality(Behind(f, above)) \in Nat
        BY <3>2, <3>3, <4>1, BehindGrows
      <4>3. Depth <= Cardinality(Behind(f, above)) + k
        BY <2>1, <4>2, DepthIsNat
      <4>4. Ok(MatchAfter[k][r][f])
        BY <1>2, <4>1, <4>3
      <4> QED
        BY <3>4, <3>6, <4>4
    <3> QED
      BY <3>5, <3>6
  <2> QED
    BY <2>1
<1>3. \A k \in Nat : k \in S
  <2> HIDE DEF S
  <2> QED
    BY <1>1, <1>2, NatSetInduction
<1> QED
  BY <1>3

-------------------------------------------------------------------------------
(***************************************************************************)
(* The steps that leave the tree as it is.                                 *)
(***************************************************************************)
LEMMA TreeKept ==
  ASSUME Typed, NEW above, Grown(above), UNCHANGED <<alive, links, cached, matches, rows>>
  PROVE  /\ Grown(above)'
         /\ removing' \in alive \cup {Null, Nothing} /\ loop' \in Loops \cup {Nothing} => Typed'
<1> USE DEF links, cached
<1>1. Headed' /\ Linked' /\ Placed' /\ Unused'
  <2> SUFFICES ASSUME UNCHANGED <<alive, root, parent, prev, next, children, sibling_index,
                                  n_children, matches, rows>>
               PROVE  Headed' /\ Linked' /\ Placed' /\ Unused'
    OBVIOUS
  <2>1. Living' = Living
    BY DEF Living
  <2>2. Headed'
    BY DEF Grown, Headed, Living, FirstOf
  <2>3. Linked'
    BY <2>1 DEF Grown, Linked, Item
  <2>4. Placed'
    BY <2>1 DEF Grown, Placed, Item
  <2>5. Unused'
    BY DEF Grown, Unused
  <2> QED
    BY <2>2, <2>3, <2>4, <2>5
<1>2. Rooted(above)'
  BY DEF Grown, Rooted
<1>3. ASSUME removing' \in alive \cup {Null, Nothing}, loop' \in Loops \cup {Nothing}
      PROVE  Typed'
  BY <1>3 DEF Typed
<1> QED
  BY <1>1, <1>2, <1>3 DEF Grown

\* The family of a node are the nodes that it is above.
LEMMA FamilyIsBelow ==
  ASSUME Typed, NEW above, Grown(above)
  PROVE  /\ Family(Null) = alive
         /\ \A n \in alive : Family(n) = {m \in alive : n \in above[m]}
<1>1. Rises(alive, parent, above) /\ above[Null] = {} /\ Descended(Lineage, parent)
  BY ParentsRise, Recursions DEF Grown, Rooted, Typed
<1>2. \A m \in alive : Lineage[Depth][m] = above[m] \cup {Null}
  BY <1>1, LineageIsAbove
<1>3. \A n \in alive : n # Null
  BY Ancestors
<1> QED
  BY <1>2, <1>3 DEF Family

LEMMA RemovesInv ==
  ASSUME TreeInv, NEW n, Removes(n)
  PROVE  TreeInv'
<1>1. PICK above : Typed /\ Grown(above) /\ Looping(above)
  BY DEF TreeInv
<1>2. /\ removing = Nothing /\ n \in alive \cup {Null} /\ NotHeld(n)
      /\ removing' \in {n, Nothing} /\ loop' = loop
      /\ UNCHANGED <<alive, links, cached, matches, rows>>
  BY DEF Removes
<1>3. Typed' /\ Grown(above)'
  BY <1>1, <1>2, TreeKept DEF Typed
<1>4. Looping(above)'
  <2>1. CASE loop = Nothing
    BY <1>2, <2>1 DEF Looping
  <2>2. CASE loop # Nothing
    <3>1. /\ loop.due \subseteq alive /\ loop.seen \subseteq alive
          /\ loop.more =>
               /\ loop.node \in alive
               /\ loop.kind = "children" => ChildrenLoop
               /\ loop.kind = "find" => FindLoop(above)
          /\ ~loop.more => LoopMissesNone
      BY <1>1, <2>2 DEF Looping
    <3>2. ASSUME loop.more PROVE n \in alive /\ n \notin above[loop.node]
      <4>1. loop.node \notin Family(n)
        BY <1>2, <2>2, <3>2 DEF NotHeld
      <4> QED
        BY <1>1, <1>2, <3>1, <3>2, <4>1, FamilyIsBelow
    <3>3. (loop.more /\ removing' # Nothing) => (removing' \in alive /\ removing' \notin above[loop.node])
      BY <1>2, <3>2
    <3>4. /\ ChildrenLoop => ChildrenLoop'
          /\ LoopMissesNone => LoopMissesNone'
      BY <1>2 DEF ChildrenLoop, LoopMissesNone, links, cached
    <3>5. FindLoop(above) => FindLoop(above)'
      BY <1>2 DEF FindLoop, Before, links, cached
    <3> QED
      BY <1>2, <3>1, <3>3, <3>4, <3>5 DEF Looping
  <2> QED
    BY <2>1, <2>2
<1> QED
  BY <1>3, <1>4 DEF TreeInv

\* A loop over the children of p starts at the first of them.
LEMMA StartsChildrenInv ==
  ASSUME TreeInv, NEW p, StartsChildren(p)
  PROVE  TreeInv'
<1>1. PICK above : Typed /\ Grown(above)
  BY DEF TreeInv
<1>2. /\ removing = Nothing /\ p \in Living /\ removing' = removing
      /\ UNCHANGED <<alive, links, cached, matches, rows>>
  BY DEF StartsChildren, Living
<1>3. PICK first, due : first = FirstOf(p) /\ due = ToSet(Siblings(p))
  OBVIOUS
<1>4. loop' = [kind |-> "children", of |-> p, node |-> first, more |-> first # Null,
               due |-> due, seen |-> {}]
  BY <1>3 DEF StartsChildren, LoopOver
<1>5. due = {rows[p][i] : i \in 1..Len(rows[p])}
  <2>1. Siblings(p) = rows[p] /\ rows[p] \in Seq(Nodes)
    BY <1>1, <1>2, RowsAreSiblings DEF Grown
  <2>2. \A list \in Seq(Nodes) : ToSet(list) = {list[i] : i \in 1..Len(list)}
    BY DEF ToSet
  <2> QED
    BY <1>3, <2>1, <2>2
<1>6. \A m \in due : m \in alive /\ parent[m] = p
  BY <1>1, <1>2, <1>5 DEF Grown, Linked
<1>7. first \in Living /\ p \in Places /\ Living \subseteq Places /\ due \subseteq Nodes
  BY <1>1, <1>2, <1>3, <1>6, LinksLive DEF Grown, Living, Typed, Places
<1>8. \A m \in due : first # Null /\ sibling_index[first] <= sibling_index[m]
  <2>1. ASSUME NEW m \in due PROVE first # Null /\ sibling_index[first] <= sibling_index[m]
    <3>1. m \in alive /\ sibling_index[m] \in Nat
      BY <1>1, <1>6, Ancestors
    <3>2. first # Null /\ (m = first \/ sibling_index[first] < sibling_index[m])
      BY <1>1, <1>3, <1>6, <3>1, Neighbours
    <3>3. first \in alive /\ sibling_index[first] \in Nat
      BY <1>1, <1>7, <3>2, Ancestors DEF Living
    <3> QED
      BY <3>1, <3>2, <3>3
  <2> QED
    BY <2>1
<1>9. loop' \in Loops
  BY <1>4, <1>7 DEF Loops
<1>10. Typed' /\ Grown(above)'
  BY <1>1, <1>2, <1>9, TreeKept DEF Typed
<1>11. Looping(above)'
  <2>1. /\ loop'.due = due /\ loop'.seen = {} /\ loop'.more = (first # Null)
        /\ loop'.kind = "children" /\ loop'.node = first /\ loop'.of = p
    BY <1>4
  <2>2. /\ loop'.due \subseteq alive' /\ loop'.seen \subseteq alive'
    BY <1>2, <1>6, <2>1
  <2>3. ASSUME first # Null PROVE first \in alive /\ ChildrenLoop'
    <3>1. first \in alive /\ parent[first] = p
      BY <1>1, <1>2, <1>3, <2>3, Neighbours
    <3> QED
      BY <1>2, <1>6, <1>8, <2>1, <3>1 DEF ChildrenLoop, links, cached
  <2>4. ASSUME first = Null PROVE LoopMissesNone'
    <3>1. due = {}
      BY <1>8, <2>4
    <3> QED
      BY <2>1, <3>1 DEF LoopMissesNone
  <2> QED
    BY <1>2, <2>1, <2>2, <2>3, <2>4 DEF Looping
<1> QED
  BY <1>10, <1>11 DEF TreeInv

LEMMA FindNextFinds ==
  ASSUME Typed, NEW above, Grown(above), NEW n \in alive, NEW p \in Places
  PROVE  /\ FindNext(n, p) \in Living /\ Advances(n, FindNext(n, p), above)
         /\ p # Null => \A m \in alive :
              p \in above[m] /\ matches[m] /\ Before(n, m, above) =>
                /\ FindNext(n, p) # Null
                /\ m = FindNext(n, p) \/ Before(FindNext(n, p), m, above)
<1>1. PICK r, g : r = SearchRoot(p) /\ g = FindNext(n, p)
  OBVIOUS
<1>2. r \in Places /\ g = MatchAfter[Depth][r][n]
  BY <1>1 DEF SearchRoot, FindNext, Typed
<1>3. Advances(n, g, above)
  BY <1>2, MatchAdvances, DepthIsNat
<1>4. g \in Living
  BY <1>3 DEF Advances, Living
<1>5. ASSUME p # Null, NEW m \in alive, p \in above[m], matches[m], Before(n, m, above)
      PROVE  g # Null /\ (m = g \/ Before(g, m, above))
  <2>1. r = p /\ above[p] \subseteq above[m]
    BY <1>1, <1>5, Ancestors DEF SearchRoot
  <2>2. Depth <= Cardinality(Behind(n, above)) + Depth
    BY BehindGrows, DepthIsNat
  <2> QED
    BY <1>2, <1>5, <2>1, <2>2, MatchReaches, DepthIsNat
<1> QED
  BY <1>1, <1>3, <1>4, <1>5

\* A search starts at the first match that is not before its node.
LEMMA StartsFindInv ==
  ASSUME TreeInv, NEW p, StartsFind(p)
  PROVE  TreeInv'
<1>1. PICK above : Typed /\ Grown(above)
  BY DEF TreeInv
<1>2. /\ removing = Nothing /\ p \in Living /\ removing' = removing
      /\ UNCHANGED <<alive, links, cached, matches, rows>>
  BY DEF StartsFind, Living
<1>3. PICK first, due : first = FindFirst(p) /\ due = {m \in Family(p) : matches[m]}
  OBVIOUS
<1>4. loop' = [kind |-> "find", of |-> p, node |-> first, more |-> first # Null,
               due |-> due, seen |-> {}]
  BY <1>3 DEF StartsFind, LoopOver
<1>5. p \in Places /\ root \in Living /\ Living \subseteq Places /\ alive \subseteq Nodes
  <2>1. root = FirstOf(Null) /\ Null \in Living
    BY DEF FirstOf, Living
  <2> QED
    BY <1>1, <1>2, <2>1, LinksLive DEF Grown, Living, Typed, Places
<1>6. first \in Living
  <2>1. SearchRoot(p) \in Living
    BY <1>2, <1>5 DEF SearchRoot
  <2>2. SearchRoot(p) # Null => SearchRoot(p) \in alive
    BY <2>1 DEF Living
  <2>3. SearchRoot(p) # Null => FindNext(SearchRoot(p), p) \in Living
    BY <1>1, <1>5, <2>2, FindNextFinds
  <2> QED
    BY <1>3, <2>1, <2>3 DEF FindFirst, Living
<1>7. due \subseteq alive
  BY <1>3 DEF Family
<1>8. ASSUME p # Null, NEW m \in due
      PROVE  /\ p \in above[m] /\ matches[m] /\ first # Null
             /\ m = first \/ Before(first, m, above)
  <2>1. p \in alive /\ SearchRoot(p) = p
    BY <1>2, <1>8 DEF Living, SearchRoot
  <2>2. m \in alive /\ p \in above[m] /\ matches[m]
    BY <1>1, <1>3, <2>1, FamilyIsBelow
  <2>3. CASE matches[p]
    BY <1>3, <1>8, <2>1, <2>2, <2>3 DEF FindFirst, Before
  <2>4. CASE ~matches[p]
    <3>1. first = FindNext(p, p)
      BY <1>3, <1>8, <2>1, <2>4 DEF FindFirst
    <3>2. Before(p, m, above)
      BY <2>2, <2>4 DEF Before
    <3> QED
      BY <1>1, <1>5, <1>8, <2>1, <2>2, <3>1, <3>2, FindNextFinds
  <2> QED
    BY <2>3, <2>4
<1>9. loop' \in Loops
  BY <1>4, <1>5, <1>6, <1>7 DEF Loops
<1>10. Typed' /\ Grown(above)'
  BY <1>1, <1>2, <1>9, TreeKept DEF Typed
<1>11. Looping(above)'
  <2>1. /\ loop'.due = due /\ loop'.seen = {} /\ loop'.more = (first # Null)
        /\ loop'.kind = "find" /\ loop'.node = first /\ loop'.of = p
    BY <1>4
  <2>2. loop'.due \subseteq alive' /\ loop'.seen \subseteq alive'
    BY <1>2, <1>7, <2>1
  <2>3. ASSUME first # Null PROVE first \in alive /\ FindLoop(above)'
    <3>1. \A m \in due : Before(first, m, above)' = Before(first, m, above)
      BY <1>2 DEF Before, links, cached
    <3>2. p # Null => \A m \in due : /\ p \in above[m] /\ matches'[m]
                                     /\ m = first \/ Before(first, m, above)'
      BY <1>2, <1>8, <3>1
    <3>3. first \in alive
      BY <1>6, <2>3 DEF Living
    <3> QED
      BY <2>1, <3>2, <3>3 DEF FindLoop, Before
  <2>4. ASSUME first = Null PROVE LoopMissesNone'
    <3>1. p # Null => due = {}
      BY <1>8, <2>4
    <3> QED
      BY <2>1, <3>1 DEF LoopMissesNone
  <2> QED
    BY <1>2, <2>1, <2>2, <2>3, <2>4 DEF Looping
<1> QED
  BY <1>10, <1>11 DEF TreeInv

\* A loop over children goes on to the next of them.
LEMMA NextChild ==
  ASSUME Typed, NEW above, Grown(above), loop # Nothing, loop.more, loop.node \in alive,
         ChildrenLoop, loop.due \subseteq alive, loop.seen \subseteq alive,
         NEW c, c = next[loop.node]
  PROVE  /\ c \in Living /\ loop.node \notin loop.seen
         /\ \A m \in loop.due \ {loop.node} :
              c # Null /\ parent[m] = loop.of /\ sibling_index[c] <= sibling_index[m]
         /\ c # Null =>
              /\ parent[c] = loop.of
              /\ \A m \in loop.seen \cup {loop.node} :
                   parent[m] = loop.of /\ sibling_index[m] < sibling_index[c]
<1> DEFINE at == loop.node
<1>1. at \in alive /\ sibling_index[at] \in Nat /\ parent[at] = loop.of
  BY Ancestors DEF ChildrenLoop
<1>2. c \in Living
  BY LinksLive DEF Grown
<1>3. at \notin loop.seen
  BY <1>1 DEF ChildrenLoop
<1>4. ASSUME c # Null
      PROVE  /\ c \in alive /\ parent[c] = loop.of
             /\ sibling_index[c] = sibling_index[at] + 1 /\ sibling_index[c] \in Nat
  <2>1. c \in alive /\ parent[c] = parent[at] /\ sibling_index[c] = sibling_index[at] + 1
    BY <1>1, <1>4, Neighbours
  <2> QED
    BY <1>1, <2>1
<1>5. ASSUME NEW m \in loop.due \ {at}
      PROVE  c # Null /\ parent[m] = loop.of /\ sibling_index[c] <= sibling_index[m]
  <2>1. m \in alive /\ parent[m] = loop.of /\ sibling_index[at] <= sibling_index[m]
        /\ sibling_index[m] \in Nat
    BY <1>5, Ancestors DEF ChildrenLoop
  <2>2. sibling_index[at] # sibling_index[m]
    <3>1. /\ rows[parent[m]][sibling_index[m] + 1] = m
          /\ rows[parent[at]][sibling_index[at] + 1] = at
      BY <1>1, <2>1, InPlace DEF Grown
    <3> QED
      BY <1>1, <1>5, <2>1, <3>1
  <2>3. c # Null /\ (m = c \/ sibling_index[c] < sibling_index[m])
    BY <1>1, <2>1, <2>2, Neighbours
  <2> QED
    BY <1>4, <2>1, <2>3
<1>6. ASSUME c # Null, NEW m \in loop.seen \cup {at}
      PROVE  parent[m] = loop.of /\ sibling_index[m] < sibling_index[c]
  <2>1. CASE m = at
    BY <1>1, <1>4, <1>6, <2>1
  <2>2. CASE m \in loop.seen
    <3>1. parent[m] = loop.of /\ sibling_index[m] < sibling_index[at] /\ sibling_index[m] \in Nat
      BY <2>2, Ancestors DEF ChildrenLoop
    <3> QED
      BY <1>1, <1>4, <1>6, <3>1
  <2> QED
    BY <1>6, <2>1, <2>2
<1> QED
  BY <1>2, <1>3, <1>4, <1>5, <1>6

\* A search goes on to the next match.
LEMMA NextMatch ==
  ASSUME Typed, NEW above, Grown(above), loop # Nothing, loop.more, loop.node \in alive,
         FindLoop(above), loop.due \subseteq alive, loop.seen \subseteq alive,
         NEW c, c = FindNext(loop.node, loop.of)
  PROVE  /\ c \in Living /\ loop.node \notin loop.seen
         /\ loop.of # Null => \A m \in loop.due \ {loop.node} :
              /\ c # Null /\ loop.of \in above[m] /\ matches[m]
              /\ m = c \/ Before(c, m, above)
         /\ c # Null => \A m \in loop.seen \cup {loop.node} : Before(m, c, above)
<1>1. PICK at, of : at = loop.node /\ of = loop.of
  OBVIOUS
<1>2. at \in alive /\ of \in Places
  BY <1>1 DEF Typed, Loops
<1>3. c \in Living /\ Advances(at, c, above)
  BY <1>1, <1>2, FindNextFinds
<1>4. \A m \in loop.seen : Before(m, at, above)
  BY <1>1 DEF FindLoop
<1>5. at \notin loop.seen
  BY <1>2, <1>4, NeverBeforeItself
<1>6. ASSUME of # Null, NEW m \in loop.due \ {at}
      PROVE  /\ c # Null /\ of \in above[m] /\ matches[m]
             /\ m = c \/ Before(c, m, above)
  <2>1. m \in alive /\ of \in above[m] /\ matches[m] /\ Before(at, m, above)
    BY <1>1, <1>6 DEF FindLoop
  <2> QED
    BY <1>1, <1>2, <1>6, <2>1, FindNextFinds
<1>7. ASSUME c # Null, NEW m \in loop.seen \cup {at} PROVE Before(m, c, above)
  BY <1>2, <1>3, <1>4, <1>7 DEF Advances
<1> QED
  BY <1>1, <1>3, <1>5, <1>6, <1>7

LEMMA YieldsOnce ==
  ASSUME TreeInv, Yields
  PROVE  loop.node \notin loop.seen
<1>1. PICK above : Typed /\ Grown(above) /\ Looping(above)
  BY DEF TreeInv
<1>2. /\ loop # Nothing /\ loop.more /\ loop.node \in alive /\ loop \in Loops
      /\ loop.due \subseteq alive /\ loop.seen \subseteq alive
      /\ loop.kind = "children" => ChildrenLoop
      /\ loop.kind = "find" => FindLoop(above)
  BY <1>1 DEF Yields, Looping, Typed
<1>3. CASE loop.kind = "children"
  BY <1>1, <1>2, <1>3, NextChild
<1>4. CASE loop.kind = "find"
  BY <1>1, <1>2, <1>4, NextMatch
<1> QED
  BY <1>2, <1>3, <1>4 DEF Loops

LEMMA YieldsInv ==
  ASSUME TreeInv, Yields
  PROVE  TreeInv'
<1>1. PICK above : Typed /\ Grown(above) /\ Looping(above)
  BY DEF TreeInv
<1>2. /\ loop # Nothing /\ loop.more /\ loop.node \in alive /\ loop \in Loops
      /\ loop.due \subseteq alive /\ loop.seen \subseteq alive
      /\ loop.kind = "children" => ChildrenLoop
      /\ loop.kind = "find" => FindLoop(above)
  BY <1>1 DEF Yields, Looping, Typed
<1>3. /\ removing = Nothing /\ removing' = removing
      /\ UNCHANGED <<alive, links, cached, matches, rows>>
  BY DEF Yields
<1>4. PICK c : c = IF loop.kind = "children" THEN next[loop.node]
                   ELSE FindNext(loop.node, loop.of)
  OBVIOUS
<1>5. loop' = [loop EXCEPT !.node = IF c = Null THEN @ ELSE c, !.more = c # Null,
                           !.due = @ \ {loop.node}, !.seen = @ \cup {loop.node}]
  BY <1>4 DEF Yields
<1>6. /\ loop'.kind = loop.kind /\ loop'.of = loop.of
      /\ loop'.more = (c # Null) /\ (c # Null => loop'.node = c)
      /\ loop'.due = loop.due \ {loop.node} /\ loop'.seen = loop.seen \cup {loop.node}
  BY <1>2, <1>5 DEF Loops
<1>7. loop.kind \in {"children", "find"}
  BY <1>2 DEF Loops
<1>8. loop.kind = "children" => c = next[loop.node]
  BY <1>4
<1>9. loop.kind = "find" => c = FindNext(loop.node, loop.of)
  BY <1>4
<1>10. c \in Living
  <2>1. CASE loop.kind = "children"
    BY <1>1, <1>2, <1>8, <2>1, NextChild
  <2>2. CASE loop.kind = "find"
    BY <1>1, <1>2, <1>9, <2>2, NextMatch
  <2> QED
    BY <1>7, <2>1, <2>2
<1>11. loop' \in Loops
  <2>1. Living \subseteq Places /\ alive \subseteq Nodes
    BY <1>1 DEF Typed, Living, Places
  <2> QED
    BY <1>2, <1>5, <1>10, <2>1 DEF Loops
<1>12. Typed' /\ Grown(above)'
  BY <1>1, <1>3, <1>11, TreeKept DEF Typed
<1>13. loop'.due \subseteq alive' /\ loop'.seen \subseteq alive'
  BY <1>2, <1>3, <1>6
<1>14. ASSUME loop.kind = "children"
       PROVE  IF c # Null THEN ChildrenLoop' ELSE loop'.due = {}
  <2>1. /\ \A m \in loop.due \ {loop.node} :
             c # Null /\ parent[m] = loop.of /\ sibling_index[c] <= sibling_index[m]
        /\ c # Null =>
             /\ parent[c] = loop.of
             /\ \A m \in loop.seen \cup {loop.node} :
                  parent[m] = loop.of /\ sibling_index[m] < sibling_index[c]
    BY <1>1, <1>2, <1>8, <1>14, NextChild
  <2> QED
    BY <1>3, <1>6, <2>1 DEF ChildrenLoop, links, cached
<1>15. ASSUME loop.kind = "find"
       PROVE  IF c # Null THEN FindLoop(above)' ELSE loop.of # Null => loop'.due = {}
  <2>1. /\ loop.of # Null => \A m \in loop.due \ {loop.node} :
             /\ c # Null /\ loop.of \in above[m] /\ matches[m]
             /\ m = c \/ Before(c, m, above)
        /\ c # Null => \A m \in loop.seen \cup {loop.node} : Before(m, c, above)
    BY <1>1, <1>2, <1>9, <1>15, NextMatch
  <2>2. CASE c = Null
    BY <1>6, <2>1, <2>2
  <2>3. CASE c # Null
    <3>1. \A m, n : Before(m, n, above)' = Before(m, n, above)
      BY <1>3 DEF Before, links, cached
    <3>2. loop.of # Null => \A m \in loop'.due :
            /\ loop.of \in above[m] /\ matches'[m]
            /\ m = c \/ Before(c, m, above)'
      BY <1>3, <1>6, <2>1, <3>1
    <3>3. \A m \in loop'.seen : Before(m, c, above)'
      BY <1>6, <2>1, <2>3, <3>1
    <3> QED
      BY <1>6, <2>3, <3>2, <3>3 DEF FindLoop, Before
  <2> QED
    BY <2>2, <2>3
<1>16. Looping(above)'
  <2>1. ASSUME loop'.more
        PROVE  /\ loop'.node \in alive' /\ removing' = Nothing
               /\ loop'.kind = "children" => ChildrenLoop'
               /\ loop'.kind = "find" => FindLoop(above)'
    BY <1>3, <1>6, <1>10, <1>14, <1>15, <2>1 DEF Living
  <2>2. ASSUME ~loop'.more PROVE LoopMissesNone'
    BY <1>6, <1>7, <1>14, <1>15, <2>2 DEF LoopMissesNone
  <2> QED
    BY <1>13, <2>1, <2>2 DEF Looping
<1> QED
  BY <1>12, <1>16 DEF TreeInv

LEMMA LeavesInv ==
  ASSUME TreeInv, Leaves
  PROVE  TreeInv'
<1>1. PICK above : Typed /\ Grown(above)
  BY DEF TreeInv
<1>2. loop' = Nothing /\ removing' = removing /\ UNCHANGED <<alive, links, cached, matches, rows>>
  BY DEF Leaves
<1>3. Typed' /\ Grown(above)'
  BY <1>1, <1>2, TreeKept DEF Typed
<1>4. Looping(above)'
  BY <1>2 DEF Looping
<1> QED
  BY <1>3, <1>4 DEF TreeInv

LEMMA NothingInv ==
  ASSUME TreeInv, UNCHANGED vars
  PROVE  TreeInv'
<1>1. PICK above : Typed /\ Grown(above) /\ Looping(above)
  BY DEF TreeInv
<1>2. /\ loop' = loop /\ removing' = removing
      /\ UNCHANGED <<alive, links, cached, matches, rows>>
  BY DEF vars
<1>3. Typed' /\ Grown(above)'
  BY <1>1, <1>2, TreeKept DEF Typed
<1>4. Looping(above)'
  <2>1. ChildrenLoop' = ChildrenLoop /\ LoopMissesNone' = LoopMissesNone
    BY <1>2 DEF ChildrenLoop, LoopMissesNone, links, cached
  <2>2. FindLoop(above)' = FindLoop(above)
    BY <1>2 DEF FindLoop, Before, links, cached
  <2> QED
    BY <1>1, <1>2, <2>1, <2>2 DEF Looping
<1> QED
  BY <1>3, <1>4 DEF TreeInv

LEMMA TreeNextInv == TreeInv /\ [Next]_vars => TreeInv'
<1> SUFFICES ASSUME TreeInv, [Next]_vars PROVE TreeInv'
  OBVIOUS
<1>1. ASSUME NEW p \in Places, NEW n \in Nodes, Appends(p, n) PROVE TreeInv'
  BY <1>1, AppendsInv
<1>2. ASSUME NEW p \in Places, Removes(p) PROVE TreeInv'
  BY <1>2, RemovesInv
<1>3. ASSUME NEW p \in Places, StartsChildren(p) PROVE TreeInv'
  BY <1>3, StartsChildrenInv
<1>4. ASSUME NEW p \in Places, StartsFind(p) PROVE TreeInv'
  BY <1>4, StartsFindInv
<1>5. CASE RemovesLeaf
  BY <1>5, RemovesLeafInv
<1>6. CASE Yields
  BY <1>6, YieldsInv
<1>7. CASE Leaves
  BY <1>7, LeavesInv
<1>8. CASE UNCHANGED vars
  BY <1>8, NothingInv
<1> QED
  BY <1>1, <1>2, <1>3, <1>4, <1>5, <1>6, <1>7, <1>8 DEF Next

-------------------------------------------------------------------------------
(***************************************************************************)
(* What holds of the tree, however many nodes there are.                   *)
(***************************************************************************)
\* The links of the nodes thread the rows of the view, the parents lead up to
\* the root, and what a loop has yet to visit is ahead of it, after every call
\* of dyntree_model_iter_append() and in the middle of every removal.
THEOREM TreeInvariant == Spec => []TreeInv
<1>1. Init => TreeInv
  BY TreeInitInv
<1>2. TreeInv /\ [Next]_vars => TreeInv'
  BY TreeNextInv
<1> QED
  BY <1>1, <1>2, PTL DEF Spec

\* No link, and no loop that goes on, leads to a node that was freed.
THEOREM TreeTyped == Spec => []TreeTypeOK
<1>1. TreeInv => TreeTypeOK
  BY TreeImplies
<1> QED
  BY <1>1, TreeInvariant, PTL

\* The view, which knows no more than the paths of the signals, has the rows
\* that the tree has, in their order, also in the middle of a removal.
THEOREM ViewFollows == Spec => []ViewMirrors
<1>1. TreeInv => ViewMirrors
  BY TreeImplies
<1> QED
  BY <1>1, TreeInvariant, PTL

\* The numbers that the nodes cache are right: the path that is made of them
\* leads back to the node, and a node has as many children as it says.
THEOREM IndexesStayRight == Spec => []IndexesRight
<1>1. TreeInv => IndexesRight
  BY TreeImplies
<1> QED
  BY <1>1, TreeInvariant, PTL

\* A loop over the children or the matches below a node ends only when it has
\* visited all that were there when it began and were not removed since.
THEOREM LoopsMissNone == Spec => []LoopMissesNone
<1>1. TreeInv => LoopMissesNone
  BY TreeImplies
<1> QED
  BY <1>1, TreeInvariant, PTL

\* A loop visits no node twice, whatever its body appends and removes.
THEOREM LoopsVisitOnce == Spec => LoopVisitsOnce
<1>1. TreeInv /\ [Next]_vars => [Yields => loop.node \notin loop.seen]_vars
  BY YieldsOnce
<1> QED
  BY <1>1, TreeInvariant, PTL DEF Spec, LoopVisitsOnce

-------------------------------------------------------------------------------
(***************************************************************************)
(* The tree is the ordered tree that is promised to the scripts.           *)
(***************************************************************************)
LEMMA FirstRemoved ==
  ASSUME NEW s \in Seq(Nodes), NEW e
  PROVE  /\ (\A i \in 1..Len(s) : s[i] # e) => RemoveFirst(s, e) = s
         /\ \A i \in 1..Len(s) :
              s[i] = e /\ (\A j, k \in 1..Len(s) : s[j] = s[k] => j = k) =>
                RemoveFirst(s, e) = RemoveAt(s, i)
<1>1. (\A i \in 1..Len(s) : s[i] # e) => RemoveFirst(s, e) = s
  BY DEF RemoveFirst
<1>2. ASSUME NEW i \in 1..Len(s), s[i] = e, \A j, k \in 1..Len(s) : s[j] = s[k] => j = k
      PROVE  RemoveFirst(s, e) = RemoveAt(s, i)
  <2>1. SelectInSeq(s, LAMBDA v : v = e) = i
    BY <1>2, FoundAt DEF SelectInSeq
  <2>2. RemoveFirst(s, e) = RemoveAt(s, SelectInSeq(s, LAMBDA v : v = e))
    BY <1>2 DEF RemoveFirst, SelectInSeq
  <2> QED
    BY <2>1, <2>2
<1> QED
  BY <1>1, <1>2

\* What is not shown to the scripts any more, while a node is being removed.
Doomed(p, above) ==
  \/ p \notin Living \/ removing = Null
  \/ removing \in alive /\ p \in alive /\ removing \in above[p]

Left(above) ==
  [p \in Places |-> IF Doomed(p, above) THEN <<>> ELSE RemoveFirst(rows[p], removing)]

LEMMA RemainingIsLeft == \A above : Typed /\ Grown(above) => Remaining = Left(above)
<1> SUFFICES ASSUME NEW above, Typed, Grown(above) PROVE Remaining = Left(above)
  OBVIOUS
<1> DEFINE doomed == IF removing = Nothing THEN {}
                     ELSE IF removing = Null THEN Places ELSE Family(removing)
<1>1. Remaining = [p \in Places |->
                     IF p \in doomed \/ p \notin alive \cup {Null} THEN <<>>
                     ELSE RemoveFirst(Siblings(p), removing)]
  BY Zenon DEF Remaining
<1>2. \A p \in Living : Siblings(p) = rows[p]
  BY RowsAreSiblings DEF Grown
<1>3. \A p \in Places : (p \in doomed \/ p \notin Living) <=> Doomed(p, above)
  <2>1. removing \in alive \cup {Null, Nothing} /\ alive \subseteq Nodes
    BY DEF Typed
  <2>2. CASE removing = Nothing
    BY <2>1, <2>2, TreeAssumption DEF Doomed
  <2>3. CASE removing = Null
    BY <2>3, TreeAssumption DEF Doomed
  <2>4. CASE removing \in alive
    BY <2>1, <2>4, FamilyIsBelow, TreeAssumption DEF Doomed, Living
  <2> QED
    BY <2>1, <2>2, <2>3, <2>4
<1> HIDE DEF doomed
<1>4. \A p \in Places :
        (IF p \in doomed \/ p \notin alive \cup {Null} THEN <<>>
         ELSE RemoveFirst(Siblings(p), removing)) =
        (IF Doomed(p, above) THEN <<>> ELSE RemoveFirst(rows[p], removing))
  BY <1>2, <1>3 DEF Living
<1> QED
  BY <1>1, <1>4 DEF Left

LEMMA RemainingIsLeftNext == \A above : Typed' /\ Grown(above)' => Remaining' = Left(above)'
<1>1. (\A above : Typed /\ Grown(above) => Remaining = Left(above))'
  BY RemainingIsLeft, PTL
<1> QED
  BY <1>1

\* Between removals the scripts see all rows.
LEMMA AllIsLeft ==
  \A above : Typed /\ Grown(above) /\ removing = Nothing => Remaining = rows
<1> SUFFICES ASSUME NEW above, Typed, Grown(above), removing = Nothing PROVE Remaining = rows
  OBVIOUS
<1>1. Remaining = Left(above)
  BY RemainingIsLeft
<1>2. ASSUME NEW p \in Places PROVE Left(above)[p] = rows[p]
  <2>1. /\ rows[p] \in Seq(Nodes) /\ removing # Null /\ removing \notin alive
        /\ \A i \in 1..Len(rows[p]) : rows[p][i] # Nothing
    BY TreeAssumption, ElementOfSeq DEF Typed
  <2>2. RemoveFirst(rows[p], removing) = rows[p]
    BY <2>1, FirstRemoved
  <2>3. p \notin Living => rows[p] = <<>>
    BY DEF Grown, Unused, Living, Places
  <2> QED
    BY <2>1, <2>2, <2>3 DEF Left, Doomed
<1>3. rows = [p \in Places |-> rows[p]]
  BY DEF Typed
<1>4. Left(above) = [p \in Places |-> Left(above)[p]]
  BY DEF Left
<1> QED
  BY <1>1, <1>2, <1>3, <1>4, Zenon

LEMMA AllIsLeftNext ==
  \A above : Typed' /\ Grown(above)' /\ removing' = Nothing => Remaining' = rows'
<1>1. (\A above : Typed /\ Grown(above) /\ removing = Nothing => Remaining = rows)'
  BY AllIsLeft, PTL
<1> QED
  BY <1>1

LEMMA PresentIsAlive ==
  ASSUME Typed, NEW above, Grown(above), removing = Nothing
  PROVE  Promise!Present = alive
<1>1. Remaining = rows
  BY AllIsLeft
<1>2. \A p \in Places : ToSet(rows[p]) \subseteq alive
  <2>1. ASSUME NEW p \in Places PROVE ToSet(rows[p]) \subseteq alive
    <3>1. CASE p \in Living
      BY <3>1 DEF Grown, Linked, ToSet
    <3>2. CASE p \notin Living
      <4>1. rows[p] = <<>>
        BY <3>2 DEF Grown, Unused, Living, Places
      <4> QED
        BY <4>1 DEF ToSet
    <3> QED
      BY <3>1, <3>2
  <2> QED
    BY <2>1
<1>3. \A m \in alive : parent[m] \in Places /\ m \in ToSet(rows[parent[m]])
  BY InPlace DEF Grown, ToSet
<1>4. Promise!Present = UNION {ToSet(s) : s \in {rows[p] : p \in Places}}
  BY <1>1 DEF Promise!Present, Promise!Range, Range, Promise!ToSet, ToSet, Typed
<1> QED
  BY <1>2, <1>3, <1>4

\* The family of a node are those that it is above, and for the root all.
LEMMA PromisedFamily ==
  ASSUME Typed, NEW above, Grown(above), removing = Nothing, NEW n \in Living
  PROVE  \A m \in Places :
           m \in Promise!Family(n) <=> m = n \/ (m \in alive /\ (n = Null \/ n \in above[m]))
<1> DEFINE Grows(S) == \A p \in S : ToSet(rows[p]) \subseteq S
           Below(m) == m = n \/ (m \in alive /\ (n = Null \/ n \in above[m]))
<1>1. Promise!Family(n) =
        {m \in Places : \A S \in SUBSET Places : n \in S /\ Grows(S) => m \in S}
  BY AllIsLeft DEF Promise!Family, Promise!Closed, Promise!ToSet, ToSet, Places
<1>2. n \in Places /\ alive \subseteq Places /\ Rises(alive, parent, above)
  BY ParentsRise DEF Typed, Living, Places, Grown
<1>3. ASSUME NEW m \in Places, \A S \in SUBSET Places : n \in S /\ Grows(S) => m \in S
      PROVE  Below(m)
  <2> DEFINE S == {q \in Places : Below(q)}
  <2>1. Grows(S)
    <3>1. ASSUME NEW p \in S, NEW c \in ToSet(rows[p]) PROVE c \in S
      <4>1. p \in Living
        BY <3>1 DEF Living
      <4>2. c \in alive /\ parent[c] = p
        BY <3>1, <4>1 DEF Grown, Linked, ToSet
      <4>3. c \in above[c] /\ above[p] \subseteq above[c]
        BY <4>2, Ancestors
      <4>4. n # Null => n \in above[p]
        <5>1. CASE p = n
          BY <4>1, <5>1, Ancestors DEF Living
        <5>2. CASE p # n
          BY <3>1, <5>2
        <5> QED
          BY <5>1, <5>2
      <4> QED
        BY <1>2, <4>2, <4>3, <4>4
    <3> QED
      BY <3>1
  <2>2. n \in S
    BY <1>2
  <2>3. m \in S
    <3> HIDE DEF S
    <3>1. S \in SUBSET Places
      BY DEF S
    <3> QED
      BY <1>3, <2>1, <2>2, <3>1
  <2> QED
    BY <2>3
\* From n each node that it is above is reached, those nearest to it first.
<1>4. ASSUME NEW S \in SUBSET Places, n \in S, Grows(S) PROVE \A m \in Places : Below(m) => m \in S
  <2> DEFINE K == {k \in Nat : \A m \in alive : Below(m) /\ Cardinality(above[m]) <= k => m \in S}
  <2>1. 0 \in K
    <3>1. ASSUME NEW m \in alive PROVE ~(Cardinality(above[m]) <= 0)
      <4>1. parent[m] \in Living
        BY InPlace DEF Grown
      <4> QED
        BY <1>2, <4>1, Ranks DEF Living
    <3> QED
      BY <3>1
  <2>2. ASSUME NEW k \in Nat, k \in K PROVE k + 1 \in K
    <3>1. ASSUME NEW m \in alive, Below(m), Cardinality(above[m]) <= k + 1, m # n PROVE m \in S
      <4>1. /\ parent[m] \in Living /\ m \in ToSet(rows[parent[m]])
            /\ rows[parent[m]] \in Seq(Nodes)
        BY InPlace DEF Grown, ToSet
      <4>2. Cardinality(above[parent[m]]) <= k
        BY <1>2, <3>1, <4>1, Ranks DEF Living
      <4>3. Below(parent[m])
        BY <3>1, <4>1, Ancestors DEF Living
      <4>4. parent[m] \in S
        <5>1. CASE parent[m] = n
          BY <1>4, <5>1
        <5>2. CASE parent[m] # n
          <6>1. parent[m] \in alive
            BY <4>3, <5>2
          <6> QED
            BY <2>2, <4>2, <4>3, <6>1
        <5> QED
          BY <5>1, <5>2
      <4> QED
        BY <1>4, <4>1, <4>4
    <3> QED
      BY <1>4, <3>1
  <2>3. \A k \in Nat : k \in K
    <3> HIDE DEF K
    <3> QED
      BY <2>1, <2>2, NatSetInduction
  <2>4. \A m \in alive : Cardinality(above[m]) \in Nat
    BY <1>2, Ranks
  <2> QED
    BY <1>4, <2>3, <2>4
<1> HIDE DEF Grows, Below
<1>5. \A m \in Places : m \in Promise!Family(n) <=> Below(m)
  BY <1>1, <1>3, <1>4
<1> QED
  BY <1>5 DEF Below

LEMMA AppendsKeeps ==
  ASSUME TreeInv, NEW p, NEW n, Appends(p, n)
  PROVE  Promise!Appends(p, n) /\ p \in Places /\ n \in Nodes /\ n # Null
<1>1. PICK above : Typed /\ Grown(above)
  BY DEF TreeInv
<1>2. PICK new : Typed' /\ Grown(new)'
  BY AppendsInv DEF TreeInv
<1>3. Appended(p, n)
  BY <1>1, AppendsAppended
<1>4. /\ p \in Living /\ p \in Places /\ n \in Nodes /\ n \notin alive /\ n # Null
      /\ rows[p] \in Seq(Nodes) /\ Len(rows[p]) \in Nat
      /\ rows'[p] \in Seq(Nodes) /\ Len(rows'[p]) = Len(rows[p]) + 1
      /\ \A j \in 1..Len(rows[p]) : rows'[p][j] = rows[p][j]
      /\ rows'[p][Len(rows[p]) + 1] = n
  BY <1>1, <1>3, AppendedFacts
<1>5. removing = Nothing /\ removing' = Nothing
  BY <1>3 DEF Appended
<1>6. rows' = [rows EXCEPT ![p] = Append(@, n)]
  <2>1. PICK t : t = Append(rows[p], n)
    OBVIOUS
  <2>2. /\ t \in Seq(Nodes) /\ Len(t) = Len(rows[p]) + 1
        /\ \A j \in 1..Len(rows[p]) : t[j] = rows[p][j]
        /\ t[Len(rows[p]) + 1] = n
    BY <1>4, <2>1, AppendProperties
  <2>3. \A j \in 1..Len(t) : t[j] = rows'[p][j]
    BY <1>4, <2>2
  <2>4. rows'[p] = t
    BY <1>4, <2>2, <2>3, SeqEqual
  <2>5. rows' = [rows EXCEPT ![p] = rows'[p]]
    <3>1. rows' = [rows EXCEPT ![p] = InsertAt(@, Len(rows[p]) + 1, n)]
      BY <1>3 DEF Appended
    <3> QED
      BY <1>1, <1>4, <3>1 DEF Typed
  <2> QED
    BY <1>1, <1>4, <2>1, <2>4, <2>5 DEF Typed
<1>7. Remaining = rows /\ Remaining' = rows'
  BY <1>1, <1>2, <1>5, AllIsLeft, AllIsLeftNext
<1>8. Promise!Present = alive
  BY <1>1, <1>5, PresentIsAlive
<1>9. Promise!Appends(p, n)
  BY <1>4, <1>6, <1>7, <1>8 DEF Promise!Appends, Living
<1> QED
  BY <1>4, <1>9

LEMMA RemovesKeeps ==
  ASSUME TreeInv, NEW n, Removes(n)
  PROVE  UNCHANGED Remaining \/ (Promise!Removes(n) /\ n \in Places)
<1>1. PICK above : Typed /\ Grown(above)
  BY DEF TreeInv
<1>2. /\ removing = Nothing /\ n \in Living
      /\ removing' = IF n = Null /\ root = Null THEN Nothing ELSE n
      /\ UNCHANGED <<alive, links, cached, matches, rows, loop>>
  BY DEF Removes, Living
<1>3. Typed' /\ Grown(above)'
  BY <1>1, <1>2, TreeKept DEF Typed, Living
<1>4. Remaining = rows /\ Remaining' = Left(above)'
  BY <1>1, <1>2, <1>3, AllIsLeft, RemainingIsLeftNext
<1>5. CASE n = Null /\ root = Null
  <2>1. Remaining' = rows'
    BY <1>2, <1>3, <1>5, AllIsLeftNext
  <2> QED
    BY <1>2, <1>4, <2>1
<1>6. CASE ~(n = Null /\ root = Null)
  <2>1. n \in Places /\ alive \subseteq Nodes /\ n # Nothing /\ removing' = n
    BY <1>1, <1>2, <1>6, TreeAssumption DEF Typed, Living, Places
  <2>2. \A p \in Places : p \in Promise!Family(n) <=>
          p = n \/ (p \in alive /\ (n = Null \/ n \in above[p]))
    BY <1>1, <1>2, PromisedFamily
  <2>3. Left(above)' = [p \in Places |-> IF Doomed(p, above)' THEN <<>>
                                         ELSE RemoveFirst(rows[p], n)]
    BY <1>2, <2>1 DEF Left
  <2>4. Promise!Without(n) = [p \in Places |-> IF p \in Promise!Family(n) THEN <<>>
                                               ELSE RemoveFirst(rows[p], n)]
    BY <1>1, <1>4 DEF Promise!Without, Promise!RemoveFirst, RemoveFirst, Promise!RemoveAt,
       RemoveAt, Promise!SelectInSeq, SelectInSeq, Promise!Min, Min, Typed
  <2>5. ASSUME NEW p \in Places
        PROVE  (IF Doomed(p, above)' THEN <<>> ELSE RemoveFirst(rows[p], n)) =
               (IF p \in Promise!Family(n) THEN <<>> ELSE RemoveFirst(rows[p], n))
    <3>1. CASE p \in Living
      <4>1. Doomed(p, above)' <=> p \in Promise!Family(n)
        BY <1>1, <1>2, <2>1, <2>2, <3>1, TreeAssumption, Ancestors DEF Doomed, Living
      <4> QED
        BY <4>1
    <3>2. CASE p \notin Living
      <4>1. rows[p] = <<>> /\ Len(<<>>) = 0 /\ <<>> \in Seq(Nodes)
        BY <1>1, <3>2 DEF Grown, Unused, Living, Places
      <4>2. \A i \in 1..Len(<<>>) : <<>>[i] # n
        BY <4>1
      <4>3. RemoveFirst(<<>>, n) = <<>>
        BY <4>1, <4>2, FirstRemoved
      <4> QED
        BY <4>1, <4>3
    <3> QED
      BY <3>1, <3>2
  <2>6. Left(above)' = Promise!Without(n)
    BY <2>3, <2>4, <2>5
  <2>7. n \in Promise!Present \cup {Null}
    BY <1>1, <1>2, PresentIsAlive DEF Living
  <2> QED
    BY <1>4, <2>1, <2>6, <2>7 DEF Promise!Removes
<1> QED
  BY <1>5, <1>6

LEMMA NoTree ==
  \A above : Typed /\ Grown(above) /\ root = Null => \A p \in Places : rows[p] = <<>>
<1> SUFFICES ASSUME NEW above, Typed, Grown(above), root = Null,
                    NEW p \in Places
             PROVE  rows[p] = <<>>
  OBVIOUS
<1>1. Rises(alive, parent, above) /\ FirstOf(Null) = Null
  BY ParentsRise DEF Grown, FirstOf
<1> DEFINE K == {k \in Nat : \A m \in alive : ~(Cardinality(above[m]) <= k)}
<1>2. \A m \in alive : /\ parent[m] \in alive
                       /\ Cardinality(above[m]) = Cardinality(above[parent[m]]) + 1
                       /\ Cardinality(above[m]) \in Nat /\ Cardinality(above[parent[m]]) \in Nat
  <2>1. ASSUME NEW m \in alive PROVE parent[m] \in alive
    <3>1. FirstOf(parent[m]) # Null
      BY Neighbours
    <3>2. parent[m] \in Living
      BY InPlace DEF Grown
    <3> QED
      BY <1>1, <3>1, <3>2 DEF Living
  <2> QED
    BY <1>1, <2>1, Ranks
<1>3. 0 \in K /\ \A k \in Nat : k \in K => k + 1 \in K
  BY <1>2
<1>4. \A k \in Nat : k \in K
  <2> HIDE DEF K
  <2> QED
    BY <1>3, NatSetInduction
<1>5. alive = {}
  BY <1>2, <1>4
<1>6. CASE p = Null
  <2>1. rows[p] \in Seq(Nodes) /\ Item(rows[p], 1) = Null
    BY <1>1, <1>6 DEF Grown, Headed, Living, Typed
  <2>2. Len(rows[p]) = 0
    BY <2>1, ItemInList, LenProperties
  <2> QED
    BY <2>1, <2>2, EmptySeq
<1>7. CASE p # Null
  BY <1>5, <1>7 DEF Grown, Unused, Places
<1> QED
  BY <1>6, <1>7

LEMMA NoTreeNext ==
  \A above : Typed' /\ Grown(above)' /\ root' = Null => \A p \in Places : rows'[p] = <<>>
<1>1. (\A above : Typed /\ Grown(above) /\ root = Null => \A p \in Places : rows[p] = <<>>)'
  BY NoTree, PTL
<1> QED
  BY <1>1

LEMMA RemovesLeafKeeps ==
  ASSUME TreeInv, RemovesLeaf
  PROVE  UNCHANGED Remaining
<1>1. PICK above : Typed /\ Grown(above)
  BY DEF TreeInv
<1>2. PICK n \in alive, p \in Places :
        n = FirstLeaf[Depth][removing] /\ p = parent[n] /\ Frees(n, p)
  BY DEF RemovesLeaf
<1>3. /\ removing # Nothing /\ removing \in Living
      /\ alive \subseteq Nodes /\ alive' = alive \ {n}
      /\ removing' = IF removing \notin alive' /\ (removing # Null \/ root' = Null)
                     THEN Nothing ELSE removing
  BY <1>1, <1>2 DEF RemovesLeaf, Typed, Frees, Living
<1>4. FirstOf(n) = Null /\ (removing \in alive => removing \in above[n])
  BY <1>1, <1>2, <1>3, FirstLeafIsLeaf
<1>5. Leaf(n, p)
  BY <1>2, <1>4 DEF Leaf
<1>6. removing' \in alive' \cup {Null, Nothing}
  BY <1>3
<1>7. Typed'
  BY <1>1, <1>2, <1>5, <1>6, FreedTyped
<1>8. PICK new : new = [q \in Places |-> above[q] \ {n}]
  OBVIOUS
<1>9. Grown(new)'
  <2>1. Headed' /\ Linked' /\ Placed' /\ Unused'
    BY <1>1, <1>2, <1>5, FreedThreads
  <2>2. Rooted(new)'
    BY <1>1, <1>2, <1>5, <1>8, FreedRoots
  <2> QED
    BY <2>1, <2>2 DEF Grown
<1>10. Remaining = Left(above) /\ Remaining' = Left(new)'
  BY <1>1, <1>7, <1>9, RemainingIsLeft, RemainingIsLeftNext
<1>11. /\ n \in Nodes /\ n # Null /\ n \in Places /\ n # Nothing /\ p \in Living /\ p # n
       /\ rows[p] \in Seq(Nodes) /\ sibling_index[n] + 1 \in 1..Len(rows[p])
       /\ rows[p][sibling_index[n] + 1] = n
       /\ rows'[p] = RemoveAt(rows[p], sibling_index[n] + 1) /\ rows'[n] = <<>>
       /\ \A q \in Places \ {p} : rows'[q] = rows[q]
       /\ \A q \in Places : rows[q] \in Seq(Nodes) /\ rows'[q] \in Seq(Nodes)
  <2>1. /\ n \in Nodes /\ n # Null /\ n \in Places /\ p \in Living /\ p # n
        /\ sibling_index[n] + 1 \in 1..Len(rows[p]) /\ rows[p][sibling_index[n] + 1] = n
    BY <1>1, <1>5, LeafFacts
  <2>2. RowDeleted(PathOf(n)) /\ n # Nothing
    BY <1>2, <2>1, TreeAssumption DEF Frees
  <2>3. /\ rows'[p] = RemoveAt(rows[p], sibling_index[n] + 1) /\ rows'[n] = <<>>
        /\ \A q \in Places \ {p} : rows'[q] = rows[q]
    <3>1. \A q \in Places \ {p} : rows'[q] = rows[q]
      BY <1>1, <1>5, <2>2, RowFreed
    <3>2. rows'[p] = RemoveAt(rows[p], sibling_index[n] + 1) /\ rows'[n] = <<>>
      BY <1>1, <1>5, <2>2, RowFreed
    <3> QED
      BY <3>1, <3>2
  <2>4. \A q \in Places : rows[q] \in Seq(Nodes) /\ rows'[q] \in Seq(Nodes)
    BY <1>1, <1>7 DEF Typed
  <2> QED
    BY <1>2, <2>1, <2>2, <2>3, <2>4
<1>12. \A q \in alive' : n \notin above[q] /\ new[q] = above[q] /\ q \in Places
  <2>1. \A q \in alive' : n \notin above[q] /\ q \in Places
    BY <1>1, <1>3, <1>5, NothingBelowLeaf DEF Places
  <2> QED
    BY <1>8, <2>1
<1>13. \A q \in Places : RemoveFirst(rows'[q], Nothing) = rows'[q]
  BY <1>11, FirstRemoved, TreeAssumption, ElementOfSeq
<1> DEFINE Shown(q) == IF Doomed(q, above) THEN <<>> ELSE RemoveFirst(rows[q], removing)
           ShownNext(q) == IF Doomed(q, new)' THEN <<>> ELSE RemoveFirst(rows'[q], removing')
<1>14. CASE removing = Null
  <2>1. \A q \in Places : Doomed(q, above)
    BY <1>14 DEF Doomed
  <2>2. CASE root' = Null
    <3>1. removing' = Nothing /\ \A q \in Places : rows'[q] = <<>>
      BY <1>3, <1>7, <1>9, <1>14, <2>2, NoTreeNext, TreeAssumption
    <3>2. \A q \in Places : ShownNext(q) = <<>>
      BY <1>13, <3>1
    <3> QED
      BY <1>10, <2>1, <3>2 DEF Left
  <2>3. CASE root' # Null
    <3>1. removing' = Null
      BY <1>3, <1>14, <2>3
    <3>2. \A q \in Places : Doomed(q, new)'
      BY <3>1 DEF Doomed
    <3> QED
      BY <1>10, <2>1, <3>2 DEF Left
  <2> QED
    BY <2>2, <2>3
<1>15. CASE removing = n
  <2>1. removing' = Nothing /\ removing # Null
    BY <1>3, <1>11, <1>15
  <2>2. ASSUME NEW q \in Places PROVE ShownNext(q) = Shown(q)
    <3>1. CASE q = n \/ q \notin Living
      <4>1. q \notin Living'
        BY <1>3, <1>11, <3>1 DEF Living
      <4>2. Doomed(q, new)'
        BY <4>1 DEF Doomed
      <4>3. Doomed(q, above)
        BY <1>1, <1>2, <1>15, <3>1, Ancestors DEF Doomed
      <4> QED
        BY <4>2, <4>3
    <3>2. CASE q # n /\ q \in Living
      <4>1. q \in Living' /\ q # Nothing /\ (q \in alive => q \in alive')
        BY <1>3, <3>2, TreeAssumption DEF Living
      <4>2. ~Doomed(q, above)
        BY <1>12, <1>15, <2>1, <3>2, <4>1 DEF Doomed
      <4>3. ~Doomed(q, new)'
        BY <1>3, <2>1, <4>1, TreeAssumption DEF Doomed
      <4>4. RemoveFirst(rows[q], n) = rows'[q]
        <5>1. CASE q = p
          <6>1. \A i, j \in 1..Len(rows[p]) : rows[p][i] = rows[p][j] => i = j
            BY <1>1, <1>11, RowsAreDistinct DEF Grown
          <6> QED
            BY <1>11, <5>1, <6>1, FirstRemoved
        <5>2. CASE q # p
          <6>1. \A i \in 1..Len(rows[q]) : rows[q][i] # n
            BY <1>1, <1>2, <3>2, <5>2 DEF Grown, Linked
          <6> QED
            BY <1>11, <5>2, <6>1, FirstRemoved
        <5> QED
          BY <5>1, <5>2
      <4> QED
        BY <1>13, <1>15, <2>1, <4>2, <4>3, <4>4
    <3> QED
      BY <3>1, <3>2
  <2> QED
    BY <1>10, <2>2 DEF Left
<1>16. CASE removing \in alive /\ removing # n
  <2>1. removing \in alive' /\ removing' = removing /\ removing # Null
    BY <1>3, <1>16, TreeAssumption
  <2>2. removing \in above[n] /\ removing \in above[p] /\ p \in alive
    <3>1. removing \in above[n]
      BY <1>4, <1>16
    <3>2. removing \in above[p] /\ above[Null] = {}
      BY <1>1, <1>2, <1>16, <3>1, Ancestors
    <3> QED
      BY <1>11, <3>1, <3>2 DEF Living
  <2>3. ASSUME NEW q \in Places PROVE ShownNext(q) = Shown(q)
    <3>1. CASE q = n \/ q = p \/ q \notin Living
      <4>1. Doomed(q, above)
        BY <1>2, <1>16, <2>2, <3>1 DEF Doomed
      <4>2. Doomed(q, new)'
        BY <1>3, <1>11, <1>12, <2>1, <2>2, <3>1 DEF Doomed, Living
      <4> QED
        BY <4>1, <4>2
    <3>2. CASE q # n /\ q # p /\ q \in Living
      <4>1. Doomed(q, above) <=> Doomed(q, new)'
        BY <1>3, <1>12, <2>1, <3>2 DEF Doomed, Living
      <4> QED
        BY <1>11, <2>1, <3>2, <4>1
    <3> QED
      BY <3>1, <3>2
  <2> QED
    BY <1>10, <2>3 DEF Left
<1> QED
  BY <1>3, <1>14, <1>15, <1>16 DEF Living

LEMMA OthersKeep ==
  ASSUME TreeInv, UNCHANGED <<alive, links, cached, matches, rows, removing>>,
         loop' \in Loops \cup {Nothing}
  PROVE  UNCHANGED Remaining
<1>1. PICK above : Typed /\ Grown(above)
  BY DEF TreeInv
<1>2. removing' = removing /\ rows' = rows /\ alive' = alive
  OBVIOUS
<1>3. Typed' /\ Grown(above)'
  BY <1>1, <1>2, TreeKept DEF Typed
<1>4. Remaining = Left(above) /\ Remaining' = Left(above)'
  BY <1>1, <1>3, RemainingIsLeft, RemainingIsLeftNext
<1>5. Left(above)' = Left(above)
  BY <1>2 DEF Left, Doomed, Living
<1> QED
  BY <1>4, <1>5

LEMMA StepKeeps == TreeInv /\ TreeInv' /\ [Next]_vars => [Promise!TreeNext]_Remaining
<1> SUFFICES ASSUME TreeInv, TreeInv', [Next]_vars
             PROVE  Promise!TreeNext \/ UNCHANGED Remaining
  OBVIOUS
<1>1. ASSUME NEW p \in Places, NEW n \in Nodes, Appends(p, n) PROVE Promise!TreeNext
  BY <1>1, AppendsKeeps DEF Promise!TreeNext, Places
<1>2. ASSUME NEW p \in Places, Removes(p) PROVE Promise!TreeNext \/ UNCHANGED Remaining
  BY <1>2, RemovesKeeps DEF Promise!TreeNext, Places
<1>3. loop' \in Loops \cup {Nothing}
  BY DEF TreeInv, Typed
<1>4. ASSUME NEW p \in Places, StartsChildren(p) \/ StartsFind(p) PROVE UNCHANGED Remaining
  BY <1>3, <1>4, OthersKeep DEF StartsChildren, StartsFind
<1>5. CASE RemovesLeaf
  BY <1>5, RemovesLeafKeeps
<1>6. CASE Yields \/ Leaves
  BY <1>3, <1>6, OthersKeep DEF Yields, Leaves
<1>7. CASE UNCHANGED vars
  BY <1>3, <1>7, OthersKeep DEF vars
<1> QED
  BY <1>1, <1>2, <1>4, <1>5, <1>6, <1>7 DEF Next

\* However its links are cut and joined, the tree is the ordered tree that the
\* scripts expect: a node is appended after its siblings, a removal takes the
\* node and all below it at once, and the others keep their order.
THEOREM TreeKeepsPromise == Spec => KeepsPromise
<1>1. Init => Promise!TreeInit
  <2> SUFFICES ASSUME Init PROVE Promise!TreeInit
    OBVIOUS
  <2>1. PICK above : Typed /\ Grown(above)
    BY TreeInitInv DEF TreeInv
  <2>2. Remaining = rows
    BY <2>1, AllIsLeft DEF Init
  <2> QED
    BY <2>2 DEF Init, Promise!TreeInit, Places
<1>2. TreeInv /\ TreeInv' /\ [Next]_vars => [Promise!TreeNext]_Remaining
  BY StepKeeps
<1> QED
  BY <1>1, <1>2, TreeInvariant, PTL DEF Spec, KeepsPromise, Promise!TreeSpec

===============================================================================
