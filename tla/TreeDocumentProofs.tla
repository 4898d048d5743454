--------------------------- MODULE TreeDocumentProofs ---------------------------
(***************************************************************************)
(* What is proved of the card tree as a document, for any names, texts and *)
(* files and any number of calls.                                          *)
(***************************************************************************)
EXTENDS TreeDocument, SequenceTheorems, WellFoundedInduction, TLAPS

-------------------------------------------------------------------------------
(***************************************************************************)
(* The least of a set of naturals, induction over them for a set, and      *)
(* functions that are defined by what a step makes of the value before.    *)
(***************************************************************************)
LEMMA LeastOf ==
  ASSUME NEW S \in SUBSET Nat, S # {}
  PROVE  \E x \in S : \A y \in S : x <= y
<1> DEFINE R == OpToRel(<, Nat)
<1>1. IsWellFoundedOn(R, Nat)
  BY NatLessThanWellFounded
<1>2. PICK x \in S : \A y \in S : ~ (<<y, x>> \in R)
  <2> HIDE DEF R
  <2> QED
    BY <1>1, WFMin
<1>3. \A y \in S : y < x => <<y, x>> \in R
  BY DEF OpToRel
<1>4. \A y \in S : x <= y
  <2> HIDE DEF R
  <2>1. \A y \in S : ~(y < x)
    BY <1>2, <1>3
  <2> QED
    BY <2>1
<1> QED
  BY <1>4

LEMMA NatSetInduction ==
  ASSUME NEW S, 0 \in S, \A n \in Nat : n \in S => n + 1 \in S
  PROVE  \A n \in Nat : n \in S
<1> DEFINE T == {n \in Nat : n \notin S}
<1> SUFFICES ASSUME T # {} PROVE FALSE
  OBVIOUS
<1>1. PICK x \in T : \A y \in T : x <= y
  <2>1. T \in SUBSET Nat
    OBVIOUS
  <2> HIDE DEF T
  <2> QED
    BY <2>1, LeastOf
<1>2. x # 0 /\ x \in Nat /\ x - 1 \in Nat /\ x - 1 + 1 = x
  BY <1>1
<1>3. x - 1 \in T
  BY <1>2
<1> QED
  BY <1>1, <1>2, <1>3

Runs(g, n, v0, step) ==
  g[0] = v0 /\ \A k \in 1 .. n : g[k] = step[k][g[k - 1]]

LEMMA Recursion ==
  ASSUME NEW V, NEW v0 \in V, NEW n \in Nat, NEW step \in [1 .. n -> [V -> V]]
  PROVE  \E g \in [0 .. n -> V] : Runs(g, n, v0, step)
<1> DEFINE S == {m \in Nat : m <= n => \E g \in [0 .. m -> V] : Runs(g, m, v0, step)}
<1>1. 0 \in S
  <2> DEFINE g == [k \in 0 .. 0 |-> v0]
  <2>1. g \in [0 .. 0 -> V] /\ Runs(g, 0, v0, step)
    BY DEF Runs
  <2> HIDE DEF g
  <2> QED
    BY <2>1
<1>2. ASSUME NEW m \in Nat, m \in S PROVE m + 1 \in S
  <2> SUFFICES ASSUME m + 1 <= n
               PROVE  \E g \in [0 .. m + 1 -> V] : Runs(g, m + 1, v0, step)
    OBVIOUS
  <2>1. m <= n
    OBVIOUS
  <2>2. PICK g \in [0 .. m -> V] : Runs(g, m, v0, step)
    BY <1>2, <2>1
  <2> DEFINE h == [k \in 0 .. m + 1 |-> IF k <= m THEN g[k] ELSE step[m + 1][g[m]]]
  <2>3. m + 1 \in 1 .. n /\ m \in 0 .. m /\ step[m + 1] \in [V -> V] /\ g[m] \in V
    OBVIOUS
  <2>4. h \in [0 .. m + 1 -> V]
    BY <2>3
  <2>5. ASSUME NEW k \in 1 .. m + 1 PROVE h[k] = step[k][h[k - 1]]
    <3>1. k - 1 \in 0 .. m + 1 /\ k \in 0 .. m + 1 /\ k - 1 <= m
      OBVIOUS
    <3>2. h[k - 1] = g[k - 1]
      BY <3>1
    <3>3. CASE k <= m
      <4>1. k \in 1 .. m
        BY <3>3
      <4>2. g[k] = step[k][g[k - 1]]
        BY <2>2, <4>1 DEF Runs
      <4> QED
        BY <3>1, <3>2, <3>3, <4>2
    <3>4. CASE ~(k <= m)
      <4>1. k = m + 1 /\ k - 1 = m
        BY <3>4
      <4> QED
        BY <3>1, <3>2, <3>4, <4>1
    <3> QED
      BY <3>3, <3>4
  <2>6. h[0] = v0
    BY <2>2 DEF Runs
  <2> HIDE DEF h
  <2>7. Runs(h, m + 1, v0, step)
    BY <2>5, <2>6 DEF Runs
  <2> QED
    BY <2>4, <2>7
<1>3. \A m \in Nat : m \in S
  <2> HIDE DEF S
  <2> QED
    BY <1>1, <1>2, NatSetInduction
<1> QED
  BY <1>3

\* Whatever runs through the steps has the values that they give.
LEMMA RunsAre ==
  ASSUME NEW V, NEW v0 \in V, NEW n \in Nat, NEW step \in [1 .. n -> [V -> V]],
         NEW g, g[0] = v0, \A k \in 1 .. n : g[k - 1] \in V => g[k] = step[k][g[k - 1]]
  PROVE  \A k \in 0 .. n : g[k] \in V
<1> DEFINE S == {k \in Nat : k <= n => g[k] \in V}
<1>1. 0 \in S
  OBVIOUS
<1>2. ASSUME NEW k \in Nat, k \in S PROVE k + 1 \in S
  <2> SUFFICES ASSUME k + 1 <= n PROVE g[k + 1] \in V
    OBVIOUS
  <2>1. k + 1 \in 1 .. n /\ (k + 1) - 1 = k /\ g[k] \in V
    BY <1>2
  <2>2. g[k + 1] = step[k + 1][g[k]]
    BY <2>1
  <2>3. step[k + 1] \in [V -> V]
    BY <2>1
  <2> QED
    BY <2>1, <2>2, <2>3
<1>3. \A k \in Nat : k \in S
  <2> HIDE DEF S
  <2> QED
    BY <1>1, <1>2, NatSetInduction
<1> QED
  BY <1>3

LEMMA MinIs ==
  ASSUME NEW S \in SUBSET Nat, S # {}
  PROVE  Min(S) \in S /\ \A y \in S : Min(S) <= y
<1>1. \E x \in S : \A y \in S : x =< y
  BY LeastOf
<1> QED
  BY <1>1 DEF Min

\* The greatest of some numbers up to n is one of them.
LEMMA MaxIs ==
  ASSUME NEW n \in Nat, NEW S \in SUBSET (0 .. n), S # {}
  PROVE  Max(S) \in S /\ \A y \in S : Max(S) >= y
<1> DEFINE T == {n - x : x \in S}
<1>1. T \in SUBSET Nat /\ T # {}
  <2>1. \A x \in S : n - x \in Nat
    OBVIOUS
  <2>2. PICK x \in S : TRUE
    OBVIOUS
  <2>3. n - x \in T
    OBVIOUS
  <2> QED
    BY <2>1, <2>3
<1>2. PICK y \in T : \A z \in T : y <= z
  <2> HIDE DEF T
  <2> QED
    BY <1>1, LeastOf
<1>3. PICK x \in S : y = n - x
  BY <1>2
<1>4. \A z \in S : x >= z
  <2> TAKE z \in S
  <2>1. n - z \in T
    OBVIOUS
  <2>2. y <= n - z
    BY <1>2, <2>1
  <2> QED
    BY <1>3, <2>2
<1>5. \E w \in S : \A z \in S : w >= z
  BY <1>3, <1>4
<1> HIDE DEF T
<1> QED
  BY <1>5 DEF Max

-------------------------------------------------------------------------------
(***************************************************************************)
(* Columns.                                                                *)
(***************************************************************************)
\* Names in columns, each in one at most.
AreColumns(columns) == columns \in Seq(Names) /\ IsInjective(columns)

LEMMA ColumnIs ==
  ASSUME NEW t, AreColumns(t.columns), NEW name
  PROVE  /\ Column(t, name) \in 0 .. Len(t.columns)
         /\ Column(t, name) # 0 => t.columns[Column(t, name)] = name
         /\ \A i \in 1 .. Len(t.columns) : t.columns[i] = name => Column(t, name) = i
<1> DEFINE I == {i \in 1 .. Len(t.columns) : t.columns[i] = name}
<1>1. Column(t, name) = IF I # {} THEN Min(I) ELSE 0
  BY DEF Column, SelectInSeq
<1>2. I # {} => Min(I) \in I
  <2>1. I \in SUBSET Nat
    OBVIOUS
  <2> HIDE DEF I
  <2> QED
    BY <2>1, MinIs
<1>3. Len(t.columns) \in Nat
  BY DEF AreColumns
<1>4. \A i, j \in I : i = j
  BY DEF AreColumns, IsInjective
<1>5. CASE I = {}
  BY <1>1, <1>3, <1>5
<1>6. CASE I # {}
  <2>1. Column(t, name) = Min(I) /\ Min(I) \in I
    BY <1>1, <1>2, <1>6
  <2>2. \A i \in 1 .. Len(t.columns) : t.columns[i] = name => i \in I
    OBVIOUS
  <2>3. \A i \in I : i \in 1 .. Len(t.columns) /\ t.columns[i] = name
    OBVIOUS
  <2> HIDE DEF I
  <2>4. Column(t, name) \in 1 .. Len(t.columns) /\ t.columns[Column(t, name)] = name
    BY <2>1, <2>3
  <2>5. \A i \in 1 .. Len(t.columns) : t.columns[i] = name => Column(t, name) = i
    BY <2>1, <2>2, <1>4
  <2> QED
    BY <1>3, <2>4, <2>5
<1> QED
  BY <1>5, <1>6

\* Registering a name gives it a column, and leaves all others theirs.
LEMMA Registered ==
  ASSUME NEW t, NEW name \in Names, t \in Trees, AreColumns(t.columns),
         t.room \in Nat \ {0}, Len(t.columns) <= t.room
  PROVE  LET r == Register(t, name)
         IN  /\ r \in Trees /\ AreColumns(r.columns) /\ r.nodes = t.nodes
             /\ Len(r.columns) \in Nat /\ Len(t.columns) <= Len(r.columns)
             /\ r.room \in Nat /\ t.room <= r.room /\ Len(r.columns) <= r.room
             /\ Column(r, name) \in 1 .. Len(r.columns)
             /\ \A i \in 1 .. Len(t.columns) : r.columns[i] = t.columns[i]
             /\ \A x : x # name => Column(r, x) = Column(t, x)
             /\ Column(t, name) # 0 => r = t
             /\ Column(t, name) = 0 => Column(r, name) = Len(t.columns) + 1
<1> DEFINE r == Register(t, name)
           n == Len(t.columns)
<1>1. n \in Nat /\ t.columns \in Seq(Names)
  BY DEF Trees
<1>2. CASE Column(t, name) # 0
  <2>1. r = t
    BY <1>2 DEF Register
  <2>2. Column(t, name) \in 1 .. n
    BY <1>2, ColumnIs
  <2> QED
    BY <1>1, <1>2, <2>1, <2>2
<1>3. CASE Column(t, name) = 0
  <2> DEFINE more == Append(t.columns, name)
             room == IF n = t.room THEN 2 * t.room ELSE t.room
  <2>1. r = [t EXCEPT !.columns = more, !.room = room]
    BY <1>3 DEF Register
  <2>2. /\ more \in Seq(Names) /\ Len(more) = n + 1 /\ more[n + 1] = name
        /\ \A i \in 1 .. n : more[i] = t.columns[i]
    BY <1>1
  <2>3. room \in Nat /\ t.room <= room /\ n + 1 <= room
    BY <1>1
  <2> HIDE DEF more, room
  <2>4. r \in Trees /\ r.columns = more /\ r.room = room /\ r.nodes = t.nodes
    BY <2>1, <2>2, <2>3 DEF Trees
  <2>5. \A i \in 1 .. n : t.columns[i] # name
    BY <1>1, <1>3, ColumnIs
  <2>6. IsInjective(more)
    <3> SUFFICES ASSUME NEW i \in 1 .. n + 1, NEW j \in 1 .. n + 1, more[i] = more[j]
                 PROVE  i = j
      BY <2>2 DEF IsInjective
    <3>1. CASE i \in 1 .. n /\ j \in 1 .. n
      <4>1. t.columns[i] = t.columns[j]
        BY <2>2, <3>1
      <4>2. DOMAIN t.columns = 1 .. n
        BY <1>1
      <4> QED
        BY <3>1, <4>1, <4>2 DEF AreColumns, IsInjective
    <3>2. CASE i = n + 1 /\ j = n + 1
      BY <3>2
    <3>3. CASE i \in 1 .. n /\ j = n + 1
      BY <2>2, <2>5, <3>3
    <3>4. CASE i = n + 1 /\ j \in 1 .. n
      BY <2>2, <2>5, <3>4
    <3> QED
      BY <1>1, <3>1, <3>2, <3>3, <3>4
  <2>7. AreColumns(r.columns)
    BY <2>2, <2>4, <2>6 DEF AreColumns
  <2>8. Column(r, name) = n + 1
    <3>1. n + 1 \in 1 .. Len(r.columns) /\ r.columns[n + 1] = name
      BY <1>1, <2>2, <2>4
    <3> QED
      BY <2>7, <3>1, ColumnIs
  <2>9. ASSUME NEW x, x # name PROVE Column(r, x) = Column(t, x)
    <3>1. CASE Column(t, x) = 0
      <4>1. \A i \in 1 .. n : t.columns[i] # x
        BY <1>1, <3>1, ColumnIs
      <4>2. \A i \in 1 .. n + 1 : more[i] # x
        BY <1>1, <2>2, <2>9, <4>1
      <4>3. Column(r, x) \in 0 .. n + 1 /\ (Column(r, x) # 0 => more[Column(r, x)] = x)
        BY <2>2, <2>4, <2>7, ColumnIs
      <4> QED
        BY <1>1, <3>1, <4>2, <4>3
    <3>2. CASE Column(t, x) # 0
      <4> DEFINE i == Column(t, x)
      <4>1. i \in 1 .. n /\ t.columns[i] = x
        BY <1>1, <3>2, ColumnIs
      <4> HIDE DEF i
      <4>2. i \in 1 .. Len(r.columns) /\ r.columns[i] = x
        BY <1>1, <2>2, <2>4, <4>1
      <4> QED
        BY <2>7, <4>2, ColumnIs DEF i
    <3> QED
      BY <3>1, <3>2
  <2> HIDE DEF r
  <2> QED
    BY <1>1, <1>3, <2>2, <2>3, <2>4, <2>7, <2>8, <2>9 DEF r
<1> QED
  BY <1>2, <1>3

-------------------------------------------------------------------------------
(***************************************************************************)
(* Nodes.  The depths of a list of nodes in document order say which tree  *)
(* it is; the values of a node keep within the arrays.                     *)
(***************************************************************************)
AreDepths(nodes) ==
  \A n \in DOMAIN nodes : nodes[n].depth \in 1 .. IF n = 1 THEN 1 ELSE nodes[n - 1].depth + 1

AreValues(values, columns, room) ==
  /\ values \in Seq(Seq(Characters) \cup {None})
  /\ Len(values) \in {NodeSlots} \cup (Len(FirstColumns) .. room)
  /\ \A c \in DOMAIN values : values[c] # None => c <= columns /\ IsFormatted(values[c])

LEMMA TreeIs ==
  ASSUME NEW t
  PROVE  IsTree(t) <=> /\ t \in Trees /\ AreColumns(t.columns)
                       /\ Len(t.columns) \in Len(FirstColumns) .. t.room /\ NodeSlots <= t.room
                       /\ AreDepths(t.nodes)
                       /\ \A n \in DOMAIN t.nodes :
                            AreValues(t.nodes[n].values, Len(t.columns), t.room)
<1>1. t \in Trees => t.columns \in Seq(Names)
  BY DEF Trees
<1>2. ASSUME t \in Trees, NEW n \in DOMAIN t.nodes
      PROVE  t.nodes[n].values \in Seq(Seq(Characters) \cup {None})
  <2>1. t.nodes \in Seq(Nodes)
    BY <1>2 DEF Trees
  <2>2. t.nodes[n] \in Nodes
    BY <1>2, <2>1
  <2> QED
    BY <2>2 DEF Nodes
<1>3. IsTree(t) => /\ t \in Trees /\ AreColumns(t.columns)
                   /\ Len(t.columns) \in Len(FirstColumns) .. t.room /\ NodeSlots <= t.room
                   /\ AreDepths(t.nodes)
                   /\ \A n \in DOMAIN t.nodes :
                        AreValues(t.nodes[n].values, Len(t.columns), t.room)
  BY <1>1, <1>2 DEF IsTree, AreColumns, AreDepths, AreValues
<1>4. ASSUME t \in Trees, AreColumns(t.columns),
             Len(t.columns) \in Len(FirstColumns) .. t.room, NodeSlots <= t.room,
             AreDepths(t.nodes),
             \A n \in DOMAIN t.nodes : AreValues(t.nodes[n].values, Len(t.columns), t.room)
      PROVE  IsTree(t)
  BY <1>4 DEF IsTree, AreColumns, AreDepths, AreValues
<1> QED
  BY <1>3, <1>4

\* What is known of the numbers and the parts of a tree.
LEMMA TreeParts ==
  ASSUME NEW t, IsTree(t)
  PROVE  /\ t.columns \in Seq(Names) /\ t.nodes \in Seq(Nodes)
         /\ Len(t.columns) \in Nat \ {0} /\ Len(t.nodes) \in Nat
         /\ t.room \in Nat \ {0} /\ Len(t.columns) <= t.room
         /\ DOMAIN t.nodes = 1 .. Len(t.nodes)
         /\ \A n \in 1 .. Len(t.nodes) :
              /\ t.nodes[n] \in Nodes /\ t.nodes[n].depth \in Nat \ {0}
              /\ t.nodes[n].values \in Seq(Seq(Characters) \cup {None})
              /\ Len(t.nodes[n].values) \in Nat
<1>1. /\ t.columns \in Seq(Names) /\ t.nodes \in Seq(Nodes) /\ t.room \in Nat
      /\ Len(t.columns) \in Len(FirstColumns) .. t.room
  BY DEF IsTree, Trees
<1>2. Len(FirstColumns) \in Nat \ {0}
  BY DocumentAssumption
<1>3. DOMAIN t.nodes = 1 .. Len(t.nodes) /\ Len(t.nodes) \in Nat /\ Len(t.columns) \in Nat
  BY <1>1
<1>4. ASSUME NEW n \in 1 .. Len(t.nodes)
      PROVE  /\ t.nodes[n] \in Nodes /\ t.nodes[n].depth \in Nat \ {0}
             /\ t.nodes[n].values \in Seq(Seq(Characters) \cup {None})
             /\ Len(t.nodes[n].values) \in Nat
  <2>1. t.nodes[n] \in Nodes
    BY <1>1
  <2>2. t.nodes[n].depth \in Nat /\ t.nodes[n].values \in Seq(Seq(Characters) \cup {None})
    BY <2>1 DEF Nodes
  <2>3. t.nodes[n].depth >= 1
    BY <1>3, <2>2 DEF IsTree
  <2> QED
    BY <2>1, <2>2, <2>3
<1> QED
  BY <1>1, <1>2, <1>3, <1>4

\* More columns and more room are no harm to the values of a node.
LEMMA ValuesStay ==
  ASSUME NEW v, NEW c1 \in Nat, NEW c2 \in Nat, NEW r1 \in Nat, NEW r2 \in Nat,
         AreValues(v, c1, r1), c1 <= c2, r1 <= r2
  PROVE  AreValues(v, c2, r2)
<1>1. v \in Seq(Seq(Characters) \cup {None}) /\ DOMAIN v \subseteq Nat
  BY DEF AreValues
<1>2. Len(FirstColumns) \in Nat
  BY DocumentAssumption
<1>3. Len(v) \in {NodeSlots} \cup (Len(FirstColumns) .. r2)
  BY <1>2 DEF AreValues
<1>4. \A c \in DOMAIN v : v[c] # None => c <= c2 /\ IsFormatted(v[c])
  BY <1>1 DEF AreValues
<1> QED
  BY <1>1, <1>3, <1>4 DEF AreValues

LEMMA RegisterTree ==
  ASSUME NEW t, IsTree(t), NEW name \in Names
  PROVE  /\ IsTree(Register(t, name)) /\ Register(t, name).nodes = t.nodes
         /\ Column(Register(t, name), name) \in 1 .. Len(Register(t, name).columns)
<1> DEFINE r == Register(t, name)
<1>1. /\ t.nodes \in Seq(Nodes) /\ Len(t.columns) \in Nat \ {0} /\ t.room \in Nat \ {0}
      /\ Len(t.columns) <= t.room
  BY TreeParts
<1>2. t \in Trees /\ AreColumns(t.columns)
  BY TreeIs
<1>3. /\ r \in Trees /\ AreColumns(r.columns) /\ r.nodes = t.nodes
      /\ Len(r.columns) \in Nat /\ Len(t.columns) <= Len(r.columns)
      /\ r.room \in Nat /\ t.room <= r.room /\ Len(r.columns) <= r.room
      /\ Column(r, name) \in 1 .. Len(r.columns)
  BY <1>1, <1>2, Registered
<1> HIDE DEF r
<1>4. AreDepths(r.nodes)
  BY <1>3, TreeIs
<1>5. ASSUME NEW n \in DOMAIN r.nodes PROVE AreValues(r.nodes[n].values, Len(r.columns), r.room)
  <2>1. AreValues(t.nodes[n].values, Len(t.columns), t.room)
    BY <1>3, <1>5, TreeIs
  <2> QED
    BY <1>1, <1>3, <2>1, ValuesStay
<1>6. Len(r.columns) \in Len(FirstColumns) .. r.room /\ NodeSlots <= r.room
  <2>1. Len(t.columns) \in Len(FirstColumns) .. t.room /\ NodeSlots <= t.room
    BY TreeIs
  <2>2. Len(FirstColumns) \in Nat /\ NodeSlots \in Nat
    BY DocumentAssumption
  <2> QED
    BY <1>1, <1>3, <2>1, <2>2
<1>7. IsTree(r)
  BY <1>3, <1>4, <1>5, <1>6, TreeIs
<1> QED
  BY <1>3, <1>7 DEF r

LEMMA LastBeforeIs ==
  ASSUME NEW t, Len(t.nodes) \in Nat, NEW p \in 0 .. Len(t.nodes),
         NEW S \in SUBSET (p + 1 .. Len(t.nodes))
  PROVE  /\ LastBefore(t, S) \in p .. Len(t.nodes)
         /\ \A n \in p + 1 .. LastBefore(t, S) : n \notin S
         /\ LastBefore(t, S) < Len(t.nodes) => LastBefore(t, S) + 1 \in S
<1>1. CASE S = {}
  <2>1. LastBefore(t, S) = Len(t.nodes)
    BY <1>1 DEF LastBefore
  <2> QED
    BY <1>1, <2>1
<1>2. CASE S # {}
  <2>1. S \in SUBSET Nat
    OBVIOUS
  <2>2. Min(S) \in S /\ \A y \in S : Min(S) <= y
    BY <1>2, <2>1, MinIs
  <2>3. LastBefore(t, S) = Min(S) - 1
    BY <1>2 DEF LastBefore
  <2>4. Min(S) \in p + 1 .. Len(t.nodes)
    BY <2>2
  <2>5. ASSUME NEW n \in p + 1 .. Min(S) - 1 PROVE n \notin S
    BY <2>2, <2>4
  <2> QED
    BY <2>2, <2>3, <2>4, <2>5
<1> QED
  BY <1>1, <1>2

\* What is below p ends before the first node that is not deeper than p.
LEMMA EndOfIs ==
  ASSUME NEW t, IsTree(t), NEW p \in 0 .. Len(t.nodes)
  PROVE  /\ EndOf(t, p) \in p .. Len(t.nodes)
         /\ \A n \in p + 1 .. EndOf(t, p) : p = 0 \/ t.nodes[n].depth > t.nodes[p].depth
         /\ EndOf(t, p) < Len(t.nodes) =>
              p # 0 /\ t.nodes[EndOf(t, p) + 1].depth <= t.nodes[p].depth
<1> DEFINE S == {n \in p + 1 .. Len(t.nodes) : p # 0 /\ t.nodes[n].depth <= t.nodes[p].depth}
<1>1. /\ Len(t.nodes) \in Nat
      /\ \A n \in 1 .. Len(t.nodes) : t.nodes[n].depth \in Nat
  BY TreeParts
<1>2. S \in SUBSET (p + 1 .. Len(t.nodes))
  OBVIOUS
<1>3. EndOf(t, p) = LastBefore(t, S)
  BY DEF EndOf
<1>4. /\ LastBefore(t, S) \in p .. Len(t.nodes)
      /\ \A n \in p + 1 .. LastBefore(t, S) : n \notin S
      /\ LastBefore(t, S) < Len(t.nodes) => LastBefore(t, S) + 1 \in S
  <2> HIDE DEF S
  <2> QED
    BY <1>1, <1>2, LastBeforeIs
<1>5. ASSUME NEW n \in p + 1 .. EndOf(t, p) PROVE p = 0 \/ t.nodes[n].depth > t.nodes[p].depth
  <2>1. n \notin S /\ n \in p + 1 .. Len(t.nodes) /\ n \in 1 .. Len(t.nodes)
    BY <1>1, <1>3, <1>4
  <2>2. p = 0 \/ ~(t.nodes[n].depth <= t.nodes[p].depth)
    BY <2>1
  <2> QED
    BY <1>1, <2>1, <2>2
<1>6. EndOf(t, p) < Len(t.nodes) => p # 0 /\ t.nodes[EndOf(t, p) + 1].depth <= t.nodes[p].depth
  BY <1>3, <1>4
<1> QED
  BY <1>3, <1>4, <1>5, <1>6

LEMMA LastFromIs ==
  ASSUME NEW t, IsTree(t), NEW n \in 1 .. Len(t.nodes)
  PROVE  LastFrom(t, n) \in n .. Len(t.nodes)
<1> DEFINE S == {m \in n + 1 .. Len(t.nodes) : t.nodes[m].depth < t.nodes[n].depth}
<1>1. S \in SUBSET (n + 1 .. Len(t.nodes)) /\ LastFrom(t, n) = LastBefore(t, S)
  BY DEF LastFrom
<1>2. Len(t.nodes) \in Nat /\ n \in 0 .. Len(t.nodes)
  BY TreeParts
<1> HIDE DEF S
<1> QED
  BY <1>1, <1>2, LastBeforeIs

-------------------------------------------------------------------------------
\* A new node has no values.
LEMMA NewNodeIs ==
  ASSUME NEW depth \in Nat, NEW columns \in Nat, NEW room \in Nat, NodeSlots <= room
  PROVE  NewNode(depth) \in Nodes /\ NewNode(depth).depth = depth
         /\ AreValues(NewNode(depth).values, columns, room)
<1> DEFINE v == [c \in 1 .. NodeSlots |-> None]
<1>1. NodeSlots \in Nat
  BY DocumentAssumption
<1>2. v \in Seq(Seq(Characters) \cup {None}) /\ Len(v) = NodeSlots /\ \A c \in DOMAIN v : v[c] = None
  BY <1>1
<1> HIDE DEF v
<1>3. NewNode(depth) = [depth |-> depth, values |-> v]
  BY DEF NewNode, v
<1>4. AreValues(v, columns, room)
  BY <1>2 DEF AreValues
<1> QED
  BY <1>2, <1>3, <1>4 DEF Nodes

\* r has the elements of s, and e at the position i.
Insertion(r, S, s, i, e) ==
  /\ r \in Seq(S) /\ Len(r) = Len(s) + 1
  /\ \A k \in 1 .. Len(s) + 1 : r[k] = IF k < i THEN s[k] ELSE IF k = i THEN e ELSE s[k - 1]

\* An inserted node moves those behind it by one.
LEMMA Inserted ==
  ASSUME NEW S, NEW s \in Seq(S), NEW i \in 1 .. Len(s) + 1, NEW e \in S
  PROVE  Insertion(InsertAt(s, i, e), S, s, i, e)
<1> DEFINE a == SubSeq(s, 1, i - 1)
           b == SubSeq(s, i, Len(s))
           ae == a \o <<e>>
<1>1. Len(s) \in Nat /\ i - 1 \in 0 .. Len(s)
  OBVIOUS
<1>2. a \in Seq(S) /\ Len(a) = i - 1 /\ \A k \in 1 .. i - 1 : a[k] = s[k]
  BY <1>1
<1>3. /\ b \in Seq(S) /\ Len(b) = Len(s) - i + 1
      /\ \A k \in 1 .. Len(s) - i + 1 : b[k] = s[i + k - 1]
  BY <1>1
<1> HIDE DEF a, b
<1>4. /\ ae \in Seq(S) /\ Len(ae) = i
      /\ \A k \in 1 .. i : ae[k] = IF k < i THEN a[k] ELSE e
  BY <1>1, <1>2
<1> HIDE DEF ae
<1>5. InsertAt(s, i, e) = ae \o b
  BY DEF InsertAt, ae, a, b
<1>6. /\ ae \o b \in Seq(S) /\ Len(ae \o b) = Len(s) + 1
      /\ \A k \in 1 .. Len(s) + 1 : (ae \o b)[k] = IF k <= i THEN ae[k] ELSE b[k - i]
  BY <1>1, <1>3, <1>4
<1>7. ASSUME NEW k \in 1 .. Len(s) + 1
      PROVE  (ae \o b)[k] = IF k < i THEN s[k] ELSE IF k = i THEN e ELSE s[k - 1]
  <2>1. CASE k <= i
    BY <1>1, <1>2, <1>4, <1>6, <2>1
  <2>2. CASE k > i
    <3>1. k - i \in 1 .. Len(s) - i + 1 /\ i + (k - i) - 1 = k - 1
      BY <1>1, <2>2
    <3>2. b[k - i] = s[k - 1]
      BY <1>3, <3>1
    <3> QED
      BY <1>1, <1>6, <2>2, <3>2
  <2>3. k \in Int /\ i \in Int
    BY <1>1
  <2>4. k <= i \/ k > i
    BY <2>3
  <2> QED
    BY <2>1, <2>2, <2>4
<1> QED
  BY <1>5, <1>6, <1>7 DEF Insertion

\* A node appended below p comes behind all that is below p, and the list is
\* still that of a tree.
LEMMA AppendNodeTree ==
  ASSUME NEW t, IsTree(t), NEW p \in 0 .. Len(t.nodes)
  PROVE  LET a == AppendNode(t, p)
             at == EndOf(t, p) + 1
         IN  /\ IsTree(a) /\ a.columns = t.columns /\ a.room = t.room
             /\ Len(a.nodes) = Len(t.nodes) + 1 /\ at \in 1 .. Len(a.nodes)
             /\ a.nodes[at] = NewNode(DepthOf(t, p) + 1)
             /\ \A k \in 1 .. Len(a.nodes) :
                  k # at => a.nodes[k] = t.nodes[IF k < at THEN k ELSE k - 1]
<1> DEFINE e == EndOf(t, p)
           d == DepthOf(t, p) + 1
           new == NewNode(d)
           nodes == InsertAt(t.nodes, e + 1, new)
           a == AppendNode(t, p)
<1>1. /\ t.nodes \in Seq(Nodes) /\ Len(t.nodes) \in Nat /\ t.room \in Nat
      /\ Len(t.columns) \in Nat /\ DOMAIN t.nodes = 1 .. Len(t.nodes)
      /\ \A n \in 1 .. Len(t.nodes) : t.nodes[n].depth \in Nat \ {0}
  BY TreeParts
<1>2. /\ t \in Trees /\ AreColumns(t.columns) /\ AreDepths(t.nodes)
      /\ Len(t.columns) \in Len(FirstColumns) .. t.room /\ NodeSlots <= t.room
      /\ \A n \in DOMAIN t.nodes : AreValues(t.nodes[n].values, Len(t.columns), t.room)
  BY TreeIs
<1>3. /\ e \in p .. Len(t.nodes)
      /\ \A n \in p + 1 .. e : p = 0 \/ t.nodes[n].depth > t.nodes[p].depth
      /\ e < Len(t.nodes) => p # 0 /\ t.nodes[e + 1].depth <= t.nodes[p].depth
  BY EndOfIs
<1> HIDE DEF e
<1>4. d \in Nat \ {0} /\ (p = 0 => d = 1) /\ (p # 0 => d = t.nodes[p].depth + 1)
  <2>1. p # 0 => p \in 1 .. Len(t.nodes)
    BY <1>1
  <2> QED
    BY <1>1, <2>1 DEF DepthOf
<1> HIDE DEF d
<1>5. new \in Nodes /\ new.depth = d /\ AreValues(new.values, Len(t.columns), t.room)
  BY <1>1, <1>2, <1>4, NewNodeIs
<1> HIDE DEF new
<1>6. /\ nodes \in Seq(Nodes) /\ Len(nodes) = Len(t.nodes) + 1
      /\ \A k \in 1 .. Len(t.nodes) + 1 :
           nodes[k] = IF k < e + 1 THEN t.nodes[k] ELSE IF k = e + 1 THEN new ELSE t.nodes[k - 1]
  <2>1. e + 1 \in 1 .. Len(t.nodes) + 1
    BY <1>1, <1>3
  <2> DEFINE i == e + 1
             old == t.nodes
  <2>2. old \in Seq(Nodes) /\ new \in Nodes /\ i \in 1 .. Len(old) + 1
    BY <1>1, <1>5, <2>1
  <2>3. nodes = InsertAt(old, i, new)
    OBVIOUS
  <2> HIDE DEF i, old, nodes
  <2>4. Insertion(nodes, Nodes, old, i, new)
    BY <2>2, <2>3, Inserted
  <2> QED
    BY <2>4 DEF Insertion, i, old
<1> HIDE DEF nodes
<1>7. a = [t EXCEPT !.nodes = nodes]
  BY DEF AppendNode, nodes, new, d, e
<1>8. a \in Trees /\ a.columns = t.columns /\ a.room = t.room /\ a.nodes = nodes
  BY <1>2, <1>6, <1>7 DEF Trees
<1> HIDE DEF a
<1>9. /\ e + 1 \in 1 .. Len(nodes) /\ nodes[e + 1] = new /\ DOMAIN nodes = 1 .. Len(nodes)
      /\ \A k \in 1 .. e : nodes[k] = t.nodes[k] /\ k \in 1 .. Len(t.nodes)
      /\ \A k \in e + 2 .. Len(nodes) : nodes[k] = t.nodes[k - 1] /\ k - 1 \in 1 .. Len(t.nodes)
  <2>1. e \in Nat /\ e <= Len(t.nodes) /\ Len(t.nodes) \in Nat /\ Len(nodes) = Len(t.nodes) + 1
    BY <1>1, <1>3, <1>6
  <2>2. e + 1 \in 1 .. Len(nodes) /\ nodes[e + 1] = new /\ DOMAIN nodes = 1 .. Len(nodes)
    BY <1>6, <2>1
  <2>3. ASSUME NEW k \in 1 .. e PROVE nodes[k] = t.nodes[k] /\ k \in 1 .. Len(t.nodes)
    <3>1. k \in 1 .. Len(t.nodes) + 1 /\ k < e + 1 /\ k \in 1 .. Len(t.nodes)
      BY <2>1
    <3> QED
      BY <1>6, <3>1
  <2>4. ASSUME NEW k \in e + 2 .. Len(nodes)
        PROVE  nodes[k] = t.nodes[k - 1] /\ k - 1 \in 1 .. Len(t.nodes)
    <3>1. /\ k \in 1 .. Len(t.nodes) + 1 /\ ~(k < e + 1) /\ k # e + 1
          /\ k - 1 \in 1 .. Len(t.nodes)
      BY <2>1
    <3> QED
      BY <1>6, <3>1
  <2> QED
    BY <2>2, <2>3, <2>4
<1>10. ASSUME NEW k \in 1 .. Len(nodes)
       PROVE  nodes[k].depth \in 1 .. IF k = 1 THEN 1 ELSE nodes[k - 1].depth + 1
  <2>1. e \in Nat /\ p \in Nat /\ p <= e /\ k \in Nat
    BY <1>1, <1>3
  <2>2. CASE k <= e
    <3>1. k \in 1 .. e /\ nodes[k] = t.nodes[k] /\ k \in DOMAIN t.nodes
      BY <1>1, <1>9, <2>1, <2>2
    <3>2. k # 1 => k - 1 \in 1 .. e /\ nodes[k - 1] = t.nodes[k - 1]
      BY <1>9, <2>1, <2>2
    <3> QED
      BY <1>2, <3>1, <3>2 DEF AreDepths
  <2>3. CASE k = e + 1
    <3>1. nodes[k].depth = d
      BY <1>5, <1>9, <2>3
    <3>2. CASE k = 1
      BY <1>4, <2>1, <2>3, <3>1, <3>2
    <3>3. CASE k # 1
      <4>1. k - 1 = e /\ e \in 1 .. e /\ nodes[k - 1] = t.nodes[e] /\ e \in 1 .. Len(t.nodes)
        BY <1>9, <2>1, <2>3, <3>3
      <4>2. t.nodes[e].depth \in Nat \ {0}
        BY <1>1, <4>1
      <4>3. CASE p = 0
        BY <1>4, <3>1, <3>3, <4>1, <4>2, <4>3
      <4>4. CASE p # 0
        <5>1. t.nodes[p].depth \in Nat /\ d = t.nodes[p].depth + 1
          BY <1>1, <1>4, <2>1, <4>4
        <5>2. t.nodes[e].depth >= t.nodes[p].depth
          <6>1. CASE e = p
            BY <5>1, <6>1
          <6>2. CASE e # p
            <7>1. e \in p + 1 .. e
              BY <2>1, <6>2
            <7> QED
              BY <1>3, <4>2, <4>4, <5>1, <7>1
          <6> QED
            BY <6>1, <6>2
        <5> QED
          BY <3>1, <3>3, <4>1, <4>2, <5>1, <5>2
      <4> QED
        BY <4>3, <4>4
    <3> QED
      BY <3>2, <3>3
  <2>4. CASE k = e + 2
    <3>1. /\ nodes[k] = t.nodes[e + 1] /\ e + 1 \in 1 .. Len(t.nodes)
          /\ nodes[k - 1].depth = d /\ k # 1
      BY <1>5, <1>9, <2>1, <2>4
    <3>2. t.nodes[e + 1].depth \in Nat \ {0} /\ p # 0 /\ t.nodes[e + 1].depth <= t.nodes[p].depth
      BY <1>1, <1>3, <2>1, <3>1
    <3>3. t.nodes[p].depth \in Nat /\ d = t.nodes[p].depth + 1
      BY <1>1, <1>3, <1>4, <2>1, <3>2
    <3> QED
      BY <3>1, <3>2, <3>3
  <2>5. CASE k > e + 2
    <3>1. k \in e + 2 .. Len(nodes) /\ k - 1 \in e + 2 .. Len(nodes) /\ k - 1 # 1 /\ k # 1
      BY <1>1, <1>6, <2>1, <2>5
    <3>2. /\ nodes[k] = t.nodes[k - 1] /\ nodes[k - 1] = t.nodes[k - 1 - 1]
          /\ k - 1 \in DOMAIN t.nodes
      BY <1>1, <1>9, <3>1
    <3> QED
      BY <1>2, <3>1, <3>2 DEF AreDepths
  <2>6. k <= e \/ k = e + 1 \/ k = e + 2 \/ k > e + 2
    BY <2>1
  <2> QED
    BY <2>2, <2>3, <2>4, <2>5, <2>6
<1>11. AreDepths(nodes)
  BY <1>9, <1>10 DEF AreDepths
<1>12. ASSUME NEW k \in 1 .. Len(nodes) PROVE AreValues(nodes[k].values, Len(t.columns), t.room)
  <2>1. k <= e \/ k = e + 1 \/ k >= e + 2
    BY <1>3
  <2>2. k \in 1 .. e \/ k = e + 1 \/ k \in e + 2 .. Len(nodes)
    BY <1>1, <1>3, <1>6, <2>1
  <2> QED
    BY <1>1, <1>2, <1>5, <1>9, <2>2
<1>13. IsTree(a)
  BY <1>2, <1>8, <1>9, <1>11, <1>12, TreeIs
<1>14. ASSUME NEW k \in 1 .. Len(nodes), k # e + 1
       PROVE  nodes[k] = t.nodes[IF k < e + 1 THEN k ELSE k - 1]
  BY <1>1, <1>3, <1>6, <1>14
<1> QED
  BY <1>6, <1>8, <1>9, <1>13, <1>14 DEF a, new, d, e

\* The columns of a node after one was set are as many as there were, or as there
\* is room for; what is read from the node is read from the columns.
LEMMA SetValueTree ==
  ASSUME NEW t, IsTree(t), NEW n \in 1 .. Len(t.nodes), NEW column \in 1 .. Len(t.columns),
         NEW value \in Seq(Characters) \cup {None}, value # None => IsFormatted(value)
  PROVE  LET s == SetValue(t, n, column, value)
         IN  /\ IsTree(s) /\ s.columns = t.columns /\ Len(s.nodes) = Len(t.nodes)
             /\ \A m \in 1 .. Len(t.nodes) : s.nodes[m].depth = t.nodes[m].depth
             /\ \A m \in 1 .. Len(t.nodes), c \in 1 .. Len(t.columns) :
                  ValueAt(s, m, c) = IF m = n /\ c = column THEN value ELSE ValueAt(t, m, c)
<1> DEFINE s == SetValue(t, n, column, value)
           old == t.nodes[n].values
           room == IF column > Len(old) THEN t.room ELSE Len(old)
           v == [c \in 1 .. room |-> IF c = column THEN value ELSE IF c <= Len(old) THEN old[c] ELSE None]
           node == [t.nodes[n] EXCEPT !.values = v]
           nodes == [t.nodes EXCEPT ![n] = node]
<1>1. /\ t.nodes \in Seq(Nodes) /\ Len(t.nodes) \in Nat /\ t.room \in Nat
      /\ Len(t.columns) \in Nat \ {0} /\ DOMAIN t.nodes = 1 .. Len(t.nodes)
      /\ Len(t.columns) <= t.room
      /\ t.nodes[n] \in Nodes /\ old \in Seq(Seq(Characters) \cup {None}) /\ Len(old) \in Nat
  BY TreeParts
<1>2. /\ t \in Trees /\ AreColumns(t.columns) /\ AreDepths(t.nodes)
      /\ Len(t.columns) \in Len(FirstColumns) .. t.room /\ NodeSlots <= t.room
      /\ \A m \in DOMAIN t.nodes : AreValues(t.nodes[m].values, Len(t.columns), t.room)
  BY TreeIs
<1>3. AreValues(old, Len(t.columns), t.room)
  BY <1>1, <1>2
<1>4. /\ \A c \in 1 .. Len(old) : old[c] \in Seq(Characters) \cup {None}
      /\ \A c \in 1 .. Len(old) : old[c] # None => c <= Len(t.columns) /\ IsFormatted(old[c])
      /\ Len(old) \in {NodeSlots} \cup (Len(FirstColumns) .. t.room)
  BY <1>1, <1>3 DEF AreValues
<1>5. room \in Nat /\ room \in {NodeSlots} \cup (Len(FirstColumns) .. t.room) /\ column <= room
      /\ Len(old) <= room
  <2>1. Len(FirstColumns) \in Nat /\ NodeSlots \in Nat
    BY DocumentAssumption
  <2>2. t.room \in Len(FirstColumns) .. t.room
    BY <1>1, <1>2, <2>1
  <2>3. Len(old) <= t.room
    BY <1>1, <1>2, <1>4, <2>1
  <2> HIDE DEF old
  <2> QED
    BY <1>1, <1>4, <2>1, <2>2, <2>3
<1>6. SetValue(t, n, column, value) = [t EXCEPT !.nodes[n].values = v]
  BY DEF SetValue
<1> HIDE DEF room, old
<1>7. \A c \in 1 .. room :
         /\ v[c] = IF c = column THEN value ELSE IF c <= Len(old) THEN old[c] ELSE None
         /\ v[c] \in Seq(Characters) \cup {None}
         /\ v[c] # None => c <= Len(t.columns) /\ IsFormatted(v[c])
  <2> SUFFICES ASSUME NEW c \in 1 .. room
               PROVE  /\ v[c] \in Seq(Characters) \cup {None}
                      /\ v[c] # None => c <= Len(t.columns) /\ IsFormatted(v[c])
    OBVIOUS
  <2>1. CASE c = column
    BY <2>1
  <2>2. CASE c # column /\ c <= Len(old)
    <3>1. v[c] = old[c] /\ c \in 1 .. Len(old)
      BY <1>1, <1>5, <2>2
    <3> QED
      BY <1>4, <3>1
  <2>3. CASE c # column /\ ~(c <= Len(old))
    BY <2>3
  <2> QED
    BY <2>1, <2>2, <2>3
<1>8. v \in Seq(Seq(Characters) \cup {None}) /\ Len(v) = room /\ DOMAIN v = 1 .. room
  BY <1>5, <1>7
<1> HIDE DEF v
<1>9. node \in Nodes /\ node.depth = t.nodes[n].depth /\ node.values = v
  BY <1>1, <1>8 DEF Nodes
<1>10. s = [t EXCEPT !.nodes = nodes]
  BY <1>1, <1>2, <1>6 DEF Trees
<1> HIDE DEF node
<1>11. /\ nodes \in Seq(Nodes) /\ Len(nodes) = Len(t.nodes) /\ DOMAIN nodes = 1 .. Len(t.nodes)
       /\ \A m \in 1 .. Len(t.nodes) : nodes[m] = IF m = n THEN node ELSE t.nodes[m]
  BY <1>1, <1>9
<1> HIDE DEF nodes
<1>12. s \in Trees /\ s.columns = t.columns /\ s.room = t.room /\ s.nodes = nodes
  BY <1>2, <1>10, <1>11 DEF Trees
<1> HIDE DEF s
<1>13. \A m \in 1 .. Len(t.nodes) : nodes[m].depth = t.nodes[m].depth
  BY <1>9, <1>11
<1>14. AreDepths(nodes)
  <2> SUFFICES ASSUME NEW m \in 1 .. Len(t.nodes)
               PROVE  nodes[m].depth \in 1 .. IF m = 1 THEN 1 ELSE nodes[m - 1].depth + 1
    BY <1>11 DEF AreDepths
  <2>1. t.nodes[m].depth \in 1 .. IF m = 1 THEN 1 ELSE t.nodes[m - 1].depth + 1
    BY <1>1, <1>2 DEF AreDepths
  <2>2. m # 1 => m - 1 \in 1 .. Len(t.nodes)
    BY <1>1
  <2> QED
    BY <1>13, <2>1, <2>2
<1>15. AreValues(v, Len(t.columns), t.room)
  BY <1>5, <1>7, <1>8 DEF AreValues
<1>16. ASSUME NEW m \in 1 .. Len(t.nodes) PROVE AreValues(nodes[m].values, Len(t.columns), t.room)
  BY <1>1, <1>2, <1>9, <1>11, <1>15
<1>17. IsTree(s)
  BY <1>2, <1>11, <1>12, <1>14, <1>16, TreeIs
<1>18. ASSUME NEW m \in 1 .. Len(t.nodes), NEW c \in 1 .. Len(t.columns)
       PROVE  ValueAt(s, m, c) = IF m = n /\ c = column THEN value ELSE ValueAt(t, m, c)
  <2>1. CASE m # n
    BY <1>11, <1>12, <2>1 DEF ValueAt
  <2>2. CASE m = n
    <3>1. ValueAt(s, m, c) = IF c <= room THEN v[c] ELSE None
      BY <1>8, <1>9, <1>11, <1>12, <2>2 DEF ValueAt
    <3>2. ValueAt(t, m, c) = IF c <= Len(old) THEN old[c] ELSE None
      BY <2>2 DEF ValueAt, old
    <3>3. CASE c <= room
      <4>1. c \in 1 .. room
        BY <1>5, <3>3
      <4>2. v[c] = IF c = column THEN value ELSE IF c <= Len(old) THEN old[c] ELSE None
        BY <1>7, <4>1
      <4> QED
        BY <2>2, <3>1, <3>2, <3>3, <4>2
    <3>4. CASE ~(c <= room)
      <4>1. c # column /\ ~(c <= Len(old))
        BY <1>1, <1>5, <3>4
      <4> QED
        BY <2>2, <3>1, <3>2, <3>4, <4>1
    <3> QED
      BY <3>3, <3>4
  <2> QED
    BY <2>1, <2>2
<1> QED
  BY <1>11, <1>12, <1>13, <1>17, <1>18 DEF s

\* Sequences are put together one after the other.
LEMMA FlattenRun ==
  ASSUME NEW A, NEW seqs \in Seq(Seq(A)), Len(seqs) # 0
  PROVE  \E g : /\ FlattenSeq(seqs) = g[Len(seqs)]
                /\ \A k \in 0 .. Len(seqs) : g[k] \in Seq(A)
                /\ g[0] = <<>>
                /\ \A k \in 1 .. Len(seqs) : g[k] = g[k - 1] \o seqs[k]
<1> DEFINE V == Seq(A)
           n == Len(seqs)
           Body(f) == [i \in 1 .. n |-> IF i = 1 THEN seqs[i] ELSE f[i - 1] \o seqs[i]]
           step == [k \in 1 .. n |-> [d \in V |-> d \o seqs[k]]]
           flatten == CHOOSE f : f = Body(f)
           g == [k \in 0 .. n |-> IF k = 0 THEN <<>> ELSE flatten[k]]
<1>1. n \in Nat \ {0} /\ n \in 1 .. n /\ <<>> \in V /\ \A k \in 1 .. n : seqs[k] \in V
  OBVIOUS
<1>2. \A a, d \in V : a \o d \in V /\ <<>> \o d = d
  OBVIOUS
<1> HIDE DEF V
<1>3. step \in [1 .. n -> [V -> V]]
  BY <1>1, <1>2
<1>4. FlattenSeq(seqs) = flatten[n]
  BY <1>1 DEF FlattenSeq
<1> HIDE DEF n
<1>5. \E f : f = Body(f)
  <2>1. PICK h \in [0 .. n -> V] : Runs(h, n, <<>>, step)
    <3> HIDE DEF step
    <3> QED
      BY <1>1, <1>3, Recursion
  <2> DEFINE f == [i \in 1 .. n |-> h[i]]
  <2>2. ASSUME NEW k \in 1 .. n
        PROVE  h[k] = h[k - 1] \o seqs[k] /\ h[k - 1] \in V
    <3>1. k - 1 \in 0 .. n
      BY <1>1
    <3>2. h[k] = step[k][h[k - 1]] /\ h[k - 1] \in V
      BY <2>1, <3>1 DEF Runs
    <3> QED
      BY <3>2
  <2>3. \A k \in 1 .. n : f[k] = Body(f)[k]
    <3> TAKE k \in 1 .. n
    <3>1. CASE k = 1
      <4>1. h[k - 1] = <<>>
        BY <2>1, <3>1 DEF Runs
      <4>2. h[k] = seqs[k]
        BY <1>1, <1>2, <2>2, <4>1
      <4> QED
        BY <3>1, <4>2
    <3>2. CASE k # 1
      <4>1. k - 1 \in 1 .. n
        BY <1>1, <3>2
      <4> QED
        BY <2>2, <3>2, <4>1
    <3> QED
      BY <3>1, <3>2
  <2>4. f = [k \in 1 .. n |-> f[k]] /\ Body(f) = [k \in 1 .. n |-> Body(f)[k]]
    OBVIOUS
  <2>5. f = Body(f)
    <3> HIDE DEF Body, f
    <3> QED
      BY <2>3, <2>4
  <2> QED
    BY <2>5
<1>6. flatten = Body(flatten)
  <2> HIDE DEF Body
  <2> QED
    BY <1>5, Zenon
<1> HIDE DEF flatten
<1>7. \A k \in 1 .. n : flatten[k] = IF k = 1 THEN seqs[k] ELSE flatten[k - 1] \o seqs[k]
  BY <1>6
<1>8. g[0] = <<>> /\ \A k \in 1 .. n : g[k] = flatten[k]
  <2>1. 0 \in 0 .. n /\ \A k \in 1 .. n : k \in 0 .. n /\ k # 0
    BY <1>1
  <2> QED
    BY <2>1
<1> HIDE DEF g
<1>9. ASSUME NEW k \in 1 .. n PROVE g[k] = g[k - 1] \o seqs[k]
  <2>1. CASE k = 1
    <3>1. g[k - 1] = <<>> /\ g[k] = seqs[k]
      BY <1>7, <1>8, <2>1
    <3> QED
      BY <1>1, <1>2, <3>1
  <2>2. CASE k # 1
    <3>1. k - 1 \in 1 .. n
      BY <1>1, <2>2
    <3> QED
      BY <1>7, <1>8, <2>2, <3>1
  <2> QED
    BY <2>1, <2>2
<1>10. \A k \in 0 .. n : g[k] \in V
  <2>1. g[0] = <<>> /\ \A k \in 1 .. n : g[k - 1] \in V => g[k] = step[k][g[k - 1]]
    BY <1>8, <1>9
  <2> HIDE DEF step
  <2> QED
    BY <1>1, <1>3, <2>1, RunsAre
<1>11. FlattenSeq(seqs) = g[n]
  BY <1>1, <1>4, <1>8
<1>12. \A k \in 1 .. n : g[k] = g[k - 1] \o seqs[k]
  BY <1>9
<1>13. g[0] = <<>>
  BY <1>8
<1> QED
  BY <1>10, <1>11, <1>12, <1>13, Zenon DEF V, n


LEMMA FlattenTyped ==
  ASSUME NEW A, NEW seqs \in Seq(Seq(A))
  PROVE  FlattenSeq(seqs) \in Seq(A)
<1>1. CASE Len(seqs) = 0
  <2>1. FlattenSeq(seqs) = seqs /\ seqs = <<>>
    BY <1>1 DEF FlattenSeq
  <2> QED
    BY <2>1
<1>2. CASE Len(seqs) # 0
  <2>1. PICK g : FlattenSeq(seqs) = g[Len(seqs)] /\ \A k \in 0 .. Len(seqs) : g[k] \in Seq(A)
    <3>1. \E g : /\ FlattenSeq(seqs) = g[Len(seqs)]
                 /\ \A k \in 0 .. Len(seqs) : g[k] \in Seq(A)
                 /\ g[0] = <<>>
                 /\ \A k \in 1 .. Len(seqs) : g[k] = g[k - 1] \o seqs[k]
      BY <1>2, FlattenRun
    <3> QED
      BY <3>1, Zenon
  <2>2. Len(seqs) \in 0 .. Len(seqs)
    OBVIOUS
  <2> QED
    BY <2>1, <2>2
<1> QED
  BY <1>1, <1>2

-------------------------------------------------------------------------------
(***************************************************************************)
(* What is written are events.                                             *)
(***************************************************************************)
LEMMA TextEvents ==
  ASSUME NEW s \in Seq(Characters)
  PROVE  Text(s) \in Events
BY DEF Text, Events

LEMMA AttrEventsAre ==
  ASSUME NEW name \in Names, NEW value \in Seq(Characters) \cup {None},
         value # None => IsFormatted(value)
  PROVE  AttrEvents(name, value) \in Seq(Events)
<1> DEFINE bytes == value[1] \in {"8", "4", "2"}
           element == [on |-> "open", name |-> "attr", column |-> name, bytes |-> bytes]
           s == IF bytes THEN value ELSE SubSeq(value, 3, Len(value))
           f == Text(s)
<1>1. CASE value = None \/ name \in Hidden
  BY <1>1 DEF AttrEvents
<1>2. CASE ~(value = None \/ name \in Hidden) /\ name \in Quoted
  <2>1. Malformed \in Events
    BY DEF Events
  <2>2. AttrEvents(name, value) = <<Malformed>>
    BY <1>2 DEF AttrEvents
  <2> QED
    BY <2>1, <2>2
<1>3. CASE ~(value = None \/ name \in Hidden) /\ name \notin Quoted
  <2>1. bytes \in BOOLEAN
    OBVIOUS
  <2>2. s \in Seq(Characters)
    <3>1. value \in Seq(Characters) /\ Len(value) \in Nat /\ Len(value) >= 2
      BY <1>3 DEF IsFormatted
    <3>2. SubSeq(value, 3, Len(value)) \in Seq(Characters)
      BY <3>1
    <3> QED
      BY <3>1, <3>2
  <2> HIDE DEF bytes, s
  <2>3. element \in Events /\ Close \in Events
    BY <2>1 DEF Events
  <2>4. f \in Events
    BY <2>2, TextEvents
  <2>5. AttrEvents(name, value) = <<element, f, Close>>
    BY <1>3 DEF AttrEvents, bytes, s
  <2> HIDE DEF element, f
  <2> QED
    BY <2>3, <2>4, <2>5
<1> QED
  BY <1>1, <1>2, <1>3

LEMMA AttributesAre ==
  ASSUME NEW t, IsTree(t), NEW n \in 1 .. Len(t.nodes)
  PROVE  Attributes(t, n) \in Seq(Events)
<1> DEFINE values == t.nodes[n].values
           count == IF Len(t.columns) < Len(values) THEN Len(t.columns) ELSE Len(values)
           attrs == [c \in 1 .. count |-> AttrEvents(t.columns[c], values[c])]
<1>1. /\ t.columns \in Seq(Names) /\ Len(t.columns) \in Nat /\ DOMAIN t.nodes = 1 .. Len(t.nodes)
      /\ values \in Seq(Seq(Characters) \cup {None}) /\ Len(values) \in Nat
  BY TreeParts
<1>2. AreValues(values, Len(t.columns), t.room)
  BY <1>1, TreeIs
<1>3. count \in Nat /\ count <= Len(t.columns) /\ count <= Len(values)
  BY <1>1
<1>4. Attributes(t, n) = FlattenSeq(attrs)
  BY DEF Attributes
<1> HIDE DEF values, count
<1>5. ASSUME NEW c \in 1 .. count PROVE AttrEvents(t.columns[c], values[c]) \in Seq(Events)
  <2>1. c \in 1 .. Len(t.columns) /\ c \in 1 .. Len(values) /\ c \in DOMAIN values
    BY <1>1, <1>3
  <2>2. t.columns[c] \in Names /\ values[c] \in Seq(Characters) \cup {None}
    BY <1>1, <2>1
  <2>3. values[c] # None => IsFormatted(values[c])
    BY <1>2, <2>1 DEF AreValues
  <2> QED
    BY <2>2, <2>3, AttrEventsAre
<1>6. attrs \in Seq(Seq(Events))
  BY <1>3, <1>5
<1> HIDE DEF attrs
<1> QED
  BY <1>4, <1>6, FlattenTyped

LEMMA WrittenIs ==
  ASSUME NEW t, IsTree(t), NEW n \in 0 .. Len(t.nodes)
  PROVE  LET first == IF n = 0 THEN 1 ELSE n
             last == first + Len(Written(t, n)) - 1
         IN  first \in Nat \ {0} /\ last \in 0 .. Len(t.nodes) /\ first <= last + 1
<1>1. t.nodes \in Seq(Nodes) /\ Len(t.nodes) \in Nat
  BY TreeParts
<1>2. CASE n = 0
  <2>1. Written(t, n) = t.nodes
    BY <1>2 DEF Written
  <2> QED
    BY <1>1, <1>2, <2>1
<1>3. CASE n # 0
  <2>1. n \in 1 .. Len(t.nodes)
    BY <1>1, <1>3
  <2>2. LastFrom(t, n) \in n .. Len(t.nodes)
    BY <2>1, LastFromIs
  <2> DEFINE last == LastFrom(t, n)
  <2> HIDE DEF last
  <2>3. Written(t, n) = SubSeq(t.nodes, n, last)
    BY <1>3 DEF Written, last
  <2>4. last \in n .. Len(t.nodes)
    BY <2>2 DEF last
  <2>5. Len(Written(t, n)) = last - n + 1
    BY <1>1, <2>1, <2>3, <2>4
  <2> QED
    BY <1>1, <1>3, <2>1, <2>4, <2>5
<1> QED
  BY <1>2, <1>3

LEMMA NodeEventsAre ==
  ASSUME NEW t, IsTree(t), NEW first \in 1 .. Len(t.nodes), NEW last \in 1 .. Len(t.nodes),
         NEW n \in first .. last
  PROVE  NodeEvents(t, first, last, n) \in Seq(Events)
<1> DEFINE following == IF n = last THEN t.nodes[first].depth ELSE t.nodes[n + 1].depth
           closing == t.nodes[n].depth - following + 1
           ends == [i \in 1 .. closing |-> Close]
           open == Open("node")
           attrs == Attributes(t, n)
<1>1. Len(t.nodes) \in Nat /\ DOMAIN t.nodes = 1 .. Len(t.nodes)
      /\ \A m \in 1 .. Len(t.nodes) : t.nodes[m].depth \in Nat
  BY TreeParts
<1>2. n \in 1 .. Len(t.nodes) /\ (n # last => n + 1 \in 1 .. Len(t.nodes))
  BY <1>1
<1>3. closing \in Int
  BY <1>1, <1>2
<1> HIDE DEF closing
<1>4. Close \in Events /\ open \in Events
  BY DEF Events, Open
<1>5. ends \in Seq(Events)
  <2>1. PICK m \in Nat : 1 .. closing = 1 .. m
    <3>1. closing \notin Nat => 1 .. closing = 1 .. 0
      BY <1>3
    <3> QED
      BY <3>1
  <2> DEFINE closes == [i \in 1 .. m |-> Close]
  <2>2. ends = closes
    BY <2>1
  <2>3. closes \in Seq(Events)
    BY <1>4
  <2> HIDE DEF ends, closes
  <2> QED
    BY <2>2, <2>3
<1>6. attrs \in Seq(Events)
  BY <1>2, AttributesAre
<1>7. NodeEvents(t, first, last, n) = <<open>> \o attrs \o ends
  BY DEF NodeEvents, closing
<1> HIDE DEF open, attrs, ends
<1>8. <<open>> \in Seq(Events)
  BY <1>4
<1> QED
  BY <1>5, <1>6, <1>7, <1>8

LEMMA XmlIs ==
  ASSUME NEW t, IsTree(t), NEW n \in 0 .. Len(t.nodes)
  PROVE  Xml(t, n) \in Seq(Events)
<1> DEFINE first == IF n = 0 THEN 1 ELSE n
           last == first + Len(Written(t, n)) - 1
           seqs == [i \in 1 .. last - first + 1 |-> NodeEvents(t, first, last, first + i - 1)]
           body == FlattenSeq(seqs)
<1>1. first \in Nat \ {0} /\ last \in 0 .. Len(t.nodes) /\ first <= last + 1 /\ Len(t.nodes) \in Nat
  BY WrittenIs, TreeParts
<1>2. Xml(t, n) = Prolog \o body \o <<Close>>
  BY DEF Xml
<1> HIDE DEF first, last
<1>3. ASSUME NEW i \in 1 .. last - first + 1
      PROVE  NodeEvents(t, first, last, first + i - 1) \in Seq(Events)
  <2>1. first \in 1 .. Len(t.nodes) /\ last \in 1 .. Len(t.nodes) /\ first + i - 1 \in first .. last
    BY <1>1
  <2> QED
    BY <2>1, NodeEventsAre
<1>4. seqs \in Seq(Seq(Events))
  <2>1. last - first + 1 \in Nat
    BY <1>1
  <2> QED
    BY <1>3, <2>1
<1> HIDE DEF seqs
<1>5. body \in Seq(Events)
  BY <1>4, FlattenTyped
<1> HIDE DEF body
<1>6. Prolog \in Seq(Events)
  <2>1. <<"8">> \in Seq(Characters)
    BY DocumentAssumption
  <2> DEFINE version == <<"8">>
  <2>2. version \in Seq(Characters)
    BY <2>1
  <2> HIDE DEF version
  <2>3. Open("cardpeek") \in Events /\ Open("version") \in Events /\ Close \in Events
    BY DEF Events, Open
  <2>4. [on |-> "text", text |-> version] \in Events
    BY <2>2 DEF Events
  <2>5. Prolog = <<Open("cardpeek"), Open("version"), [on |-> "text", text |-> version], Close>>
    BY DEF Prolog, Text, version
  <2> QED
    BY <2>3, <2>4, <2>5
<1>7. <<Close>> \in Seq(Events)
  BY DEF Events
<1> QED
  BY <1>2, <1>5, <1>6, <1>7

-------------------------------------------------------------------------------
(***************************************************************************)
(* What the callbacks of the parser keep, from one to the next.            *)
(***************************************************************************)
States == {"file", "root", "version", "node", "attr"}

Contexts ==
  {c \in [tree : Trees, ok : BOOLEAN, state : States, node : Nat, isroot : BOOLEAN,
          column : Nat, bytes : BOOLEAN, version : 0 .. 1] :
     /\ IsTree(c.tree)
     /\ c.node \in 0 .. Len(c.tree.nodes)
     /\ c.state \in {"node", "attr"} => c.node # 0
     /\ c.state = "attr" => c.column \in 1 .. Len(c.tree.columns)}

LEMMA ErrorIs ==
  ASSUME NEW c \in Contexts
  PROVE  Error(c) \in Contexts
BY DEF Error, Contexts

\* Another state, that needs no node.
LEMMA StateIs ==
  ASSUME NEW c \in Contexts, NEW state \in States \ {"node", "attr"}
  PROVE  [c EXCEPT !.state = state] \in Contexts
BY DEF Contexts, States

LEMMA OpensNodeIs ==
  ASSUME NEW c \in Contexts
  PROVE  OpensNode(c) \in Contexts
<1> DEFINE parent == IF c.state = "root" /\ c.isroot THEN 0 ELSE c.node
           grown == AppendNode(c.tree, parent)
           at == EndOf(c.tree, parent) + 1
           isroot == IF c.state = "root" THEN FALSE ELSE c.isroot
<1>1. CASE c.state \notin {"root", "node"}
  BY <1>1, ErrorIs DEF OpensNode
<1>2. CASE c.state \in {"root", "node"}
  <2>1. IsTree(c.tree) /\ c.node \in 0 .. Len(c.tree.nodes) /\ isroot \in BOOLEAN
    BY DEF Contexts
  <2>2. parent \in 0 .. Len(c.tree.nodes)
    BY <2>1, TreeParts
  <2> HIDE DEF parent
  <2>3. IsTree(grown) /\ Len(grown.nodes) \in Nat /\ at \in 1 .. Len(grown.nodes)
    <3>1. IsTree(grown) /\ at \in 1 .. Len(grown.nodes)
      BY <2>1, <2>2, AppendNodeTree
    <3> QED
      BY <3>1, TreeParts
  <2>4. OpensNode(c) = [c EXCEPT !.tree = grown, !.node = at, !.state = "node", !.isroot = isroot]
    BY <1>2 DEF OpensNode, parent
  <2> HIDE DEF grown, at, isroot
  <2>5. grown \in Trees /\ at \in Nat /\ at # 0 /\ at \in 0 .. Len(grown.nodes)
    BY <2>3 DEF IsTree
  <2> QED
    BY <2>1, <2>3, <2>4, <2>5 DEF Contexts, States
<1> QED
  BY <1>1, <1>2

LEMMA OpensAttrIs ==
  ASSUME NEW c \in Contexts, NEW e, e.column \in Names, e.bytes \in BOOLEAN
  PROVE  OpensAttr(c, e) \in Contexts
<1> DEFINE r == Register(c.tree, e.column)
           column == Column(r, e.column)
<1>1. CASE c.state # "node"
  BY <1>1, ErrorIs DEF OpensAttr
<1>2. CASE c.state = "node"
  <2>1. IsTree(c.tree) /\ c.node \in 0 .. Len(c.tree.nodes) /\ c.node # 0
    BY <1>2 DEF Contexts
  <2>2. IsTree(r) /\ r.nodes = c.tree.nodes /\ column \in 1 .. Len(r.columns)
    BY <2>1, RegisterTree
  <2>3. OpensAttr(c, e) = [c EXCEPT !.tree = r, !.column = column, !.bytes = e.bytes, !.state = "attr"]
    BY <1>2 DEF OpensAttr
  <2> HIDE DEF r, column
  <2>4. r \in Trees /\ column \in Nat
    BY <2>2 DEF IsTree
  <2> QED
    BY <2>1, <2>2, <2>3, <2>4 DEF Contexts, States
<1> QED
  BY <1>1, <1>2

LEMMA ParentIs ==
  ASSUME NEW t, NEW n \in Nat
  PROVE  Parent(t, n) \in 0 .. n
<1> DEFINE I == {m \in 1 .. n : t.nodes[m].depth = t.nodes[n].depth - 1}
<1>1. Parent(t, n) = IF I # {} THEN Max(I) ELSE 0
  BY DEF Parent, SelectLastInSubSeq
<1>2. I # {} => Max(I) \in I
  <2>1. I \in SUBSET (0 .. n)
    OBVIOUS
  <2> HIDE DEF I
  <2> QED
    BY <2>1, MaxIs
<1>3. \A i \in I : i \in 0 .. n
  OBVIOUS
<1> HIDE DEF I
<1> QED
  BY <1>1, <1>2, <1>3

LEMMA ClosesIs ==
  ASSUME NEW c \in Contexts
  PROVE  Closes(c) \in Contexts
<1> DEFINE up == Parent(c.tree, c.node)
<1>1. c.state \in States
  BY DEF Contexts
<1>2. CASE c.state = "node"
  <2>1. c.node \in Nat /\ c.node <= Len(c.tree.nodes) /\ Len(c.tree.nodes) \in Nat
    <3>1. IsTree(c.tree) /\ c.node \in 0 .. Len(c.tree.nodes)
      BY DEF Contexts
    <3> QED
      BY <3>1, TreeParts
  <2>2. up \in 0 .. c.node
    BY <2>1, ParentIs
  <2>3. Closes(c) = IF up # 0 THEN [c EXCEPT !.node = up]
                    ELSE [c EXCEPT !.state = "root", !.isroot = TRUE]
    BY <1>2 DEF Closes
  <2> HIDE DEF up
  <2>4. CASE up # 0
    <3>1. up \in Nat /\ up \in 0 .. Len(c.tree.nodes)
      BY <2>1, <2>2
    <3> QED
      BY <1>2, <2>3, <2>4, <3>1 DEF Contexts
  <2>5. CASE up = 0
    BY <2>3, <2>5 DEF Contexts, States
  <2> QED
    BY <2>4, <2>5
<1>3. CASE c.state = "attr"
  <2>1. Closes(c) = [c EXCEPT !.state = "node"]
    BY <1>3 DEF Closes
  <2> QED
    BY <1>3, <2>1 DEF Contexts, States
<1>4. CASE c.state = "root"
  <2>1. Closes(c) = [c EXCEPT !.state = "file"]
    BY <1>4 DEF Closes
  <2> QED
    BY <2>1, StateIs DEF States, Contexts
<1>5. CASE c.state = "version"
  <2>1. Closes(c) = [c EXCEPT !.state = "root"]
    BY <1>5 DEF Closes
  <2> QED
    BY <2>1, StateIs DEF States, Contexts
<1>6. CASE c.state = "file"
  BY <1>6 DEF Closes
<1> QED
  BY <1>1, <1>2, <1>3, <1>4, <1>5, <1>6 DEF States

\* A value with its kind in front is of the form that values have.
LEMMA KindInFront ==
  ASSUME NEW s \in Seq(Characters)
  PROVE  <<"t", ":">> \o s \in Seq(Characters) /\ IsFormatted(<<"t", ":">> \o s)
<1> DEFINE kind == <<"t", ":">>
<1>1. {"t", ":"} \subseteq Characters
  BY DocumentAssumption
<1>2. kind \in Seq(Characters) /\ Len(kind) = 2 /\ kind[2] = ":" /\ kind[1] = "t"
  BY <1>1
<1> HIDE DEF kind
<1>3. kind \o s \in Seq(Characters) /\ Len(kind \o s) >= 2 /\ (kind \o s)[2] = ":"
  BY <1>2
<1>4. (kind \o s)[1] = "t"
  <2>1. \A i \in 1 .. 2 : (kind \o s)[i] = kind[i]
    BY <1>2
  <2> QED
    BY <1>2, <2>1
<1> QED
  BY <1>3, <1>4 DEF IsFormatted, kind

LEMMA AttrTextIs ==
  ASSUME NEW c \in Contexts, c.state = "attr", NEW s \in Seq(Characters)
  PROVE  LET t == AttrText(c, s)
         IN  IsTree(t) /\ t.columns = c.tree.columns /\ Len(t.nodes) = Len(c.tree.nodes)
<1> DEFINE coded == c.bytes \/ (c.version = 0 /\ LooksCoded(s))
           v == <<"t", ":">> \o s
<1>1. /\ IsTree(c.tree) /\ c.node \in 1 .. Len(c.tree.nodes)
      /\ c.column \in 1 .. Len(c.tree.columns)
  <2>1. /\ IsTree(c.tree) /\ c.node \in 0 .. Len(c.tree.nodes) /\ c.node # 0
        /\ c.column \in 1 .. Len(c.tree.columns)
    BY DEF Contexts
  <2> QED
    BY <2>1, TreeParts
<1>2. AttrText(c, s) = IF coded THEN IF IsCoded(s) THEN SetValue(c.tree, c.node, c.column, s) ELSE c.tree
                       ELSE SetValue(c.tree, c.node, c.column, v)
  BY DEF AttrText
<1>3. v \in Seq(Characters) /\ IsFormatted(v)
  BY KindInFront
<1>4. IsCoded(s) => IsFormatted(s)
  BY DEF IsCoded, LooksCoded, IsFormatted
<1> HIDE DEF coded, v
<1>5. ASSUME NEW x \in Seq(Characters), IsFormatted(x)
      PROVE  LET t == SetValue(c.tree, c.node, c.column, x)
             IN  IsTree(t) /\ t.columns = c.tree.columns /\ Len(t.nodes) = Len(c.tree.nodes)
  BY <1>1, <1>5, SetValueTree
<1> QED
  BY <1>1, <1>2, <1>3, <1>4, <1>5

LEMMA ReadsIs ==
  ASSUME NEW c \in Contexts, NEW s \in Seq(Characters)
  PROVE  Reads(c, s) \in Contexts
<1> DEFINE t == AttrText(c, s)
<1>1. CASE c.state = "attr"
  <2>1. IsTree(t) /\ t.columns = c.tree.columns /\ Len(t.nodes) = Len(c.tree.nodes)
    BY <1>1, AttrTextIs
  <2>2. Reads(c, s) = [c EXCEPT !.tree = t]
    BY <1>1 DEF Reads
  <2> HIDE DEF t
  <2>3. t \in Trees
    BY <2>1 DEF IsTree
  <2> QED
    BY <2>1, <2>2, <2>3 DEF Contexts
<1>2. CASE c.state = "version"
  <2>1. Reads(c, s) = [c EXCEPT !.version = 1]
    BY <1>2 DEF Reads
  <2> QED
    BY <2>1 DEF Contexts
<1>3. CASE c.state \notin {"attr", "version"}
  <2>1. Reads(c, s) = Error(c)
    BY <1>3 DEF Reads
  <2> QED
    BY <2>1, ErrorIs
<1> QED
  BY <1>1, <1>2, <1>3

LEMMA StepIs ==
  ASSUME NEW c \in Contexts, NEW e \in Events
  PROVE  Step(c, e) \in Contexts
<1>1. CASE ~c.ok
  BY <1>1 DEF Step
<1>2. CASE c.ok /\ e \in [on : {"open"}, name : {"cardpeek", "version", "node"}]
  <2>1. Step(c, e) = OpensElement(c, e) /\ e.name \in {"cardpeek", "version", "node"}
    BY <1>2 DEF Step
  <2>2. CASE e.name = "node"
    BY <2>1, <2>2, OpensNodeIs DEF OpensElement
  <2>3. CASE e.name = "cardpeek"
    <3>1. OpensElement(c, e) = IF c.state = "file" THEN [c EXCEPT !.state = "root"] ELSE Error(c)
      BY <2>3 DEF OpensElement
    <3> QED
      BY <2>1, <3>1, ErrorIs, StateIs DEF States
  <2>4. CASE e.name = "version"
    <3>1. OpensElement(c, e) = IF c.state = "root" THEN [c EXCEPT !.state = "version"] ELSE Error(c)
      BY <2>4 DEF OpensElement
    <3> QED
      BY <2>1, <3>1, ErrorIs, StateIs DEF States
  <2> QED
    BY <2>1, <2>2, <2>3, <2>4
<1>3. CASE c.ok /\ e \in [on : {"open"}, name : {"attr"}, column : Names, bytes : BOOLEAN]
  <2>1. Step(c, e) = OpensElement(c, e) /\ e.name = "attr" /\ e.column \in Names /\ e.bytes \in BOOLEAN
    BY <1>3 DEF Step
  <2>2. OpensElement(c, e) = OpensAttr(c, e)
    BY <2>1 DEF OpensElement
  <2> QED
    BY <2>1, <2>2, OpensAttrIs
<1>4. CASE c.ok /\ e \in [on : {"text"}, text : Seq(Characters)]
  <2>1. Step(c, e) = Reads(c, e.text) /\ e.text \in Seq(Characters)
    BY <1>4 DEF Step
  <2> QED
    BY <2>1, ReadsIs
<1>5. CASE c.ok /\ e = Close
  <2>1. e.on = "close"
    BY <1>5 DEF Close
  <2>2. Step(c, e) = Closes(c)
    BY <1>5, <2>1 DEF Step
  <2> QED
    BY <2>2, ClosesIs
<1>6. CASE c.ok /\ e = Malformed
  <2>1. e.on = "malformed"
    BY <1>6 DEF Malformed
  <2>2. Step(c, e) = Error(c)
    BY <1>6, <2>1 DEF Step
  <2> QED
    BY <2>2, ErrorIs
<1> QED
  BY <1>1, <1>2, <1>3, <1>4, <1>5, <1>6 DEF Events

LEMMA ContextIs ==
  ASSUME NEW t, IsTree(t), NEW p \in 0 .. Len(t.nodes), NEW version \in 0 .. 1
  PROVE  Context(t, p, version) \in Contexts
<1> DEFINE isroot == p = 0
           c == Context(t, p, version)
<1>1. t \in Trees /\ isroot \in BOOLEAN /\ p \in Nat
  BY TreeParts DEF IsTree
<1>2. c = [tree |-> t, ok |-> TRUE, state |-> "file", node |-> p, isroot |-> isroot,
           column |-> 0, bytes |-> FALSE, version |-> version]
  BY DEF Context
<1> HIDE DEF isroot, c
<1>3. c \in Contexts
  BY <1>1, <1>2 DEF Contexts, States
<1> QED
  BY <1>3 DEF c

\* What the parser makes of one event after the other, from the context c.
Parses(g, c, events) ==
  /\ g[0] = c
  /\ \A i \in 1 .. Len(events) : g[i] = Step(g[i - 1], events[i])

LEMMA ParsesSome ==
  ASSUME NEW c \in Contexts, NEW events \in Seq(Events)
  PROVE  \E g \in [0 .. Len(events) -> Contexts] : Parses(g, c, events)
<1> DEFINE n == Len(events)
           V == Contexts
           step == [i \in 1 .. n |-> [d \in V |-> Step(d, events[i])]]
<1>1. n \in Nat /\ \A i \in 1 .. n : events[i] \in Events
  OBVIOUS
<1>2. step \in [1 .. n -> [V -> V]]
  <2>1. ASSUME NEW i \in 1 .. n, NEW d \in V PROVE Step(d, events[i]) \in V
    BY <1>1, StepIs
  <2> HIDE DEF V
  <2> QED
    BY <2>1
<1> HIDE DEF V
<1>3. PICK g \in [0 .. n -> V] : Runs(g, n, c, step)
  <2>1. c \in V
    BY DEF V
  <2> HIDE DEF step, n
  <2> QED
    BY <1>1, <1>2, <2>1, Recursion
<1>4. ASSUME NEW i \in 1 .. n PROVE g[i] = Step(g[i - 1], events[i])
  <2>1. i - 1 \in 0 .. n
    BY <1>1
  <2>2. g[i] = step[i][g[i - 1]] /\ g[i - 1] \in V
    BY <1>3, <2>1 DEF Runs
  <2> QED
    BY <2>2
<1>5. g[0] = c
  BY <1>3 DEF Runs
<1> QED
  BY <1>3, <1>4, <1>5 DEF Parses, V

LEMMA ParsedRuns ==
  ASSUME NEW t, NEW parent, NEW version, NEW events \in Seq(Events),
         Context(t, parent, version) \in Contexts
  PROVE  \E g \in [0 .. Len(events) -> Contexts] :
           /\ Parses(g, Context(t, parent, version), events)
           /\ Parsed(t, parent, version, events) = g[Len(events)].tree
<1> DEFINE n == Len(events)
           c0 == Context(t, parent, version)
           Body(g) == [i \in 0 .. n |-> IF i = 0 THEN c0 ELSE Step(g[i - 1], events[i])]
           after == CHOOSE g : g = Body(g)
<1>1. n \in Nat
  OBVIOUS
<1>2. PICK h \in [0 .. n -> Contexts] : Parses(h, c0, events)
  BY ParsesSome
<1> HIDE DEF c0
<1>3. h = Body(h)
  <2>1. \A i \in 0 .. n : h[i] = Body(h)[i]
    <3> TAKE i \in 0 .. n
    <3>1. CASE i = 0
      BY <1>2, <3>1 DEF Parses
    <3>2. CASE i # 0
      <4>1. i \in 1 .. n
        BY <1>1, <3>2
      <4> QED
        BY <1>2, <3>2, <4>1 DEF Parses
    <3> QED
      BY <3>1, <3>2
  <2>2. h = [i \in 0 .. n |-> h[i]] /\ Body(h) = [i \in 0 .. n |-> Body(h)[i]]
    BY <1>2
  <2> HIDE DEF Body
  <2> QED
    BY <2>1, <2>2
<1>4. after = Body(after)
  <2> HIDE DEF Body
  <2> QED
    BY <1>3, Zenon
<1>5. Parsed(t, parent, version, events) = after[n].tree
  BY DEF Parsed, c0
<1> HIDE DEF after
<1>6. /\ after[0] = c0
      /\ \A i \in 1 .. n : after[i] = Step(after[i - 1], events[i])
  <2>1. after[0] = c0
    <3>1. 0 \in 0 .. n
      BY <1>1
    <3> QED
      BY <1>4, <3>1
  <2>2. ASSUME NEW i \in 1 .. n PROVE after[i] = Step(after[i - 1], events[i])
    <3>1. i \in 0 .. n /\ i # 0
      BY <1>1
    <3> QED
      BY <1>4, <3>1
  <2> QED
    BY <2>1, <2>2
<1> DEFINE S == {i \in Nat : i <= n => after[i] = h[i]}
<1>7. 0 \in S
  BY <1>2, <1>6 DEF Parses
<1>8. ASSUME NEW i \in Nat, i \in S PROVE i + 1 \in S
  <2> SUFFICES ASSUME i + 1 <= n PROVE after[i + 1] = h[i + 1]
    OBVIOUS
  <2>1. i + 1 \in 1 .. n /\ (i + 1) - 1 = i /\ after[i] = h[i]
    BY <1>8
  <2>2. h[i + 1] = Step(h[i], events[i + 1])
    BY <1>2, <2>1 DEF Parses
  <2>3. after[i + 1] = Step(after[i], events[i + 1])
    BY <1>6, <2>1
  <2> QED
    BY <2>1, <2>2, <2>3
<1>9. n \in S
  <2> HIDE DEF S
  <2> QED
    BY <1>1, <1>7, <1>8, NatSetInduction
<1>10. Parsed(t, parent, version, events) = h[n].tree
  BY <1>5, <1>9
<1> QED
  BY <1>2, <1>10 DEF c0

\* Whatever the events are, what is parsed from them leaves a tree.
LEMMA ParsedIs ==
  ASSUME NEW t, IsTree(t), NEW parent \in 0 .. Len(t.nodes), NEW version \in 0 .. 1,
         NEW events \in Seq(Events)
  PROVE  IsTree(Parsed(t, parent, version, events))
<1>1. Context(t, parent, version) \in Contexts
  BY ContextIs
<1>2. PICK g \in [0 .. Len(events) -> Contexts] :
        Parsed(t, parent, version, events) = g[Len(events)].tree
  BY <1>1, ParsedRuns
<1>3. g[Len(events)] \in Contexts
  <2>1. Len(events) \in 0 .. Len(events)
    OBVIOUS
  <2> QED
    BY <2>1
<1> QED
  BY <1>2, <1>3 DEF Contexts

-------------------------------------------------------------------------------
(***************************************************************************)
(* The calls of the scripts.                                               *)
(***************************************************************************)
LEMMA InitTree == IsTree(Tree(FirstColumns, ColumnSlots, <<>>))
<1> DEFINE t == Tree(FirstColumns, ColumnSlots, <<>>)
           none == <<>>
<1>1. /\ FirstColumns \in Seq(Names) /\ IsInjective(FirstColumns) /\ Len(FirstColumns) \in Nat
      /\ ColumnSlots \in Nat /\ NodeSlots \in Nat
      /\ Len(FirstColumns) <= NodeSlots /\ NodeSlots <= ColumnSlots
  BY DocumentAssumption
<1>2. none \in Seq(Nodes) /\ DOMAIN none = {}
  OBVIOUS
<1>3. t = [columns |-> FirstColumns, room |-> ColumnSlots, nodes |-> none]
  BY DEF Tree
<1> HIDE DEF t, none
<1>4. t \in Trees
  BY <1>1, <1>2, <1>3 DEF Trees
<1>5. Len(t.columns) \in Len(FirstColumns) .. t.room
  BY <1>1, <1>3
<1>6. IsTree(t)
  BY <1>1, <1>2, <1>3, <1>4, <1>5 DEF IsTree
<1> QED
  BY <1>6 DEF t

LEMMA ClearedTree ==
  ASSUME IsTree(tree)
  PROVE  IsTree(Cleared) /\ Len(Cleared.nodes) = 0
<1> DEFINE none == <<>>
<1>1. none \in Seq(Nodes) /\ DOMAIN none = {} /\ Len(none) = 0
  OBVIOUS
<1>2. Cleared = [tree EXCEPT !.nodes = none]
  BY DEF Cleared
<1> HIDE DEF none
<1>3. /\ Cleared \in Trees /\ Cleared.nodes = none /\ Cleared.columns = tree.columns
      /\ Cleared.room = tree.room
  BY <1>1, <1>2 DEF IsTree, Trees
<1>4. /\ IsInjective(tree.columns) /\ Len(tree.columns) \in Len(FirstColumns) .. tree.room
      /\ NodeSlots <= tree.room
  BY DEF IsTree
<1> QED
  BY <1>1, <1>3, <1>4 DEF IsTree

\* Without a node and all that is below it, a list of nodes is that of a tree.
LEMMA RemovedTree ==
  ASSUME NEW t, IsTree(t), NEW p \in 1 .. Len(t.nodes)
  PROVE  IsTree([t EXCEPT !.nodes = SubSeq(@, 1, p - 1) \o SubSeq(@, EndOf(t, p) + 1, Len(@))])
<1> DEFINE e == EndOf(t, p)
           a == SubSeq(t.nodes, 1, p - 1)
           b == SubSeq(t.nodes, e + 1, Len(t.nodes))
           nodes == a \o b
           r == [t EXCEPT !.nodes = nodes]
           N == Len(t.nodes)
<1>1. /\ t.nodes \in Seq(Nodes) /\ N \in Nat /\ DOMAIN t.nodes = 1 .. N
      /\ \A n \in 1 .. N : t.nodes[n].depth \in Nat \ {0}
  BY TreeParts
<1>2. /\ t \in Trees /\ AreColumns(t.columns) /\ AreDepths(t.nodes)
      /\ Len(t.columns) \in Len(FirstColumns) .. t.room /\ NodeSlots <= t.room
      /\ \A n \in DOMAIN t.nodes : AreValues(t.nodes[n].values, Len(t.columns), t.room)
  BY TreeIs
<1>3. e \in p .. N /\ (e < N => t.nodes[e + 1].depth <= t.nodes[p].depth)
  <2>1. p \in 0 .. N
    BY <1>1
  <2> QED
    BY <2>1, EndOfIs
<1> HIDE DEF e
<1>4. /\ a \in Seq(Nodes) /\ Len(a) = p - 1 /\ \A k \in 1 .. p - 1 : a[k] = t.nodes[k]
      /\ b \in Seq(Nodes) /\ Len(b) = N - e /\ \A k \in 1 .. N - e : b[k] = t.nodes[e + k]
  <2>1. p - 1 \in 0 .. N /\ e + 1 \in 1 .. N + 1
    BY <1>1, <1>3
  <2>2. a \in Seq(Nodes) /\ Len(a) = p - 1 /\ \A k \in 1 .. p - 1 : a[k] = t.nodes[k]
    BY <1>1, <2>1
  <2>3. b \in Seq(Nodes) /\ Len(b) = N - e /\ \A k \in 1 .. N - e : b[k] = t.nodes[e + k]
    BY <1>1, <1>3, <2>1
  <2> QED
    BY <2>2, <2>3
<1> DEFINE at(k) == IF k < p THEN k ELSE k - p + 1 + e
<1>5. /\ nodes \in Seq(Nodes) /\ Len(nodes) = N - (e - p + 1) /\ DOMAIN nodes = 1 .. Len(nodes)
      /\ \A k \in 1 .. Len(nodes) : at(k) \in 1 .. N /\ nodes[k] = t.nodes[at(k)]
  <2> HIDE DEF a, b
  <2>1. nodes \in Seq(Nodes) /\ Len(nodes) = p - 1 + N - e
    BY <1>1, <1>3, <1>4
  <2>2. ASSUME NEW k \in 1 .. Len(nodes) PROVE at(k) \in 1 .. N /\ nodes[k] = t.nodes[at(k)]
    <3>1. CASE k < p
      <4>1. k \in 1 .. p - 1 /\ k \in 1 .. N
        BY <1>1, <2>1, <3>1
      <4>2. nodes[k] = a[k]
        BY <1>4, <4>1
      <4> QED
        BY <1>4, <3>1, <4>1, <4>2
    <3>2. CASE ~(k < p)
      <4>1. k - (p - 1) \in 1 .. N - e /\ e + (k - (p - 1)) = at(k) /\ at(k) \in 1 .. N
        BY <1>1, <1>3, <2>1, <3>2
      <4>2. nodes[k] = b[k - (p - 1)]
        BY <1>1, <1>3, <1>4, <2>1, <3>2
      <4> QED
        BY <1>4, <4>1, <4>2
    <3> QED
      BY <3>1, <3>2
  <2> HIDE DEF nodes
  <2> QED
    BY <1>1, <1>3, <2>1, <2>2
<1> HIDE DEF nodes
<1>6. r \in Trees /\ r.columns = t.columns /\ r.room = t.room /\ r.nodes = nodes
  BY <1>2, <1>5 DEF Trees
<1>7. ASSUME NEW k \in 1 .. Len(nodes)
      PROVE  nodes[k].depth \in 1 .. IF k = 1 THEN 1 ELSE nodes[k - 1].depth + 1
  <2>1. p \in 1 .. N /\ e \in Nat /\ k \in Nat /\ nodes[k] = t.nodes[at(k)] /\ at(k) \in 1 .. N
    BY <1>1, <1>3, <1>5
  <2>2. \A n \in 1 .. N : t.nodes[n].depth \in 1 .. IF n = 1 THEN 1 ELSE t.nodes[n - 1].depth + 1
    BY <1>1, <1>2 DEF AreDepths
  <2>3. k # 1 => k - 1 \in 1 .. Len(nodes) /\ nodes[k - 1] = t.nodes[at(k - 1)]
    BY <1>1, <1>5
  <2>4. CASE k < p
    <3>1. at(k) = k /\ (k # 1 => at(k - 1) = k - 1)
      BY <2>1, <2>4
    <3> HIDE DEF at
    <3> QED
      BY <2>1, <2>2, <2>3, <3>1
  <2>5. CASE k = p
    <3>1. at(k) = e + 1 /\ e < N /\ (k # 1 => at(k - 1) = p - 1)
      BY <1>1, <1>3, <2>1, <2>5
    <3> HIDE DEF at
    <3>2. t.nodes[e + 1].depth <= t.nodes[p].depth /\ t.nodes[e + 1].depth \in Nat \ {0}
      BY <1>1, <1>3, <2>1, <3>1
    <3>3. t.nodes[p].depth \in 1 .. IF p = 1 THEN 1 ELSE t.nodes[p - 1].depth + 1
      BY <2>2
    <3>4. CASE k = 1
      BY <1>1, <2>1, <2>5, <3>1, <3>2, <3>3, <3>4
    <3>5. CASE k # 1
      <4>1. nodes[k - 1] = t.nodes[p - 1] /\ p - 1 \in 1 .. N
        BY <1>1, <2>1, <2>3, <2>5, <3>1, <3>5
      <4>2. t.nodes[p - 1].depth \in Nat /\ t.nodes[p].depth \in Nat
        BY <1>1, <4>1
      <4>3. t.nodes[p].depth <= t.nodes[p - 1].depth + 1
        BY <2>5, <3>3, <3>5, <4>2
      <4>4. t.nodes[e + 1].depth \in 1 .. t.nodes[p - 1].depth + 1
        <5> DEFINE x == t.nodes[e + 1].depth
                   y == t.nodes[p].depth
                   z == t.nodes[p - 1].depth
        <5>1. x <= y /\ x \in Nat \ {0} /\ z \in Nat /\ y \in Nat /\ y <= z + 1
          BY <3>2, <4>2, <4>3
        <5> HIDE DEF x, y, z
        <5>2. x \in 1 .. z + 1
          BY <5>1
        <5> QED
          BY <5>2 DEF x, y, z
      <4>5. nodes[k] = t.nodes[e + 1]
        BY <2>1, <3>1
      <4> QED
        BY <3>5, <4>1, <4>4, <4>5
    <3> QED
      BY <3>4, <3>5
  <2>6. CASE k > p
    <3>1. k # 1 /\ at(k) # 1 /\ at(k - 1) = at(k) - 1
      BY <1>1, <1>3, <2>1, <2>6
    <3> HIDE DEF at
    <3> QED
      BY <2>1, <2>2, <2>3, <3>1
  <2>7. k < p \/ k = p \/ k > p
    BY <2>1
  <2> QED
    BY <2>4, <2>5, <2>6, <2>7
<1>8. AreDepths(nodes)
  BY <1>5, <1>7 DEF AreDepths
<1>9. ASSUME NEW k \in 1 .. Len(nodes) PROVE AreValues(nodes[k].values, Len(t.columns), t.room)
  <2> HIDE DEF at
  <2> QED
    BY <1>1, <1>2, <1>5
<1>10. IsTree(r)
  <2> HIDE DEF r, at
  <2> QED
    BY <1>2, <1>5, <1>6, <1>8, <1>9, TreeIs
<1> QED
  BY <1>10 DEF r, nodes, a, b, e

LEMMA SetByNameTree ==
  ASSUME NEW t, IsTree(t), NEW n \in 1 .. Len(t.nodes), NEW name \in Names,
         NEW value \in Seq(Characters) \cup {None}, value # None => IsFormatted(value)
  PROVE  IsTree(SetByName(t, n, name, value))
<1> DEFINE r == Register(t, name)
           column == Column(r, name)
<1>1. IsTree(r) /\ r.nodes = t.nodes /\ column \in 1 .. Len(r.columns)
  BY RegisterTree
<1>2. SetByName(t, n, name, value) = SetValue(r, n, column, value)
  BY DEF SetByName
<1> HIDE DEF r, column
<1> QED
  BY <1>1, <1>2, SetValueTree

LEMMA ValuesAre ==
  ASSUME NEW v \in Values
  PROVE  v \in Seq(Characters) /\ IsFormatted(v) /\ v # None
<1>1. None \notin Seq(Characters)
  BY DocumentAssumption
<1>2. ASSUME NEW s \in Texts, v = <<"t", ":">> \o s PROVE v \in Seq(Characters) /\ IsFormatted(v)
  <2>1. s \in Seq(Characters)
    BY DocumentAssumption
  <2> QED
    BY <1>2, <2>1, KindInFront
<1>3. ASSUME v \in Bytestrings PROVE v \in Seq(Characters) /\ IsFormatted(v)
  BY <1>3, DocumentAssumption DEF IsFormatted
<1> QED
  BY <1>1, <1>2, <1>3 DEF Values

-------------------------------------------------------------------------------
LEMMA TypeInit == Init => DocumentTypeOK
<1> SUFFICES ASSUME Init PROVE DocumentTypeOK
  OBVIOUS
<1>1. IsTree(tree)
  BY InitTree DEF Init
<1>2. file \in Seq(Events) /\ text \in Seq(Events)
  <2>1. <<>> \in Seq(Events)
    OBVIOUS
  <2> QED
    BY <2>1 DEF Init
<1> QED
  BY <1>1, <1>2 DEF DocumentTypeOK

LEMMA TypeNext == DocumentTypeOK /\ [Next]_vars => DocumentTypeOK'
<1> SUFFICES ASSUME DocumentTypeOK, [Next]_vars PROVE DocumentTypeOK'
  OBVIOUS
<1> USE DEF Places
<1>1. IsTree(tree) /\ file \in Seq(Events) /\ text \in Seq(Events) /\ Len(tree.nodes) \in Nat
  BY TreeParts DEF DocumentTypeOK
<1>2. ASSUME NEW p \in Places, Appends(p) PROVE DocumentTypeOK'
  <2> DEFINE t == AppendNode(tree, p)
             n == EndOf(tree, p) + 1
             item == <<"t", ":">> \o Item
  <2>1. IsTree(t) /\ n \in 1 .. Len(t.nodes)
    BY <1>1, <1>2, AppendNodeTree
  <2>2. 1 \in 1 .. Len(t.columns)
    BY <2>1, TreeParts
  <2>3. item \in Seq(Characters) /\ IsFormatted(item)
    <3>1. Item \in Seq(Characters)
      BY DocumentAssumption
    <3> QED
      BY <3>1, KindInFront
  <2>4. \/ tree' = SetValue(t, n, 1, item)
        \/ tree' = t
        \/ \E name \in Names, v \in Values : tree' = SetByName(t, n, name, v)
    BY <1>2 DEF Appends
  <2>5. file' = file /\ text' = text
    BY <1>2 DEF Appends
  <2> HIDE DEF t, n, item
  <2>6. CASE tree' = SetValue(t, n, 1, item)
    BY <1>1, <2>1, <2>2, <2>3, <2>5, <2>6, SetValueTree DEF DocumentTypeOK
  <2>7. CASE tree' = t
    BY <1>1, <2>1, <2>5, <2>7 DEF DocumentTypeOK
  <2>8. ASSUME NEW name \in Names, NEW v \in Values, tree' = SetByName(t, n, name, v)
        PROVE  DocumentTypeOK'
    BY <1>1, <2>1, <2>5, <2>8, ValuesAre, SetByNameTree DEF DocumentTypeOK
  <2> QED
    BY <2>4, <2>6, <2>7, <2>8
<1>3. ASSUME NEW n \in Places \ {0}, NEW name \in Names, NEW v \in Values \cup {None},
             Sets(n, name, v)
      PROVE  DocumentTypeOK'
  <2>1. n \in 1 .. Len(tree.nodes)
    BY <1>1, <1>3
  <2>2. v \in Seq(Characters) \cup {None} /\ (v # None => IsFormatted(v))
    BY ValuesAre
  <2> QED
    BY <1>1, <1>3, <2>1, <2>2, SetByNameTree DEF DocumentTypeOK, Sets
<1>4. ASSUME NEW p \in Places, Removes(p) PROVE DocumentTypeOK'
  <2>1. CASE p = 0
    BY <1>1, <1>4, <2>1, ClearedTree DEF DocumentTypeOK, Removes
  <2>2. CASE p # 0
    <3>1. p \in 1 .. Len(tree.nodes)
      BY <1>1, <1>4, <2>2
    <3>2. tree' = [tree EXCEPT !.nodes = SubSeq(@, 1, p - 1) \o SubSeq(@, EndOf(tree, p) + 1, Len(@))]
      BY <1>4, <2>2 DEF Removes
    <3>3. IsTree(tree')
      BY <1>1, <3>1, <3>2, RemovedTree
    <3> QED
      BY <1>1, <1>4, <3>3 DEF DocumentTypeOK, Removes
  <2> QED
    BY <2>1, <2>2
<1>5. CASE Saves
  <2> DEFINE xml == Xml(tree, 0)
  <2>1. xml \in Seq(Events)
    BY <1>1, XmlIs
  <2>2. PICK l \in 0 .. Len(xml) : file' = SubSeq(xml, 1, l)
    BY <1>5 DEF Saves, Prefixes
  <2> HIDE DEF xml
  <2>3. file' \in Seq(Events)
    BY <2>1, <2>2
  <2> QED
    BY <1>1, <1>5, <2>3 DEF DocumentTypeOK, Saves
<1>6. ASSUME NEW f \in OldFiles, Receives(f) PROVE DocumentTypeOK'
  BY <1>1, <1>6, FilesAssumption DEF DocumentTypeOK, Receives
<1>7. CASE Loads
  <2>1. PICK version \in 0 .. 1 : tree' = Parsed(Cleared, 0, version, file)
    BY <1>7 DEF Loads
  <2>2. IsTree(Cleared) /\ 0 \in 0 .. Len(Cleared.nodes)
    BY <1>1, ClearedTree
  <2>3. IsTree(tree')
    BY <1>1, <2>1, <2>2, ParsedIs
  <2> QED
    BY <1>1, <1>7, <2>3 DEF DocumentTypeOK, Loads
<1>8. ASSUME NEW p \in Places, Exports(p) PROVE DocumentTypeOK'
  <2>1. text' \in Seq(Events)
    BY <1>1, <1>8, XmlIs DEF Exports
  <2> QED
    BY <1>1, <1>8, <2>1 DEF DocumentTypeOK, Exports
<1>9. ASSUME NEW p \in Places, Imports(p) PROVE DocumentTypeOK'
  <2>1. PICK version \in 0 .. 1 : tree' = Parsed(tree, p, version, text)
    BY <1>9 DEF Imports
  <2>2. IsTree(tree')
    BY <1>1, <2>1, ParsedIs
  <2> QED
    BY <1>1, <1>9, <2>2 DEF DocumentTypeOK, Imports
<1>10. CASE UNCHANGED vars
  BY <1>1, <1>10 DEF DocumentTypeOK, vars
<1> QED
  BY <1>2, <1>3, <1>4, <1>5, <1>6, <1>7, <1>8, <1>9, <1>10 DEF Next, Call

\* The nodes are a tree, no value is beyond the columns and no column beyond the
\* room for columns, whatever calls scripts make and whatever is in the file that
\* is loaded: a file that was cut off, or another program's.
THEOREM DocumentTyped == Spec => []DocumentTypeOK
<1> QED
  BY TypeInit, TypeNext, PTL DEF Spec

-------------------------------------------------------------------------------
(***************************************************************************)
(* What scripts read back.                                                 *)
(***************************************************************************)
\* The values of nodes are formatted, or there are none.
LEMMA ValueAtIs ==
  ASSUME NEW t, IsTree(t), NEW n \in 1 .. Len(t.nodes), NEW c \in Nat \ {0}
  PROVE  /\ ValueAt(t, n, c) \in Seq(Characters) \cup {None}
         /\ ValueAt(t, n, c) # None => c <= Len(t.columns) /\ IsFormatted(ValueAt(t, n, c))
<1> DEFINE values == t.nodes[n].values
<1>1. /\ values \in Seq(Seq(Characters) \cup {None}) /\ Len(values) \in Nat
      /\ n \in DOMAIN t.nodes
  BY TreeParts
<1>2. AreValues(values, Len(t.columns), t.room)
  BY <1>1, TreeIs
<1>3. ValueAt(t, n, c) = IF c <= Len(values) THEN values[c] ELSE None
  BY DEF ValueAt
<1> HIDE DEF values
<1>4. CASE c <= Len(values)
  <2>1. c \in 1 .. Len(values) /\ c \in DOMAIN values
    BY <1>1, <1>4
  <2>2. values[c] \in Seq(Characters) \cup {None}
    BY <1>1, <2>1
  <2> QED
    BY <1>2, <1>3, <1>4, <2>1, <2>2 DEF AreValues
<1>5. CASE ~(c <= Len(values))
  BY <1>3, <1>5
<1> QED
  BY <1>4, <1>5

LEMMA ValueOfIs ==
  ASSUME NEW t, IsTree(t), NEW n \in 1 .. Len(t.nodes), NEW name
  PROVE  /\ ValueOf(t, n, name) \in Seq(Characters) \cup {None}
         /\ ValueOf(t, n, name) # None => IsFormatted(ValueOf(t, n, name))
<1> DEFINE c == Column(t, name)
<1>1. AreColumns(t.columns) /\ Len(t.columns) \in Nat
  BY TreeIs, TreeParts
<1>2. c \in 0 .. Len(t.columns)
  BY <1>1, ColumnIs
<1>3. ValueOf(t, n, name) = IF c = 0 THEN None ELSE ValueAt(t, n, c)
  BY DEF ValueOf
<1> HIDE DEF c
<1>4. CASE c = 0
  BY <1>3, <1>4
<1>5. CASE c # 0
  <2>1. c \in Nat \ {0}
    BY <1>1, <1>2, <1>5
  <2> QED
    BY <1>3, <1>5, <2>1, ValueAtIs
<1> QED
  BY <1>4, <1>5

\* One attribute of one node is set, all others stay.
LEMMA SetByNameReads ==
  ASSUME NEW t, IsTree(t), NEW n \in 1 .. Len(t.nodes), NEW name \in Names,
         NEW value \in Seq(Characters) \cup {None}, value # None => IsFormatted(value)
  PROVE  LET s == SetByName(t, n, name, value)
         IN  /\ IsTree(s) /\ Len(s.nodes) = Len(t.nodes) /\ Column(s, name) # 0
             /\ \A m \in 1 .. Len(t.nodes), x \in Names :
                  ValueOf(s, m, x) = IF m = n /\ x = name THEN value ELSE ValueOf(t, m, x)
<1> DEFINE r == Register(t, name)
           column == Column(r, name)
           s == SetByName(t, n, name, value)
<1>1. /\ IsTree(r) /\ r.nodes = t.nodes /\ column \in 1 .. Len(r.columns)
  BY RegisterTree
<1>2. /\ Len(r.columns) \in Nat /\ Len(t.columns) <= Len(r.columns) /\ Len(t.columns) \in Nat
      /\ \A x : x # name => Column(r, x) = Column(t, x)
      /\ Column(t, name) # 0 => r = t
      /\ Column(t, name) = 0 => column = Len(t.columns) + 1
  <2>1. t \in Trees /\ AreColumns(t.columns) /\ t.room \in Nat \ {0} /\ Len(t.columns) <= t.room
        /\ Len(t.columns) \in Nat
    BY TreeIs, TreeParts
  <2> QED
    BY <2>1, Registered
<1>3. s = SetValue(r, n, column, value)
  BY DEF SetByName
<1> HIDE DEF r, column, s
<1>4. /\ IsTree(s) /\ s.columns = r.columns /\ Len(s.nodes) = Len(r.nodes)
      /\ \A m \in 1 .. Len(r.nodes), c \in 1 .. Len(r.columns) :
           ValueAt(s, m, c) = IF m = n /\ c = column THEN value ELSE ValueAt(r, m, c)
  BY <1>1, <1>3, SetValueTree
<1>5. \A x : Column(s, x) = Column(r, x)
  BY <1>4 DEF Column
<1>6. \A m, c : ValueAt(r, m, c) = ValueAt(t, m, c)
  BY <1>1 DEF ValueAt
<1>7. Column(r, name) = column /\ column # 0
  BY <1>1, <1>2 DEF column
<1>8. ASSUME NEW m \in 1 .. Len(t.nodes), NEW x \in Names
      PROVE  ValueOf(s, m, x) = IF m = n /\ x = name THEN value ELSE ValueOf(t, m, x)
  <2>1. CASE x = name
    <3>1. ValueOf(s, m, x) = IF m = n THEN value ELSE ValueAt(t, m, column)
      BY <1>1, <1>4, <1>5, <1>6, <1>7, <2>1 DEF ValueOf
    <3>2. CASE Column(t, name) # 0
      <4>1. Column(t, name) = column
        BY <1>2, <1>7, <3>2
      <4> QED
        BY <2>1, <3>1, <3>2, <4>1 DEF ValueOf
    <3>3. CASE Column(t, name) = 0
      <4>1. column \in Nat \ {0} /\ ~(column <= Len(t.columns))
        BY <1>2, <3>3
      <4>2. ValueAt(t, m, column) = None
        BY <4>1, ValueAtIs
      <4>3. ValueOf(t, m, x) = None
        BY <2>1, <3>3 DEF ValueOf
      <4> QED
        BY <2>1, <3>1, <4>2, <4>3
    <3> QED
      BY <3>2, <3>3
  <2>2. CASE x # name
    <3> DEFINE c == Column(t, x)
    <3>1. Column(s, x) = c /\ Column(r, x) = c
      BY <1>2, <1>5, <2>2
    <3>2. AreColumns(r.columns)
      BY <1>1, TreeIs
    <3>3. c \in 0 .. Len(r.columns) /\ (c # 0 => r.columns[c] = x) /\ r.columns[column] = name
      BY <1>7, <3>1, <3>2, ColumnIs
    <3>4. ValueOf(s, m, x) = IF c = 0 THEN None ELSE ValueAt(s, m, c)
      BY <3>1 DEF ValueOf
    <3>5. ValueOf(t, m, x) = IF c = 0 THEN None ELSE ValueAt(t, m, c)
      BY DEF ValueOf
    <3> HIDE DEF c
    <3>6. CASE c = 0
      BY <2>2, <3>4, <3>5, <3>6
    <3>7. CASE c # 0
      <4>1. c \in 1 .. Len(r.columns) /\ c # column /\ m \in 1 .. Len(r.nodes)
        BY <1>1, <1>2, <2>2, <3>3, <3>7
      <4>2. ValueAt(s, m, c) = ValueAt(t, m, c)
        BY <1>4, <1>6, <4>1
      <4> QED
        BY <2>2, <3>4, <3>5, <3>7, <4>2
    <3> QED
      BY <3>6, <3>7
  <2> QED
    BY <2>1, <2>2
<1>9. Len(s.nodes) = Len(t.nodes) /\ Column(s, name) # 0
  BY <1>1, <1>4, <1>5, <1>7
<1> QED
  BY <1>4, <1>8, <1>9 DEF s

\* Values that are read as the same are the same: no string is a byte string, and
\* none of them is nil.
LEMMA PushedIs ==
  ASSUME NEW v \in Seq(Characters) \cup {None}, v # None => IsFormatted(v),
         NEW w \in Seq(Characters) \cup {None}, w # None => IsFormatted(w),
         Pushed(v) = Pushed(w)
  PROVE  v = w
<1> DEFINE dv == SubSeq(v, 3, Len(v))
           dw == SubSeq(w, 3, Len(w))
<1>1. Pushed(v).is = IF v = None THEN "nil" ELSE IF v[1] = "t" THEN "string" ELSE "bytes"
  BY DEF Pushed
<1>2. Pushed(w).is = IF w = None THEN "nil" ELSE IF w[1] = "t" THEN "string" ELSE "bytes"
  BY DEF Pushed
<1>3. CASE v = None
  BY <1>1, <1>2, <1>3
<1>4. CASE v # None
  <2>1. w # None
    BY <1>1, <1>2, <1>4
  <2>2. /\ v \in Seq(Characters) /\ Len(v) \in Nat /\ Len(v) >= 2 /\ v[2] = ":"
        /\ w \in Seq(Characters) /\ Len(w) \in Nat /\ Len(w) >= 2 /\ w[2] = ":"
    BY <1>4, <2>1 DEF IsFormatted
  <2>3. v[1] = w[1] /\ dv = dw
    <3>1. CASE v[1] = "t"
      <4>1. w[1] = "t"
        BY <1>1, <1>2, <1>4, <2>1, <3>1
      <4>2. Pushed(v).text = dv /\ Pushed(w).text = dw
        BY <1>4, <2>1, <3>1, <4>1 DEF Pushed
      <4> QED
        BY <3>1, <4>1, <4>2
    <3>2. CASE v[1] # "t"
      <4>1. w[1] # "t"
        BY <1>1, <1>2, <1>4, <2>1, <3>2
      <4>2. /\ Pushed(v).digits = dv /\ Pushed(v).width = v[1]
            /\ Pushed(w).digits = dw /\ Pushed(w).width = w[1]
        BY <1>4, <2>1, <3>2, <4>1 DEF Pushed
      <4> QED
        BY <4>2
    <3> QED
      BY <3>1, <3>2
  <2>4. ASSUME NEW s \in Seq(Characters), Len(s) >= 2
        PROVE  Len(SubSeq(s, 3, Len(s))) = Len(s) - 2
               /\ \A i \in 1 .. Len(s) - 2 : SubSeq(s, 3, Len(s))[i] = s[i + 2]
    <3> DEFINE l == Len(s)
               k == 3
               d == SubSeq(s, k, l)
    <3>1. l \in Nat /\ l >= 2 /\ k = 3 /\ l - k + 1 = l - 2
      BY <2>4
    <3> HIDE DEF l, k
    <3>2. k \in 1 .. l + 1
      BY <3>1
    <3>3. Len(d) = l - k + 1 /\ \A i \in 1 .. l - k + 1 : d[i] = s[k + i - 1]
      BY <3>1, <3>2 DEF l
    <3>4. \A i \in 1 .. l - 2 : k + i - 1 = i + 2
      BY <3>1
    <3> HIDE DEF d
    <3>5. Len(d) = l - 2 /\ \A i \in 1 .. l - 2 : d[i] = s[i + 2]
      BY <3>1, <3>3, <3>4
    <3> QED
      BY <3>5 DEF d, l, k
  <2>5. /\ Len(dv) = Len(v) - 2 /\ \A i \in 1 .. Len(v) - 2 : dv[i] = v[i + 2]
        /\ Len(dw) = Len(w) - 2 /\ \A i \in 1 .. Len(w) - 2 : dw[i] = w[i + 2]
    BY <2>2, <2>4
  <2> HIDE DEF dv, dw
  <2>6. Len(v) = Len(w)
    BY <2>2, <2>3, <2>5
  <2>7. ASSUME NEW i \in 1 .. Len(v) PROVE v[i] = w[i]
    <3>1. CASE i > 2
      <4>1. i - 2 \in 1 .. Len(v) - 2 /\ i - 2 \in 1 .. Len(w) - 2 /\ (i - 2) + 2 = i
        BY <2>2, <2>6, <3>1
      <4> QED
        BY <2>3, <2>5, <4>1
    <3>2. CASE ~(i > 2)
      <4>1. i = 1 \/ i = 2
        BY <2>2, <3>2
      <4> QED
        BY <2>2, <2>3, <4>1
    <3> QED
      BY <3>1, <3>2
  <2>8. v \in [1 .. Len(v) -> Characters] /\ w \in [1 .. Len(v) -> Characters]
    BY <2>2, <2>6
  <2> QED
    BY <2>7, <2>8
<1> QED
  BY <1>3, <1>4

\* What the loop gives for a column.
Given(t, n, c) == [name |-> t.columns[c], value |-> Pushed(ValueAt(t, n, c))]

LEMMA LoopRuns ==
  ASSUME NEW t, IsTree(t), NEW n \in 1 .. Len(t.nodes)
  PROVE  \E g : /\ LoopOverAttributes(t, n) = g[Len(t.columns)]
                /\ \A c \in 0 .. Len(t.columns) :
                     g[c] \in Seq({Given(t, n, k) : k \in 1 .. Len(t.columns)})
                /\ g[0] = <<>>
                /\ \A c \in 1 .. Len(t.columns) :
                     g[c] = IF ValueAt(t, n, c) = None THEN g[c - 1]
                            ELSE Append(g[c - 1], Given(t, n, c))
<1> DEFINE N == Len(t.columns)
           V == Seq({Given(t, n, k) : k \in 1 .. N})
           Body(g) == [c \in 0 .. N |->
                         IF c = 0 THEN <<>>
                         ELSE IF ValueAt(t, n, c) = None THEN g[c - 1]
                         ELSE Append(g[c - 1], [name |-> t.columns[c], value |-> Pushed(ValueAt(t, n, c))])]
           step == [c \in 1 .. N |->
                      [d \in V |-> IF ValueAt(t, n, c) = None THEN d ELSE Append(d, Given(t, n, c))]]
           given == CHOOSE g : g = Body(g)
<1>1. N \in Nat
  BY TreeParts
<1>2. LoopOverAttributes(t, n) = given[N]
  BY DEF LoopOverAttributes
<1> HIDE DEF N
<1>3. <<>> \in V /\ \A c \in 1 .. N, d \in V : Append(d, Given(t, n, c)) \in V
  <2> DEFINE R == {Given(t, n, k) : k \in 1 .. N}
  <2>1. \A c \in 1 .. N : Given(t, n, c) \in R
    OBVIOUS
  <2> HIDE DEF R
  <2>2. <<>> \in Seq(R) /\ \A c \in 1 .. N, d \in Seq(R) : Append(d, Given(t, n, c)) \in Seq(R)
    BY <2>1
  <2> QED
    BY <2>2 DEF R
<1> HIDE DEF V
<1>4. step \in [1 .. N -> [V -> V]]
  BY <1>3
<1>5. \E g : g = Body(g)
  <2>1. PICK g \in [0 .. N -> V] : Runs(g, N, <<>>, step)
    <3> HIDE DEF step
    <3> QED
      BY <1>1, <1>3, <1>4, Recursion
  <2>2. \A c \in 0 .. N : g[c] = Body(g)[c]
    <3> TAKE c \in 0 .. N
    <3>1. CASE c = 0
      BY <2>1, <3>1 DEF Runs
    <3>2. CASE c # 0
      <4>1. c \in 1 .. N /\ c - 1 \in 0 .. N /\ g[c - 1] \in V
        BY <1>1, <3>2
      <4>2. g[c] = step[c][g[c - 1]]
        BY <2>1, <4>1 DEF Runs
      <4>3. g[c] = IF ValueAt(t, n, c) = None THEN g[c - 1] ELSE Append(g[c - 1], Given(t, n, c))
        BY <4>1, <4>2
      <4> QED
        BY <3>2, <4>3 DEF Given
    <3> QED
      BY <3>1, <3>2
  <2>3. g = [c \in 0 .. N |-> g[c]] /\ Body(g) = [c \in 0 .. N |-> Body(g)[c]]
    OBVIOUS
  <2>4. g = Body(g)
    <3> HIDE DEF Body
    <3> QED
      BY <2>2, <2>3
  <2> QED
    BY <2>4
<1>6. given = Body(given)
  <2> HIDE DEF Body
  <2> QED
    BY <1>5, Zenon
<1> HIDE DEF given
<1>7. /\ given[0] = <<>>
      /\ \A c \in 1 .. N : given[c] = IF ValueAt(t, n, c) = None THEN given[c - 1]
                                      ELSE Append(given[c - 1], Given(t, n, c))
  <2>1. given[0] = <<>>
    <3>1. 0 \in 0 .. N
      BY <1>1
    <3> QED
      BY <1>6, <3>1
  <2>2. ASSUME NEW c \in 1 .. N
        PROVE  given[c] = IF ValueAt(t, n, c) = None THEN given[c - 1]
                          ELSE Append(given[c - 1], Given(t, n, c))
    <3>1. c \in 0 .. N /\ c # 0
      BY <1>1
    <3> QED
      BY <1>6, <3>1 DEF Given
  <2> QED
    BY <2>1, <2>2
<1>8. \A c \in 0 .. N : given[c] \in V
  <2>1. \A c \in 1 .. N : given[c - 1] \in V => given[c] = step[c][given[c - 1]]
    BY <1>7
  <2> HIDE DEF step
  <2> QED
    BY <1>1, <1>3, <1>4, <1>7, <2>1, RunsAre
<1> HIDE DEF step
<1> QED
  BY <1>2, <1>7, <1>8, Zenon DEF V, N

\* The loop gives each attribute that has a value once.
LEMMA LoopIs ==
  ASSUME NEW t, IsTree(t), NEW n \in 1 .. Len(t.nodes)
  PROVE  LET loop == LoopOverAttributes(t, n)
         IN  /\ IsInjective([i \in DOMAIN loop |-> loop[i].name])
             /\ ToSet(loop) = {[name |-> x, value |-> GetAttribute(t, n, x)] :
                                 x \in {x \in Names : ValueOf(t, n, x) # None}}
<1> DEFINE N == Len(t.columns)
           R == {Given(t, n, k) : k \in 1 .. N}
           loop == LoopOverAttributes(t, n)
           Upto(c) == {Given(t, n, k) : k \in {k \in 1 .. c : ValueAt(t, n, k) # None}}
           Differ(d) == \A i, j \in 1 .. Len(d) : d[i].name = d[j].name => i = j
<1>1. N \in Nat /\ t.columns \in Seq(Names) /\ AreColumns(t.columns)
  BY TreeParts, TreeIs
<1>2. PICK g : /\ loop = g[N] /\ g[0] = <<>>
               /\ \A c \in 0 .. N : g[c] \in Seq(R)
               /\ \A c \in 1 .. N : g[c] = IF ValueAt(t, n, c) = None THEN g[c - 1]
                                           ELSE Append(g[c - 1], Given(t, n, c))
  <2>1. \E g : /\ loop = g[N]
               /\ \A c \in 0 .. N : g[c] \in Seq(R)
               /\ g[0] = <<>>
               /\ \A c \in 1 .. N : g[c] = IF ValueAt(t, n, c) = None THEN g[c - 1]
                                           ELSE Append(g[c - 1], Given(t, n, c))
    BY LoopRuns
  <2> QED
    BY <2>1, Zenon
<1> HIDE DEF R, loop
<1> DEFINE S == {c \in Nat : c <= N => ToSet(g[c]) = Upto(c) /\ Differ(g[c])}
<1>3. 0 \in S
  <2>1. ToSet(g[0]) = {} /\ Len(g[0]) = 0
    BY <1>2 DEF ToSet
  <2>2. Upto(0) = {}
    OBVIOUS
  <2>3. Differ(g[0])
    BY <2>1
  <2> QED
    BY <2>1, <2>2, <2>3
<1>4. ASSUME NEW c \in Nat, c \in S PROVE c + 1 \in S
  <2> SUFFICES ASSUME c + 1 <= N PROVE ToSet(g[c + 1]) = Upto(c + 1) /\ Differ(g[c + 1])
    OBVIOUS
  <2> DEFINE d == g[c]
             e == Given(t, n, c + 1)
  <2>1. c + 1 \in 1 .. N /\ c \in 0 .. N /\ (c + 1) - 1 = c
    BY <1>1
  <2>2. ToSet(d) = Upto(c) /\ Differ(d) /\ d \in Seq(R) /\ Len(d) \in Nat /\ DOMAIN d = 1 .. Len(d)
    <3>1. ToSet(d) = Upto(c) /\ Differ(d)
      BY <1>4, <2>1
    <3>2. d \in Seq(R)
      BY <1>2, <2>1
    <3> QED
      BY <3>1, <3>2
  <2>3. g[c + 1] = IF ValueAt(t, n, c + 1) = None THEN d ELSE Append(d, e)
    BY <1>2, <2>1
  <2>4. CASE ValueAt(t, n, c + 1) = None
    <3>1. Upto(c + 1) = Upto(c)
      <4>1. {k \in 1 .. c + 1 : ValueAt(t, n, k) # None} = {k \in 1 .. c : ValueAt(t, n, k) # None}
        BY <2>4
      <4> QED
        BY <4>1
    <3> HIDE DEF Upto, Differ
    <3> QED
      BY <2>2, <2>3, <2>4, <3>1
  <2>5. CASE ValueAt(t, n, c + 1) # None
    <3> DEFINE a == Append(d, e)
    <3>1. e \in R
      BY <2>1 DEF R
    <3>2. Len(a) = Len(d) + 1 /\ DOMAIN a = 1 .. Len(d) + 1 /\ a[Len(d) + 1] = e
          /\ \A i \in 1 .. Len(d) : a[i] = d[i]
      <4> HIDE DEF d, e
      <4> QED
        BY <2>2, <3>1
    <3>3. g[c + 1] = a
      BY <2>3, <2>5
    <3> HIDE DEF a
    <3>4. Upto(c + 1) = Upto(c) \cup {e}
      <4>1. {k \in 1 .. c + 1 : ValueAt(t, n, k) # None} =
              {k \in 1 .. c : ValueAt(t, n, k) # None} \cup {c + 1}
        BY <2>5
      <4> QED
        BY <4>1
    <3>5. ToSet(a) = ToSet(d) \cup {e}
      <4> HIDE DEF d, e
      <4>1. ToSet(a) = {a[i] : i \in 1 .. Len(d) + 1} /\ ToSet(d) = {d[i] : i \in 1 .. Len(d)}
        BY <2>2, <3>2 DEF ToSet
      <4>2. 1 .. Len(d) + 1 = (1 .. Len(d)) \cup {Len(d) + 1}
        BY <2>2
      <4> QED
        BY <3>2, <4>1, <4>2
    <3>6. ASSUME NEW i \in 1 .. Len(d) PROVE d[i].name # e.name
      <4>1. d[i] \in ToSet(d)
        BY <2>2 DEF ToSet
      <4>2. PICK k \in 1 .. c : d[i] = Given(t, n, k)
        BY <2>2, <4>1
      <4>3. k \in DOMAIN t.columns /\ c + 1 \in DOMAIN t.columns /\ k # c + 1
        BY <1>1, <2>1
      <4>4. t.columns[k] # t.columns[c + 1]
        BY <1>1, <4>3 DEF AreColumns, IsInjective
      <4> QED
        BY <4>2, <4>4 DEF Given
    <3>7. Differ(a)
      <4> SUFFICES ASSUME NEW i \in 1 .. Len(d) + 1, NEW j \in 1 .. Len(d) + 1,
                          a[i].name = a[j].name
                   PROVE  i = j
        BY <3>2
      <4> HIDE DEF d, e
      <4>1. CASE i \in 1 .. Len(d) /\ j \in 1 .. Len(d)
        BY <2>2, <3>2, <4>1
      <4>2. CASE i = Len(d) + 1 /\ j = Len(d) + 1
        BY <4>2
      <4>3. CASE i \in 1 .. Len(d) /\ j = Len(d) + 1
        BY <3>2, <3>6, <4>3
      <4>4. CASE i = Len(d) + 1 /\ j \in 1 .. Len(d)
        BY <3>2, <3>6, <4>4
      <4> QED
        BY <2>2, <4>1, <4>2, <4>3, <4>4
    <3> HIDE DEF Upto, Differ
    <3> QED
      BY <2>2, <3>3, <3>4, <3>5, <3>7
  <2> QED
    BY <2>4, <2>5
<1>5. N \in S
  <2> HIDE DEF S
  <2> QED
    BY <1>1, <1>3, <1>4, NatSetInduction
<1>6. ToSet(loop) = Upto(N) /\ Differ(loop)
  BY <1>1, <1>2, <1>5
<1>7. DOMAIN loop = 1 .. Len(loop)
  <2>1. loop \in Seq(R)
    BY <1>1, <1>2
  <2> QED
    BY <2>1
<1>8. IsInjective([i \in DOMAIN loop |-> loop[i].name])
  BY <1>6, <1>7 DEF IsInjective
<1> HIDE DEF S
<1> DEFINE Read(x) == [name |-> x, value |-> GetAttribute(t, n, x)]
           names == {x \in Names : ValueOf(t, n, x) # None}
<1>9. ASSUME NEW k \in 1 .. N, ValueAt(t, n, k) # None
      PROVE  t.columns[k] \in names /\ Given(t, n, k) = Read(t.columns[k])
  <2>1. t.columns[k] \in Names /\ Column(t, t.columns[k]) = k /\ k # 0
    BY <1>1, ColumnIs
  <2>2. ValueOf(t, n, t.columns[k]) = ValueAt(t, n, k)
    BY <2>1 DEF ValueOf
  <2> QED
    BY <1>9, <2>1, <2>2 DEF Given, GetAttribute
<1>10. ASSUME NEW x \in names
       PROVE  \E k \in 1 .. N : ValueAt(t, n, k) # None /\ t.columns[k] = x
  <2> DEFINE k == Column(t, x)
  <2>1. ValueOf(t, n, x) = IF k = 0 THEN None ELSE ValueAt(t, n, k)
    BY DEF ValueOf
  <2>2. k \in 0 .. N /\ (k # 0 => t.columns[k] = x)
    BY <1>1, ColumnIs
  <2> HIDE DEF k
  <2>3. k # 0 /\ ValueAt(t, n, k) # None
    BY <2>1
  <2>4. k \in 1 .. N
    BY <1>1, <2>2, <2>3
  <2> QED
    BY <2>2, <2>3, <2>4
<1>11. Upto(N) = {Read(x) : x \in names}
  <2> HIDE DEF Read, names
  <2>1. \A y \in Upto(N) : y \in {Read(x) : x \in names}
    BY <1>9
  <2>2. \A x \in names : Read(x) \in Upto(N)
    BY <1>9, <1>10
  <2> QED
    BY <2>1, <2>2
<1> QED
  BY <1>6, <1>8, <1>11 DEF loop

\* The search for an attribute finds the first node that has it.
LEMMA FindFirstIs ==
  ASSUME NEW t, IsTree(t), NEW name \in Names, Column(t, name) # 0,
         NEW value \in Seq(Characters), NEW p \in 1 .. Len(t.nodes),
         NEW n \in p .. EndOf(t, p), ValueOf(t, n, name) = value
  PROVE  LET found == FindFirst(t, p, {[name |-> name, value |-> value]})
         IN  /\ found \in p .. n
             /\ \A m \in p .. n : ValueOf(t, m, name) = value => found <= m
<1> DEFINE a == [name |-> name, value |-> value]
           e == EndOf(t, p)
           f == [m \in DOMAIN t.nodes |-> Matches(t, m, {a})]
           I == {m \in p .. e : f[m]}
<1>1. Len(t.nodes) \in Nat /\ DOMAIN t.nodes = 1 .. Len(t.nodes) /\ t.nodes # <<>>
  BY TreeParts
<1>2. e \in p .. Len(t.nodes) /\ p \in Nat \ {0}
  <2>1. p \in 0 .. Len(t.nodes)
    BY <1>1
  <2> QED
    BY <2>1, EndOfIs
<1> HIDE DEF e
<1>3. \A m : Matches(t, m, {a}) <=> ValueOf(t, m, name) = value
  BY DEF Matches, ValueOf
<1>4. HasColumns(t, {a})
  BY DEF HasColumns
<1>5. FindFirst(t, p, {a}) = FirstMatch(t, p, {a})
  BY <1>1, <1>2, <1>4 DEF FindFirst
<1>6. FirstMatch(t, p, {a}) = IF I # {} THEN Min(I) ELSE 0
  BY DEF FirstMatch, SelectInSubSeq, e
<1>7. I = {m \in p .. e : ValueOf(t, m, name) = value}
  <2>1. \A m \in p .. e : m \in DOMAIN t.nodes
    BY <1>1, <1>2
  <2>2. \A m \in p .. e : f[m] = Matches(t, m, {a})
    BY <2>1
  <2> HIDE DEF f
  <2> QED
    BY <1>3, <2>2
<1> HIDE DEF I
<1>8. I \in SUBSET Nat /\ n \in I
  BY <1>2, <1>7 DEF e
<1>9. Min(I) \in I /\ \A y \in I : Min(I) <= y
  BY <1>8, MinIs
<1>10. Min(I) \in p .. n
  <2>1. Min(I) \in p .. e /\ Min(I) <= n /\ n \in Nat
    BY <1>7, <1>8, <1>9
  <2> QED
    BY <1>2, <2>1
<1>11. ASSUME NEW m \in p .. n, ValueOf(t, m, name) = value PROVE Min(I) <= m
  <2>1. m \in p .. e
    BY <1>2, <1>11 DEF e
  <2>2. m \in I
    BY <1>7, <1>11, <2>1
  <2> QED
    BY <1>9, <2>2
<1>12. FindFirst(t, p, {a}) = Min(I)
  BY <1>5, <1>6, <1>8
<1> QED
  BY <1>10, <1>11, <1>12

LEMMA SetsReadBack ==
  ASSUME IsTree(tree), NEW n \in Places \ {0}, NEW name \in Names, NEW v \in Values \cup {None},
         Sets(n, name, v)
  PROVE  ReadsBack(n, name, v)
<1>1. Len(tree.nodes) \in Nat /\ Places \ {0} = 1 .. Len(tree.nodes)
  BY TreeParts DEF Places
<1>2. v \in Seq(Characters) \cup {None} /\ (v # None => IsFormatted(v) /\ v \in Seq(Characters))
  BY ValuesAre
<1>3. tree' = SetByName(tree, n, name, v)
  BY DEF Sets
<1>4. /\ IsTree(tree') /\ Len(tree'.nodes) = Len(tree.nodes) /\ Column(tree', name) # 0
      /\ \A m \in 1 .. Len(tree.nodes), x \in Names :
           ValueOf(tree', m, x) = IF m = n /\ x = name THEN v ELSE ValueOf(tree, m, x)
  BY <1>1, <1>2, <1>3, SetByNameReads
<1>5. \A m \in Places \ {0}, x \in Names :
        GetAttribute(tree', m, x) =
          IF m = n /\ x = name THEN Pushed(v) ELSE GetAttribute(tree, m, x)
  BY <1>1, <1>4 DEF GetAttribute
<1>6. n \in 1 .. Len(tree'.nodes) /\ n \in Nat
  BY <1>1, <1>4
<1>7. LET loop == LoopOverAttributes(tree', n)
      IN  /\ IsInjective([i \in DOMAIN loop |-> loop[i].name])
          /\ ToSet(loop) = {[name |-> x, value |-> GetAttribute(tree', n, x)] :
                              x \in {x \in Names : ValueOf(tree', n, x) # None}}
  BY <1>4, <1>6, LoopIs
<1>8. ASSUME v # None, NEW p \in 1 .. n, n <= EndOf(tree', p)
      PROVE  LET found == FindFirst(tree', p, {[name |-> name, value |-> v]})
             IN  /\ found \in p .. n
                 /\ \A m \in p .. n : GetAttribute(tree', m, name) = Pushed(v) => found <= m
  <2> DEFINE found == FindFirst(tree', p, {[name |-> name, value |-> v]})
  <2>1. p \in 1 .. Len(tree'.nodes) /\ p \in 0 .. Len(tree'.nodes) /\ Len(tree'.nodes) \in Nat
    BY <1>1, <1>4, <1>6
  <2>2. EndOf(tree', p) \in p .. Len(tree'.nodes)
    BY <1>4, <2>1, EndOfIs
  <2>3. n \in p .. EndOf(tree', p)
    BY <1>6, <1>8, <2>1, <2>2
  <2>4. ValueOf(tree', n, name) = v
    BY <1>1, <1>4
  <2>5. found \in p .. n /\ \A m \in p .. n : ValueOf(tree', m, name) = v => found <= m
    BY <1>2, <1>4, <1>8, <2>1, <2>3, <2>4, FindFirstIs
  <2> HIDE DEF found
  <2>6. ASSUME NEW m \in p .. n, GetAttribute(tree', m, name) = Pushed(v) PROVE found <= m
    <3>1. m \in 1 .. Len(tree'.nodes)
      BY <1>6, <2>1
    <3>2. /\ ValueOf(tree', m, name) \in Seq(Characters) \cup {None}
          /\ ValueOf(tree', m, name) # None => IsFormatted(ValueOf(tree', m, name))
      BY <1>4, <3>1, ValueOfIs
    <3>3. Pushed(ValueOf(tree', m, name)) = Pushed(v)
      BY <2>6 DEF GetAttribute
    <3>4. ValueOf(tree', m, name) = v
      BY <1>2, <3>2, <3>3, PushedIs
    <3> QED
      BY <2>5, <3>4
  <2> QED
    BY <2>5, <2>6 DEF found
<1> QED
  BY <1>5, <1>7, <1>8 DEF ReadsBack

\* What a script sets it reads back, and nothing else that it reads changes; the
\* loop over the attributes gives each once, and the search finds the first node
\* that has the attribute.
THEOREM AttributesReadBack == Spec => ScriptsReadBack
<1> DEFINE Promise ==
      Len(tree'.nodes) = Len(tree.nodes) /\ UNCHANGED <<file, saved, text, source>> =>
        \A n \in Places \ {0}, name \in Names, v \in Values \cup {None} :
          Sets(n, name, v) => ReadsBack(n, name, v)
<1>1. DocumentTypeOK /\ [Next]_vars => [Promise]_vars
  BY SetsReadBack DEF DocumentTypeOK
<1> QED
  BY <1>1, DocumentTyped, PTL DEF Spec, ScriptsReadBack

-------------------------------------------------------------------------------
(***************************************************************************)
(* What the steps of the parser leave to be read.                          *)
(***************************************************************************)
\* The node i of r reads as the node n of t does.
Same(r, i, t, n) ==
  /\ r.nodes[i].depth = t.nodes[n].depth
  /\ \A x \in Names : ValueOf(r, i, x) = ValueOf(t, n, x)

LEMMA AppendReads ==
  ASSUME NEW t, IsTree(t), NEW p \in 0 .. Len(t.nodes)
  PROVE  LET a == AppendNode(t, p)
             at == EndOf(t, p) + 1
         IN  /\ IsTree(a) /\ Len(a.nodes) = Len(t.nodes) + 1 /\ at \in 1 .. Len(a.nodes)
             /\ \A i \in 1 .. at - 1 : Same(a, i, t, i)
             /\ \A i \in at .. Len(t.nodes) : Same(a, i + 1, t, i)
             /\ a.nodes[at].depth = DepthOf(t, p) + 1
             /\ \A x \in Names : ValueOf(a, at, x) = None
<1> DEFINE a == AppendNode(t, p)
           at == EndOf(t, p) + 1
           new == NewNode(DepthOf(t, p) + 1)
<1>1. /\ IsTree(a) /\ a.columns = t.columns
      /\ Len(a.nodes) = Len(t.nodes) + 1 /\ at \in 1 .. Len(a.nodes)
      /\ a.nodes[at] = new
      /\ \A k \in 1 .. Len(a.nodes) :
           k # at => a.nodes[k] = t.nodes[IF k < at THEN k ELSE k - 1]
  BY AppendNodeTree
<1>2. Len(t.nodes) \in Nat
  BY TreeParts
<1>3. new.depth = DepthOf(t, p) + 1 /\ new.values = [c \in 1 .. NodeSlots |-> None]
  BY DEF NewNode
<1>4. NodeSlots \in Nat
  BY DocumentAssumption
<1>5. AreColumns(t.columns)
  BY TreeIs
<1> HIDE DEF a, at, new
<1>6. \A x : Column(a, x) = Column(t, x)
  BY <1>1 DEF Column
<1>7. ASSUME NEW i, NEW n, a.nodes[i] = t.nodes[n] PROVE Same(a, i, t, n)
  BY <1>6, <1>7 DEF Same, ValueOf, ValueAt
<1>8. ASSUME NEW i \in 1 .. at - 1 PROVE Same(a, i, t, i)
  <2>1. i \in 1 .. Len(a.nodes) /\ i # at /\ i < at
    BY <1>1, <1>2
  <2>2. a.nodes[i] = t.nodes[i]
    BY <1>1, <2>1
  <2> QED
    BY <1>7, <2>2
<1>9. ASSUME NEW i \in at .. Len(t.nodes) PROVE Same(a, i + 1, t, i)
  <2>1. i + 1 \in 1 .. Len(a.nodes) /\ i + 1 # at /\ ~(i + 1 < at) /\ (i + 1) - 1 = i
    BY <1>1, <1>2
  <2>2. a.nodes[i + 1] = t.nodes[i]
    BY <1>1, <2>1
  <2> QED
    BY <1>7, <2>2
<1>10. ASSUME NEW x \in Names PROVE ValueOf(a, at, x) = None
  <2> DEFINE c == Column(a, x)
             values == [d \in 1 .. NodeSlots |-> None]
  <2>1. Len(values) = NodeSlots
    BY <1>4
  <2>2. c \in Nat
    BY <1>5, <1>6, ColumnIs, TreeParts
  <2>3. ValueOf(a, at, x) = IF c = 0 THEN None ELSE IF c <= NodeSlots THEN values[c] ELSE None
    BY <1>1, <1>3, <2>1 DEF ValueOf, ValueAt
  <2> HIDE DEF c
  <2> QED
    BY <1>4, <2>2, <2>3
<1> QED
  BY <1>1, <1>3, <1>8, <1>9, <1>10 DEF a, at

LEMMA RegisterReads ==
  ASSUME NEW t, IsTree(t), NEW name \in Names
  PROVE  LET r == Register(t, name)
         IN  /\ IsTree(r) /\ r.nodes = t.nodes
             /\ Column(r, name) \in 1 .. Len(r.columns) /\ r.columns[Column(r, name)] = name
             /\ \A n \in 1 .. Len(t.nodes) : Same(r, n, t, n)
<1> DEFINE r == Register(t, name)
<1>1. IsTree(r) /\ r.nodes = t.nodes /\ Column(r, name) \in 1 .. Len(r.columns)
  BY RegisterTree
<1>2. /\ \A x : x # name => Column(r, x) = Column(t, x)
      /\ Column(t, name) # 0 => r = t
      /\ Column(t, name) = 0 => Column(r, name) = Len(t.columns) + 1
  <2>1. t \in Trees /\ AreColumns(t.columns) /\ t.room \in Nat \ {0} /\ Len(t.columns) <= t.room
        /\ Len(t.columns) \in Nat
    BY TreeIs, TreeParts
  <2> QED
    BY <2>1, Registered
<1>3. Len(t.columns) \in Nat /\ Len(r.columns) \in Nat
  BY <1>1, TreeParts
<1> HIDE DEF r
<1>4. r.columns[Column(r, name)] = name
  <2>1. AreColumns(r.columns) /\ Column(r, name) # 0
    BY <1>1, <1>3, TreeIs
  <2> QED
    BY <2>1, ColumnIs
<1>5. \A m, c : ValueAt(r, m, c) = ValueAt(t, m, c)
  BY <1>1 DEF ValueAt
<1>6. ASSUME NEW n \in 1 .. Len(t.nodes), NEW x \in Names PROVE ValueOf(r, n, x) = ValueOf(t, n, x)
  <2>1. CASE x # name
    BY <1>2, <1>5, <2>1 DEF ValueOf
  <2>2. CASE x = name /\ Column(t, name) # 0
    BY <1>2, <2>2
  <2>3. CASE x = name /\ Column(t, name) = 0
    <3> DEFINE c == Column(r, name)
    <3>1. c \in Nat \ {0} /\ ~(c <= Len(t.columns))
      BY <1>2, <1>3, <2>3
    <3>2. ValueOf(t, n, x) = None /\ ValueOf(r, n, x) = ValueAt(t, n, c)
      BY <1>5, <2>3, <3>1 DEF ValueOf
    <3> HIDE DEF c
    <3>3. ValueAt(t, n, c) = None
      BY <3>1, ValueAtIs
    <3> QED
      BY <3>2, <3>3
  <2> QED
    BY <2>1, <2>2, <2>3
<1>7. \A n \in 1 .. Len(t.nodes) : Same(r, n, t, n)
  BY <1>1, <1>6 DEF Same
<1> QED
  BY <1>1, <1>4, <1>7 DEF r

LEMMA SetReads ==
  ASSUME NEW t, IsTree(t), NEW n \in 1 .. Len(t.nodes), NEW column \in 1 .. Len(t.columns),
         NEW value \in Seq(Characters) \cup {None}, value # None => IsFormatted(value)
  PROVE  LET s == SetValue(t, n, column, value)
         IN  /\ IsTree(s) /\ s.columns = t.columns /\ Len(s.nodes) = Len(t.nodes)
             /\ \A m \in 1 .. Len(t.nodes) : m # n => Same(s, m, t, m)
             /\ s.nodes[n].depth = t.nodes[n].depth
             /\ \A x \in Names :
                  ValueOf(s, n, x) = IF x = t.columns[column] THEN value ELSE ValueOf(t, n, x)
<1> DEFINE s == SetValue(t, n, column, value)
<1>1. /\ IsTree(s) /\ s.columns = t.columns /\ Len(s.nodes) = Len(t.nodes)
      /\ \A m \in 1 .. Len(t.nodes) : s.nodes[m].depth = t.nodes[m].depth
      /\ \A m \in 1 .. Len(t.nodes), c \in 1 .. Len(t.columns) :
           ValueAt(s, m, c) = IF m = n /\ c = column THEN value ELSE ValueAt(t, m, c)
  <2>1. s = SetValue(t, n, column, value)
    OBVIOUS
  <2> HIDE DEF s
  <2> QED
    BY <2>1, SetValueTree
<1> HIDE DEF s
<1>2. \A x : Column(s, x) = Column(t, x)
  BY <1>1 DEF Column
<1>3. AreColumns(t.columns) /\ Len(t.columns) \in Nat
  BY TreeIs, TreeParts
<1>4. ASSUME NEW m \in 1 .. Len(t.nodes), NEW x \in Names
      PROVE  ValueOf(s, m, x) = IF m = n /\ x = t.columns[column] THEN value ELSE ValueOf(t, m, x)
  <2> DEFINE c == Column(t, x)
  <2>1. c \in 0 .. Len(t.columns) /\ (c # 0 => t.columns[c] = x) /\ (t.columns[column] = x => c = column)
    BY <1>3, ColumnIs
  <2>2. /\ ValueOf(s, m, x) = IF c = 0 THEN None ELSE ValueAt(s, m, c)
        /\ ValueOf(t, m, x) = IF c = 0 THEN None ELSE ValueAt(t, m, c)
    BY <1>2 DEF ValueOf
  <2> HIDE DEF c
  <2>3. CASE c = 0
    BY <1>3, <2>1, <2>2, <2>3
  <2>4. CASE c # 0
    <3>1. c \in 1 .. Len(t.columns)
      BY <1>3, <2>1, <2>4
    <3>2. ValueAt(s, m, c) = IF m = n /\ c = column THEN value ELSE ValueAt(t, m, c)
      BY <1>1, <3>1
    <3>3. c = column <=> x = t.columns[column]
      BY <2>1, <2>4
    <3> QED
      BY <2>2, <2>4, <3>2, <3>3
  <2> QED
    BY <2>3, <2>4
<1>5. \A m \in 1 .. Len(t.nodes) : m # n => Same(s, m, t, m)
  BY <1>1, <1>4 DEF Same
<1> QED
  BY <1>1, <1>4, <1>5 DEF s

-------------------------------------------------------------------------------
(***************************************************************************)
(* What the parser makes of one event after the other.                     *)
(***************************************************************************)
\* From any context in A the events lead to one in B, by way of G.
Takes(A, events, G, B) ==
  \A c \in A : \E g \in [0 .. Len(events) -> G] : Parses(g, c, events) /\ g[Len(events)] \in B

\* There is one way only to parse events, and it is as long as they are.
LEMMA ParsesOne ==
  ASSUME NEW c, NEW events \in Seq(Events), NEW l \in 0 .. Len(events), NEW g, NEW h,
         Parses(g, c, events), Parses(h, c, SubSeq(events, 1, l))
  PROVE  \A i \in 0 .. l : g[i] = h[i]
<1> DEFINE S == {i \in Nat : i <= l => g[i] = h[i]}
           first == SubSeq(events, 1, l)
<1>1. l \in Nat /\ Len(events) \in Nat /\ l <= Len(events)
  OBVIOUS
<1>2. Len(first) = l /\ \A i \in 1 .. l : first[i] = events[i]
  BY <1>1
<1> HIDE DEF first
<1>3. 0 \in S
  BY DEF Parses
<1>4. ASSUME NEW i \in Nat, i \in S PROVE i + 1 \in S
  <2> SUFFICES ASSUME i + 1 <= l PROVE g[i + 1] = h[i + 1]
    OBVIOUS
  <2>1. i + 1 \in 1 .. l /\ i + 1 \in 1 .. Len(events) /\ (i + 1) - 1 = i
    BY <1>1
  <2>2. g[i + 1] = Step(g[i], events[i + 1])
    BY <2>1 DEF Parses
  <2>3. h[i + 1] = Step(h[i], first[i + 1])
    BY <1>2, <2>1 DEF Parses, first
  <2>4. g[i] = h[i]
    BY <1>1, <1>4
  <2> QED
    BY <1>2, <2>1, <2>2, <2>3, <2>4
<1>5. \A i \in Nat : i \in S
  <2> HIDE DEF S
  <2> QED
    BY <1>3, <1>4, NatSetInduction
<1> QED
  BY <1>1, <1>5

\* Every event leads from the contexts of its place to those of the next.
LEMMA TakesSteps ==
  ASSUME NEW G \in SUBSET Contexts, NEW events \in Seq(Events), NEW n \in Nat, n = Len(events),
         NEW J \in [0 .. n -> SUBSET G],
         \A i \in 1 .. n : \A c \in J[i - 1] : Step(c, events[i]) \in J[i]
  PROVE  Takes(J[0], events, G, J[n])
<1> SUFFICES ASSUME NEW c \in J[0]
             PROVE  \E g \in [0 .. n -> G] : Parses(g, c, events) /\ g[n] \in J[n]
  BY DEF Takes
<1>1. PICK g \in [0 .. n -> Contexts] : Parses(g, c, events)
  <2>1. c \in Contexts
    <3>1. J[0] \in SUBSET G
      OBVIOUS
    <3> QED
      BY <3>1
  <2> QED
    BY <2>1, ParsesSome
<1> DEFINE S == {i \in Nat : i <= n => g[i] \in J[i]}
<1>2. 0 \in S
  BY <1>1 DEF Parses
<1>3. ASSUME NEW i \in Nat, i \in S PROVE i + 1 \in S
  <2> SUFFICES ASSUME i + 1 <= n PROVE g[i + 1] \in J[i + 1]
    OBVIOUS
  <2>1. i + 1 \in 1 .. n /\ (i + 1) - 1 = i /\ g[i] \in J[i]
    BY <1>3
  <2>2. g[i + 1] = Step(g[i], events[i + 1])
    BY <1>1, <2>1 DEF Parses
  <2> QED
    BY <2>1, <2>2
<1>4. \A i \in Nat : i \in S
  <2> HIDE DEF S
  <2> QED
    BY <1>2, <1>3, NatSetInduction
<1>5. ASSUME NEW i \in 0 .. n PROVE g[i] \in G
  <2>1. g[i] \in J[i] /\ J[i] \in SUBSET G
    BY <1>4
  <2> QED
    BY <2>1
<1>6. g = [i \in 0 .. n |-> g[i]]
  BY <1>1
<1>7. g \in [0 .. n -> G]
  BY <1>5, <1>6
<1>8. g[n] \in J[n]
  BY <1>4
<1> QED
  BY <1>1, <1>7, <1>8

LEMMA TakesOne ==
  ASSUME NEW G \in SUBSET Contexts, NEW A \in SUBSET G, NEW B \in SUBSET G, NEW e \in Events,
         \A c \in A : Step(c, e) \in B
  PROVE  Takes(A, <<e>>, G, B)
<1> DEFINE J == [i \in 0 .. 1 |-> IF i = 0 THEN A ELSE B]
           events == <<e>>
<1>1. J \in [0 .. 1 -> SUBSET G] /\ J[0] = A /\ J[1] = B
  OBVIOUS
<1>2. events \in Seq(Events) /\ 1 = Len(events) /\ events[1] = e
  OBVIOUS
<1> HIDE DEF J, events
<1>3. \A i \in 1 .. 1 : \A c \in J[i - 1] : Step(c, events[i]) \in J[i]
  <2>1. \A i \in 1 .. 1 : i = 1 /\ i - 1 = 0
    OBVIOUS
  <2> QED
    BY <1>1, <1>2, <2>1
<1>4. Takes(J[0], events, G, J[1])
  BY <1>1, <1>2, <1>3, TakesSteps
<1> QED
  BY <1>1, <1>4 DEF events

LEMMA TakesJoin ==
  ASSUME NEW G, NEW A, NEW B, NEW C, NEW e \in Seq(Events), NEW f \in Seq(Events),
         Takes(A, e, G, B), Takes(B, f, G, C)
  PROVE  Takes(A, e \o f, G, C)
<1> DEFINE n == Len(e)
           l == Len(f)
           ef == e \o f
<1>1. n \in Nat /\ l \in Nat
  OBVIOUS
<1>2. /\ Len(ef) = n + l
      /\ \A i \in 1 .. n : ef[i] = e[i]
      /\ \A i \in n + 1 .. n + l : ef[i] = f[i - n]
  BY <1>1
<1> SUFFICES ASSUME NEW c \in A
             PROVE  \E k \in [0 .. n + l -> G] : Parses(k, c, ef) /\ k[n + l] \in C
  BY <1>2 DEF Takes
<1>3. PICK g \in [0 .. n -> G] : Parses(g, c, e) /\ g[n] \in B
  BY DEF Takes
<1>4. PICK h \in [0 .. l -> G] : Parses(h, g[n], f) /\ h[l] \in C
  BY <1>3 DEF Takes
<1>5. /\ g[0] = c /\ \A i \in 1 .. n : g[i] = Step(g[i - 1], e[i])
      /\ h[0] = g[n] /\ \A i \in 1 .. l : h[i] = Step(h[i - 1], f[i])
  BY <1>3, <1>4 DEF Parses
<1> HIDE DEF n, l, ef
<1> DEFINE k == [i \in 0 .. n + l |-> IF i <= n THEN g[i] ELSE h[i - n]]
<1>6. k \in [0 .. n + l -> G]
  <2>1. ASSUME NEW i \in 0 .. n + l PROVE (IF i <= n THEN g[i] ELSE h[i - n]) \in G
    <3>1. CASE i <= n
      <4>1. i \in 0 .. n
        BY <1>1, <3>1
      <4> QED
        BY <1>3, <3>1, <4>1
    <3>2. CASE ~(i <= n)
      <4>1. i - n \in 0 .. l
        BY <1>1, <3>2
      <4> QED
        BY <1>4, <3>2, <4>1
    <3> QED
      BY <3>1, <3>2
  <2> QED
    BY <2>1
<1>7. k[0] = c
  BY <1>1, <1>5
<1>8. ASSUME NEW i \in 1 .. n + l PROVE k[i] = Step(k[i - 1], ef[i])
  <2>1. i \in 0 .. n + l /\ i - 1 \in 0 .. n + l
    BY <1>1
  <2>2. CASE i <= n
    <3>1. i \in 1 .. n /\ i - 1 <= n
      BY <1>1, <2>2
    <3>2. k[i] = g[i] /\ k[i - 1] = g[i - 1]
      BY <2>1, <2>2, <3>1
    <3> HIDE DEF k
    <3> QED
      BY <1>2, <1>5, <3>1, <3>2
  <2>3. CASE i = n + 1
    <3>1. ~(i <= n) /\ i - n = 1 /\ i - 1 = n /\ i - 1 <= n /\ 1 \in 1 .. l /\ i \in n + 1 .. n + l
      BY <1>1, <2>3
    <3>2. k[i] = h[1] /\ k[i - 1] = g[n]
      BY <2>1, <3>1
    <3> HIDE DEF k
    <3>3. h[1] = Step(h[1 - 1], f[1]) /\ 1 - 1 = 0
      BY <1>5, <3>1
    <3> QED
      BY <1>2, <1>5, <3>1, <3>2, <3>3
  <2>4. CASE i > n + 1
    <3>1. ~(i <= n) /\ ~(i - 1 <= n) /\ i - n \in 1 .. l /\ (i - 1) - n = (i - n) - 1
          /\ i \in n + 1 .. n + l
      BY <1>1, <2>4
    <3>2. k[i] = h[i - n] /\ k[i - 1] = h[(i - n) - 1]
      BY <2>1, <3>1
    <3> HIDE DEF k
    <3> QED
      BY <1>2, <1>5, <3>1, <3>2
  <2>5. i <= n \/ i = n + 1 \/ i > n + 1
    BY <1>1
  <2> QED
    BY <2>2, <2>3, <2>4, <2>5
<1>9. k[n + l] \in C
  <2>1. CASE l = 0
    <3>1. n + l \in 0 .. n + l /\ n + l <= n /\ n + l = n
      BY <1>1, <2>1
    <3>2. k[n + l] = g[n]
      BY <3>1
    <3> QED
      BY <1>4, <1>5, <2>1, <3>2
  <2>2. CASE l # 0
    <3>1. n + l \in 0 .. n + l /\ ~(n + l <= n) /\ (n + l) - n = l
      BY <1>1, <2>2
    <3>2. k[n + l] = h[l]
      BY <3>1
    <3> QED
      BY <1>4, <3>2
  <2> QED
    BY <2>1, <2>2
<1> HIDE DEF k
<1>10. Parses(k, c, ef)
  BY <1>2, <1>7, <1>8 DEF Parses
<1> QED
  BY <1>6, <1>9, <1>10

LEMMA TakesNone ==
  ASSUME NEW G, NEW A \in SUBSET G, NEW B, A \subseteq B
  PROVE  Takes(A, <<>>, G, B)
<1> DEFINE none == <<>>
<1>1. Len(none) = 0
  OBVIOUS
<1> HIDE DEF none
<1> SUFFICES ASSUME NEW c \in A
             PROVE  \E g \in [0 .. 0 -> G] : Parses(g, c, none) /\ g[0] \in B
  BY <1>1 DEF Takes, none
<1> DEFINE g == [i \in 0 .. 0 |-> c]
<1>2. g \in [0 .. 0 -> G] /\ g[0] = c
  OBVIOUS
<1> HIDE DEF g
<1>3. Parses(g, c, none)
  BY <1>1, <1>2 DEF Parses
<1> QED
  BY <1>2, <1>3

LEMMA TakesMore ==
  ASSUME NEW G, NEW A, NEW B, NEW C, NEW events, Takes(A, events, G, B), B \subseteq C
  PROVE  Takes(A, events, G, C)
BY DEF Takes

\* Sequence after sequence.
LEMMA TakesAll ==
  ASSUME NEW G \in SUBSET Contexts, NEW seqs \in Seq(Seq(Events)), NEW n \in Nat, n = Len(seqs),
         NEW J \in [0 .. n -> SUBSET G],
         \A k \in 1 .. n : Takes(J[k - 1], seqs[k], G, J[k])
  PROVE  Takes(J[0], FlattenSeq(seqs), G, J[n])
<1>1. CASE n = 0
  <2>1. Len(seqs) = 0 /\ seqs = <<>>
    BY <1>1, EmptySeq
  <2>2. FlattenSeq(seqs) = <<>>
    BY <2>1 DEF FlattenSeq
  <2> QED
    BY <1>1, <2>2, TakesNone
<1>2. CASE n # 0
  <2>1. PICK g : /\ FlattenSeq(seqs) = g[n] /\ g[0] = <<>>
                 /\ \A k \in 0 .. n : g[k] \in Seq(Events)
                 /\ \A k \in 1 .. n : g[k] = g[k - 1] \o seqs[k]
    <3>1. \E g : /\ FlattenSeq(seqs) = g[Len(seqs)]
                 /\ \A k \in 0 .. Len(seqs) : g[k] \in Seq(Events)
                 /\ g[0] = <<>>
                 /\ \A k \in 1 .. Len(seqs) : g[k] = g[k - 1] \o seqs[k]
      BY <1>2, FlattenRun
    <3> QED
      BY <3>1, Zenon
  <2> DEFINE S == {k \in Nat : k <= n => Takes(J[0], g[k], G, J[k])}
  <2>2. 0 \in S
    <3>1. Takes(J[0], <<>>, G, J[0])
      BY TakesNone
    <3> QED
      BY <2>1, <3>1
  <2>3. ASSUME NEW k \in Nat, k \in S PROVE k + 1 \in S
    <3> SUFFICES ASSUME k + 1 <= n PROVE Takes(J[0], g[k + 1], G, J[k + 1])
      OBVIOUS
    <3>1. k + 1 \in 1 .. n /\ (k + 1) - 1 = k /\ k \in 0 .. n
      OBVIOUS
    <3>2. g[k + 1] = g[k] \o seqs[k + 1] /\ g[k] \in Seq(Events)
      <4>1. g[k + 1] = g[(k + 1) - 1] \o seqs[k + 1]
        BY <2>1, <3>1
      <4> QED
        BY <2>1, <3>1, <4>1
    <3>3. seqs[k + 1] \in Seq(Events)
      BY <3>1
    <3>4. Takes(J[0], g[k], G, J[k]) /\ Takes(J[k], seqs[k + 1], G, J[k + 1])
      BY <2>3, <3>1
    <3> QED
      BY <3>2, <3>3, <3>4, TakesJoin
  <2>4. n \in S
    <3> HIDE DEF S
    <3> QED
      BY <2>2, <2>3, NatSetInduction
  <2> QED
    BY <2>1, <2>4
<1> QED
  BY <1>1, <1>2

-------------------------------------------------------------------------------
(***************************************************************************)
(* What has been read: the first k nodes of a part s of a tree, and of the *)
(* last of them the first m columns, below the node p of the tree t.       *)
(***************************************************************************)
\* Nodes that follow each other in some tree, none of them above the first.
IsPart(s) ==
  /\ s \in Trees /\ AreColumns(s.columns)
  /\ \A n \in DOMAIN s.nodes :
       /\ s.nodes[n].depth \in
            s.nodes[1].depth .. IF n = 1 THEN s.nodes[1].depth ELSE s.nodes[n - 1].depth + 1
       /\ AreValues(s.nodes[n].values, Len(s.columns), s.room)

Rel(s, n) == s.nodes[n].depth - s.nodes[1].depth + 1

KeptOf(s, n, x) ==
  LET v == ValueOf(s, n, x)
  IN  IF v = None \/ x \in Hidden THEN None ELSE KeptValue(v)

Copied(r, s, t, p, k, m) ==
  /\ IsTree(r) /\ Len(r.nodes) = Len(t.nodes) + k
  /\ \A i \in 1 .. EndOf(t, p) : Same(r, i, t, i)
  /\ \A i \in EndOf(t, p) + 1 .. Len(t.nodes) : Same(r, i + k, t, i)
  /\ \A i \in 1 .. k : r.nodes[EndOf(t, p) + i].depth = DepthOf(t, p) + Rel(s, i)
  /\ \A i \in 1 .. k, x \in Names :
       ValueOf(r, EndOf(t, p) + i, x) = IF i < k \/ Column(s, x) <= m THEN KeptOf(s, i, x) ELSE None

Job(s, t, p) == IsPart(s) /\ IsTree(t) /\ p \in 0 .. Len(t.nodes)

LEMMA PartIs ==
  ASSUME NEW s, IsPart(s)
  PROVE  /\ s.columns \in Seq(Names) /\ s.nodes \in Seq(Nodes) /\ AreColumns(s.columns)
         /\ Len(s.columns) \in Nat /\ Len(s.nodes) \in Nat /\ DOMAIN s.nodes = 1 .. Len(s.nodes)
         /\ \A n \in 1 .. Len(s.nodes) :
              /\ s.nodes[n].depth \in Nat /\ Rel(s, n) \in Nat \ {0}
              /\ s.nodes[n].values \in Seq(Seq(Characters) \cup {None})
              /\ Len(s.nodes[n].values) \in Nat
              /\ AreValues(s.nodes[n].values, Len(s.columns), s.room)
         /\ Len(s.nodes) # 0 => Rel(s, 1) = 1
         /\ \A n \in 1 .. Len(s.nodes) - 1 : Rel(s, n + 1) <= Rel(s, n) + 1
<1>1. s.columns \in Seq(Names) /\ s.nodes \in Seq(Nodes) /\ AreColumns(s.columns)
  BY DEF IsPart, Trees
<1>2. Len(s.columns) \in Nat /\ Len(s.nodes) \in Nat /\ DOMAIN s.nodes = 1 .. Len(s.nodes)
  BY <1>1
<1>3. ASSUME NEW n \in 1 .. Len(s.nodes)
      PROVE  /\ s.nodes[n].depth \in Nat /\ s.nodes[n].values \in Seq(Seq(Characters) \cup {None})
             /\ Len(s.nodes[n].values) \in Nat
             /\ AreValues(s.nodes[n].values, Len(s.columns), s.room)
  <2>1. s.nodes[n] \in Nodes
    BY <1>1
  <2>2. s.nodes[n].depth \in Nat /\ s.nodes[n].values \in Seq(Seq(Characters) \cup {None})
    BY <2>1 DEF Nodes
  <2>3. AreValues(s.nodes[n].values, Len(s.columns), s.room)
    BY <1>2 DEF IsPart
  <2> QED
    BY <2>2, <2>3
<1>4. ASSUME NEW n \in 1 .. Len(s.nodes) PROVE Rel(s, n) \in Nat \ {0}
  <2>1. s.nodes[n].depth >= s.nodes[1].depth /\ 1 \in 1 .. Len(s.nodes)
    <3>1. 1 \in 1 .. Len(s.nodes)
      BY <1>2
    <3>2. s.nodes[n].depth \in s.nodes[1].depth .. IF n = 1 THEN s.nodes[1].depth ELSE s.nodes[n - 1].depth + 1
      BY <1>2 DEF IsPart
    <3> QED
      BY <3>1, <3>2
  <2>2. s.nodes[n].depth \in Nat /\ s.nodes[1].depth \in Nat
    BY <1>3, <2>1
  <2> QED
    BY <2>1, <2>2 DEF Rel
<1>5. Len(s.nodes) # 0 => Rel(s, 1) = 1
  <2>1. Len(s.nodes) # 0 => 1 \in 1 .. Len(s.nodes)
    BY <1>2
  <2> QED
    BY <1>3, <2>1 DEF Rel
<1>6. ASSUME NEW n \in 1 .. Len(s.nodes) - 1 PROVE Rel(s, n + 1) <= Rel(s, n) + 1
  <2>1. n \in 1 .. Len(s.nodes) /\ n + 1 \in 1 .. Len(s.nodes) /\ n + 1 # 1 /\ (n + 1) - 1 = n
        /\ 1 \in 1 .. Len(s.nodes)
    BY <1>2
  <2>2. s.nodes[n + 1].depth \in s.nodes[1].depth .. s.nodes[n].depth + 1
    <3>1. s.nodes[n + 1].depth \in s.nodes[1].depth ..
            IF n + 1 = 1 THEN s.nodes[1].depth ELSE s.nodes[(n + 1) - 1].depth + 1
      BY <1>2, <2>1 DEF IsPart
    <3> QED
      BY <2>1, <3>1
  <2>3. s.nodes[n].depth \in Nat /\ s.nodes[n + 1].depth \in Nat /\ s.nodes[1].depth \in Nat
    BY <1>3, <2>1
  <2> QED
    BY <2>2, <2>3 DEF Rel
<1> QED
  BY <1>1, <1>2, <1>3, <1>4, <1>5, <1>6

\* Where the copies are, and how deep the nodes around them.
LEMMA CopyDepths ==
  ASSUME NEW s, NEW t, NEW p, Job(s, t, p), NEW k \in 0 .. Len(s.nodes), NEW m, NEW r,
         Copied(r, s, t, p, k, m)
  PROVE  LET at == EndOf(t, p)
             d == DepthOf(t, p)
         IN  /\ at \in Nat /\ p \in 0 .. at /\ d \in Nat /\ k \in Nat
             /\ IsTree(r) /\ Len(r.nodes) \in Nat /\ at + k <= Len(r.nodes)
             /\ DepthOf(r, p) = d
             /\ \A i \in 1 .. Len(r.nodes) : r.nodes[i].depth \in Nat \ {0}
             /\ \A i \in 1 .. k : r.nodes[at + i].depth = d + Rel(s, i) /\ Rel(s, i) \in Nat \ {0}
             /\ p = 0 => d = 0 /\ at + k = Len(r.nodes)
             /\ p # 0 => r.nodes[p].depth = d /\ \A i \in p + 1 .. at : r.nodes[i].depth > d
             /\ at + k < Len(r.nodes) => p # 0 /\ r.nodes[at + k + 1].depth <= d
<1> DEFINE at == EndOf(t, p)
           d == DepthOf(t, p)
<1>1. IsPart(s) /\ IsTree(t) /\ p \in 0 .. Len(t.nodes)
  BY DEF Job
<1>2. Len(t.nodes) \in Nat /\ \A n \in 1 .. Len(t.nodes) : t.nodes[n].depth \in Nat \ {0}
  BY <1>1, TreeParts
<1>3. /\ at \in p .. Len(t.nodes)
      /\ \A n \in p + 1 .. at : p = 0 \/ t.nodes[n].depth > t.nodes[p].depth
      /\ at < Len(t.nodes) => p # 0 /\ t.nodes[at + 1].depth <= t.nodes[p].depth
  BY <1>1, EndOfIs
<1>4. IsTree(r) /\ Len(r.nodes) = Len(t.nodes) + k /\ k \in Nat /\ k <= Len(s.nodes)
  BY <1>1, PartIs DEF Copied
<1>5. \A i \in 1 .. Len(r.nodes) : r.nodes[i].depth \in Nat \ {0}
  BY <1>4, TreeParts
<1>6. p = 0 => d = 0
  BY DEF DepthOf
<1>7. p # 0 => p \in 1 .. Len(t.nodes) /\ d = t.nodes[p].depth /\ p \in 1 .. at
  BY <1>1, <1>2, <1>3 DEF DepthOf
<1>8. \A i \in 1 .. at : r.nodes[i].depth = t.nodes[i].depth
  BY DEF Copied, Same
<1>9. \A i \in at + 1 .. Len(t.nodes) : r.nodes[i + k].depth = t.nodes[i].depth
  BY DEF Copied, Same
<1>10. \A i \in 1 .. k : r.nodes[at + i].depth = d + Rel(s, i)
  BY DEF Copied
<1>11. \A i \in 1 .. k : Rel(s, i) \in Nat \ {0}
  <2>1. \A i \in 1 .. k : i \in 1 .. Len(s.nodes)
    BY <1>1, <1>4, PartIs
  <2> QED
    BY <1>1, <2>1, PartIs
<1>12. DepthOf(r, p) = d
  BY <1>7, <1>8 DEF DepthOf
<1> HIDE DEF at, d
<1>13. at \in Nat /\ p \in 0 .. at /\ d \in Nat /\ at + k <= Len(r.nodes) /\ Len(r.nodes) \in Nat
  BY <1>1, <1>2, <1>3, <1>4, <1>6, <1>7
<1>14. p = 0 => at + k = Len(r.nodes)
  BY <1>2, <1>3, <1>4
<1>15. ASSUME p # 0, NEW i \in p + 1 .. at PROVE r.nodes[i].depth > d
  <2>1. i \in 1 .. at
    BY <1>1, <1>2
  <2> QED
    BY <1>3, <1>7, <1>8, <1>15, <2>1
<1>16. p # 0 => r.nodes[p].depth = d
  BY <1>7, <1>8
<1>17. ASSUME at + k < Len(r.nodes) PROVE p # 0 /\ r.nodes[at + k + 1].depth <= d
  <2>1. at < Len(t.nodes) /\ at + 1 \in at + 1 .. Len(t.nodes) /\ (at + 1) + k = at + k + 1
    BY <1>2, <1>4, <1>13, <1>17
  <2>2. r.nodes[at + k + 1].depth = t.nodes[at + 1].depth
    BY <1>9, <2>1
  <2> QED
    BY <1>3, <1>7, <2>1, <2>2
<1> QED
  BY <1>4, <1>5, <1>6, <1>10, <1>11, <1>12, <1>13, <1>14, <1>15, <1>16, <1>17 DEF at, d

\* There is one place only where what is below a node ends.
LEMMA EndIsOne ==
  ASSUME NEW r, IsTree(r), NEW q \in 0 .. Len(r.nodes), NEW e \in q .. Len(r.nodes),
         \A n \in q + 1 .. e : q = 0 \/ r.nodes[n].depth > r.nodes[q].depth,
         e < Len(r.nodes) => q # 0 /\ r.nodes[e + 1].depth <= r.nodes[q].depth
  PROVE  EndOf(r, q) = e
<1> DEFINE f == EndOf(r, q)
<1>1. /\ f \in q .. Len(r.nodes)
      /\ \A n \in q + 1 .. f : q = 0 \/ r.nodes[n].depth > r.nodes[q].depth
      /\ f < Len(r.nodes) => q # 0 /\ r.nodes[f + 1].depth <= r.nodes[q].depth
  BY EndOfIs
<1>2. Len(r.nodes) \in Nat /\ \A n \in 1 .. Len(r.nodes) : r.nodes[n].depth \in Nat
  BY TreeParts
<1> HIDE DEF f
<1>3. CASE f < e
  <2>1. f + 1 \in q + 1 .. e /\ f + 1 \in 1 .. Len(r.nodes) /\ f < Len(r.nodes)
    BY <1>1, <1>2, <1>3
  <2>2. q \in 1 .. Len(r.nodes) /\ r.nodes[f + 1].depth <= r.nodes[q].depth
    BY <1>1, <1>2, <2>1
  <2>3. r.nodes[f + 1].depth > r.nodes[q].depth
    BY <1>2, <2>1, <2>2
  <2> QED
    BY <1>2, <2>1, <2>2, <2>3
<1>4. CASE e < f
  <2>1. e + 1 \in q + 1 .. f /\ e + 1 \in 1 .. Len(r.nodes) /\ e < Len(r.nodes)
    BY <1>1, <1>2, <1>4
  <2>2. q \in 1 .. Len(r.nodes) /\ r.nodes[e + 1].depth <= r.nodes[q].depth
    BY <1>1, <1>2, <2>1
  <2>3. r.nodes[e + 1].depth > r.nodes[q].depth
    BY <1>1, <1>2, <2>1, <2>2
  <2> QED
    BY <1>2, <2>1, <2>2, <2>3
<1> QED
  BY <1>1, <1>2, <1>3, <1>4 DEF f

\* The node i of the part is open at the depth d: none behind it is as high.
LastAt(s, k, i, d) ==
  i \in 1 .. k /\ Rel(s, i) = d /\ \A l \in i + 1 .. k : Rel(s, l) > d

\* A node appended to one that is open goes behind all that is copied.
LEMMA OpenEnds ==
  ASSUME NEW s, NEW t, NEW p, Job(s, t, p), NEW k \in 0 .. Len(s.nodes), NEW m, NEW r,
         Copied(r, s, t, p, k, m), NEW d \in Nat, NEW q,
         IF d = 0 THEN q = p ELSE \E i \in 1 .. k : LastAt(s, k, i, d) /\ q = EndOf(t, p) + i
  PROVE  /\ q \in 0 .. Len(r.nodes) /\ EndOf(r, q) = EndOf(t, p) + k
         /\ DepthOf(r, q) = DepthOf(t, p) + d
<1> DEFINE at == EndOf(t, p)
           b == DepthOf(t, p)
<1>1. /\ at \in Nat /\ p \in 0 .. at /\ b \in Nat /\ k \in Nat
      /\ IsTree(r) /\ Len(r.nodes) \in Nat /\ at + k <= Len(r.nodes)
      /\ DepthOf(r, p) = b
      /\ \A i \in 1 .. Len(r.nodes) : r.nodes[i].depth \in Nat \ {0}
      /\ \A i \in 1 .. k : r.nodes[at + i].depth = b + Rel(s, i) /\ Rel(s, i) \in Nat \ {0}
      /\ p = 0 => b = 0 /\ at + k = Len(r.nodes)
      /\ p # 0 => r.nodes[p].depth = b /\ \A i \in p + 1 .. at : r.nodes[i].depth > b
      /\ at + k < Len(r.nodes) => p # 0 /\ r.nodes[at + k + 1].depth <= b
  BY CopyDepths
<1> HIDE DEF at, b
<1>2. CASE d = 0
  <2>1. q = p /\ q \in 0 .. Len(r.nodes) /\ at + k \in q .. Len(r.nodes)
    BY <1>1, <1>2
  <2>2. ASSUME NEW n \in q + 1 .. at + k PROVE q = 0 \/ r.nodes[n].depth > r.nodes[q].depth
    <3>1. CASE n <= at
      <4>1. n \in p + 1 .. at
        BY <1>1, <2>1, <3>1
      <4> QED
        BY <1>1, <2>1, <4>1
    <3>2. CASE ~(n <= at)
      <4>1. n - at \in 1 .. k /\ at + (n - at) = n
        BY <1>1, <2>1, <3>2
      <4>2. r.nodes[n].depth = b + Rel(s, n - at) /\ Rel(s, n - at) \in Nat \ {0}
        BY <1>1, <4>1
      <4> QED
        BY <1>1, <2>1, <4>2
    <3> QED
      BY <3>1, <3>2
  <2>3. at + k < Len(r.nodes) => q # 0 /\ r.nodes[at + k + 1].depth <= r.nodes[q].depth
    BY <1>1, <2>1
  <2>4. EndOf(r, q) = at + k
    BY <1>1, <2>1, <2>2, <2>3, EndIsOne
  <2> QED
    BY <1>1, <1>2, <2>1, <2>4 DEF at, b
<1>3. CASE d # 0
  <2>1. PICK i \in 1 .. k : LastAt(s, k, i, d) /\ q = at + i
    BY <1>3 DEF at
  <2>2. /\ q \in 0 .. Len(r.nodes) /\ q # 0 /\ at + k \in q .. Len(r.nodes)
        /\ r.nodes[q].depth = b + d
    <3>1. r.nodes[at + i].depth = b + d
      BY <1>1, <2>1 DEF LastAt
    <3> QED
      BY <1>1, <2>1, <3>1
  <2>3. ASSUME NEW n \in q + 1 .. at + k PROVE q = 0 \/ r.nodes[n].depth > r.nodes[q].depth
    <3>1. n - at \in i + 1 .. k /\ n - at \in 1 .. k /\ at + (n - at) = n
      <4>1. at \in Nat /\ k \in Nat /\ i \in 1 .. k /\ q = at + i
        BY <1>1, <2>1
      <4> QED
        BY <4>1
    <3>2. r.nodes[n].depth = b + Rel(s, n - at) /\ Rel(s, n - at) \in Nat \ {0}
      BY <1>1, <3>1
    <3>3. Rel(s, n - at) > d
      BY <2>1, <3>1 DEF LastAt
    <3> QED
      BY <1>1, <2>2, <3>2, <3>3
  <2>4. at + k < Len(r.nodes) => q # 0 /\ r.nodes[at + k + 1].depth <= r.nodes[q].depth
    <3>1. ASSUME at + k < Len(r.nodes) PROVE r.nodes[at + k + 1].depth <= r.nodes[q].depth
      <4>1. at + k + 1 \in 1 .. Len(r.nodes)
        BY <1>1, <3>1
      <4>2. r.nodes[at + k + 1].depth \in Nat /\ r.nodes[at + k + 1].depth <= b
        BY <1>1, <3>1, <4>1
      <4> QED
        BY <1>1, <2>2, <4>2
    <3> QED
      BY <2>2, <3>1
  <2>5. EndOf(r, q) = at + k
    BY <1>1, <2>2, <2>3, <2>4, EndIsOne
  <2>6. DepthOf(r, q) = b + d
    BY <2>2 DEF DepthOf
  <2> QED
    BY <2>2, <2>5, <2>6 DEF at, b
<1> QED
  BY <1>2, <1>3

\* Every open node but those at the top has an open node above it.
LEMMA OpenAbove ==
  ASSUME NEW s, IsPart(s), NEW k \in 0 .. Len(s.nodes), NEW i, NEW d \in Nat, d > 1,
         LastAt(s, k, i, d)
  PROVE  \E j \in 1 .. i - 1 : LastAt(s, k, j, d - 1)
<1>1. /\ Len(s.nodes) \in Nat /\ i \in 1 .. k /\ Rel(s, i) = d /\ k \in Nat
      /\ \A l \in 1 .. k : Rel(s, l) \in Nat \ {0}
      /\ Rel(s, 1) = 1
      /\ \A l \in 1 .. Len(s.nodes) - 1 : Rel(s, l + 1) <= Rel(s, l) + 1
  <2>1. i \in 1 .. k /\ Rel(s, i) = d
    BY DEF LastAt
  <2>2. /\ Len(s.nodes) \in Nat
        /\ \A n \in 1 .. Len(s.nodes) : Rel(s, n) \in Nat \ {0}
        /\ Len(s.nodes) # 0 => Rel(s, 1) = 1
        /\ \A n \in 1 .. Len(s.nodes) - 1 : Rel(s, n + 1) <= Rel(s, n) + 1
    BY PartIs
  <2> QED
    BY <2>1, <2>2
<1> DEFINE L == {l \in 1 .. i - 1 : Rel(s, l) <= d - 1}
           j == Max(L)
<1>2. 1 \in L
  BY <1>1
<1>3. j \in L /\ \A y \in L : j >= y
  <2>1. L \in SUBSET (0 .. i) /\ i \in Nat
    BY <1>1
  <2> HIDE DEF L
  <2> QED
    BY <1>2, <2>1, MaxIs
<1> HIDE DEF j
<1>4. j \in 1 .. i - 1 /\ Rel(s, j) <= d - 1 /\ \A l \in j + 1 .. i - 1 : ~(Rel(s, l) <= d - 1)
  <2>1. ASSUME NEW l \in j + 1 .. i - 1 PROVE ~(Rel(s, l) <= d - 1)
    <3>1. l \in 1 .. i - 1 /\ l > j
      BY <1>1, <1>3
    <3> QED
      BY <1>1, <1>3, <3>1
  <2> QED
    BY <1>3, <2>1
<1> HIDE DEF L
<1>5. ASSUME NEW l \in j + 1 .. k PROVE Rel(s, l) > d - 1
  <2>1. CASE l < i
    <3>1. l \in j + 1 .. i - 1 /\ l \in 1 .. k
      BY <1>1, <1>4, <2>1
    <3> QED
      BY <1>1, <1>4, <3>1
  <2>2. CASE l = i
    BY <1>1, <2>2
  <2>3. CASE l > i
    <3>1. l \in i + 1 .. k /\ l \in 1 .. k
      BY <1>1, <1>4, <2>3
    <3>2. Rel(s, l) > d /\ Rel(s, l) \in Nat
      BY <1>1, <3>1 DEF LastAt
    <3> QED
      BY <3>2
  <2> QED
    BY <1>1, <1>4, <2>1, <2>2, <2>3
<1>6. Rel(s, j) = d - 1
  <2>1. j \in 1 .. Len(s.nodes) - 1 /\ j + 1 \in j + 1 .. k /\ j \in 1 .. k /\ j + 1 \in 1 .. k
    BY <1>1, <1>4
  <2>2. Rel(s, j + 1) > d - 1 /\ Rel(s, j + 1) <= Rel(s, j) + 1
    BY <1>1, <1>5, <2>1
  <2> QED
    BY <1>1, <1>4, <2>1, <2>2
<1> QED
  <2>1. LastAt(s, k, j, d - 1)
    <3>1. j \in 1 .. k
      BY <1>1, <1>4
    <3> QED
      BY <1>5, <1>6, <3>1 DEF LastAt
  <2> QED
    BY <1>4, <2>1

LEMMA ParentIsOne ==
  ASSUME NEW t, NEW n \in Nat, NEW m \in 0 .. n,
         m # 0 => t.nodes[m].depth = t.nodes[n].depth - 1,
         \A l \in m + 1 .. n : t.nodes[l].depth # t.nodes[n].depth - 1
  PROVE  Parent(t, n) = m
<1> DEFINE I == {l \in 1 .. n : t.nodes[l].depth = t.nodes[n].depth - 1}
<1>1. Parent(t, n) = IF I # {} THEN Max(I) ELSE 0
  BY DEF Parent, SelectLastInSubSeq
<1>2. I \in SUBSET (0 .. n)
  OBVIOUS
<1>3. \A l \in I : l \in Nat /\ l <= m
  <2>1. ASSUME NEW l \in I, l > m PROVE FALSE
    <3>1. l \in m + 1 .. n /\ t.nodes[l].depth = t.nodes[n].depth - 1
      BY <2>1
    <3> QED
      BY <3>1
  <2>2. \A l \in I : l \in Nat
    OBVIOUS
  <2> HIDE DEF I
  <2> QED
    BY <2>1, <2>2
<1>4. m # 0 => m \in I
  OBVIOUS
<1>5. I # {} => m # 0
  <2>1. \A l \in I : l \in 1 .. n
    OBVIOUS
  <2> HIDE DEF I
  <2> QED
    BY <1>3, <2>1
<1> HIDE DEF I
<1>6. CASE I = {}
  BY <1>1, <1>4, <1>6
<1>7. CASE I # {}
  <2>1. Max(I) \in I /\ \A y \in I : Max(I) >= y
    BY <1>2, <1>7, MaxIs
  <2>2. m \in I
    BY <1>4, <1>5, <1>7
  <2>3. Max(I) >= m /\ Max(I) <= m /\ Max(I) \in Nat
    BY <1>3, <2>1, <2>2
  <2> QED
    BY <1>1, <1>7, <2>3
<1> QED
  BY <1>6, <1>7

\* The parent of an open node is the open node above it, or the node p.
LEMMA OpenParent ==
  ASSUME NEW s, NEW t, NEW p, Job(s, t, p), NEW k \in 0 .. Len(s.nodes), NEW m, NEW r,
         Copied(r, s, t, p, k, m), NEW d \in Nat \ {0}, NEW i, LastAt(s, k, i, d)
  PROVE  LET up == Parent(r, EndOf(t, p) + i)
         IN  IF d = 1 THEN up = p
             ELSE \E j \in 1 .. k : LastAt(s, k, j, d - 1) /\ up = EndOf(t, p) + j
<1> DEFINE at == EndOf(t, p)
           b == DepthOf(t, p)
           q == at + i
<1>1. /\ at \in Nat /\ p \in 0 .. at /\ b \in Nat /\ k \in Nat
      /\ Len(r.nodes) \in Nat /\ at + k <= Len(r.nodes)
      /\ \A l \in 1 .. Len(r.nodes) : r.nodes[l].depth \in Nat \ {0}
      /\ \A l \in 1 .. k : r.nodes[at + l].depth = b + Rel(s, l) /\ Rel(s, l) \in Nat \ {0}
      /\ p = 0 => b = 0
      /\ p # 0 => r.nodes[p].depth = b /\ \A l \in p + 1 .. at : r.nodes[l].depth > b
  BY CopyDepths
<1> HIDE DEF at, b
<1>2. i \in 1 .. k /\ Rel(s, i) = d /\ r.nodes[q].depth = b + d /\ i \in Nat
  <2>1. i \in 1 .. k /\ Rel(s, i) = d
    BY DEF LastAt
  <2> QED
    BY <1>1, <2>1
<1>3. q \in Nat /\ (b + d) - 1 = b + (d - 1)
  BY <1>1, <1>2
<1>4. CASE d = 1
  <2>1. p \in 0 .. q /\ r.nodes[q].depth - 1 = b
    BY <1>1, <1>2, <1>4
  <2>2. ASSUME NEW l \in p + 1 .. q PROVE r.nodes[l].depth # b
    <3>1. CASE l > at
      <4>1. l - at \in 1 .. k /\ at + (l - at) = l
        BY <1>1, <1>2, <3>1
      <4>2. r.nodes[l].depth = b + Rel(s, l - at) /\ Rel(s, l - at) \in Nat \ {0}
        BY <1>1, <4>1
      <4> QED
        BY <1>1, <4>2
    <3>2. CASE ~(l > at) /\ p # 0
      <4>1. l \in p + 1 .. at
        BY <1>1, <3>2
      <4> QED
        BY <1>1, <3>2, <4>1
    <3>3. CASE ~(l > at) /\ p = 0
      <4>1. l \in 1 .. Len(r.nodes)
        BY <1>1, <1>2, <3>3
      <4> QED
        BY <1>1, <3>3, <4>1
    <3> QED
      BY <3>1, <3>2, <3>3
  <2>3. p # 0 => r.nodes[p].depth = r.nodes[q].depth - 1
    BY <1>1, <2>1
  <2> HIDE DEF q
  <2>4. Parent(r, q) = p
    BY <1>3, <2>1, <2>2, <2>3, ParentIsOne
  <2> QED
    BY <1>4, <2>4 DEF q, at
<1>5. CASE d # 1
  <2>1. PICK j \in 1 .. i - 1 : LastAt(s, k, j, d - 1)
    <3>1. IsPart(s) /\ d > 1
      BY <1>5 DEF Job
    <3> QED
      BY <3>1, OpenAbove
  <2>2. /\ j \in 1 .. k /\ r.nodes[at + j].depth = r.nodes[q].depth - 1
        /\ at + j \in 0 .. q /\ j \in Nat
    <3>1. Rel(s, j) = d - 1 /\ j \in 1 .. k
      BY <2>1 DEF LastAt
    <3>2. r.nodes[at + j].depth = b + (d - 1)
      BY <1>1, <3>1
    <3> QED
      BY <1>1, <1>2, <1>3, <2>1, <3>1, <3>2
  <2>3. ASSUME NEW l \in at + j + 1 .. q PROVE r.nodes[l].depth # r.nodes[q].depth - 1
    <3>1. l - at \in j + 1 .. k /\ l - at \in 1 .. k /\ at + (l - at) = l
      <4>1. at \in Nat /\ k \in Nat /\ j \in Nat /\ i \in 1 .. k /\ l \in at + j + 1 .. at + i
        BY <1>1, <1>2, <2>2
      <4> QED
        BY <4>1
    <3>2. r.nodes[l].depth = b + Rel(s, l - at) /\ Rel(s, l - at) \in Nat \ {0}
      BY <1>1, <3>1
    <3>3. Rel(s, l - at) > d - 1
      BY <2>1, <3>1 DEF LastAt
    <3> QED
      BY <1>1, <1>2, <1>3, <3>2, <3>3
  <2> DEFINE u == at + j
  <2>4. Parent(r, q) = u
    <3>1. u \in 0 .. q /\ r.nodes[u].depth = r.nodes[q].depth - 1
          /\ \A l \in u + 1 .. q : r.nodes[l].depth # r.nodes[q].depth - 1
      BY <2>2, <2>3
    <3> HIDE DEF q, u
    <3> QED
      BY <1>3, <3>1, ParentIsOne
  <2> QED
    BY <1>5, <2>1, <2>2, <2>4 DEF at
<1> QED
  BY <1>4, <1>5

-------------------------------------------------------------------------------
(***************************************************************************)
(* The contexts of the parser while it reads a part s below the node p of  *)
(* the tree t.                                                             *)
(***************************************************************************)
Partly(s, t, p) ==
  {c \in Contexts :
     \E k \in 0 .. Len(s.nodes), m \in 0 .. Len(s.columns) : Copied(c.tree, s, t, p, k, m)}

\* The text could not be read, as some name ends the quotes around it.
Failed(s, t, p) == {c \in Partly(s, t, p) : ~c.ok /\ HasQuoted(s)}

\* The parser is at an open node of the depth d, or at the node p.
Stands(c, s, t, p, k, d) ==
  IF d = 0 THEN c.state \in {"root", "node"} /\ p = IF c.state = "root" /\ c.isroot THEN 0 ELSE c.node
  ELSE c.state = "node" /\ \E i \in 1 .. k : LastAt(s, k, i, d) /\ c.node = EndOf(t, p) + i

\* Nodes were read, and nodes closed up to a depth.
Leaving(s, t, p, k, d) ==
  {c \in Contexts : /\ c.ok /\ c.version = 1 /\ Copied(c.tree, s, t, p, k, Len(s.columns))
                    /\ Stands(c, s, t, p, k, d)} \cup Failed(s, t, p)

\* Of the last node the first m columns were read.
Inside(s, t, p, k, m) ==
  {c \in Contexts : /\ c.ok /\ c.version = 1 /\ Copied(c.tree, s, t, p, k, m)
                    /\ c.state = "node" /\ c.node = EndOf(t, p) + k} \cup Failed(s, t, p)

\* The depth up to which the node k is closed when the next one opens.
Above(s, k) == IF k = Len(s.nodes) THEN 0 ELSE Rel(s, k + 1) - 1

LEMMA FamiliesAre ==
  ASSUME NEW s, NEW t, NEW p, Job(s, t, p), NEW k \in 0 .. Len(s.nodes)
  PROVE  /\ Partly(s, t, p) \in SUBSET Contexts
         /\ Failed(s, t, p) \in SUBSET Partly(s, t, p)
         /\ \A d : Leaving(s, t, p, k, d) \in SUBSET Partly(s, t, p)
         /\ \A m \in 0 .. Len(s.columns) : Inside(s, t, p, k, m) \in SUBSET Partly(s, t, p)
<1>1. Len(s.columns) \in Nat
  BY PartIs DEF Job
<1>2. Len(s.columns) \in 0 .. Len(s.columns)
  BY <1>1
<1>3. Partly(s, t, p) \in SUBSET Contexts /\ Failed(s, t, p) \in SUBSET Partly(s, t, p)
  BY DEF Partly, Failed
<1>4. ASSUME NEW m \in 0 .. Len(s.columns), NEW c \in Contexts, Copied(c.tree, s, t, p, k, m)
      PROVE  c \in Partly(s, t, p)
  BY <1>4 DEF Partly
<1>5. ASSUME NEW d PROVE Leaving(s, t, p, k, d) \in SUBSET Partly(s, t, p)
  BY <1>2, <1>3, <1>4 DEF Leaving
<1>6. ASSUME NEW m \in 0 .. Len(s.columns) PROVE Inside(s, t, p, k, m) \in SUBSET Partly(s, t, p)
  BY <1>3, <1>4 DEF Inside
<1> QED
  BY <1>3, <1>5, <1>6

\* After an error nothing is read.
LEMMA FailedStays ==
  ASSUME NEW s, NEW t, NEW p, NEW c \in Failed(s, t, p), NEW e
  PROVE  Step(c, e) \in Failed(s, t, p)
BY DEF Failed, Step

\* What is kept of a node is one value of a name, or none.
LEMMA CopiedMore ==
  ASSUME NEW s, NEW t, NEW p, NEW k \in Nat, NEW m, NEW l, NEW r, Copied(r, s, t, p, k, m),
         \A x \in Names : KeptOf(s, k, x) # None => (Column(s, x) <= m <=> Column(s, x) <= l)
  PROVE  Copied(r, s, t, p, k, l)
<1>1. ASSUME NEW i \in 1 .. k, NEW x \in Names
      PROVE  ValueOf(r, EndOf(t, p) + i, x) =
               IF i < k \/ Column(s, x) <= l THEN KeptOf(s, i, x) ELSE None
  <2>1. ValueOf(r, EndOf(t, p) + i, x) =
          IF i < k \/ Column(s, x) <= m THEN KeptOf(s, i, x) ELSE None
    BY DEF Copied
  <2>2. CASE i < k
    BY <2>1, <2>2
  <2>3. CASE ~(i < k)
    <3>1. KeptOf(s, k, x) # None => (Column(s, x) <= m <=> Column(s, x) <= l)
      OBVIOUS
    <3>2. i = k
      BY <2>3
    <3> HIDE DEF KeptOf
    <3> QED
      BY <2>1, <2>3, <3>1, <3>2
  <2> QED
    BY <2>2, <2>3
<1> QED
  BY <1>1 DEF Copied

\* A value of a part is that of a name with a column.
LEMMA PartValue ==
  ASSUME NEW s, IsPart(s), NEW n \in 1 .. Len(s.nodes), NEW x
  PROVE  /\ Column(s, x) \in 0 .. Len(s.columns)
         /\ Column(s, x) # 0 => s.columns[Column(s, x)] = x
         /\ ValueOf(s, n, x) \in Seq(Characters) \cup {None}
         /\ ValueOf(s, n, x) # None => /\ IsFormatted(ValueOf(s, n, x)) /\ Column(s, x) # 0
                                       /\ Column(s, x) <= Len(s.nodes[n].values)
                                       /\ ValueOf(s, n, x) = s.nodes[n].values[Column(s, x)]
         /\ KeptOf(s, n, x) # None => Column(s, x) # 0
<1> DEFINE c == Column(s, x)
           values == s.nodes[n].values
<1>1. /\ AreColumns(s.columns) /\ Len(s.columns) \in Nat
      /\ values \in Seq(Seq(Characters) \cup {None}) /\ Len(values) \in Nat
      /\ AreValues(values, Len(s.columns), s.room)
  BY PartIs
<1>2. c \in 0 .. Len(s.columns) /\ (c # 0 => s.columns[c] = x)
  BY <1>1, ColumnIs
<1>3. ValueOf(s, n, x) = IF c = 0 THEN None ELSE IF c <= Len(values) THEN values[c] ELSE None
  BY DEF ValueOf, ValueAt
<1>4. ValueOf(s, n, x) = None => KeptOf(s, n, x) = None
  BY DEF KeptOf
<1> HIDE DEF c, values
<1>5. CASE c = 0 \/ ~(c <= Len(values))
  BY <1>1, <1>2, <1>3, <1>4, <1>5 DEF c
<1>6. CASE c # 0 /\ c <= Len(values)
  <2>1. c \in 1 .. Len(values) /\ c \in DOMAIN values
    BY <1>1, <1>2, <1>6
  <2>2. values[c] \in Seq(Characters) \cup {None} /\ (values[c] # None => IsFormatted(values[c]))
    BY <1>1, <2>1 DEF AreValues
  <2>3. ValueOf(s, n, x) = values[c]
    BY <1>3, <1>6
  <2> QED
    BY <1>2, <1>6, <2>2, <2>3 DEF c, values
<1> QED
  BY <1>5, <1>6

\* What is copied of the node that is read next.
LEMMA AppendCopies ==
  ASSUME NEW s, NEW t, NEW p, Job(s, t, p), NEW k \in 0 .. Len(s.nodes) - 1, NEW r,
         Copied(r, s, t, p, k, Len(s.columns)), NEW q \in 0 .. Len(r.nodes),
         EndOf(r, q) = EndOf(t, p) + k, DepthOf(r, q) = DepthOf(t, p) + (Rel(s, k + 1) - 1)
  PROVE  Copied(AppendNode(r, q), s, t, p, k + 1, 0)
<1> DEFINE at == EndOf(t, p)
           b == DepthOf(t, p)
           a == AppendNode(r, q)
<1>1. /\ IsPart(s) /\ at \in Nat /\ at <= Len(t.nodes) /\ b \in Nat /\ k \in Nat
      /\ IsTree(r) /\ Len(t.nodes) \in Nat /\ Len(r.nodes) = Len(t.nodes) + k
      /\ Len(s.nodes) \in Nat /\ k + 1 \in 1 .. Len(s.nodes) /\ k \in 0 .. Len(s.nodes)
      /\ Rel(s, k + 1) \in Nat \ {0} /\ Len(s.columns) \in Nat
  <2>1. IsPart(s) /\ IsTree(t) /\ p \in 0 .. Len(t.nodes)
    BY DEF Job
  <2>2. Len(s.nodes) \in Nat /\ Len(s.columns) \in Nat
    BY <2>1, PartIs
  <2>3. k \in Nat /\ k + 1 \in 1 .. Len(s.nodes) /\ k \in 0 .. Len(s.nodes)
    BY <2>2
  <2>4. Rel(s, k + 1) \in Nat \ {0}
    BY <2>1, <2>3, PartIs
  <2>5. at \in Nat /\ b \in Nat
    BY <2>3, CopyDepths
  <2>6. Len(t.nodes) \in Nat /\ at \in p .. Len(t.nodes)
    BY <2>1, TreeParts, EndOfIs
  <2>7. IsTree(r) /\ Len(r.nodes) = Len(t.nodes) + k
    BY DEF Copied
  <2> QED
    BY <2>1, <2>2, <2>3, <2>4, <2>5, <2>6, <2>7
<1>2. /\ IsTree(a) /\ Len(a.nodes) = Len(r.nodes) + 1
      /\ \A i \in 1 .. at + k : Same(a, i, r, i)
      /\ \A i \in at + k + 1 .. Len(r.nodes) : Same(a, i + 1, r, i)
      /\ a.nodes[at + k + 1].depth = b + Rel(s, k + 1)
      /\ \A x \in Names : ValueOf(a, at + k + 1, x) = None
  <2> DEFINE e == EndOf(r, q)
  <2>1. /\ IsTree(a) /\ Len(a.nodes) = Len(r.nodes) + 1
        /\ \A i \in 1 .. (e + 1) - 1 : Same(a, i, r, i)
        /\ \A i \in e + 1 .. Len(r.nodes) : Same(a, i + 1, r, i)
        /\ a.nodes[e + 1].depth = DepthOf(r, q) + 1
        /\ \A x \in Names : ValueOf(a, e + 1, x) = None
    BY <1>1, AppendReads
  <2>2. e = at + k /\ (e + 1) - 1 = at + k /\ e + 1 = at + k + 1 /\ DepthOf(r, q) + 1 = b + Rel(s, k + 1)
    <3> DEFINE h == Rel(s, k + 1)
    <3>1. h \in Nat
      BY <1>1
    <3>2. DepthOf(r, q) = b + (h - 1) /\ e = at + k
      OBVIOUS
    <3> HIDE DEF h, at, b, e
    <3>3. e = at + k /\ (e + 1) - 1 = at + k /\ e + 1 = at + k + 1 /\ DepthOf(r, q) + 1 = b + h
      BY <1>1, <3>1, <3>2
    <3> QED
      BY <3>3 DEF h
  <2> HIDE DEF at, b, a, e
  <2> QED
    BY <2>1, <2>2
<1>3. /\ \A i \in 1 .. at : Same(r, i, t, i)
      /\ \A i \in at + 1 .. Len(t.nodes) : Same(r, i + k, t, i)
      /\ \A i \in 1 .. k : r.nodes[at + i].depth = b + Rel(s, i)
      /\ \A i \in 1 .. k, x \in Names :
           ValueOf(r, at + i, x) = IF i < k \/ Column(s, x) <= Len(s.columns) THEN KeptOf(s, i, x) ELSE None
  BY DEF Copied
<1> HIDE DEF at, b, a
<1>4. ASSUME NEW i \in 1 .. at PROVE Same(a, i, t, i)
  <2>1. i \in 1 .. at + k
    BY <1>1
  <2>2. Same(a, i, r, i) /\ Same(r, i, t, i)
    BY <1>2, <1>3, <2>1
  <2> QED
    BY <2>2 DEF Same
<1>5. ASSUME NEW i \in at + 1 .. Len(t.nodes) PROVE Same(a, i + (k + 1), t, i)
  <2>1. i + k \in at + k + 1 .. Len(r.nodes) /\ (i + k) + 1 = i + (k + 1)
    BY <1>1
  <2>2. Same(a, (i + k) + 1, r, i + k) /\ Same(r, i + k, t, i)
    BY <1>2, <1>3, <2>1
  <2> QED
    BY <2>1, <2>2 DEF Same
<1>6. ASSUME NEW i \in 1 .. k + 1 PROVE a.nodes[at + i].depth = b + Rel(s, i)
  <2>1. CASE i = k + 1
    <3>1. at + i = at + k + 1
      BY <1>1, <2>1
    <3> QED
      BY <1>2, <2>1, <3>1
  <2>2. CASE i # k + 1
    <3>1. i \in 1 .. k /\ at + i \in 1 .. at + k
      BY <1>1, <2>2
    <3>2. Same(a, at + i, r, at + i)
      BY <1>2, <3>1
    <3> QED
      BY <1>3, <3>1, <3>2 DEF Same
  <2> QED
    BY <2>1, <2>2
<1>7. ASSUME NEW i \in 1 .. k + 1, NEW x \in Names
      PROVE  ValueOf(a, at + i, x) = IF i < k + 1 \/ Column(s, x) <= 0 THEN KeptOf(s, i, x) ELSE None
  <2> DEFINE c == Column(s, x)
  <2>1. c \in 0 .. Len(s.columns) /\ (c = 0 => KeptOf(s, k + 1, x) = None)
    BY <1>1, PartValue
  <2> HIDE DEF c
  <2>2. CASE i = k + 1
    <3>1. at + i = at + k + 1 /\ ~(i < k + 1)
      BY <1>1, <2>2
    <3>2. ValueOf(a, at + i, x) = None
      BY <1>2, <3>1
    <3>3. c <= 0 => c = 0
      BY <1>1, <2>1
    <3> QED
      BY <2>1, <2>2, <3>1, <3>2, <3>3 DEF c
  <2>3. CASE i # k + 1
    <3>1. i \in 1 .. k /\ at + i \in 1 .. at + k /\ i < k + 1 /\ c <= Len(s.columns)
      BY <1>1, <2>1, <2>3
    <3>2. Same(a, at + i, r, at + i)
      BY <1>2, <3>1
    <3>3. ValueOf(a, at + i, x) = ValueOf(r, at + i, x)
      BY <3>2 DEF Same
    <3>4. ValueOf(r, at + i, x) = KeptOf(s, i, x)
      BY <1>3, <3>1 DEF c
    <3> QED
      BY <3>1, <3>3, <3>4
  <2> QED
    BY <2>2, <2>3
<1>8. Len(a.nodes) = Len(t.nodes) + (k + 1)
  BY <1>1, <1>2
<1> QED
  BY <1>2, <1>4, <1>5, <1>6, <1>7, <1>8 DEF Copied, at, b, a

LEMMA OpenNodeRead ==
  ASSUME NEW s, NEW t, NEW p, Job(s, t, p), NEW k \in 0 .. Len(s.nodes) - 1,
         NEW c \in Leaving(s, t, p, k, Above(s, k))
  PROVE  Step(c, Open("node")) \in Inside(s, t, p, k + 1, 0)
<1>1. CASE c \in Failed(s, t, p)
  BY <1>1, FailedStays DEF Inside
<1>2. CASE c \notin Failed(s, t, p)
  <2> DEFINE d == Above(s, k)
             parent == IF c.state = "root" /\ c.isroot THEN 0 ELSE c.node
             at == EndOf(t, p)
             e == Open("node")
  <2>1. /\ c \in Contexts /\ c.ok /\ c.version = 1 /\ Copied(c.tree, s, t, p, k, Len(s.columns))
        /\ Stands(c, s, t, p, k, d)
    BY <1>2 DEF Leaving
  <2>2. /\ IsPart(s) /\ Len(s.nodes) \in Nat /\ k \in Nat /\ k + 1 \in 1 .. Len(s.nodes)
        /\ k \in 0 .. Len(s.nodes) /\ k # Len(s.nodes)
    <3>1. IsPart(s) /\ Len(s.nodes) \in Nat
      BY PartIs DEF Job
    <3> QED
      BY <3>1
  <2>3. d = Rel(s, k + 1) - 1 /\ d \in Nat
    <3>1. Rel(s, k + 1) \in Nat \ {0}
      BY <2>2, PartIs
    <3> QED
      BY <2>2, <3>1 DEF Above
  <2> HIDE DEF d
  <2>4. /\ IF d = 0 THEN parent = p ELSE \E i \in 1 .. k : LastAt(s, k, i, d) /\ parent = at + i
        /\ c.state \in {"root", "node"}
    <3>1. CASE d = 0
      BY <2>1, <3>1 DEF Stands
    <3>2. CASE d # 0
      <4>1. c.state = "node" /\ \E i \in 1 .. k : LastAt(s, k, i, d) /\ c.node = at + i
        BY <2>1, <3>2 DEF Stands
      <4>2. parent = c.node
        BY <4>1
      <4> QED
        BY <3>2, <4>1, <4>2
    <3> QED
      BY <3>1, <3>2
  <2> HIDE DEF parent, at
  <2>5. /\ parent \in 0 .. Len(c.tree.nodes) /\ EndOf(c.tree, parent) = at + k
        /\ DepthOf(c.tree, parent) = DepthOf(t, p) + d
    <3> DEFINE r == c.tree
               m == Len(s.columns)
    <3>1. Copied(r, s, t, p, k, m)
      BY <2>1
    <3>2. IF d = 0 THEN parent = p ELSE \E i \in 1 .. k : LastAt(s, k, i, d) /\ parent = EndOf(t, p) + i
      BY <2>4 DEF at
    <3>3. k \in 0 .. Len(s.nodes) /\ d \in Nat
      BY <2>2, <2>3
    <3> HIDE DEF r, m
    <3>4. parent \in 0 .. Len(r.nodes) /\ EndOf(r, parent) = EndOf(t, p) + k
          /\ DepthOf(r, parent) = DepthOf(t, p) + d
      BY <3>1, <3>2, <3>3, OpenEnds
    <3> QED
      BY <3>4 DEF r, at
  <2>6. Copied(AppendNode(c.tree, parent), s, t, p, k + 1, 0)
    BY <2>1, <2>3, <2>5, AppendCopies DEF at
  <2>7. Step(c, e) = OpensNode(c)
    BY <2>1 DEF Step, OpensElement, Open
  <2>8. OpensNode(c) = [c EXCEPT !.tree = AppendNode(c.tree, parent), !.node = at + k + 1, !.state = "node",
                                 !.isroot = IF c.state = "root" THEN FALSE ELSE @]
    BY <2>4, <2>5 DEF OpensNode, parent
  <2>9. Step(c, e) \in Contexts
    <3>1. e \in Events
      BY DEF Events, Open
    <3> QED
      BY <2>1, <3>1, StepIs
  <2>10. at + k + 1 = at + (k + 1)
    <3>1. at \in Nat
      BY <2>1, <2>2, CopyDepths DEF at
    <3> QED
      BY <2>2, <3>1
  <2> DEFINE a == AppendNode(c.tree, parent)
             f == OpensNode(c)
  <2>11. f.ok /\ f.version = 1 /\ f.tree = a /\ f.state = "node" /\ f.node = at + (k + 1)
    <3>1. f = [c EXCEPT !.tree = a, !.node = at + k + 1, !.state = "node",
                        !.isroot = IF c.state = "root" THEN FALSE ELSE @]
      BY <2>8
    <3>2. c \in [tree : Trees, ok : BOOLEAN, state : States, node : Nat, isroot : BOOLEAN,
                 column : Nat, bytes : BOOLEAN, version : 0 .. 1]
      BY <2>1 DEF Contexts
    <3> HIDE DEF f, a
    <3> QED
      BY <2>1, <2>10, <3>1, <3>2
  <2>12. Step(c, e) = f /\ f \in Contexts /\ Copied(a, s, t, p, k + 1, 0)
    BY <2>6, <2>7, <2>9
  <2> HIDE DEF f, a, e
  <2> QED
    BY <2>11, <2>12 DEF Inside, at, e
<1> QED
  BY <1>1, <1>2

LEMMA CloseNodeRead ==
  ASSUME NEW s, NEW t, NEW p, Job(s, t, p), NEW k \in 0 .. Len(s.nodes), NEW d \in Nat \ {0},
         NEW c \in Leaving(s, t, p, k, d)
  PROVE  Step(c, Close) \in Leaving(s, t, p, k, d - 1)
<1>1. CASE c \in Failed(s, t, p)
  BY <1>1, FailedStays DEF Leaving
<1>2. CASE c \notin Failed(s, t, p)
  <2> DEFINE at == EndOf(t, p)
             r == c.tree
             up == Parent(r, c.node)
             f == Closes(c)
             m == Len(s.columns)
  <2>1. /\ c \in Contexts /\ c.ok /\ c.version = 1 /\ Copied(r, s, t, p, k, m)
        /\ Stands(c, s, t, p, k, d)
    BY <1>2 DEF Leaving
  <2>2. PICK i \in 1 .. k : LastAt(s, k, i, d) /\ c.node = at + i
    BY <2>1 DEF Stands
  <2>3. c.state = "node"
    BY <2>1 DEF Stands
  <2>4. at \in Nat /\ p \in Nat
    <3>1. at \in Nat /\ p \in 0 .. at
      <4> HIDE DEF r, m
      <4> QED
        BY <2>1, CopyDepths
    <3> QED
      BY <3>1
  <2>5. IF d = 1 THEN up = p ELSE \E j \in 1 .. k : LastAt(s, k, j, d - 1) /\ up = at + j
    <3> HIDE DEF r, m
    <3>1. LET u == Parent(r, EndOf(t, p) + i)
          IN  IF d = 1 THEN u = p
              ELSE \E j \in 1 .. k : LastAt(s, k, j, d - 1) /\ u = EndOf(t, p) + j
      BY <2>1, <2>2, OpenParent
    <3> QED
      BY <2>2, <3>1
  <2>6. f = IF up # 0 THEN [c EXCEPT !.node = up] ELSE [c EXCEPT !.state = "root", !.isroot = TRUE]
    BY <2>3 DEF Closes
  <2>7. Step(c, Close) = f
    BY <2>1 DEF Step, Close
  <2>8. f \in Contexts
    BY <2>1, ClosesIs
  <2>9. c \in [tree : Trees, ok : BOOLEAN, state : States, node : Nat, isroot : BOOLEAN,
               column : Nat, bytes : BOOLEAN, version : 0 .. 1]
    BY <2>1 DEF Contexts
  <2> HIDE DEF up, f
  <2>10. f.ok /\ f.version = 1 /\ f.tree = r
    BY <2>1, <2>6, <2>9
  <2>11. Stands(f, s, t, p, k, d - 1)
    <3>1. CASE d = 1
      <4>1. up = p /\ d - 1 = 0
        BY <2>5, <3>1
      <4>2. CASE p = 0
        <5>1. f.state = "root" /\ f.isroot
          BY <2>6, <2>9, <4>1, <4>2
        <5> QED
          BY <4>1, <4>2, <5>1 DEF Stands
      <4>3. CASE p # 0
        <5>1. f.state = "node" /\ f.node = p
          BY <2>3, <2>6, <2>9, <4>1, <4>3
        <5> QED
          BY <4>1, <5>1 DEF Stands
      <4> QED
        BY <4>2, <4>3
    <3>2. CASE d # 1
      <4>1. PICK j \in 1 .. k : LastAt(s, k, j, d - 1) /\ up = at + j
        BY <2>5, <3>2
      <4>2. up # 0 /\ d - 1 # 0
        BY <2>4, <3>2, <4>1
      <4>3. f.state = "node" /\ f.node = at + j
        BY <2>3, <2>6, <2>9, <4>1, <4>2
      <4> QED
        BY <4>1, <4>2, <4>3 DEF Stands
    <3> QED
      BY <3>1, <3>2
  <2> QED
    BY <2>1, <2>7, <2>8, <2>10, <2>11 DEF Leaving
<1> QED
  BY <1>1, <1>2

\* A tree that reads the same is the same copy.
LEMMA SameCopies ==
  ASSUME NEW s, NEW t, NEW p, Job(s, t, p), NEW k \in 0 .. Len(s.nodes), NEW m, NEW r,
         Copied(r, s, t, p, k, m), NEW a, IsTree(a), Len(a.nodes) = Len(r.nodes),
         \A n \in 1 .. Len(r.nodes) : Same(a, n, r, n)
  PROVE  Copied(a, s, t, p, k, m)
<1> DEFINE at == EndOf(t, p)
           b == DepthOf(t, p)
<1>1. at \in Nat /\ at <= Len(t.nodes) /\ Len(t.nodes) \in Nat /\ k \in Nat /\ Len(r.nodes) = Len(t.nodes) + k
  <2>1. IsPart(s) /\ IsTree(t) /\ p \in 0 .. Len(t.nodes)
    BY DEF Job
  <2>2. Len(t.nodes) \in Nat /\ at \in p .. Len(t.nodes) /\ Len(s.nodes) \in Nat
    BY <2>1, TreeParts, EndOfIs, PartIs
  <2>3. Len(r.nodes) = Len(t.nodes) + k
    BY DEF Copied
  <2> HIDE DEF at
  <2> QED
    BY <2>1, <2>2, <2>3
<1>2. /\ \A i \in 1 .. at : Same(r, i, t, i)
      /\ \A i \in at + 1 .. Len(t.nodes) : Same(r, i + k, t, i)
      /\ \A i \in 1 .. k : r.nodes[at + i].depth = b + Rel(s, i)
      /\ \A i \in 1 .. k, x \in Names :
           ValueOf(r, at + i, x) = IF i < k \/ Column(s, x) <= m THEN KeptOf(s, i, x) ELSE None
  BY DEF Copied
<1> HIDE DEF at, b
<1>3. ASSUME NEW i \in 1 .. at PROVE Same(a, i, t, i)
  <2>1. i \in 1 .. Len(r.nodes)
    BY <1>1
  <2> QED
    BY <1>2, <2>1 DEF Same
<1>4. ASSUME NEW i \in at + 1 .. Len(t.nodes) PROVE Same(a, i + k, t, i)
  <2>1. i + k \in 1 .. Len(r.nodes)
    BY <1>1
  <2>2. Same(a, i + k, r, i + k) /\ Same(r, i + k, t, i)
    BY <1>2, <2>1
  <2> QED
    BY <2>2 DEF Same
<1>5. ASSUME NEW i \in 1 .. k PROVE Same(a, at + i, r, at + i)
  <2>1. at + i \in 1 .. Len(r.nodes)
    BY <1>1
  <2> QED
    BY <2>1
<1>6. ASSUME NEW i \in 1 .. k PROVE a.nodes[at + i].depth = b + Rel(s, i)
  BY <1>2, <1>5 DEF Same
<1>7. ASSUME NEW i \in 1 .. k, NEW x \in Names
      PROVE  ValueOf(a, at + i, x) = IF i < k \/ Column(s, x) <= m THEN KeptOf(s, i, x) ELSE None
  <2>1. ValueOf(a, at + i, x) = ValueOf(r, at + i, x)
    BY <1>5 DEF Same
  <2> QED
    BY <1>2, <2>1
<1> QED
  BY <1>1, <1>3, <1>4, <1>6, <1>7 DEF Copied, at, b

\* A value that is kept of the last node is set in the column of its name.
LEMMA SetCopies ==
  ASSUME NEW s, NEW t, NEW p, Job(s, t, p), NEW k \in 1 .. Len(s.nodes),
         NEW m \in 1 .. Len(s.columns), NEW r, Copied(r, s, t, p, k, m - 1),
         NEW column \in 1 .. Len(r.columns), r.columns[column] = s.columns[m],
         KeptOf(s, k, s.columns[m]) \in Seq(Characters), IsFormatted(KeptOf(s, k, s.columns[m]))
  PROVE  Copied(SetValue(r, EndOf(t, p) + k, column, KeptOf(s, k, s.columns[m])), s, t, p, k, m)
<1> DEFINE at == EndOf(t, p)
           b == DepthOf(t, p)
           v == KeptOf(s, k, s.columns[m])
           n == at + k
           a == SetValue(r, n, column, v)
           name == s.columns[m]
<1>1. /\ IsPart(s) /\ at \in Nat /\ at <= Len(t.nodes) /\ Len(t.nodes) \in Nat /\ k \in Nat \ {0}
      /\ IsTree(r) /\ Len(r.nodes) = Len(t.nodes) + k
      /\ Len(s.columns) \in Nat /\ m \in Nat \ {0} /\ k \in 0 .. Len(s.nodes)
  <2>1. IsPart(s) /\ IsTree(t) /\ p \in 0 .. Len(t.nodes)
    BY DEF Job
  <2>2. Len(t.nodes) \in Nat /\ at \in p .. Len(t.nodes) /\ Len(s.nodes) \in Nat /\ Len(s.columns) \in Nat
    BY <2>1, TreeParts, EndOfIs, PartIs
  <2>3. Len(r.nodes) = Len(t.nodes) + k /\ IsTree(r)
    BY DEF Copied
  <2> HIDE DEF at
  <2> QED
    BY <2>1, <2>2, <2>3
<1>2. /\ \A i \in 1 .. at : Same(r, i, t, i)
      /\ \A i \in at + 1 .. Len(t.nodes) : Same(r, i + k, t, i)
      /\ \A i \in 1 .. k : r.nodes[at + i].depth = b + Rel(s, i)
      /\ \A i \in 1 .. k, x \in Names :
           ValueOf(r, at + i, x) = IF i < k \/ Column(s, x) <= m - 1 THEN KeptOf(s, i, x) ELSE None
  BY DEF Copied
<1>3. n \in 1 .. Len(r.nodes)
  <2> HIDE DEF at
  <2> QED
    BY <1>1
<1>4. /\ IsTree(a) /\ Len(a.nodes) = Len(r.nodes)
      /\ \A i \in 1 .. Len(r.nodes) : i # n => Same(a, i, r, i)
      /\ a.nodes[n].depth = r.nodes[n].depth
      /\ \A x \in Names : ValueOf(a, n, x) = IF x = name THEN v ELSE ValueOf(r, n, x)
  <2>1. v \in Seq(Characters) \cup {None} /\ (v # None => IsFormatted(v)) /\ name = r.columns[column]
    OBVIOUS
  <2> HIDE DEF v, n, name
  <2>2. LET w == SetValue(r, n, column, v)
        IN  /\ IsTree(w) /\ w.columns = r.columns /\ Len(w.nodes) = Len(r.nodes)
            /\ \A i \in 1 .. Len(r.nodes) : i # n => Same(w, i, r, i)
            /\ w.nodes[n].depth = r.nodes[n].depth
            /\ \A x \in Names :
                 ValueOf(w, n, x) = IF x = r.columns[column] THEN v ELSE ValueOf(r, n, x)
    <3>1. IsTree(r)
      BY <1>1
    <3>2. v \in Seq(Characters) \cup {None} /\ (v # None => IsFormatted(v))
      BY <2>1
    <3> QED
      BY <1>3, <3>1, <3>2, SetReads
  <2> QED
    BY <2>1, <2>2
<1>5. AreColumns(s.columns)
  BY <1>1, PartIs
<1>6. \A x \in Names : x # name => (Column(s, x) <= m <=> Column(s, x) <= m - 1)
  <2> TAKE x \in Names
  <2>1. Column(s, x) \in 0 .. Len(s.columns) /\ (Column(s, x) # 0 => s.columns[Column(s, x)] = x)
    BY <1>5, ColumnIs
  <2>2. x # name => Column(s, x) # m
    BY <1>1, <2>1
  <2> QED
    BY <1>1, <2>1, <2>2
<1>7. Column(s, name) = m
  BY <1>5, ColumnIs
<1> HIDE DEF at, b, v, a, name
<1>8. ASSUME NEW i \in 1 .. at PROVE Same(a, i, t, i)
  <2>1. i \in 1 .. Len(r.nodes) /\ i # n
    BY <1>1
  <2>2. Same(a, i, r, i) /\ Same(r, i, t, i)
    BY <1>2, <1>4, <2>1
  <2> QED
    BY <2>2 DEF Same
<1>9. ASSUME NEW i \in at + 1 .. Len(t.nodes) PROVE Same(a, i + k, t, i)
  <2>1. i + k \in 1 .. Len(r.nodes) /\ i + k # n
    BY <1>1
  <2>2. Same(a, i + k, r, i + k) /\ Same(r, i + k, t, i)
    BY <1>2, <1>4, <2>1
  <2> QED
    BY <2>2 DEF Same
<1>10. ASSUME NEW i \in 1 .. k
       PROVE  /\ a.nodes[at + i].depth = b + Rel(s, i)
              /\ \A x \in Names :
                   ValueOf(a, at + i, x) = IF i < k \/ Column(s, x) <= m THEN KeptOf(s, i, x) ELSE None
  <2>1. CASE i = k
    <3>1. a.nodes[at + i].depth = b + Rel(s, i)
      BY <1>2, <1>4, <2>1
    <3>2. ASSUME NEW x \in Names
          PROVE  ValueOf(a, at + i, x) = IF i < k \/ Column(s, x) <= m THEN KeptOf(s, i, x) ELSE None
      <4>1. CASE x = name
        <5>1. ValueOf(a, at + i, x) = v /\ Column(s, x) <= m
          BY <1>1, <1>4, <1>7, <2>1, <4>1
        <5> QED
          BY <2>1, <4>1, <5>1 DEF v, name
      <4>2. CASE x # name
        <5>1. ValueOf(a, at + i, x) = ValueOf(r, at + i, x)
          BY <1>4, <2>1, <4>2
        <5>2. Column(s, x) <= m <=> Column(s, x) <= m - 1
          BY <1>6, <4>2
        <5>3. ValueOf(r, at + i, x) = IF i < k \/ Column(s, x) <= m - 1 THEN KeptOf(s, i, x) ELSE None
          BY <1>2
        <5> QED
          BY <5>1, <5>2, <5>3
      <4> QED
        BY <4>1, <4>2
    <3> QED
      BY <3>1, <3>2
  <2>2. CASE i # k
    <3>1. i < k /\ at + i \in 1 .. Len(r.nodes) /\ at + i # n
      BY <1>1, <2>2
    <3>2. Same(a, at + i, r, at + i)
      BY <1>4, <3>1
    <3>3. ASSUME NEW x \in Names PROVE ValueOf(a, at + i, x) = KeptOf(s, i, x)
      BY <1>2, <3>1, <3>2 DEF Same
    <3>4. a.nodes[at + i].depth = b + Rel(s, i)
      BY <1>2, <3>2 DEF Same
    <3> QED
      BY <3>1, <3>3, <3>4
  <2> QED
    BY <2>1, <2>2
<1>11. Copied(a, s, t, p, k, m)
  BY <1>1, <1>4, <1>8, <1>9, <1>10 DEF Copied, at, b
<1> QED
  BY <1>11 DEF a, at, v, name

\* The attribute of some name is open.
Held(s, t, p, k, m, name, bytes) ==
  {c \in Contexts : /\ c.ok /\ c.version = 1 /\ Copied(c.tree, s, t, p, k, m)
                    /\ c.state = "attr" /\ c.node = EndOf(t, p) + k
                    /\ c.tree.columns[c.column] = name /\ c.bytes = bytes} \cup Failed(s, t, p)

Element(name, bytes) == [on |-> "open", name |-> "attr", column |-> name, bytes |-> bytes]

LEMMA OpenAttrRead ==
  ASSUME NEW s, NEW t, NEW p, Job(s, t, p), NEW k \in 1 .. Len(s.nodes), NEW m,
         NEW name \in Names, NEW bytes \in BOOLEAN, NEW c \in Inside(s, t, p, k, m)
  PROVE  Step(c, Element(name, bytes)) \in Held(s, t, p, k, m, name, bytes)
<1>1. CASE c \in Failed(s, t, p)
  BY <1>1, FailedStays DEF Held
<1>2. CASE c \notin Failed(s, t, p)
  <2> DEFINE r == c.tree
             a == Register(r, name)
             e == Element(name, bytes)
             f == OpensAttr(c, e)
             column == Column(a, name)
  <2>1. /\ c \in Contexts /\ c.ok /\ c.version = 1 /\ Copied(r, s, t, p, k, m)
        /\ c.state = "node" /\ c.node = EndOf(t, p) + k
    BY <1>2 DEF Inside
  <2>2. IsTree(r) /\ k \in 0 .. Len(s.nodes)
    <3>1. Len(s.nodes) \in Nat
      BY PartIs DEF Job
    <3> QED
      BY <2>1, <3>1 DEF Copied
  <2>3. /\ IsTree(a) /\ a.nodes = r.nodes /\ a.columns[column] = name
        /\ \A n \in 1 .. Len(r.nodes) : Same(a, n, r, n)
    <3> HIDE DEF r
    <3> QED
      BY <2>2, RegisterReads
  <2>4. Copied(a, s, t, p, k, m)
    <3> HIDE DEF r, a
    <3> QED
      BY <2>1, <2>2, <2>3, SameCopies
  <2>5. e.on = "open" /\ e.name = "attr" /\ e.column = name /\ e.bytes = bytes /\ e \in Events
    BY DEF Element, Events
  <2>6. f = [c EXCEPT !.tree = a, !.column = column, !.bytes = bytes, !.state = "attr"]
    BY <2>1, <2>5 DEF OpensAttr
  <2>7. Step(c, e) = f
    BY <2>1, <2>5 DEF Step, OpensElement
  <2>8. f \in Contexts
    BY <2>1, <2>5, <2>7, StepIs
  <2>9. c \in [tree : Trees, ok : BOOLEAN, state : States, node : Nat, isroot : BOOLEAN,
               column : Nat, bytes : BOOLEAN, version : 0 .. 1]
    BY <2>1 DEF Contexts
  <2> HIDE DEF f, a, column
  <2>10. /\ f.ok /\ f.version = 1 /\ f.tree = a /\ f.state = "attr" /\ f.node = EndOf(t, p) + k
         /\ f.column = column /\ f.bytes = bytes
    BY <2>1, <2>6, <2>9
  <2> QED
    BY <2>3, <2>4, <2>7, <2>8, <2>10 DEF Held
<1> QED
  BY <1>1, <1>2

LEMMA CloseAttrRead ==
  ASSUME NEW s, NEW t, NEW p, NEW k, NEW m, NEW name, NEW bytes,
         NEW c \in Held(s, t, p, k, m, name, bytes)
  PROVE  Step(c, Close) \in Inside(s, t, p, k, m)
<1>1. CASE c \in Failed(s, t, p)
  BY <1>1, FailedStays DEF Inside
<1>2. CASE c \notin Failed(s, t, p)
  <2> DEFINE f == Closes(c)
  <2>1. /\ c \in Contexts /\ c.ok /\ c.version = 1 /\ Copied(c.tree, s, t, p, k, m)
        /\ c.state = "attr" /\ c.node = EndOf(t, p) + k
    BY <1>2 DEF Held
  <2>2. f = [c EXCEPT !.state = "node"]
    BY <2>1 DEF Closes
  <2>3. Step(c, Close) = f
    BY <2>1 DEF Step, Close
  <2>4. f \in Contexts
    BY <2>1, ClosesIs
  <2>5. c \in [tree : Trees, ok : BOOLEAN, state : States, node : Nat, isroot : BOOLEAN,
               column : Nat, bytes : BOOLEAN, version : 0 .. 1]
    BY <2>1 DEF Contexts
  <2> HIDE DEF f
  <2>6. f.ok /\ f.version = 1 /\ f.tree = c.tree /\ f.state = "node" /\ f.node = EndOf(t, p) + k
    BY <2>1, <2>2, <2>5
  <2> QED
    BY <2>1, <2>3, <2>4, <2>6 DEF Inside
<1> QED
  BY <1>1, <1>2

\* The text of a value that is kept.
LEMMA TextRead ==
  ASSUME NEW s, NEW t, NEW p, Job(s, t, p), NEW k \in 1 .. Len(s.nodes),
         NEW m \in 1 .. Len(s.columns), NEW bytes \in BOOLEAN, NEW u \in Seq(Characters),
         KeptOf(s, k, s.columns[m]) \in Seq(Characters), IsFormatted(KeptOf(s, k, s.columns[m])),
         IF bytes THEN IsCoded(u) /\ KeptOf(s, k, s.columns[m]) = u
                  ELSE KeptOf(s, k, s.columns[m]) = <<"t", ":">> \o u,
         NEW c \in Held(s, t, p, k, m - 1, s.columns[m], bytes)
  PROVE  Step(c, [on |-> "text", text |-> u]) \in Held(s, t, p, k, m, s.columns[m], bytes)
<1>1. CASE c \in Failed(s, t, p)
  BY <1>1, FailedStays DEF Held
<1>2. CASE c \notin Failed(s, t, p)
  <2> DEFINE v == KeptOf(s, k, s.columns[m])
             name == s.columns[m]
             r == c.tree
             n == EndOf(t, p) + k
             a == SetValue(r, n, c.column, v)
             f == Reads(c, u)
             e == [on |-> "text", text |-> u]
  <2>1. /\ c \in Contexts /\ c.ok /\ c.version = 1 /\ Copied(r, s, t, p, k, m - 1)
        /\ c.state = "attr" /\ c.node = n /\ r.columns[c.column] = name /\ c.bytes = bytes
    BY <1>2 DEF Held
  <2>2. c.column \in 1 .. Len(r.columns)
    BY <2>1 DEF Contexts
  <2>3. Copied(a, s, t, p, k, m)
    <3> DEFINE column == c.column
    <3>1. column \in 1 .. Len(r.columns) /\ r.columns[column] = s.columns[m]
      BY <2>1, <2>2
    <3>2. Copied(r, s, t, p, k, m - 1)
      BY <2>1
    <3> HIDE DEF r, column
    <3>3. Copied(SetValue(r, EndOf(t, p) + k, column, KeptOf(s, k, s.columns[m])), s, t, p, k, m)
      BY <3>1, <3>2, SetCopies
    <3> QED
      BY <3>3 DEF r, column
  <2>4. AttrText(c, u) = a
    <3> DEFINE coded == c.bytes \/ (c.version = 0 /\ LooksCoded(u))
               w == <<"t", ":">> \o u
    <3>1. AttrText(c, u) = IF coded THEN IF IsCoded(u) THEN SetValue(r, n, c.column, u) ELSE r
                           ELSE SetValue(r, n, c.column, w)
      BY <2>1 DEF AttrText
    <3>2. coded <=> bytes
      BY <2>1
    <3>3. IF bytes THEN IsCoded(u) /\ v = u ELSE v = w
      OBVIOUS
    <3> HIDE DEF coded, v, w
    <3>4. CASE bytes
      BY <3>1, <3>2, <3>3, <3>4
    <3>5. CASE ~bytes
      BY <3>1, <3>2, <3>3, <3>5
    <3> QED
      BY <3>4, <3>5
  <2>5. f = [c EXCEPT !.tree = a]
    BY <2>1, <2>4 DEF Reads
  <2>6. Step(c, e) = f
    BY <2>1 DEF Step
  <2>7. f \in Contexts
    BY <2>1, ReadsIs
  <2>8. a.columns = r.columns
    BY DEF SetValue
  <2>9. c \in [tree : Trees, ok : BOOLEAN, state : States, node : Nat, isroot : BOOLEAN,
               column : Nat, bytes : BOOLEAN, version : 0 .. 1]
    BY <2>1 DEF Contexts
  <2> HIDE DEF f, a, e
  <2>10. /\ f.ok /\ f.version = 1 /\ f.tree = a /\ f.state = "attr" /\ f.node = n
         /\ f.column = c.column /\ f.bytes = bytes
    BY <2>1, <2>5, <2>9
  <2>11. f.tree.columns[f.column] = name
    BY <2>1, <2>8, <2>10
  <2>12. f \in Held(s, t, p, k, m, name, bytes)
    <3> HIDE DEF name
    <3> QED
      BY <2>3, <2>7, <2>10, <2>11 DEF Held
  <2> QED
    BY <2>6, <2>12 DEF e
<1> QED
  BY <1>1, <1>2

\* A name in bad quotes ends the parsing.
LEMMA MalformedRead ==
  ASSUME NEW s, NEW t, NEW p, Job(s, t, p), NEW k \in 1 .. Len(s.nodes),
         NEW m \in 0 .. Len(s.columns), HasQuoted(s), NEW c \in Inside(s, t, p, k, m)
  PROVE  Step(c, Malformed) \in Failed(s, t, p)
<1>1. CASE c \in Failed(s, t, p)
  BY <1>1, FailedStays
<1>2. CASE c \notin Failed(s, t, p)
  <2> DEFINE f == Error(c)
  <2>1. c \in Contexts /\ c.ok /\ Copied(c.tree, s, t, p, k, m)
    BY <1>2 DEF Inside
  <2>2. f \in Contexts
    BY <2>1, ErrorIs
  <2>3. ~f.ok /\ f.tree = c.tree
    <3>1. c \in [tree : Trees, ok : BOOLEAN, state : States, node : Nat, isroot : BOOLEAN,
                 column : Nat, bytes : BOOLEAN, version : 0 .. 1]
      BY <2>1 DEF Contexts
    <3>2. f = [c EXCEPT !.ok = FALSE]
      BY DEF Error
    <3> HIDE DEF f
    <3> QED
      BY <3>1, <3>2
  <2>4. Step(c, Malformed) = f
    BY <2>1 DEF Step, Malformed
  <2>5. k \in 0 .. Len(s.nodes)
    <3>1. Len(s.nodes) \in Nat
      BY PartIs DEF Job
    <3> QED
      BY <3>1
  <2> HIDE DEF f
  <2>6. f \in Partly(s, t, p)
    BY <2>1, <2>2, <2>3, <2>5 DEF Partly
  <2> QED
    BY <2>3, <2>4, <2>6 DEF Failed
<1> QED
  BY <1>1, <1>2

LEMMA HeldIs ==
  ASSUME NEW s, NEW t, NEW p, Job(s, t, p), NEW k \in 0 .. Len(s.nodes),
         NEW m \in 0 .. Len(s.columns), NEW name, NEW bytes
  PROVE  Held(s, t, p, k, m, name, bytes) \in SUBSET Partly(s, t, p)
<1>1. Failed(s, t, p) \in SUBSET Partly(s, t, p)
  BY FamiliesAre
<1>2. ASSUME NEW c \in Contexts, Copied(c.tree, s, t, p, k, m) PROVE c \in Partly(s, t, p)
  BY <1>2 DEF Partly
<1> QED
  BY <1>1, <1>2 DEF Held

\* A column of which nothing is kept.
LEMMA NothingRead ==
  ASSUME NEW s, NEW t, NEW p, Job(s, t, p), NEW k \in 1 .. Len(s.nodes),
         NEW m \in 1 .. Len(s.columns), KeptOf(s, k, s.columns[m]) = None
  PROVE  /\ Inside(s, t, p, k, m - 1) \subseteq Inside(s, t, p, k, m)
         /\ \A name, bytes :
              Held(s, t, p, k, m - 1, name, bytes) \subseteq Held(s, t, p, k, m, name, bytes)
<1>1. IsPart(s) /\ AreColumns(s.columns) /\ Len(s.columns) \in Nat /\ Len(s.nodes) \in Nat
  BY PartIs DEF Job
<1>2. ASSUME NEW x \in Names, KeptOf(s, k, x) # None
      PROVE  Column(s, x) <= m - 1 <=> Column(s, x) <= m
  <2>1. Column(s, x) \in 0 .. Len(s.columns) /\ (Column(s, x) # 0 => s.columns[Column(s, x)] = x)
    BY <1>1, ColumnIs
  <2>2. Column(s, x) # m
    BY <1>2, <2>1
  <2> QED
    BY <1>1, <2>1, <2>2
<1>3. ASSUME NEW c \in Contexts, Copied(c.tree, s, t, p, k, m - 1)
      PROVE  Copied(c.tree, s, t, p, k, m)
  <2> DEFINE r == c.tree
             l == m - 1
  <2>1. Copied(r, s, t, p, k, l) /\ k \in Nat
    BY <1>1, <1>3
  <2>2. \A x \in Names : KeptOf(s, k, x) # None => (Column(s, x) <= l <=> Column(s, x) <= m)
    BY <1>2
  <2> HIDE DEF r, l
  <2>3. Copied(r, s, t, p, k, m)
    BY <2>1, <2>2, CopiedMore
  <2> QED
    BY <2>3 DEF r
<1> QED
  BY <1>3 DEF Inside, Held

LEMMA AttrRead ==
  ASSUME NEW s, NEW t, NEW p, Job(s, t, p), NEW k \in 1 .. Len(s.nodes),
         NEW m \in 1 .. Len(s.columns), m <= Len(s.nodes[k].values)
  PROVE  Takes(Inside(s, t, p, k, m - 1), AttrEvents(s.columns[m], s.nodes[k].values[m]),
               Partly(s, t, p), Inside(s, t, p, k, m))
<1> DEFINE name == s.columns[m]
           value == s.nodes[k].values[m]
           kept == KeptOf(s, k, name)
           G == Partly(s, t, p)
           A == Inside(s, t, p, k, m - 1)
           B == Inside(s, t, p, k, m)
<1>1. /\ IsPart(s) /\ AreColumns(s.columns) /\ s.columns \in Seq(Names)
      /\ Len(s.columns) \in Nat /\ Len(s.nodes) \in Nat
      /\ m - 1 \in 0 .. Len(s.columns) /\ m \in 0 .. Len(s.columns) /\ k \in 0 .. Len(s.nodes)
      /\ name \in Names /\ Len(s.nodes[k].values) \in Nat
      /\ s.nodes[k].values \in Seq(Seq(Characters) \cup {None})
  <2>1. /\ IsPart(s) /\ AreColumns(s.columns) /\ s.columns \in Seq(Names)
        /\ Len(s.columns) \in Nat /\ Len(s.nodes) \in Nat /\ Len(s.nodes[k].values) \in Nat
        /\ s.nodes[k].values \in Seq(Seq(Characters) \cup {None})
    BY PartIs DEF Job
  <2> QED
    BY <2>1
<1>2. Column(s, name) = m
  BY <1>1, ColumnIs
<1>3. /\ ValueOf(s, k, name) = value /\ value \in Seq(Characters) \cup {None}
      /\ value # None => IsFormatted(value)
  <2>1. ValueOf(s, k, name) = value
    <3>1. m # 0
      BY <1>1
    <3> QED
      BY <1>2, <3>1 DEF ValueOf, ValueAt
  <2> QED
    BY <1>1, <2>1, PartValue
<1>4. G \in SUBSET Contexts /\ A \in SUBSET G /\ B \in SUBSET G /\ Failed(s, t, p) \in SUBSET G
      /\ Failed(s, t, p) \subseteq B
  <2>1. Failed(s, t, p) \subseteq B
    BY DEF Inside
  <2> QED
    BY <1>1, <2>1, FamiliesAre
<1>5. kept = IF value = None \/ name \in Hidden THEN None
             ELSE IF value[1] \in {"8", "4"} THEN value
             ELSE <<"t", ":">> \o SubSeq(value, 3, Len(value))
  BY <1>3 DEF KeptOf, KeptValue
<1>6. CASE value = None \/ name \in Hidden
  <2>1. kept = None
    BY <1>5, <1>6
  <2>2. A \subseteq B
    BY <2>1, NothingRead
  <2>3. AttrEvents(name, value) = <<>>
    BY <1>6 DEF AttrEvents
  <2> HIDE DEF A, B, G, name, value
  <2> QED
    BY <1>4, <2>2, <2>3, TakesNone DEF A, B, G, name, value
<1>7. CASE ~(value = None \/ name \in Hidden) /\ name \in Quoted
  <2>1. AttrEvents(name, value) = <<Malformed>>
    BY <1>7 DEF AttrEvents
  <2>2. HasQuoted(s)
    <3>1. k \in DOMAIN s.nodes /\ m \in DOMAIN s.nodes[k].values
      BY <1>1, PartIs
    <3>2. <<name, value>> \in AttrsOf(s, k)
      BY <1>7, <3>1 DEF AttrsOf
    <3>3. <<name, value>>[1] = name
      OBVIOUS
    <3> QED
      BY <1>7, <3>1, <3>2, <3>3 DEF HasQuoted
  <2>3. \A c \in A : Step(c, Malformed) \in B
    <3>1. ASSUME NEW c \in A PROVE Step(c, Malformed) \in Failed(s, t, p)
      BY <1>1, <2>2, MalformedRead
    <3> HIDE DEF A, B
    <3> QED
      BY <1>4, <3>1
  <2>4. Malformed \in Events
    BY DEF Events
  <2> HIDE DEF A, B, G, name, value
  <2>5. Takes(A, <<Malformed>>, G, B)
    BY <1>4, <2>3, <2>4, TakesOne
  <2> QED
    BY <2>1, <2>5 DEF A, B, G, name, value
<1>8. CASE ~(value = None \/ name \in Hidden) /\ name \notin Quoted
  <2> DEFINE bytes == value[1] \in {"8", "4", "2"}
             u == IF bytes THEN value ELSE SubSeq(value, 3, Len(value))
             e == Element(name, bytes)
             H == Held(s, t, p, k, m - 1, name, bytes)
             I == Held(s, t, p, k, m, name, bytes)
  <2>1. /\ value \in Seq(Characters) /\ Len(value) \in Nat /\ Len(value) >= 2
        /\ value[1] \in {"8", "4", "1", "t"} /\ value[2] = ":" /\ IsFormatted(value)
    BY <1>3, <1>8 DEF IsFormatted
  <2>2. bytes \in BOOLEAN /\ u \in Seq(Characters) /\ (bytes <=> value[1] \in {"8", "4"})
    <3>1. SubSeq(value, 3, Len(value)) \in Seq(Characters)
      BY <2>1
    <3> QED
      BY <2>1, <3>1
  <2>3. AttrEvents(name, value) = <<e, Text(u), Close>>
    BY <1>8 DEF AttrEvents, Element
  <2>4. H \in SUBSET G /\ I \in SUBSET G
    BY <1>1, HeldIs
  <2>5. /\ kept \in Seq(Characters) /\ IsFormatted(kept)
        /\ IF bytes THEN IsCoded(u) /\ kept = u ELSE kept = <<"t", ":">> \o u
    <3>1. CASE bytes
      <4>1. u = value /\ kept = value
        BY <1>5, <1>8, <2>2, <3>1
      <4>2. IsCoded(value)
        BY <2>1, <2>2, <3>1 DEF IsCoded, LooksCoded
      <4> HIDE DEF u, kept, value, bytes
      <4> QED
        BY <2>1, <3>1, <4>1, <4>2
    <3>2. CASE ~bytes
      <4>1. u = SubSeq(value, 3, Len(value))
        BY <3>2
      <4>2. kept = <<"t", ":">> \o u
        <5> HIDE DEF u, kept, value, bytes
        <5> QED
          BY <1>5, <1>8, <2>2, <3>2, <4>1
      <4>3. <<"t", ":">> \o u \in Seq(Characters) /\ IsFormatted(<<"t", ":">> \o u)
        <5> HIDE DEF u
        <5> QED
          BY <2>2, KindInFront
      <4> HIDE DEF u, kept, value, bytes
      <4> QED
        BY <3>2, <4>2, <4>3
    <3> QED
      BY <3>1, <3>2
  <2>8. ASSUME NEW c \in A PROVE Step(c, e) \in H
    BY <1>1, <2>2, OpenAttrRead
  <2> DEFINE f == Text(u)
  <2>9. ASSUME NEW c \in H PROVE Step(c, f) \in I
    <3>1. Step(c, [on |-> "text", text |-> u]) \in I
      <4> HIDE DEF u, bytes
      <4> QED
        BY <2>2, <2>5, TextRead
    <3> QED
      BY <3>1 DEF Text
  <2>10. ASSUME NEW c \in I PROVE Step(c, Close) \in B
    BY CloseAttrRead
  <2>11. e \in Events /\ f \in Events /\ Close \in Events
    <3>1. e \in Events /\ Close \in Events
      BY <1>1, <2>2 DEF Events, Element
    <3>2. f \in Events
      BY <2>2, TextEvents
    <3> QED
      BY <3>1, <3>2
  <2> DEFINE events == <<e, f, Close>>
             J == [i \in 0 .. 3 |-> IF i = 0 THEN A ELSE IF i = 1 THEN H ELSE IF i = 2 THEN I ELSE B]
  <2>12. Takes(A, events, G, B)
    <3> HIDE DEF A, B, G, H, I, e, f
    <3>1. /\ events \in Seq(Events) /\ Len(events) = 3
          /\ events[1] = e /\ events[2] = f /\ events[3] = Close
      BY <2>11
    <3>2. J \in [0 .. 3 -> SUBSET G] /\ J[0] = A /\ J[1] = H /\ J[2] = I /\ J[3] = B
      BY <1>4, <2>4
    <3> HIDE DEF events, J
    <3>3. ASSUME NEW i \in 1 .. 3, NEW c \in J[i - 1] PROVE Step(c, events[i]) \in J[i]
      <4>1. CASE i = 1
        <5>1. c \in J[0]
          BY <4>1
        <5> QED
          BY <2>8, <3>1, <3>2, <4>1, <5>1
      <4>2. CASE i = 2
        <5>1. c \in J[1]
          BY <4>2
        <5> QED
          BY <2>9, <3>1, <3>2, <4>2, <5>1
      <4>3. CASE i = 3
        <5>1. c \in J[2]
          BY <4>3
        <5> QED
          BY <2>10, <3>1, <3>2, <4>3, <5>1
      <4> QED
        BY <4>1, <4>2, <4>3
    <3>4. Takes(J[0], events, G, J[3])
      BY <1>4, <3>1, <3>2, <3>3, TakesSteps
    <3> QED
      BY <3>2, <3>4
  <2> HIDE DEF u
  <2> QED
    BY <2>3, <2>12
<1> QED
  BY <1>6, <1>7, <1>8

-------------------------------------------------------------------------------
(***************************************************************************)
(* What the parser makes of the events of a part of a tree.                *)
(***************************************************************************)
LEMMA AttributesRead ==
  ASSUME NEW s, NEW t, NEW p, Job(s, t, p), NEW k \in 1 .. Len(s.nodes)
  PROVE  /\ Attributes(s, k) \in Seq(Events)
         /\ Takes(Inside(s, t, p, k, 0), Attributes(s, k), Partly(s, t, p),
                  Inside(s, t, p, k, Len(s.columns)))
<1> DEFINE values == s.nodes[k].values
           columns == s.columns
           G == Partly(s, t, p)
           count == IF Len(columns) < Len(values) THEN Len(columns) ELSE Len(values)
           seqs == [c \in 1 .. count |-> AttrEvents(columns[c], values[c])]
           J == [c \in 0 .. count |-> Inside(s, t, p, k, c)]
<1>1. /\ IsPart(s) /\ AreColumns(columns) /\ columns \in Seq(Names)
      /\ Len(columns) \in Nat /\ Len(s.nodes) \in Nat /\ Len(values) \in Nat
      /\ values \in Seq(Seq(Characters) \cup {None}) /\ DOMAIN values = 1 .. Len(values)
      /\ AreValues(values, Len(columns), s.room)
  <2>1. /\ IsPart(s) /\ AreColumns(columns) /\ columns \in Seq(Names)
        /\ Len(columns) \in Nat /\ Len(s.nodes) \in Nat /\ Len(values) \in Nat
        /\ values \in Seq(Seq(Characters) \cup {None})
        /\ AreValues(values, Len(columns), s.room)
    BY PartIs DEF Job
  <2> HIDE DEF values
  <2> QED
    BY <2>1
<1>2. count \in Nat /\ count <= Len(columns) /\ count <= Len(values) /\ k \in Nat /\ k \in 0 .. Len(s.nodes)
  <2> HIDE DEF columns, values
  <2> QED
    BY <1>1
<1>3. Attributes(s, k) = FlattenSeq(seqs)
  BY DEF Attributes
<1>4. ASSUME NEW c \in 1 .. count
      PROVE  /\ AttrEvents(columns[c], values[c]) \in Seq(Events)
             /\ Takes(Inside(s, t, p, k, c - 1), AttrEvents(columns[c], values[c]), G, Inside(s, t, p, k, c))
  <2>1. c \in 1 .. Len(columns) /\ c \in 1 .. Len(values) /\ c <= Len(values)
    <3> HIDE DEF count
    <3> QED
      BY <1>1, <1>2
  <2>2. Takes(Inside(s, t, p, k, c - 1), AttrEvents(columns[c], values[c]), G, Inside(s, t, p, k, c))
    BY <2>1, AttrRead
  <2>3. columns[c] \in Names /\ values[c] \in Seq(Characters) \cup {None}
        /\ (values[c] # None => IsFormatted(values[c]))
    <3> HIDE DEF columns, values
    <3> QED
      BY <1>1, <2>1 DEF AreValues
  <2>4. AttrEvents(columns[c], values[c]) \in Seq(Events)
    BY <2>3, AttrEventsAre
  <2> QED
    BY <2>2, <2>4
<1>5. ASSUME NEW c \in 0 .. count PROVE Inside(s, t, p, k, c) \in SUBSET G
  <2>1. c \in 0 .. Len(columns)
    <3> HIDE DEF count
    <3> QED
      BY <1>1, <1>2
  <2> QED
    BY <1>2, <2>1, FamiliesAre
<1>6. G \in SUBSET Contexts
  BY <1>2, FamiliesAre
<1> HIDE DEF count, values, columns, G
<1>7. seqs \in Seq(Seq(Events)) /\ Len(seqs) = count /\ \A c \in 1 .. count : seqs[c] = AttrEvents(columns[c], values[c])
  BY <1>2, <1>4
<1>8. J \in [0 .. count -> SUBSET G] /\ \A c \in 0 .. count : J[c] = Inside(s, t, p, k, c)
  BY <1>5
<1>9. Takes(Inside(s, t, p, k, 0), FlattenSeq(seqs), G, Inside(s, t, p, k, count))
  <2> HIDE DEF J, seqs
  <2>1. ASSUME NEW c \in 1 .. count PROVE Takes(J[c - 1], seqs[c], G, J[c])
    <3>1. c - 1 \in 0 .. count /\ c \in 0 .. count
      BY <1>2
    <3> QED
      BY <1>4, <1>7, <1>8, <3>1
  <2>2. Takes(J[0], FlattenSeq(seqs), G, J[count])
    BY <1>2, <1>6, <1>7, <1>8, <2>1, TakesAll
  <2>3. 0 \in 0 .. count /\ count \in 0 .. count
    BY <1>2
  <2> QED
    BY <1>8, <2>2, <2>3
<1>10. FlattenSeq(seqs) \in Seq(Events)
  <2> HIDE DEF seqs
  <2> QED
    BY <1>7, FlattenTyped
<1>11. Inside(s, t, p, k, count) \subseteq Inside(s, t, p, k, Len(columns))
  <2>1. ASSUME NEW x \in Names, KeptOf(s, k, x) # None
        PROVE  Column(s, x) <= count <=> Column(s, x) <= Len(columns)
    <3>1. ValueOf(s, k, x) # None
      BY <2>1 DEF KeptOf
    <3>2. Column(s, x) \in 0 .. Len(columns) /\ Column(s, x) <= Len(values)
      BY <1>1, <3>1, PartValue DEF columns, values
    <3> QED
      BY <1>1, <3>2 DEF count
  <2>2. ASSUME NEW c \in Contexts, Copied(c.tree, s, t, p, k, count)
        PROVE  Copied(c.tree, s, t, p, k, Len(columns))
    <3> DEFINE r == c.tree
               m == Len(columns)
    <3>1. Copied(r, s, t, p, k, count)
      BY <2>2
    <3>2. \A x \in Names : KeptOf(s, k, x) # None => (Column(s, x) <= count <=> Column(s, x) <= m)
      BY <2>1
    <3> HIDE DEF r, m
    <3>3. Copied(r, s, t, p, k, m)
      BY <1>2, <3>1, <3>2, CopiedMore
    <3> QED
      BY <3>3 DEF r, m
  <2> QED
    BY <2>2 DEF Inside
<1>12. Takes(Inside(s, t, p, k, 0), FlattenSeq(seqs), G, Inside(s, t, p, k, Len(columns)))
  <2> HIDE DEF seqs
  <2> QED
    BY <1>9, <1>11, TakesMore
<1> QED
  BY <1>3, <1>10, <1>12 DEF G, columns

\* The last node is open when all of it was read.
LEMMA LastOpen ==
  ASSUME NEW s, NEW t, NEW p, Job(s, t, p), NEW k \in 1 .. Len(s.nodes)
  PROVE  Inside(s, t, p, k, Len(s.columns)) \subseteq Leaving(s, t, p, k, Rel(s, k))
<1>1. Rel(s, k) \in Nat \ {0} /\ k \in 1 .. k /\ \A l \in k + 1 .. k : FALSE
  <2>1. Rel(s, k) \in Nat \ {0} /\ Len(s.nodes) \in Nat
    BY PartIs DEF Job
  <2> QED
    BY <2>1
<1>2. LastAt(s, k, k, Rel(s, k))
  BY <1>1 DEF LastAt
<1>3. ASSUME NEW c, c.state = "node", c.node = EndOf(t, p) + k
      PROVE  Stands(c, s, t, p, k, Rel(s, k))
  BY <1>1, <1>2, <1>3 DEF Stands
<1> QED
  BY <1>3 DEF Inside, Leaving

\* The closing of nodes, up to some depth.
LEMMA ClosesRead ==
  ASSUME NEW s, NEW t, NEW p, Job(s, t, p), NEW k \in 0 .. Len(s.nodes), NEW d \in Nat,
         NEW n \in Nat, n <= d
  PROVE  LET ends == [i \in 1 .. n |-> Close]
         IN  /\ ends \in Seq(Events)
             /\ Takes(Leaving(s, t, p, k, d), ends, Partly(s, t, p), Leaving(s, t, p, k, d - n))
<1> DEFINE ends == [i \in 1 .. n |-> Close]
           G == Partly(s, t, p)
           J == [i \in 0 .. n |-> Leaving(s, t, p, k, d - i)]
<1>1. ends \in Seq(Events) /\ Len(ends) = n /\ \A i \in 1 .. n : ends[i] = Close
  <2>1. Close \in Events
    BY DEF Events
  <2> QED
    BY <2>1
<1>2. G \in SUBSET Contexts /\ \A e : Leaving(s, t, p, k, e) \in SUBSET G
  BY FamiliesAre
<1> HIDE DEF G
<1>3. J \in [0 .. n -> SUBSET G] /\ \A i \in 0 .. n : J[i] = Leaving(s, t, p, k, d - i)
  BY <1>2
<1>4. ASSUME NEW i \in 1 .. n, NEW c \in J[i - 1] PROVE Step(c, ends[i]) \in J[i]
  <2>1. i - 1 \in 0 .. n /\ i \in 0 .. n /\ d - (i - 1) \in Nat \ {0} /\ (d - (i - 1)) - 1 = d - i
    OBVIOUS
  <2> DEFINE e == d - (i - 1)
  <2>2. c \in Leaving(s, t, p, k, e)
    BY <1>3, <2>1
  <2>3. Step(c, Close) \in Leaving(s, t, p, k, e - 1)
    <3>1. e \in Nat \ {0}
      BY <2>1
    <3> HIDE DEF e
    <3> QED
      BY <2>2, <3>1, CloseNodeRead
  <2> HIDE DEF J, ends
  <2> QED
    BY <1>1, <1>3, <2>1, <2>3
<1>5. J[0] = Leaving(s, t, p, k, d) /\ J[n] = Leaving(s, t, p, k, d - n)
  <2>1. 0 \in 0 .. n /\ n \in 0 .. n /\ d - 0 = d
    OBVIOUS
  <2> HIDE DEF J
  <2> QED
    BY <1>3, <2>1
<1> HIDE DEF J, ends
<1>6. Takes(J[0], ends, G, J[n])
  BY <1>1, <1>2, <1>3, <1>4, TakesSteps
<1> QED
  BY <1>1, <1>5, <1>6 DEF ends, G

LEMMA NodeRead ==
  ASSUME NEW s, NEW t, NEW p, Job(s, t, p), NEW k \in 1 .. Len(s.nodes)
  PROVE  /\ NodeEvents(s, 1, Len(s.nodes), k) \in Seq(Events)
         /\ Takes(Leaving(s, t, p, k - 1, Above(s, k - 1)), NodeEvents(s, 1, Len(s.nodes), k),
                  Partly(s, t, p), Leaving(s, t, p, k, Above(s, k)))
<1> DEFINE n == Len(s.nodes)
           following == IF k = n THEN s.nodes[1].depth ELSE s.nodes[k + 1].depth
           closing == s.nodes[k].depth - following + 1
           G == Partly(s, t, p)
           open == <<Open("node")>>
           attrs == Attributes(s, k)
           ends == [i \in 1 .. closing |-> Close]
           A == Leaving(s, t, p, k - 1, Above(s, k - 1))
           B == Inside(s, t, p, k, 0)
           C == Leaving(s, t, p, k, Rel(s, k))
           D == Leaving(s, t, p, k, Above(s, k))
<1>1. /\ IsPart(s) /\ n \in Nat /\ Len(s.columns) \in Nat
      /\ \A i \in 1 .. n : s.nodes[i].depth \in Nat /\ Rel(s, i) \in Nat \ {0}
      /\ \A i \in 1 .. n - 1 : Rel(s, i + 1) <= Rel(s, i) + 1
  BY PartIs DEF Job
<1>2. /\ k \in Nat \ {0} /\ k \in 0 .. n /\ k - 1 \in 0 .. n - 1 /\ k - 1 \in 0 .. n
      /\ (k - 1) + 1 = k /\ 1 \in 1 .. n
  BY <1>1
<1>3. closing \in Nat /\ closing <= Rel(s, k) /\ Rel(s, k) - closing = Above(s, k)
  <2>1. CASE k = n
    <3>1. following = s.nodes[1].depth /\ Above(s, k) = 0
      BY <2>1 DEF Above
    <3>2. closing = Rel(s, k)
      BY <3>1 DEF Rel
    <3>3. Rel(s, k) \in Nat
      BY <1>1
    <3> HIDE DEF closing
    <3> QED
      BY <3>1, <3>2, <3>3
  <2>2. CASE k # n
    <3>1. k + 1 \in 1 .. n /\ k \in 1 .. n - 1
      <4> HIDE DEF n
      <4> QED
        BY <1>1, <1>2, <2>2
    <3>2. following = s.nodes[k + 1].depth /\ Above(s, k) = Rel(s, k + 1) - 1
      BY <2>2 DEF Above
    <3>3. Rel(s, k) \in Nat \ {0} /\ Rel(s, k + 1) \in Nat \ {0} /\ Rel(s, k + 1) <= Rel(s, k) + 1
      BY <1>1, <3>1
    <3>4. closing = Rel(s, k) - (Rel(s, k + 1) - 1)
      <4>1. /\ s.nodes[k].depth \in Nat /\ s.nodes[k + 1].depth \in Nat /\ s.nodes[1].depth \in Nat
        BY <1>1, <1>2, <3>1
      <4> HIDE DEF following
      <4> QED
        BY <3>2, <4>1 DEF Rel
    <3> HIDE DEF closing
    <3> QED
      BY <3>2, <3>3, <3>4
  <2> QED
    BY <2>1, <2>2
<1>4. NodeEvents(s, 1, n, k) = open \o attrs \o ends
  BY DEF NodeEvents
<1>5. /\ G \in SUBSET Contexts /\ A \in SUBSET G /\ B \in SUBSET G
  <2>1. 0 \in 0 .. Len(s.columns)
    BY <1>1
  <2> QED
    BY <1>2, <2>1, FamiliesAre
<1>6. open \in Seq(Events) /\ Takes(A, open, G, B)
  <2> DEFINE e == Open("node")
             j == k - 1
  <2>1. e \in Events
    BY DEF Events, Open
  <2>2. \A c \in A : Step(c, e) \in B
    <3>1. j \in 0 .. Len(s.nodes) - 1 /\ j + 1 = k
      BY <1>2
    <3>2. A = Leaving(s, t, p, j, Above(s, j)) /\ B = Inside(s, t, p, j + 1, 0)
      BY <1>2
    <3> HIDE DEF j, A, B, n
    <3> QED
      BY <3>1, <3>2, OpenNodeRead
  <2> HIDE DEF e, A, B, G
  <2>3. Takes(A, <<e>>, G, B)
    BY <1>5, <2>1, <2>2, TakesOne
  <2> QED
    BY <2>1, <2>3 DEF e
<1>7. attrs \in Seq(Events) /\ Takes(B, attrs, G, C)
  <2>1. attrs \in Seq(Events) /\ Takes(B, attrs, G, Inside(s, t, p, k, Len(s.columns)))
    BY AttributesRead
  <2>2. Inside(s, t, p, k, Len(s.columns)) \subseteq C
    BY LastOpen
  <2> HIDE DEF attrs, B, G, C
  <2> QED
    BY <2>1, <2>2, TakesMore
<1>8. ends \in Seq(Events) /\ Takes(C, ends, G, D)
  <2> DEFINE d == Rel(s, k)
  <2>1. d \in Nat
    BY <1>1
  <2>2. D = Leaving(s, t, p, k, d - closing)
    BY <1>3
  <2> HIDE DEF closing, d, D
  <2>3. ends \in Seq(Events) /\ Takes(Leaving(s, t, p, k, d), ends, G, Leaving(s, t, p, k, d - closing))
    BY <1>2, <1>3, <2>1, ClosesRead DEF d
  <2> QED
    BY <2>2, <2>3 DEF d
<1> HIDE DEF open, attrs, ends, A, B, C, D, G
<1> DEFINE start == open \o attrs
<1>9. Takes(A, start, G, C) /\ start \in Seq(Events)
  BY <1>6, <1>7, TakesJoin
<1>10. Takes(A, start \o ends, G, D) /\ start \o ends \in Seq(Events)
  <2> HIDE DEF start
  <2> QED
    BY <1>8, <1>9, TakesJoin
<1> QED
  BY <1>4, <1>10 DEF A, D, G

\* Nothing is read yet.
LEMMA NothingCopied ==
  ASSUME NEW s, NEW t, NEW p, Job(s, t, p), NEW m
  PROVE  Copied(t, s, t, p, 0, m)
<1>1. IsTree(t) /\ p \in 0 .. Len(t.nodes) /\ Len(t.nodes) \in Nat
  <2>1. IsTree(t) /\ p \in 0 .. Len(t.nodes)
    BY DEF Job
  <2> QED
    BY <2>1, TreeParts
<1>2. EndOf(t, p) \in Nat
  BY <1>1, EndOfIs
<1>3. \A i : Same(t, i, t, i)
  BY DEF Same
<1>4. \A i \in EndOf(t, p) + 1 .. Len(t.nodes) : i + 0 = i
  BY <1>1, <1>2
<1>5. 1 .. 0 = {}
  OBVIOUS
<1> QED
  BY <1>1, <1>3, <1>4, <1>5 DEF Copied

\* The parser is in front of the nodes, or in what comes before them.
Begun(t, p, state, version) ==
  {c \in Contexts : /\ c.ok /\ c.tree = t /\ c.state = state /\ c.node = p
                    /\ p = (IF c.isroot THEN 0 ELSE c.node) /\ c.version \in version}

LEMMA BegunIs ==
  ASSUME NEW s, NEW t, NEW p, Job(s, t, p), NEW state, NEW version
  PROVE  Begun(t, p, state, version) \in SUBSET Partly(s, t, p)
<1>1. Len(s.nodes) \in Nat /\ Len(s.columns) \in Nat
  BY PartIs DEF Job
<1>2. 0 \in 0 .. Len(s.nodes) /\ 0 \in 0 .. Len(s.columns)
  BY <1>1
<1>3. Copied(t, s, t, p, 0, 0)
  BY NothingCopied
<1> QED
  BY <1>2, <1>3 DEF Begun, Partly

LEMMA PrologRead ==
  ASSUME NEW s, NEW t, NEW p, Job(s, t, p), NEW version \in 0 .. 1
  PROVE  /\ Prolog \in Seq(Events)
         /\ Takes({Context(t, p, version)}, Prolog, Partly(s, t, p), Leaving(s, t, p, 0, 0))
<1> DEFINE G == Partly(s, t, p)
           c0 == Context(t, p, version)
           P(state, versions) == Begun(t, p, state, versions)
           J == [i \in 0 .. 4 |-> IF i = 0 THEN {c0}
                                  ELSE IF i = 1 THEN P("root", 0 .. 1)
                                  ELSE IF i = 2 THEN P("version", 0 .. 1)
                                  ELSE IF i = 3 THEN P("version", {1})
                                  ELSE P("root", {1})]
           u == <<"8">>
           e1 == Open("cardpeek")
           e2 == Open("version")
           e3 == [on |-> "text", text |-> u]
           events == <<e1, e2, e3, Close>>
<1>1. IsTree(t) /\ p \in 0 .. Len(t.nodes) /\ Len(s.nodes) \in Nat
  BY PartIs DEF Job
<1>2. u \in Seq(Characters)
  BY DocumentAssumption
<1> HIDE DEF u
<1>3. e1 \in Events /\ e2 \in Events /\ e3 \in Events /\ Close \in Events
  BY <1>2 DEF Events, Open
<1>4. Prolog = events
  BY DEF Prolog, Text, u
<1>5. c0 \in Contexts
  BY <1>1, ContextIs
<1>6. c0 \in P("file", 0 .. 1)
  <2>1. /\ c0.ok /\ c0.tree = t /\ c0.state = "file" /\ c0.node = p /\ c0.version = version
        /\ p = IF c0.isroot THEN 0 ELSE c0.node
    BY DEF Context
  <2> HIDE DEF c0
  <2> QED
    BY <1>5, <2>1 DEF Begun
<1>7. G \in SUBSET Contexts /\ \A state, versions : P(state, versions) \in SUBSET G
  <2>1. 0 \in 0 .. Len(s.nodes)
    BY <1>1
  <2> QED
    BY <2>1, FamiliesAre, BegunIs
<1>8. ASSUME NEW c \in P("file", 0 .. 1) PROVE Step(c, e1) \in P("root", 0 .. 1)
  <2>1. c \in Contexts /\ c.ok /\ c.state = "file"
    BY DEF Begun
  <2>2. Step(c, e1) = [c EXCEPT !.state = "root"]
    BY <2>1 DEF Step, Open, OpensElement
  <2>3. Step(c, e1) \in Contexts
    BY <1>3, <2>1, StepIs
  <2>4. c \in [tree : Trees, ok : BOOLEAN, state : States, node : Nat, isroot : BOOLEAN,
               column : Nat, bytes : BOOLEAN, version : 0 .. 1]
    BY <2>1 DEF Contexts
  <2> HIDE DEF e1
  <2> QED
    BY <2>2, <2>3, <2>4 DEF Begun
<1>9. ASSUME NEW c \in P("root", 0 .. 1) PROVE Step(c, e2) \in P("version", 0 .. 1)
  <2>1. c \in Contexts /\ c.ok /\ c.state = "root"
    BY DEF Begun
  <2>2. Step(c, e2) = [c EXCEPT !.state = "version"]
    BY <2>1 DEF Step, Open, OpensElement
  <2>3. Step(c, e2) \in Contexts
    BY <1>3, <2>1, StepIs
  <2>4. c \in [tree : Trees, ok : BOOLEAN, state : States, node : Nat, isroot : BOOLEAN,
               column : Nat, bytes : BOOLEAN, version : 0 .. 1]
    BY <2>1 DEF Contexts
  <2> HIDE DEF e2
  <2> QED
    BY <2>2, <2>3, <2>4 DEF Begun
<1>10. ASSUME NEW c \in P("version", 0 .. 1) PROVE Step(c, e3) \in P("version", {1})
  <2>1. c \in Contexts /\ c.ok /\ c.state = "version"
    BY DEF Begun
  <2>2. Step(c, e3) = [c EXCEPT !.version = 1]
    BY <2>1 DEF Step, Reads
  <2>3. Step(c, e3) \in Contexts
    BY <1>3, <2>1, StepIs
  <2>4. c \in [tree : Trees, ok : BOOLEAN, state : States, node : Nat, isroot : BOOLEAN,
               column : Nat, bytes : BOOLEAN, version : 0 .. 1]
    BY <2>1 DEF Contexts
  <2> HIDE DEF e3
  <2> QED
    BY <2>2, <2>3, <2>4 DEF Begun
<1>11. ASSUME NEW c \in P("version", {1}) PROVE Step(c, Close) \in P("root", {1})
  <2>1. c \in Contexts /\ c.ok /\ c.state = "version"
    BY DEF Begun
  <2>2. Step(c, Close) = [c EXCEPT !.state = "root"]
    BY <2>1 DEF Step, Close, Closes
  <2>3. Step(c, Close) \in Contexts
    BY <1>3, <2>1, StepIs
  <2>4. c \in [tree : Trees, ok : BOOLEAN, state : States, node : Nat, isroot : BOOLEAN,
               column : Nat, bytes : BOOLEAN, version : 0 .. 1]
    BY <2>1 DEF Contexts
  <2> QED
    BY <2>2, <2>3, <2>4 DEF Begun
<1> HIDE DEF P, G, c0, e1, e2, e3
<1>12. /\ events \in Seq(Events) /\ 4 = Len(events)
       /\ events[1] = e1 /\ events[2] = e2 /\ events[3] = e3 /\ events[4] = Close
  BY <1>3
<1>13. /\ J \in [0 .. 4 -> SUBSET G]
       /\ J[0] = {c0} /\ J[1] = P("root", 0 .. 1) /\ J[2] = P("version", 0 .. 1)
       /\ J[3] = P("version", {1}) /\ J[4] = P("root", {1})
  <2>1. {c0} \in SUBSET G
    BY <1>6, <1>7
  <2> QED
    BY <1>7, <2>1
<1> HIDE DEF J, events
<1>14. ASSUME NEW i \in 1 .. 4, NEW c \in J[i - 1] PROVE Step(c, events[i]) \in J[i]
  <2>1. CASE i = 1
    <3>1. c \in J[0]
      BY <2>1
    <3> QED
      BY <1>6, <1>8, <1>12, <1>13, <2>1, <3>1
  <2>2. CASE i = 2
    <3>1. c \in J[1]
      BY <2>2
    <3> QED
      BY <1>9, <1>12, <1>13, <2>2, <3>1
  <2>3. CASE i = 3
    <3>1. c \in J[2]
      BY <2>3
    <3> QED
      BY <1>10, <1>12, <1>13, <2>3, <3>1
  <2>4. CASE i = 4
    <3>1. c \in J[3]
      BY <2>4
    <3> QED
      BY <1>11, <1>12, <1>13, <2>4, <3>1
  <2> QED
    BY <2>1, <2>2, <2>3, <2>4
<1>15. Takes({c0}, events, G, P("root", {1}))
  <2>1. Takes(J[0], events, G, J[4])
    BY <1>7, <1>12, <1>13, <1>14, TakesSteps
  <2> QED
    BY <1>13, <2>1
<1>16. P("root", {1}) \subseteq Leaving(s, t, p, 0, 0)
  <2>1. Copied(t, s, t, p, 0, Len(s.columns))
    BY NothingCopied
  <2>2. ASSUME NEW c \in P("root", {1})
        PROVE  /\ c \in Contexts /\ c.ok /\ c.version = 1 /\ c.tree = t
               /\ c.state = "root" /\ p = (IF c.isroot THEN 0 ELSE c.node)
    BY DEF P, Begun
  <2>3. ASSUME NEW c \in P("root", {1}) PROVE Stands(c, s, t, p, 0, 0)
    BY <2>2 DEF Stands
  <2> QED
    BY <2>1, <2>2, <2>3 DEF Leaving
<1>17. Takes({c0}, events, G, Leaving(s, t, p, 0, 0))
  BY <1>15, <1>16, TakesMore
<1> QED
  BY <1>4, <1>12, <1>17 DEF G, c0

\* All of the part was read, or its text could not be.
Done(s, t, p) ==
  {c \in Contexts : Copied(c.tree, s, t, p, Len(s.nodes), Len(s.columns))} \cup Failed(s, t, p)

LEMMA EndRead ==
  ASSUME NEW s, NEW t, NEW p, NEW c \in Leaving(s, t, p, Len(s.nodes), 0)
  PROVE  Step(c, Close) \in Done(s, t, p)
<1>1. CASE c \in Failed(s, t, p)
  BY <1>1, FailedStays DEF Done
<1>2. CASE c \notin Failed(s, t, p)
  <2> DEFINE f == Closes(c)
             up == Parent(c.tree, c.node)
  <2>1. /\ c \in Contexts /\ c.ok /\ Copied(c.tree, s, t, p, Len(s.nodes), Len(s.columns))
        /\ c.state \in {"root", "node"}
    BY <1>2 DEF Leaving, Stands
  <2>2. Step(c, Close) = f
    BY <2>1 DEF Step, Close
  <2>3. f \in Contexts
    BY <2>1, ClosesIs
  <2>4. c \in [tree : Trees, ok : BOOLEAN, state : States, node : Nat, isroot : BOOLEAN,
               column : Nat, bytes : BOOLEAN, version : 0 .. 1]
    BY <2>1 DEF Contexts
  <2>5. \/ f = [c EXCEPT !.node = up]
        \/ f = [c EXCEPT !.state = "root", !.isroot = TRUE]
        \/ f = [c EXCEPT !.state = "file"]
    BY <2>1 DEF Closes
  <2> HIDE DEF f, up
  <2>6. f.tree = c.tree
    BY <2>4, <2>5
  <2> QED
    BY <2>1, <2>2, <2>3, <2>6 DEF Done
<1> QED
  BY <1>1, <1>2

LEMMA XmlRead ==
  ASSUME NEW s, NEW t, NEW p, Job(s, t, p), NEW version \in 0 .. 1
  PROVE  /\ Xml(s, 0) \in Seq(Events)
         /\ Takes({Context(t, p, version)}, Xml(s, 0), Partly(s, t, p), Done(s, t, p))
<1> DEFINE n == Len(s.nodes)
           G == Partly(s, t, p)
           seqs == [k \in 1 .. n |-> NodeEvents(s, 1, n, k)]
           J == [k \in 0 .. n |-> Leaving(s, t, p, k, Above(s, k))]
           body == FlattenSeq(seqs)
           A == {Context(t, p, version)}
           B == Leaving(s, t, p, 0, 0)
           C == Leaving(s, t, p, n, 0)
           D == Done(s, t, p)
           end == <<Close>>
<1>1. n \in Nat /\ Len(s.columns) \in Nat /\ (n # 0 => Rel(s, 1) = 1)
  BY PartIs DEF Job
<1>2. Xml(s, 0) = Prolog \o body \o end
  <2> DEFINE last == 1 + Len(Written(s, 0)) - 1
             all == [i \in 1 .. last - 1 + 1 |-> NodeEvents(s, 1, last, 1 + i - 1)]
  <2>1. last = n
    BY <1>1 DEF Written
  <2>2. Xml(s, 0) = Prolog \o FlattenSeq(all) \o <<Close>>
    BY DEF Xml
  <2> HIDE DEF last, n
  <2>3. 1 .. last - 1 + 1 = 1 .. n /\ \A i \in 1 .. n : 1 + i - 1 = i
    BY <1>1, <2>1
  <2>4. all = seqs
    BY <2>1, <2>3
  <2> QED
    BY <2>2, <2>4
<1>3. G \in SUBSET Contexts /\ \A k \in 0 .. n : \A d : Leaving(s, t, p, k, d) \in SUBSET G
  <2>1. 0 \in 0 .. n
    BY <1>1
  <2> QED
    BY <2>1, FamiliesAre
<1>4. Prolog \in Seq(Events) /\ Takes(A, Prolog, G, B)
  BY PrologRead
<1>5. \A k \in 1 .. n : /\ NodeEvents(s, 1, n, k) \in Seq(Events)
                        /\ Takes(Leaving(s, t, p, k - 1, Above(s, k - 1)), NodeEvents(s, 1, n, k), G,
                                 Leaving(s, t, p, k, Above(s, k)))
  BY NodeRead
<1>6. Above(s, 0) = 0 /\ Above(s, n) = 0
  <2>1. 0 + 1 = 1
    OBVIOUS
  <2> QED
    BY <1>1, <2>1 DEF Above
<1>7. D \in SUBSET G
  <2>1. Failed(s, t, p) \in SUBSET G /\ n \in 0 .. n /\ Len(s.columns) \in 0 .. Len(s.columns)
    <3>1. n \in 0 .. n /\ Len(s.columns) \in 0 .. Len(s.columns)
      BY <1>1
    <3> QED
      BY <3>1, FamiliesAre
  <2> QED
    BY <2>1 DEF Done, Partly
<1>8. \A c \in C : Step(c, Close) \in D
  BY EndRead
<1> HIDE DEF n, G, A, D
<1>9. /\ seqs \in Seq(Seq(Events)) /\ Len(seqs) = n /\ \A k \in 1 .. n : seqs[k] = NodeEvents(s, 1, n, k)
  BY <1>1, <1>5
<1>10. J \in [0 .. n -> SUBSET G] /\ \A k \in 0 .. n : J[k] = Leaving(s, t, p, k, Above(s, k))
  BY <1>3
<1>11. Takes(B, body, G, C) /\ body \in Seq(Events)
  <2> HIDE DEF J, seqs
  <2>1. ASSUME NEW k \in 1 .. n PROVE Takes(J[k - 1], seqs[k], G, J[k])
    <3>1. k - 1 \in 0 .. n /\ k \in 0 .. n
      BY <1>1
    <3> QED
      BY <1>5, <1>9, <1>10, <3>1
  <2>2. Takes(J[0], body, G, J[n])
    BY <1>1, <1>3, <1>9, <1>10, <2>1, TakesAll
  <2>3. J[0] = B /\ J[n] = C
    <3>1. 0 \in 0 .. n /\ n \in 0 .. n
      BY <1>1
    <3> QED
      BY <1>6, <1>10, <3>1
  <2>4. body \in Seq(Events)
    BY <1>9, FlattenTyped
  <2> HIDE DEF B, C, body
  <2> QED
    BY <2>2, <2>3, <2>4
<1>12. Takes(C, end, G, D) /\ end \in Seq(Events)
  <2>1. Close \in Events
    BY DEF Events
  <2>2. n \in 0 .. n
    BY <1>1
  <2>3. C \in SUBSET G
    BY <1>3, <2>2
  <2> HIDE DEF C
  <2>4. Takes(C, <<Close>>, G, D)
    BY <1>3, <1>7, <1>8, <2>1, <2>3, TakesOne
  <2> QED
    BY <2>1, <2>4
<1> HIDE DEF B, C, body, end
<1> DEFINE start == Prolog \o body
<1>13. Takes(A, start, G, C) /\ start \in Seq(Events)
  BY <1>4, <1>11, TakesJoin
<1>14. Takes(A, start \o end, G, D) /\ start \o end \in Seq(Events)
  <2> HIDE DEF start
  <2> QED
    BY <1>12, <1>13, TakesJoin
<1> QED
  BY <1>2, <1>14 DEF A, D, G

\* Of as much of the text as there is the first nodes are copied; of all of it
\* all are, if it could be read.
LEMMA PartRead ==
  ASSUME NEW s, NEW t, NEW p, Job(s, t, p), NEW version \in 0 .. 1,
         NEW events \in Prefixes(Xml(s, 0))
  PROVE  LET r == Parsed(t, p, version, events)
         IN  /\ \E k \in 0 .. Len(s.nodes), m \in 0 .. Len(s.columns) : Copied(r, s, t, p, k, m)
             /\ events = Xml(s, 0) /\ ~HasQuoted(s) =>
                  Copied(r, s, t, p, Len(s.nodes), Len(s.columns))
<1> DEFINE xml == Xml(s, 0)
           G == Partly(s, t, p)
           c0 == Context(t, p, version)
           A == {c0}
           r == Parsed(t, p, version, events)
<1>1. xml \in Seq(Events) /\ Takes(A, xml, G, Done(s, t, p))
  BY XmlRead
<1> HIDE DEF xml
<1>2. PICK l \in 0 .. Len(xml) : events = SubSeq(xml, 1, l)
  BY DEF Prefixes, xml
<1>3. events \in Seq(Events) /\ Len(events) = l /\ Len(xml) \in Nat /\ l \in Nat
  BY <1>1, <1>2
<1>4. c0 \in Contexts
  <2>1. IsTree(t) /\ p \in 0 .. Len(t.nodes)
    BY DEF Job
  <2> QED
    BY <2>1, ContextIs
<1>5. PICK g \in [0 .. Len(xml) -> G] : Parses(g, c0, xml) /\ g[Len(xml)] \in Done(s, t, p)
  BY <1>1 DEF Takes
<1>6. PICK h \in [0 .. Len(events) -> Contexts] : Parses(h, c0, events) /\ r = h[Len(events)].tree
  BY <1>3, <1>4, ParsedRuns
<1> HIDE DEF G, c0, r
<1>7. g[l] = h[l]
  <2>1. \A i \in 0 .. l : g[i] = h[i]
    BY <1>1, <1>2, <1>5, <1>6, ParsesOne
  <2> QED
    BY <1>3, <2>1
<1>8. g[l] \in G /\ r = g[l].tree
  BY <1>3, <1>5, <1>6, <1>7
<1>9. \E k \in 0 .. Len(s.nodes), m \in 0 .. Len(s.columns) : Copied(r, s, t, p, k, m)
  BY <1>8 DEF G, Partly
<1>10. ASSUME events = xml, ~HasQuoted(s) PROVE Copied(r, s, t, p, Len(s.nodes), Len(s.columns))
  <2>1. l = Len(xml)
    BY <1>3, <1>10
  <2>2. g[l] \in Done(s, t, p)
    BY <1>5, <2>1
  <2> QED
    BY <1>8, <1>10, <2>2 DEF Done, Failed
<1> QED
  BY <1>9, <1>10 DEF r, xml

-------------------------------------------------------------------------------
(***************************************************************************)
(* The nodes as scripts see them, told by the values of names.             *)
(***************************************************************************)
AttrsBy(value) == {<<x, value[x]>> : x \in {x \in Names : value[x] # None}}

LEMMA AttrsAre ==
  ASSUME NEW t, AreColumns(t.columns), NEW n, n \in DOMAIN t.nodes, NEW room,
         AreValues(t.nodes[n].values, Len(t.columns), room)
  PROVE  AttrsOf(t, n) = AttrsBy([x \in Names |-> ValueOf(t, n, x)])
<1> DEFINE values == t.nodes[n].values
           columns == t.columns
           C == {c \in DOMAIN values : values[c] # None}
           N == {x \in Names : ValueOf(t, n, x) # None}
<1>1. /\ values \in Seq(Seq(Characters) \cup {None}) /\ DOMAIN values = 1 .. Len(values)
      /\ Len(values) \in Nat /\ columns \in Seq(Names) /\ Len(columns) \in Nat
      /\ \A c \in DOMAIN values : values[c] # None => c <= Len(columns)
  <2>1. /\ values \in Seq(Seq(Characters) \cup {None}) /\ columns \in Seq(Names)
        /\ \A c \in DOMAIN values : values[c] # None => c <= Len(columns)
    BY DEF AreColumns, AreValues
  <2> HIDE DEF values, columns
  <2> QED
    BY <2>1
<1>2. AttrsOf(t, n) = {<<columns[c], values[c]>> : c \in C}
  BY DEF AttrsOf
<1>3. \A x : /\ Column(t, x) \in 0 .. Len(columns)
             /\ Column(t, x) # 0 => columns[Column(t, x)] = x
             /\ \A i \in 1 .. Len(columns) : columns[i] = x => Column(t, x) = i
  BY ColumnIs
<1>4. \A x : ValueOf(t, n, x) = IF Column(t, x) = 0 THEN None
                                ELSE IF Column(t, x) <= Len(values) THEN values[Column(t, x)] ELSE None
  BY DEF ValueOf, ValueAt
<1> HIDE DEF values, columns
<1>5. ASSUME NEW c \in C PROVE columns[c] \in N /\ ValueOf(t, n, columns[c]) = values[c]
  <2>1. c \in 1 .. Len(values) /\ c \in 1 .. Len(columns) /\ values[c] # None /\ c # 0
    BY <1>1
  <2>2. Column(t, columns[c]) = c /\ columns[c] \in Names
    BY <1>1, <1>3, <2>1
  <2> QED
    BY <1>1, <1>4, <2>1, <2>2
<1>6. ASSUME NEW x \in N PROVE \E c \in C : columns[c] = x /\ values[c] = ValueOf(t, n, x)
  <2> DEFINE c == Column(t, x)
  <2>1. ValueOf(t, n, x) # None
    OBVIOUS
  <2>2. c # 0 /\ c <= Len(values) /\ ValueOf(t, n, x) = values[c]
    BY <1>4, <2>1
  <2>3. c \in 1 .. Len(values) /\ columns[c] = x
    BY <1>1, <1>3, <2>2
  <2> HIDE DEF c
  <2> QED
    BY <1>1, <2>1, <2>2, <2>3
<1>7. AttrsBy([x \in Names |-> ValueOf(t, n, x)]) = {<<x, ValueOf(t, n, x)>> : x \in N}
  BY DEF AttrsBy
<1> HIDE DEF C, N
<1>8. {<<columns[c], values[c]>> : c \in C} = {<<x, ValueOf(t, n, x)>> : x \in N}
  <2>1. ASSUME NEW c \in C PROVE <<columns[c], values[c]>> \in {<<x, ValueOf(t, n, x)>> : x \in N}
    BY <1>5
  <2>2. ASSUME NEW x \in N PROVE <<x, ValueOf(t, n, x)>> \in {<<columns[c], values[c]>> : c \in C}
    BY <1>6
  <2> QED
    BY <2>1, <2>2
<1> QED
  BY <1>2, <1>7, <1>8

LEMMA TreeAttrs ==
  ASSUME NEW t, IsTree(t), NEW n \in 1 .. Len(t.nodes)
  PROVE  AttrsOf(t, n) = AttrsBy([x \in Names |-> ValueOf(t, n, x)])
<1>1. /\ AreColumns(t.columns) /\ n \in DOMAIN t.nodes
      /\ AreValues(t.nodes[n].values, Len(t.columns), t.room)
  BY TreeParts, TreeIs
<1> DEFINE room == t.room
<1>2. AreValues(t.nodes[n].values, Len(t.columns), room)
  BY <1>1
<1> HIDE DEF room
<1> QED
  BY <1>1, <1>2, AttrsAre

LEMMA SameAttrs ==
  ASSUME NEW t, IsTree(t), NEW n \in 1 .. Len(t.nodes),
         NEW r, IsTree(r), NEW i \in 1 .. Len(r.nodes), Same(r, i, t, n)
  PROVE  r.nodes[i].depth = t.nodes[n].depth /\ AttrsOf(r, i) = AttrsOf(t, n)
<1>1. [x \in Names |-> ValueOf(r, i, x)] = [x \in Names |-> ValueOf(t, n, x)]
  BY DEF Same
<1> QED
  BY <1>1, TreeAttrs DEF Same

\* What a file keeps of the attributes of a node.
LEMMA KeptAttrs ==
  ASSUME NEW s, IsPart(s), NEW n \in 1 .. Len(s.nodes)
  PROVE  {<<a[1], KeptValue(a[2])>> : a \in {a \in AttrsOf(s, n) : a[1] \notin Hidden}} =
         AttrsBy([x \in Names |-> KeptOf(s, n, x)])
<1> DEFINE K == {a \in AttrsOf(s, n) : a[1] \notin Hidden}
           L == {<<a[1], KeptValue(a[2])>> : a \in K}
           N == {x \in Names : KeptOf(s, n, x) # None}
           R == {<<x, KeptOf(s, n, x)>> : x \in N}
<1>1. AttrsOf(s, n) = {<<x, ValueOf(s, n, x)>> : x \in {x \in Names : ValueOf(s, n, x) # None}}
  <2> DEFINE room == s.room
  <2>1. AreColumns(s.columns) /\ n \in DOMAIN s.nodes /\ AreValues(s.nodes[n].values, Len(s.columns), room)
    BY PartIs
  <2> HIDE DEF room
  <2>2. AttrsOf(s, n) = AttrsBy([x \in Names |-> ValueOf(s, n, x)])
    BY <2>1, AttrsAre
  <2> QED
    BY <2>2 DEF AttrsBy
<1>2. AttrsBy([x \in Names |-> KeptOf(s, n, x)]) = R
  BY DEF AttrsBy
<1>3. ASSUME NEW x \in Names, ValueOf(s, n, x) # None, x \notin Hidden
      PROVE  KeptOf(s, n, x) = KeptValue(ValueOf(s, n, x)) /\ KeptOf(s, n, x) # None
  <2> DEFINE v == ValueOf(s, n, x)
             u == SubSeq(v, 3, Len(v))
             w == <<"t", ":">> \o u
  <2>1. v \in Seq(Characters) /\ Len(v) \in Nat /\ Len(v) >= 2
    <3>1. v \in Seq(Characters) \cup {None} /\ v # None /\ IsFormatted(v)
      BY <1>3, PartValue
    <3> HIDE DEF v
    <3> QED
      BY <3>1 DEF IsFormatted
  <2>2. KeptOf(s, n, x) = KeptValue(v)
    BY <1>3 DEF KeptOf
  <2> HIDE DEF v
  <2>3. u \in Seq(Characters)
    BY <2>1
  <2>4. KeptValue(v) = IF v[1] \in {"8", "4"} THEN v ELSE w
    BY DEF KeptValue
  <2> HIDE DEF u
  <2>5. w \in Seq(Characters)
    BY <2>3, KindInFront
  <2> HIDE DEF w
  <2>6. KeptValue(v) \in Seq(Characters)
    BY <2>1, <2>4, <2>5
  <2>7. KeptValue(v) # None
    BY <2>6, DocumentAssumption
  <2> QED
    BY <2>2, <2>7 DEF v
<1>4. ASSUME NEW x \in N PROVE <<x, KeptOf(s, n, x)>> \in L
  <2> DEFINE v == ValueOf(s, n, x)
             a == <<x, v>>
  <2>1. v # None /\ x \notin Hidden /\ x \in Names
    BY DEF KeptOf
  <2>2. KeptOf(s, n, x) = KeptValue(v)
    BY <1>3, <2>1
  <2>3. a \in K /\ a[1] = x /\ a[2] = v
    BY <1>1, <2>1
  <2> HIDE DEF K, a, v
  <2> QED
    BY <2>2, <2>3
<1>5. ASSUME NEW y \in L PROVE y \in R
  <2>1. PICK a \in K : y = <<a[1], KeptValue(a[2])>>
    OBVIOUS
  <2>2. PICK x \in Names : a = <<x, ValueOf(s, n, x)>> /\ ValueOf(s, n, x) # None /\ x \notin Hidden
    BY <1>1
  <2> DEFINE v == ValueOf(s, n, x)
  <2>3. a[1] = x /\ a[2] = v
    BY <2>2
  <2>4. KeptOf(s, n, x) = KeptValue(v) /\ KeptOf(s, n, x) # None
    BY <1>3, <2>2
  <2> HIDE DEF v, K, L
  <2> QED
    BY <2>1, <2>3, <2>4
<1>6. \A y \in R : y \in L
  BY <1>4
<1> HIDE DEF L, R
<1>7. L = R
  BY <1>5, <1>6
<1> QED
  BY <1>2, <1>7 DEF L

\* The nodes that were copied are the beginning of what is kept of the part.
LEMMA CopyOf ==
  ASSUME NEW s, NEW t, NEW p, Job(s, t, p), NEW k \in 0 .. Len(s.nodes), NEW m \in 0 .. Len(s.columns),
         NEW r, Copied(r, s, t, p, k, m), NEW w, w = [i \in 1 .. k |-> View(r)[EndOf(t, p) + i]]
  PROVE  /\ BeginningOf(w, Kept(s, DepthOf(t, p)))
         /\ k = Len(s.nodes) /\ m = Len(s.columns) => w = Kept(s, DepthOf(t, p))
<1> DEFINE at == EndOf(t, p)
           b == DepthOf(t, p)
           n == Len(s.nodes)
           u == Kept(s, b)
           kept(i) == AttrsBy([x \in Names |-> KeptOf(s, i, x)])
<1>1. /\ IsPart(s) /\ n \in Nat /\ Len(s.columns) \in Nat /\ k \in Nat /\ k <= n /\ m \in Nat
      /\ DOMAIN s.nodes = 1 .. n
  <2>1. IsPart(s) /\ n \in Nat /\ Len(s.columns) \in Nat /\ DOMAIN s.nodes = 1 .. n
    BY PartIs DEF Job
  <2> QED
    BY <2>1
<1>2. /\ at \in Nat /\ b \in Nat /\ IsTree(r) /\ Len(r.nodes) \in Nat /\ at + k <= Len(r.nodes)
      /\ \A i \in 1 .. k : r.nodes[at + i].depth = b + Rel(s, i)
  BY CopyDepths
<1>3. u = [i \in 1 .. n |-> [depth |-> b + s.nodes[i].depth - s.nodes[1].depth + 1, attrs |->
             {<<a[1], KeptValue(a[2])>> : a \in {a \in AttrsOf(s, i) : a[1] \notin Hidden}}]]
  BY <1>1 DEF Kept
<1>4. ASSUME NEW i \in 1 .. n PROVE u[i] = [depth |-> b + Rel(s, i), attrs |-> kept(i)]
  <2>1. {<<a[1], KeptValue(a[2])>> : a \in {a \in AttrsOf(s, i) : a[1] \notin Hidden}} = kept(i)
    BY <1>1, KeptAttrs
  <2>2. b + s.nodes[i].depth - s.nodes[1].depth + 1 = b + Rel(s, i)
    <3>1. 1 \in 1 .. n
      BY <1>1
    <3>2. s.nodes[i].depth \in Nat /\ s.nodes[1].depth \in Nat
      BY <1>1, <3>1, PartIs
    <3> QED
      BY <1>2, <3>2 DEF Rel
  <2> HIDE DEF u, kept, b, n
  <2> QED
    BY <1>3, <2>1, <2>2
<1>5. u = [i \in 1 .. n |-> u[i]]
  BY <1>3
<1>6. Len(u) = n
  <2> HIDE DEF u, n
  <2> QED
    BY <1>1, <1>5
<1>7. \A i \in 1 .. k, x \in Names :
        ValueOf(r, at + i, x) = IF i < k \/ Column(s, x) <= m THEN KeptOf(s, i, x) ELSE None
  BY DEF Copied
<1> HIDE DEF at, b, n, u, kept
<1>8. ASSUME NEW i \in 1 .. k
      PROVE  /\ at + i \in 1 .. Len(r.nodes) /\ i \in 1 .. n
             /\ w[i] = [depth |-> b + Rel(s, i), attrs |-> AttrsBy([x \in Names |-> ValueOf(r, at + i, x)])]
  <2>1. at + i \in 1 .. Len(r.nodes) /\ i \in 1 .. n
    BY <1>1, <1>2
  <2>2. at + i \in DOMAIN r.nodes
    BY <1>2, <2>1, TreeParts
  <2>3. w[i] = View(r)[at + i]
    BY DEF at
  <2>4. View(r)[at + i] = [depth |-> r.nodes[at + i].depth, attrs |-> AttrsOf(r, at + i)]
    BY <2>2 DEF View
  <2>5. AttrsOf(r, at + i) = AttrsBy([x \in Names |-> ValueOf(r, at + i, x)])
    BY <1>2, <2>1, TreeAttrs
  <2> QED
    BY <1>2, <2>1, <2>3, <2>4, <2>5
<1>9. ASSUME NEW i \in 1 .. k, i < k PROVE w[i] = u[i]
  <2>1. [x \in Names |-> ValueOf(r, at + i, x)] = [x \in Names |-> KeptOf(s, i, x)]
    BY <1>7, <1>9
  <2> QED
    BY <1>4, <1>8, <2>1 DEF kept
<1>10. ASSUME NEW i \in 1 .. k PROVE w[i].depth = u[i].depth /\ w[i].attrs \subseteq u[i].attrs
  <2> DEFINE f == [x \in Names |-> ValueOf(r, at + i, x)]
             g == [x \in Names |-> KeptOf(s, i, x)]
  <2>1. \A x \in Names : f[x] # None => f[x] = g[x]
    BY <1>7
  <2> HIDE DEF f, g
  <2>2. AttrsBy(f) \subseteq AttrsBy(g)
    BY <2>1 DEF AttrsBy
  <2>3. w[i] = [depth |-> b + Rel(s, i), attrs |-> AttrsBy(f)]
    BY <1>8 DEF f
  <2>4. u[i] = [depth |-> b + Rel(s, i), attrs |-> AttrsBy(g)]
    BY <1>4, <1>8 DEF g, kept
  <2> QED
    BY <2>2, <2>3, <2>4
<1>11. Len(w) = k
  BY <1>1
<1>12. BeginningOf(w, u)
  <2>1. ASSUME NEW i \in 1 .. Len(w) - 1 PROVE w[i] = u[i]
    <3>1. i \in 1 .. k /\ i < k
      BY <1>1, <1>11
    <3> QED
      BY <1>9, <3>1
  <2>2. ASSUME w # <<>>
        PROVE  Last(w).depth = u[Len(w)].depth /\ Last(w).attrs \subseteq u[Len(w)].attrs
    <3>1. k # 0
      <4>1. k = 0 => w = <<>>
        BY <1>11
      <4> QED
        BY <2>2, <4>1
    <3>2. k \in 1 .. k /\ Last(w) = w[k]
      BY <1>1, <1>11, <3>1 DEF Last
    <3> QED
      BY <1>10, <1>11, <3>2
  <2>3. Len(w) <= Len(u)
    BY <1>1, <1>6, <1>11
  <2> QED
    BY <2>1, <2>2, <2>3 DEF BeginningOf
<1>13. ASSUME k = n, m = Len(s.columns) PROVE w = u
  <2>1. ASSUME NEW i \in 1 .. k PROVE w[i] = u[i]
    <3>1. i \in 1 .. n
      BY <1>1
    <3>2. ASSUME NEW x \in Names PROVE ValueOf(r, at + i, x) = KeptOf(s, i, x)
      <4>1. Column(s, x) \in 0 .. Len(s.columns)
        BY <1>1, <3>1, PartValue DEF n
      <4>2. Column(s, x) <= m
        BY <1>1, <1>13, <4>1
      <4> QED
        BY <1>7, <4>2
    <3>3. [x \in Names |-> ValueOf(r, at + i, x)] = [x \in Names |-> KeptOf(s, i, x)]
      BY <3>2
    <3> QED
      BY <1>4, <1>8, <3>3 DEF kept
  <2>2. w = [i \in 1 .. k |-> w[i]]
    OBVIOUS
  <2> QED
    BY <1>5, <1>13, <2>1, <2>2
<1> QED
  BY <1>12, <1>13 DEF u, b, n

-------------------------------------------------------------------------------
(***************************************************************************)
(* The parts of trees that texts are made from.                            *)
(***************************************************************************)
LEMMA TreeIsPart ==
  ASSUME NEW t, IsTree(t)
  PROVE  IsPart(t)
<1>1. t \in Trees /\ AreColumns(t.columns) /\ DOMAIN t.nodes = 1 .. Len(t.nodes) /\ Len(t.nodes) \in Nat
      /\ \A n \in 1 .. Len(t.nodes) : t.nodes[n].depth \in Nat \ {0}
  BY TreeIs, TreeParts
<1>2. AreDepths(t.nodes) /\ \A n \in DOMAIN t.nodes : AreValues(t.nodes[n].values, Len(t.columns), t.room)
  BY TreeIs
<1>3. ASSUME NEW n \in DOMAIN t.nodes
      PROVE  t.nodes[n].depth \in
               t.nodes[1].depth .. IF n = 1 THEN t.nodes[1].depth ELSE t.nodes[n - 1].depth + 1
  <2>1. 1 \in DOMAIN t.nodes /\ n \in 1 .. Len(t.nodes) /\ 1 \in 1 .. Len(t.nodes)
        /\ (n # 1 => n - 1 \in 1 .. Len(t.nodes))
    BY <1>1
  <2>2. t.nodes[1].depth = 1
    <3>1. t.nodes[1].depth \in 1 .. 1
      BY <1>2, <2>1 DEF AreDepths
    <3> QED
      BY <3>1
  <2>3. CASE n = 1
    BY <2>2, <2>3
  <2>4. CASE n # 1
    <3>1. t.nodes[n].depth \in 1 .. t.nodes[n - 1].depth + 1
      BY <1>2, <2>4 DEF AreDepths
    <3> QED
      BY <2>2, <2>4, <3>1
  <2> QED
    BY <2>3, <2>4
<1> QED
  BY <1>1, <1>2, <1>3 DEF IsPart

\* Up to the last sibling and what is below it, no node is above the first.
LEMMA WrittenDepths ==
  ASSUME NEW t, IsTree(t), NEW n \in 1 .. Len(t.nodes)
  PROVE  \A m \in n .. LastFrom(t, n) : t.nodes[m].depth >= t.nodes[n].depth
<1> DEFINE S == {m \in n + 1 .. Len(t.nodes) : t.nodes[m].depth < t.nodes[n].depth}
           last == LastFrom(t, n)
<1>1. S \in SUBSET (n + 1 .. Len(t.nodes)) /\ last = LastBefore(t, S)
  BY DEF LastFrom
<1>2. /\ Len(t.nodes) \in Nat /\ n \in 0 .. Len(t.nodes)
      /\ \A m \in 1 .. Len(t.nodes) : t.nodes[m].depth \in Nat
  <2>1. Len(t.nodes) \in Nat /\ \A m \in 1 .. Len(t.nodes) : t.nodes[m].depth \in Nat
    BY TreeParts
  <2> QED
    BY <2>1
<1>3. last \in n .. Len(t.nodes) /\ \A m \in n + 1 .. last : m \notin S
  <2> HIDE DEF S, last
  <2> QED
    BY <1>1, <1>2, LastBeforeIs
<1> SUFFICES ASSUME NEW m \in n .. last PROVE t.nodes[m].depth >= t.nodes[n].depth
  OBVIOUS
<1>4. m \in 1 .. Len(t.nodes) /\ n \in 1 .. Len(t.nodes)
  <2> HIDE DEF last
  <2> QED
    BY <1>2, <1>3
<1>5. CASE m = n
  BY <1>2, <1>4, <1>5
<1>6. CASE m # n
  <2>1. m \in n + 1 .. last /\ m \in n + 1 .. Len(t.nodes)
    <3> HIDE DEF last
    <3> QED
      BY <1>2, <1>3, <1>4, <1>6
  <2>2. ~(t.nodes[m].depth < t.nodes[n].depth)
    BY <1>3, <2>1
  <2> QED
    BY <1>2, <1>4, <2>2
<1> QED
  BY <1>5, <1>6

\* The text of a node and its siblings is that of the part they are.
LEMMA SourceIs ==
  ASSUME NEW t, IsTree(t), NEW n \in 0 .. Len(t.nodes)
  PROVE  LET s == [t EXCEPT !.nodes = Written(t, n)]
         IN  IsPart(s) /\ Xml(t, n) = Xml(s, 0)
<1> DEFINE s == [t EXCEPT !.nodes = Written(t, n)]
<1>1. CASE n = 0
  <2>1. Written(t, n) = t.nodes /\ t \in [columns : Seq(Names), room : Nat, nodes : Seq(Nodes)]
    BY <1>1 DEF Written, IsTree, Trees
  <2>2. s = t
    BY <2>1
  <2> HIDE DEF s
  <2>3. IsPart(s) /\ Xml(t, n) = Xml(s, 0)
    BY <1>1, <2>2, TreeIsPart
  <2> QED
    BY <2>3 DEF s
<1>2. CASE n # 0
  <2> DEFINE last == LastFrom(t, n)
             l == last - n + 1
             nodes == SubSeq(t.nodes, n, last)
  <2>1. /\ t \in Trees /\ AreColumns(t.columns) /\ t.nodes \in Seq(Nodes) /\ Len(t.nodes) \in Nat
        /\ DOMAIN t.nodes = 1 .. Len(t.nodes) /\ n \in 1 .. Len(t.nodes)
        /\ \A m \in 1 .. Len(t.nodes) : /\ t.nodes[m].depth \in Nat \ {0}
                                        /\ AreValues(t.nodes[m].values, Len(t.columns), t.room)
    <3>1. t \in Trees /\ AreColumns(t.columns) /\ Len(t.nodes) \in Nat /\ t.nodes \in Seq(Nodes)
          /\ DOMAIN t.nodes = 1 .. Len(t.nodes)
          /\ \A m \in 1 .. Len(t.nodes) : t.nodes[m].depth \in Nat \ {0}
      BY TreeIs, TreeParts
    <3>2. \A m \in DOMAIN t.nodes : AreValues(t.nodes[m].values, Len(t.columns), t.room)
      BY TreeIs
    <3> QED
      BY <1>2, <3>1, <3>2
  <2>2. last \in n .. Len(t.nodes) /\ \A m \in n .. last : t.nodes[m].depth >= t.nodes[n].depth
    BY <2>1, LastFromIs, WrittenDepths
  <2> HIDE DEF last
  <2>3. l \in Nat \ {0} /\ \A i \in 1 .. l : n + i - 1 \in n .. last /\ n + i - 1 \in 1 .. Len(t.nodes)
    BY <2>1, <2>2
  <2>4. /\ nodes \in Seq(Nodes) /\ Len(nodes) = l /\ \A i \in 1 .. l : nodes[i] = t.nodes[n + i - 1]
    BY <2>1, <2>2
  <2>5. s = [t EXCEPT !.nodes = nodes]
    BY <1>2 DEF Written, last
  <2> HIDE DEF nodes, s, l
  <2>6. s.nodes = nodes /\ s.columns = t.columns /\ s.room = t.room /\ s \in Trees /\ DOMAIN s.nodes = 1 .. l
    <3>1. DOMAIN nodes = 1 .. l
      BY <2>4
    <3>2. s.nodes = nodes /\ s.columns = t.columns /\ s.room = t.room /\ s \in Trees
      BY <2>1, <2>4, <2>5 DEF Trees
    <3> QED
      BY <3>1, <3>2
  <2>7. IsPart(s)
    <3>1. ASSUME NEW i \in 1 .. l
          PROVE  /\ s.nodes[i].depth \in
                      s.nodes[1].depth .. IF i = 1 THEN s.nodes[1].depth ELSE s.nodes[i - 1].depth + 1
                 /\ AreValues(s.nodes[i].values, Len(s.columns), s.room)
      <4> DEFINE m == n + i - 1
      <4>1. m \in n .. last /\ m \in 1 .. Len(t.nodes) /\ 1 \in 1 .. l /\ n + 1 - 1 = n
        BY <2>1, <2>3
      <4>2. s.nodes[i] = t.nodes[m] /\ s.nodes[1] = t.nodes[n]
        <5>1. s.nodes[1] = t.nodes[n + 1 - 1]
          BY <2>4, <2>6, <4>1
        <5> QED
          BY <2>4, <2>6, <4>1, <5>1
      <4>3. AreValues(s.nodes[i].values, Len(s.columns), s.room)
        BY <2>1, <2>6, <4>1, <4>2
      <4>4. s.nodes[i].depth >= s.nodes[1].depth /\ s.nodes[i].depth \in Nat /\ s.nodes[1].depth \in Nat
        BY <2>1, <2>2, <4>1, <4>2
      <4>5. CASE i = 1
        BY <4>3, <4>4, <4>5
      <4>6. CASE i # 1
        <5>1. i - 1 \in 1 .. l /\ n + (i - 1) - 1 = m - 1 /\ m \in DOMAIN t.nodes /\ m # 1
          BY <2>1, <2>3, <4>1, <4>6
        <5>2. s.nodes[i - 1] = t.nodes[m - 1]
          BY <2>4, <2>6, <5>1
        <5>3. t.nodes[m].depth \in 1 .. IF m = 1 THEN 1 ELSE t.nodes[m - 1].depth + 1
          <6> HIDE DEF m
          <6> QED
            BY <5>1 DEF IsTree
        <5> HIDE DEF m
        <5>4. s.nodes[i].depth <= s.nodes[i - 1].depth + 1 /\ s.nodes[i - 1].depth \in Nat
          <6>1. m - 1 \in 1 .. Len(t.nodes)
            BY <2>1, <4>1, <5>1
          <6> QED
            BY <2>1, <4>2, <5>1, <5>2, <5>3, <6>1
        <5> QED
          BY <4>3, <4>4, <4>6, <5>4
      <4> QED
        BY <4>5, <4>6
    <3> QED
      BY <2>1, <2>6, <3>1 DEF IsPart
  <2>8. ASSUME NEW i \in 1 .. l PROVE NodeEvents(t, n, last, n + i - 1) = NodeEvents(s, 1, l, i)
    <3> DEFINE m == n + i - 1
    <3>1. m \in n .. last /\ m \in 1 .. Len(t.nodes) /\ 1 \in 1 .. l /\ n + 1 - 1 = n /\ (m = last <=> i = l)
      BY <2>1, <2>2, <2>3 DEF l
    <3>2. s.nodes[i] = t.nodes[m] /\ s.nodes[1] = t.nodes[n]
      <4>1. s.nodes[1] = t.nodes[n + 1 - 1]
        BY <2>4, <2>6, <3>1
      <4> QED
        BY <2>4, <2>6, <3>1, <4>1
    <3>3. i # l => s.nodes[i + 1] = t.nodes[m + 1]
      <4>1. i # l => i + 1 \in 1 .. l /\ n + (i + 1) - 1 = m + 1
        BY <2>1, <2>3
      <4> QED
        BY <2>4, <2>6, <4>1
    <3> HIDE DEF m
    <3>4. Attributes(t, m) = Attributes(s, i)
      BY <2>6, <3>2 DEF Attributes
    <3>5. NodeEvents(t, n, last, m) = NodeEvents(s, 1, l, i)
      BY <3>1, <3>2, <3>3, <3>4 DEF NodeEvents
    <3> QED
      BY <3>5 DEF m
  <2>9. Xml(t, n) = Prolog \o FlattenSeq([i \in 1 .. l |-> NodeEvents(t, n, last, n + i - 1)]) \o <<Close>>
    <3>1. Written(t, n) = nodes
      BY <1>2 DEF Written, nodes, last
    <3>2. n + Len(nodes) - 1 = last /\ last - n + 1 = l
      BY <2>1, <2>2, <2>4 DEF l
    <3> DEFINE first == IF n = 0 THEN 1 ELSE n
               end == first + Len(Written(t, n)) - 1
               body == [i \in 1 .. end - first + 1 |-> NodeEvents(t, first, end, first + i - 1)]
    <3>3. Xml(t, n) = Prolog \o FlattenSeq(body) \o <<Close>>
      BY DEF Xml
    <3>4. first = n /\ end = last
      BY <1>2, <3>1, <3>2
    <3> HIDE DEF first, end
    <3>5. body = [i \in 1 .. l |-> NodeEvents(t, n, last, n + i - 1)]
      BY <3>2, <3>4
    <3> QED
      BY <3>3, <3>5
  <2>10. Xml(s, 0) = Prolog \o FlattenSeq([i \in 1 .. l |-> NodeEvents(s, 1, l, i)]) \o <<Close>>
    <3> DEFINE end == 1 + Len(Written(s, 0)) - 1
               body == [i \in 1 .. end - 1 + 1 |-> NodeEvents(s, 1, end, 1 + i - 1)]
    <3>1. end = l
      BY <2>3, <2>4, <2>6 DEF Written
    <3>2. Xml(s, 0) = Prolog \o FlattenSeq(body) \o <<Close>>
      BY DEF Xml
    <3> HIDE DEF end
    <3>3. 1 .. end - 1 + 1 = 1 .. l /\ \A i \in 1 .. l : 1 + i - 1 = i
      BY <2>3, <3>1
    <3>4. body = [i \in 1 .. l |-> NodeEvents(s, 1, l, i)]
      BY <3>1, <3>3
    <3> QED
      BY <3>2, <3>4
  <2>11. [i \in 1 .. l |-> NodeEvents(t, n, last, n + i - 1)] = [i \in 1 .. l |-> NodeEvents(s, 1, l, i)]
    BY <2>8
  <2>12. Xml(t, n) = Xml(s, 0)
    BY <2>9, <2>10, <2>11
  <2> QED
    BY <2>7, <2>12 DEF s
<1> QED
  BY <1>1, <1>2

-------------------------------------------------------------------------------
(***************************************************************************)
(* The files and the texts are what the program wrote, or some of it.      *)
(***************************************************************************)
TextsFit ==
  /\ saved # None => IsPart(saved) /\ file \in Prefixes(Xml(saved, 0))
  /\ source # None => IsPart(source) /\ text = Xml(source, 0)

LEMMA TextsInit == Init => TextsFit
BY DEF Init, TextsFit

LEMMA TextsNext == DocumentTypeOK /\ TextsFit /\ [Next]_vars => TextsFit'
<1> SUFFICES ASSUME DocumentTypeOK, TextsFit, [Next]_vars PROVE TextsFit'
  OBVIOUS
<1>1. IsTree(tree) /\ Places = 0 .. Len(tree.nodes)
  BY DEF DocumentTypeOK, Places
<1>2. CASE UNCHANGED <<file, saved, text, source>>
  BY <1>2 DEF TextsFit
<1>3. CASE Saves
  <2>1. IsPart(tree)
    BY <1>1, TreeIsPart
  <2>2. saved' = tree /\ file' \in Prefixes(Xml(tree, 0)) /\ text' = text /\ source' = source
    BY <1>3 DEF Saves
  <2> QED
    BY <2>1, <2>2 DEF TextsFit
<1>4. ASSUME NEW f \in OldFiles, Receives(f) PROVE TextsFit'
  BY <1>4 DEF TextsFit, Receives
<1>5. ASSUME NEW p \in Places, Exports(p) PROVE TextsFit'
  <2> DEFINE s == [tree EXCEPT !.nodes = Written(tree, p)]
  <2>1. IsPart(s) /\ Xml(tree, p) = Xml(s, 0)
    BY <1>1, SourceIs
  <2>2. source' = s /\ text' = Xml(tree, p) /\ file' = file /\ saved' = saved
    BY <1>5 DEF Exports
  <2> HIDE DEF s
  <2> QED
    BY <2>1, <2>2 DEF TextsFit
<1>6. CASE UNCHANGED vars
  BY <1>2, <1>6 DEF vars
<1>7. ASSUME NEW p \in Places, Appends(p) \/ Removes(p) \/ Imports(p)
      PROVE  UNCHANGED <<file, saved, text, source>>
  BY <1>7 DEF Appends, Removes, Imports
<1>8. ASSUME NEW n, NEW name, NEW v, Sets(n, name, v) PROVE UNCHANGED <<file, saved, text, source>>
  BY <1>8 DEF Sets
<1>9. Loads => UNCHANGED <<file, saved, text, source>>
  BY DEF Loads
<1>10. CASE Call
  BY <1>2, <1>3, <1>4, <1>5, <1>7, <1>8, <1>9, <1>10 DEF Call
<1> QED
  BY <1>6, <1>10 DEF Next

LEMMA TextsStay == Spec => [](DocumentTypeOK /\ TextsFit)
<1>1. Init => DocumentTypeOK /\ TextsFit
  BY TypeInit, TextsInit
<1>2. DocumentTypeOK /\ TextsFit /\ [Next]_vars => DocumentTypeOK' /\ TextsFit'
  BY TypeNext, TextsNext
<1> QED
  BY <1>1, <1>2, PTL DEF Spec

\* r is t with the copy below node p that a reading of the events makes of s.
Pasted(r, t, p, s, events) ==
  LET at == EndOf(t, p)
      k == Len(r.nodes) - Len(t.nodes)
  IN  /\ at \in 0 .. Len(t.nodes) /\ k \in Nat /\ Len(t.nodes) \in Nat /\ IsTree(r)
      /\ \A i \in 1 .. at : View(r)[i] = View(t)[i]
      /\ \A i \in at + 1 .. Len(t.nodes) : View(r)[i + k] = View(t)[i]
      /\ IsCopy([i \in 1 .. k |-> View(r)[at + i]], s, DepthOf(t, p), events, Xml(s, 0))

\* A part that is read below a node.
LEMMA PartCopied ==
  ASSUME NEW s, NEW t, NEW p, Job(s, t, p), NEW version \in 0 .. 1,
         NEW events \in Prefixes(Xml(s, 0)), NEW r, r = Parsed(t, p, version, events)
  PROVE  Pasted(r, t, p, s, events)
<1> DEFINE at == EndOf(t, p)
           b == DepthOf(t, p)
           k == Len(r.nodes) - Len(t.nodes)
           n == Len(s.nodes)
           l == Len(s.columns)
           w == [i \in 1 .. k |-> View(r)[at + i]]
<1>1. /\ IsPart(s) /\ IsTree(t) /\ p \in 0 .. Len(t.nodes) /\ n \in Nat /\ l \in Nat
      /\ Len(t.nodes) \in Nat /\ DOMAIN t.nodes = 1 .. Len(t.nodes)
  <2>1. IsPart(s) /\ IsTree(t) /\ p \in 0 .. Len(t.nodes)
    BY DEF Job
  <2>2. n \in Nat /\ l \in Nat
    BY <2>1, PartIs
  <2>3. Len(t.nodes) \in Nat /\ DOMAIN t.nodes = 1 .. Len(t.nodes)
    BY <2>1, TreeParts
  <2> QED
    BY <2>1, <2>2, <2>3
<1>2. at \in 0 .. Len(t.nodes)
  <2>1. at \in p .. Len(t.nodes)
    BY <1>1, EndOfIs
  <2> HIDE DEF at
  <2> QED
    BY <1>1, <2>1
<1>3. /\ \E k1 \in 0 .. n, m \in 0 .. l : Copied(r, s, t, p, k1, m)
      /\ events = Xml(s, 0) /\ ~HasQuoted(s) => Copied(r, s, t, p, n, l)
  BY PartRead
<1>4. \A k1, m : Copied(r, s, t, p, k1, m) => IsTree(r) /\ Len(r.nodes) = Len(t.nodes) + k1
  BY DEF Copied
<1>5. PICK m \in 0 .. l : k \in 0 .. n /\ Copied(r, s, t, p, k, m)
  <2>1. PICK k1 \in 0 .. n, m \in 0 .. l : Copied(r, s, t, p, k1, m)
    BY <1>3
  <2>2. Len(r.nodes) = Len(t.nodes) + k1
    BY <1>4, <2>1
  <2>3. k = k1
    BY <1>1, <2>1, <2>2
  <2> HIDE DEF k
  <2> QED
    BY <2>1, <2>3
<1>6. /\ \A i \in 1 .. at : Same(r, i, t, i)
      /\ \A i \in at + 1 .. Len(t.nodes) : Same(r, i + k, t, i)
  <2> HIDE DEF k
  <2> QED
    BY <1>5 DEF Copied
<1>7. IsTree(r) /\ Len(r.nodes) = Len(t.nodes) + k /\ DOMAIN r.nodes = 1 .. Len(r.nodes)
  <2>1. IsTree(r) /\ Len(r.nodes) = Len(t.nodes) + k
    <3> HIDE DEF k
    <3> QED
      BY <1>4, <1>5
  <2> QED
    BY <2>1, TreeParts
<1> HIDE DEF at, k, n, l
<1>8. ASSUME NEW i \in 1 .. Len(t.nodes), NEW j \in 1 .. Len(r.nodes), Same(r, j, t, i)
      PROVE  View(r)[j] = View(t)[i]
  <2>1. r.nodes[j].depth = t.nodes[i].depth /\ AttrsOf(r, j) = AttrsOf(t, i)
    BY <1>1, <1>7, <1>8, SameAttrs
  <2> QED
    BY <1>1, <1>7, <2>1 DEF View
<1>9. ASSUME NEW i \in 1 .. at PROVE View(r)[i] = View(t)[i]
  <2>1. i \in 1 .. Len(t.nodes) /\ i \in 1 .. Len(r.nodes)
    BY <1>1, <1>2, <1>5, <1>7
  <2> QED
    BY <1>6, <1>8, <2>1
<1>10. ASSUME NEW i \in at + 1 .. Len(t.nodes) PROVE View(r)[i + k] = View(t)[i]
  <2>1. i \in 1 .. Len(t.nodes) /\ i + k \in 1 .. Len(r.nodes)
    BY <1>1, <1>2, <1>5, <1>7
  <2> QED
    BY <1>6, <1>8, <2>1
<1>11. BeginningOf(w, Kept(s, b))
  <2>1. w = [i \in 1 .. k |-> View(r)[EndOf(t, p) + i]]
    BY DEF at
  <2> HIDE DEF w, b
  <2> QED
    BY <1>5, <2>1, CopyOf DEF n, l, b
<1>12. ASSUME events = Xml(s, 0), ~HasQuoted(s) PROVE w = Kept(s, b)
  <2>1. Copied(r, s, t, p, n, l)
    BY <1>3, <1>12
  <2>2. k = n
    <3>1. Len(r.nodes) = Len(t.nodes) + n
      BY <1>4, <2>1
    <3> QED
      BY <1>1, <1>5, <1>7, <3>1
  <2>3. n \in 0 .. n /\ l \in 0 .. l
    BY <1>1
  <2>4. w = [i \in 1 .. n |-> View(r)[EndOf(t, p) + i]]
    BY <2>2 DEF at
  <2> HIDE DEF w, b
  <2> QED
    BY <2>1, <2>3, <2>4, CopyOf DEF n, l, b
<1>13. IsCopy(w, s, b, events, Xml(s, 0))
  <2> HIDE DEF w, b
  <2> QED
    BY <1>11, <1>12 DEF IsCopy
<1>14. k \in Nat
  BY <1>1, <1>5
<1> HIDE DEF w
<1>15. /\ at \in 0 .. Len(t.nodes) /\ k \in Nat /\ Len(t.nodes) \in Nat /\ IsTree(r)
       /\ \A i \in 1 .. at : View(r)[i] = View(t)[i]
       /\ \A i \in at + 1 .. Len(t.nodes) : View(r)[i + k] = View(t)[i]
       /\ IsCopy(w, s, b, events, Xml(s, 0))
  BY <1>1, <1>2, <1>7, <1>9, <1>10, <1>13, <1>14
<1> QED
  BY <1>15, Zenon DEF Pasted, at, k, b, w

\* A view that is loaded is the one that was saved, or its beginning.
LEMMA LoadIsCopy ==
  ASSUME DocumentTypeOK, TextsFit, Loads, saved # None
  PROVE  IsCopy(View(tree'), saved, 0, file, Xml(saved, 0))
<1> DEFINE t == Cleared
           r == tree'
           s == saved
           at == EndOf(t, 0)
           k == Len(r.nodes) - Len(t.nodes)
<1>1. IsTree(t) /\ Len(t.nodes) = 0 /\ 0 \in 0 .. Len(t.nodes)
  <2>1. IsTree(t) /\ Len(t.nodes) = 0
    BY ClearedTree DEF DocumentTypeOK
  <2> HIDE DEF t
  <2> QED
    BY <2>1
<1>2. PICK version \in 0 .. 1 : r = Parsed(t, 0, version, file)
  BY DEF Loads
<1>3. IsPart(s) /\ file \in Prefixes(Xml(s, 0))
  BY DEF TextsFit
<1> HIDE DEF t, r, s
<1>4. Job(s, t, 0)
  BY <1>1, <1>3 DEF Job
<1>5. /\ at \in 0 .. Len(t.nodes) /\ k \in Nat /\ IsTree(r)
      /\ IsCopy([i \in 1 .. k |-> View(r)[at + i]], s, DepthOf(t, 0), file, Xml(s, 0))
  <2>1. Pasted(r, t, 0, s, file)
    BY <1>2, <1>3, <1>4, PartCopied
  <2> QED
    BY <2>1, Zenon DEF Pasted, at, k
<1>6. at = 0 /\ DepthOf(t, 0) = 0
  <2> HIDE DEF at
  <2> QED
    BY <1>1, <1>5 DEF DepthOf
<1>7. DOMAIN r.nodes = 1 .. k
  <2>1. DOMAIN r.nodes = 1 .. Len(r.nodes) /\ Len(r.nodes) \in Nat
    BY <1>5, TreeParts
  <2> QED
    BY <1>1, <2>1
<1>8. [i \in 1 .. k |-> View(r)[at + i]] = View(r)
  <2> HIDE DEF at, k
  <2>1. \A i \in 1 .. k : at + i = i
    BY <1>6
  <2>2. View(r) = [i \in 1 .. k |-> View(r)[i]]
    BY <1>7 DEF View
  <2> QED
    BY <2>1, <2>2
<1> QED
  BY <1>5, <1>6, <1>8 DEF r, s

\* What is appended from a text is a copy of what it was made from.
LEMMA ImportAdds ==
  ASSUME DocumentTypeOK, TextsFit, NEW p \in Places, Imports(p)
  PROVE  LET added == Len(tree'.nodes) - Len(tree.nodes)
             at == EndOf(tree, p)
             old == View(tree)
             new == View(tree')
         IN  /\ SubSeq(new, 1, at) \o SubSeq(new, at + added + 1, Len(new)) = old
             /\ IsCopy(SubSeq(new, at + 1, at + added), source, DepthOf(tree, p),
                       text, Xml(source, 0))
<1> DEFINE t == tree
           r == tree'
           s == source
           at == EndOf(t, p)
           k == Len(r.nodes) - Len(t.nodes)
           n == Len(t.nodes)
           old == View(t)
           new == View(r)
<1>1. IsTree(t) /\ p \in 0 .. Len(t.nodes)
  BY DEF DocumentTypeOK, Places
<1>2. PICK version \in 0 .. 1 : r = Parsed(t, p, version, text)
  BY DEF Imports
<1>3. IsPart(s) /\ text = Xml(s, 0)
  BY DEF TextsFit, Imports
<1> HIDE DEF t, r, s
<1>4. Job(s, t, p)
  BY <1>1, <1>3 DEF Job
<1>5. text \in Prefixes(Xml(s, 0))
  <2> DEFINE xml == Xml(s, 0)
  <2>1. xml \in Seq(Events)
    BY <1>2, <1>4, XmlRead
  <2> HIDE DEF xml
  <2>2. xml = SubSeq(xml, 1, Len(xml)) /\ Len(xml) \in 0 .. Len(xml)
    BY <2>1
  <2>3. xml \in Prefixes(xml)
    BY <2>2 DEF Prefixes
  <2> QED
    BY <1>3, <2>3 DEF xml
<1>6. /\ at \in 0 .. n /\ k \in Nat /\ n \in Nat /\ IsTree(r)
      /\ \A i \in 1 .. at : new[i] = old[i]
      /\ \A i \in at + 1 .. n : new[i + k] = old[i]
      /\ IsCopy([i \in 1 .. k |-> new[at + i]], s, DepthOf(t, p), text, Xml(s, 0))
  <2>1. Pasted(r, t, p, s, text)
    BY <1>2, <1>4, <1>5, PartCopied
  <2> QED
    BY <2>1, Zenon DEF Pasted, at, k, n, old, new
<1>7. /\ old = [i \in 1 .. n |-> old[i]] /\ new = [i \in 1 .. n + k |-> new[i]]
  <2>1. DOMAIN r.nodes = 1 .. Len(r.nodes) /\ Len(r.nodes) \in Nat /\ DOMAIN t.nodes = 1 .. n
    BY <1>1, <1>6, TreeParts
  <2>2. Len(r.nodes) = n + k
    BY <1>6, <2>1
  <2> QED
    BY <2>1, <2>2 DEF View
<1> HIDE DEF at, k, n, old, new
<1>8. /\ Len(new) = n + k
      /\ SubSeq(new, at + 1, at + k) = [i \in 1 .. k |-> new[at + i]]
      /\ SubSeq(new, 1, at) \o SubSeq(new, at + k + 1, Len(new)) = old
  <2>1. Len(new) = n + k
    BY <1>6, <1>7
  <2> DEFINE A == {new[i] : i \in 1 .. n + k} \cup {old[i] : i \in 1 .. n}
  <2>2. new \in Seq(A) /\ old \in Seq(A) /\ Len(old) = n
    <3>1. \A i \in 1 .. n + k : new[i] \in A
      OBVIOUS
    <3>2. \A i \in 1 .. n : old[i] \in A
      OBVIOUS
    <3> HIDE DEF A
    <3>3. n \in Nat /\ n + k \in Nat
      BY <1>6
    <3>4. new \in Seq(A)
      <4> DEFINE m == n + k
      <4>1. m \in Nat /\ new = [i \in 1 .. m |-> new[i]] /\ \A i \in 1 .. m : new[i] \in A
        BY <1>7, <3>1, <3>3
      <4> HIDE DEF m
      <4>2. new \in [1 .. m -> A]
        BY <4>1
      <4> QED
        BY <4>1, <4>2
    <3>5. old \in [1 .. n -> A]
      BY <1>7, <3>2
    <3>6. old \in Seq(A)
      BY <3>3, <3>5
    <3>7. Len(old) = n
      BY <1>7, <3>3
    <3> QED
      BY <3>4, <3>6, <3>7
  <2> HIDE DEF A
  <2>3. SubSeq(new, at + 1, at + k) = [i \in 1 .. k |-> new[at + i]]
    <3>1. at + 1 \in Nat /\ at + k \in Nat /\ at + k <= Len(new) /\ at \in Nat
      BY <1>6, <2>1
    <3>2. SubSeq(new, at + 1, at + k) \in Seq(A) /\ Len(SubSeq(new, at + 1, at + k)) = k
      BY <1>6, <2>2, <3>1
    <3>3. \A i \in 1 .. k : SubSeq(new, at + 1, at + k)[i] = new[at + i]
      BY <1>6, <2>2, <3>1
    <3> QED
      BY <3>2, <3>3
  <2>4. SubSeq(new, 1, at) \o SubSeq(new, at + k + 1, Len(new)) = old
    <3> DEFINE a == SubSeq(new, 1, at)
               b == SubSeq(new, at + k + 1, n + k)
               ab == a \o b
    <3>1. a \in Seq(A) /\ Len(a) = at /\ \A i \in 1 .. at : a[i] = new[i]
      BY <1>6, <2>1, <2>2
    <3>2. b \in Seq(A) /\ Len(b) = n - at /\ \A i \in 1 .. n - at : b[i] = new[at + k + i]
      BY <1>6, <2>1, <2>2
    <3> HIDE DEF a, b
    <3>3. ab \in Seq(A) /\ Len(ab) = n
      <4>1. ab \in Seq(A) /\ Len(ab) = Len(a) + Len(b)
        BY <3>1, <3>2
      <4>2. at + (n - at) = n
        BY <1>6
      <4> HIDE DEF ab
      <4> QED
        BY <3>1, <3>2, <4>1, <4>2
    <3>4. ASSUME NEW i \in 1 .. n PROVE ab[i] = old[i]
      <4>1. CASE i <= at
        <5>1. i \in 1 .. at
          BY <1>6, <4>1
        <5>2. ab[i] = a[i]
          BY <3>1, <3>2, <5>1
        <5> QED
          BY <1>6, <3>1, <5>1, <5>2
      <4>2. CASE ~(i <= at)
        <5>1. i \in at + 1 .. n /\ i - at \in 1 .. n - at /\ at + k + (i - at) = i + k
          BY <1>6, <4>2
        <5>2. ab[i] = b[i - at]
          BY <1>6, <3>1, <3>2, <5>1
        <5> QED
          BY <1>6, <3>2, <5>1, <5>2
      <4> QED
        BY <4>1, <4>2
    <3> HIDE DEF ab
    <3>5. ab = old
      <4>1. ab = [i \in 1 .. n |-> ab[i]]
        BY <1>6, <3>3
      <4> QED
        BY <1>7, <3>4, <4>1
    <3> QED
      BY <2>1, <3>5 DEF ab, a, b
  <2> QED
    BY <2>1, <2>3, <2>4
<1>9. IsCopy(SubSeq(new, at + 1, at + k), s, DepthOf(t, p), text, Xml(s, 0))
  BY <1>6, <1>8
<1>10. SubSeq(new, 1, at) \o SubSeq(new, at + k + 1, Len(new)) = old
  BY <1>8
<1> QED
  BY <1>9, <1>10, Zenon DEF at, k, n, old, new, t, r, s

\* What was saved is loaded as it was, or as much of it as the file has, whatever
\* columns were registered in the meantime, texts that look like byte strings
\* there are, and the version is before it is read.
THEOREM LoadsRestore == Spec => LoadRestores
<1> DEFINE Restores == Loads /\ saved # None => IsCopy(View(tree'), saved, 0, file, Xml(saved, 0))
<1>1. DocumentTypeOK /\ TextsFit /\ [Next]_vars => [Restores]_vars
  BY LoadIsCopy
<1> QED
  BY <1>1, TextsStay, PTL DEF Spec, LoadRestores

\* What is appended from a text goes below the node it is appended to, behind all
\* that is there; it is a copy of what the text was made from; no other node
\* changes.
THEOREM ImportsOnlyAdd == Spec => ImportOnlyAdds
<1> DEFINE Adds ==
      \A p \in Places : Imports(p) =>
        LET added == Len(tree'.nodes) - Len(tree.nodes)
            at == EndOf(tree, p)
            old == View(tree)
            new == View(tree')
        IN  /\ SubSeq(new, 1, at) \o SubSeq(new, at + added + 1, Len(new)) = old
            /\ IsCopy(SubSeq(new, at + 1, at + added), source, DepthOf(tree, p),
                      text, Xml(source, 0))
<1>1. DocumentTypeOK /\ TextsFit /\ [Next]_vars => [Adds]_vars
  BY ImportAdds
<1> QED
  BY <1>1, TextsStay, PTL DEF Spec, ImportOnlyAdds

===============================================================================
