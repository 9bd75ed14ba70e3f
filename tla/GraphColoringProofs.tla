------------------------ MODULE GraphColoringProofs ------------------------
(* Proofs about GraphColoring, for every finite graph.                     *)
EXTENDS GraphColoring, NumberFacts, TLAPS, FiniteSetTheorems

(***************************************************************************)
(* What the operators return                                               *)
(***************************************************************************)

(* A list has no more different members than places.                       *)
LEMMA RangeFacts ==
    ASSUME NEW t \in Seq(Nat)
    PROVE  /\ IsFiniteSet(Range(t))
           /\ Cardinality(Range(t)) <= Len(t)
<1>0. Len(t) \in Nat /\ DOMAIN t = 1..Len(t)
  OBVIOUS
<1>1. IsFiniteSet(1..Len(t)) /\ Cardinality(1..Len(t)) = Len(t)
  <2>1. /\ IsFiniteSet(1..Len(t))
        /\ Cardinality(1..Len(t)) = IF 1 > Len(t) THEN 0 ELSE Len(t) - 1 + 1
    <3>1. Len(t) \in Int /\ 1 \in Int
      BY <1>0
    <3> QED BY <3>1, FS_Interval, Zenon
  <2> QED BY <1>0, <2>1
<1>2. t \in Surjection(1..Len(t), Range(t))
  BY DEF Surjection, Range
<1>3. IsFiniteSet(Range(t)) /\ Cardinality(Range(t)) <= Cardinality(1..Len(t))
  BY <1>1, <1>2, FS_Surjection, Zenon
<1> QED BY <1>1, <1>3

(* Appending a colour adds it to the colours of the list.                  *)
LEMMA RangeAppend ==
    ASSUME NEW t \in Seq(Nat), NEW c \in Nat
    PROVE  Range(Append(t, c)) = Range(t) \cup {c}
<1>1. /\ DOMAIN Append(t, c) = 1..(Len(t) + 1)
      /\ \A i \in 1..Len(t) : Append(t, c)[i] = t[i]
      /\ Append(t, c)[Len(t) + 1] = c
      /\ DOMAIN t = 1..Len(t) /\ Len(t) \in Nat
  OBVIOUS
<1>2. 1..(Len(t) + 1) = (1..Len(t)) \cup {Len(t) + 1}
  BY <1>1
<1> DEFINE longer == Append(t, c)
<1>3. \A i \in 1..(Len(t) + 1) : longer[i] \in Range(t) \cup {c}
  <2>1. \A i \in 1..Len(t) : t[i] \in Range(t)
    BY <1>1 DEF Range
  <2> QED BY <1>1, <1>2, <2>1, Zenon
<1>4. \A x \in Range(t) : \E i \in 1..(Len(t) + 1) : longer[i] = x
  BY <1>1, <1>2, Zenon DEF Range
<1>5. Len(t) + 1 \in 1..(Len(t) + 1)
  BY <1>1
<1>6. Range(longer) = {longer[i] : i \in 1..(Len(t) + 1)}
  BY <1>1, Zenon DEF Range
<1> HIDE DEF longer
<1>7. Range(longer) \subseteq Range(t) \cup {c}
  BY <1>3, <1>6
<1>8. Range(t) \subseteq Range(longer)
  BY <1>4, <1>6
<1>9. c \in Range(longer)
  BY <1>1, <1>5, <1>6 DEF longer
<1>10. Range(longer) = Range(t) \cup {c}
  BY <1>7, <1>8, <1>9
<1> QED BY <1>10 DEF longer

(* There is always a colour left among one more than the neighbours took.  *)
LEMMA FirstFreeFacts ==
    ASSUME NEW v \in Node, adjColors[v] \in Seq(Nat)
    PROVE  /\ FirstFree(v) \in 1..(Len(adjColors[v]) + 1)
           /\ FirstFree(v) \notin Range(adjColors[v])
<1> DEFINE t == adjColors[v]
           colors == 1..(Len(t) + 1)
<1>1. IsFiniteSet(colors) /\ Cardinality(colors) = Len(t) + 1
  BY FS_Interval
<1>2. colors \ Range(t) # {}
  <2>1. SUFFICES ASSUME colors \subseteq Range(t)
                 PROVE  FALSE
    OBVIOUS
  <2>2. Cardinality(colors) <= Cardinality(Range(t))
    BY <2>1, RangeFacts, FS_Subset
  <2>3. Cardinality(Range(t)) <= Len(t) /\ Cardinality(Range(t)) \in Nat
    BY RangeFacts, FS_CardinalityType
  <2> QED BY <1>1, <2>2, <2>3
<1>3. colors \ Range(t) \in SUBSET Nat
  OBVIOUS
<1> QED BY <1>2, <1>3, MinFacts DEF FirstFree

(* The number of members of a set of nodes.                                *)
LEMMA NodeCount ==
    ASSUME NEW U \in SUBSET Node
    PROVE  /\ IsFiniteSet(U)
           /\ Cardinality(U) \in 0..Cardinality(Node)
           /\ Cardinality(Node) \in Nat \ {0}
           /\ \A u \in Node \ U : Cardinality(U) \in Level
<1>1. IsFiniteSet(Node) /\ Node # {}
  BY GraphAssumption
<1>2. Cardinality(Node) \in Nat /\ Cardinality(Node) # 0
  BY <1>1, FS_CardinalityType, FS_EmptySet
<1>3. /\ IsFiniteSet(U) /\ Cardinality(U) \in Nat
      /\ Cardinality(U) <= Cardinality(Node)
      /\ Cardinality(U) = Cardinality(Node) => U = Node
  BY <1>1, FS_Subset, FS_CardinalityType
<1> QED BY <1>2, <1>3 DEF Level

(* The longest list is one of the lists, and no other is longer.           *)
LEMMA MaxIndexFacts ==
    ASSUME NEW i \in Level, Q \in [Level -> [Level -> SUBSET Node]]
    PROVE  /\ MaxIndex(i) \in Level
           /\ \A e \in Level : Cardinality(Q[i][e]) <= Cardinality(Q[i][MaxIndex(i)])
<1> DEFINE n == Cardinality(Node)
           size == [d \in Level |-> Cardinality(Q[i][d])]
           sizes == {size[d] : d \in Level}
           best == {d \in Level : size[d] = Max(sizes)}
<1>1. \A d \in Level : size[d] \in 0..n
  BY NodeCount
<1>2. n \in Nat /\ Level = 0..(n - 1)
  BY NodeCount DEF Level
<1>3. sizes \in SUBSET (0..n) /\ sizes # {}
  BY <1>1, Zenon
<1> HIDE DEF size
<1>4. /\ Max(sizes) \in sizes
      /\ \A x \in sizes : x <= Max(sizes)
  <2> HIDE DEF n, sizes
  <2> QED BY <1>2, <1>3, MaxFacts
<1>5. best \subseteq Level /\ best # {}
  BY <1>4, Zenon
<1>6. best \in SUBSET Nat
  <2> HIDE DEF n, best
  <2> QED BY <1>2, <1>5
<1> DEFINE m == Min(best)
<1>7. /\ m \in best
      /\ \A d \in best : m <= d
  <2> HIDE DEF best
  <2> QED BY <1>5, <1>6, MinFacts
<1>8. m \in Level /\ size[m] = Max(sizes) /\ m \in 0..(n - 1)
  BY <1>2, <1>7, Zenon
<1>9. \A e \in Level : size[e] <= size[m]
  BY <1>4, <1>8, Zenon
<1>10. ASSUME NEW e \in 0..(m - 1)
       PROVE  size[e] < size[m]
  <2> HIDE DEF n, m, best, sizes
  <2>1. e \in Level /\ ~(m <= e)
    BY <1>2, <1>8
  <2>2. e \notin best
    BY <1>7, <2>1
  <2>3. size[e] # size[m]
    BY <1>8, <2>1, <2>2 DEF best
  <2>4. size[e] \in 0..n /\ size[m] \in 0..n /\ size[e] <= size[m]
    BY <1>1, <1>8, <1>9, <2>1
  <2> QED BY <1>2, <2>3, <2>4
<1>11. \A e \in Level : size[e] = Cardinality(Q[i][e])
  BY Zenon DEF size
<1>12. \A e \in 0..(m - 1) : e \in Level
  <2> HIDE DEF n, m
  <2> QED BY <1>2, <1>8
<1> HIDE DEF m, n
<1>13. \E d \in Level :
         /\ \A e \in Level : Cardinality(Q[i][e]) <= Cardinality(Q[i][d])
         /\ \A e \in 0..(d - 1) : Cardinality(Q[i][e]) < Cardinality(Q[i][d])
  BY <1>8, <1>9, <1>10, <1>11, <1>12
<1> QED BY <1>13 DEF MaxIndex
-----------------------------------------------------------------------------
(***************************************************************************)
(* The invariant: what TypeOK, BucketsRight, Proper and FewColors say,     *)
(* that neighbours are neighbours of each other, that the list a node      *)
(* without a colour keeps has every colour a neighbour took, and that no   *)
(* level above `s` has a node but `s` has one.                             *)
(***************************************************************************)

AdjOK ==
    \A u \in Node : adj[u] \subseteq Node \ {u} /\ \A w \in adj[u] : u \in adj[w]

ColorsKnown ==
    \A u \in Node : color[u] = Uncolored =>
        \A w \in adj[u] : color[w] # Uncolored => color[w] \in Range(adjColors[u])

NothingAbove == \A i, d \in Level : i > s => Q[i][d] = {}

SomeAtLevel == s >= 0 => \E d \in Level : Q[s][d] # {}

Inv ==
    /\ TypeOK
    /\ AdjOK
    /\ BucketsRight
    /\ ColorsKnown
    /\ Proper
    /\ FewColors
    /\ NothingAbove
    /\ SomeAtLevel

(* The initial state: every node at level 0, by its number of neighbours.  *)
LEMMA InitInv == Init => Inv
<1> SUFFICES ASSUME Init
             PROVE  Inv
  OBVIOUS
<1> USE DEF Init, Uncolored
<1>1. AdjOK /\ adj \in [Node -> SUBSET Node]
  BY DEF AdjOf, AdjOK
<1>2. 0 \in Level
  BY NodeCount, Zenon, SMT DEF Level
<1>3. \A u \in Node : adjColors[u] = <<>> /\ Len(adjColors[u]) = 0
  OBVIOUS
<1>4. \A u \in Node : Cardinality(adj[u]) \in Level /\ Cardinality(adj[u]) \in Nat
  BY <1>1, NodeCount DEF AdjOK, Level
<1>5. TypeOK
  BY <1>1, <1>2 DEF TypeOK
<1>6. \A u \in Node : adj[u] \ adjUncolored[u] = {} /\ adjUncolored[u] = adj[u]
  OBVIOUS
<1>7. BucketsRight
  <2>1. \A u \in Node : adjUncolored[u] = {w \in adj[u] : color[w] = Uncolored}
    BY <1>1
  <2>2. \A u \in Node : Len(adjColors[u]) = Cardinality(adj[u] \ adjUncolored[u])
    BY <1>3, <1>6, FS_EmptySet
  <2>3. ASSUME NEW i \in Level, NEW d \in Level
        PROVE  Q[i][d] = {u \in Node : color[u] = Uncolored
                                        /\ Bucket(u) = <<i, d>>}
    BY <1>3, <1>6 DEF Bucket
  <2> QED BY <2>1, <2>2, <2>3 DEF BucketsRight
<1>8. ColorsKnown /\ Proper
  BY <1>1 DEF ColorsKnown, Proper
<1>9. FewColors
  BY <1>4 DEF FewColors
<1>10. NothingAbove
  BY DEF NothingAbove, Level
<1>11. SomeAtLevel
  <2>1. PICK u \in Node : TRUE
    BY GraphAssumption
  <2>2. u \in Q[0][Cardinality(adj[u])]
    BY <1>2, <1>4
  <2> QED BY <1>4, <2>2 DEF SomeAtLevel
<1> QED BY <1>1, <1>5, <1>7, <1>8, <1>9, <1>10, <1>11 DEF Inv

(* The place of a node without a colour is inside Q.                       *)
LEMMA InsideQ ==
    ASSUME Inv, NEW u \in Node, color[u] = Uncolored
    PROVE  /\ Len(adjColors[u]) \in Level
           /\ Cardinality(adjUncolored[u]) \in Level
           /\ Bucket(u) \in Level \X Level
           /\ Len(adjColors[u]) <= Cardinality(adj[u])
<1>1. /\ adj[u] \subseteq Node \ {u} /\ adj[u] \in SUBSET Node
      /\ adjUncolored[u] \subseteq adj[u]
      /\ Len(adjColors[u]) = Cardinality(adj[u] \ adjUncolored[u])
  BY DEF Inv, AdjOK, BucketsRight
<1>2. /\ Cardinality(adj[u] \ adjUncolored[u]) \in Level
      /\ Cardinality(adjUncolored[u]) \in Level
  <2>1. /\ adj[u] \ adjUncolored[u] \in SUBSET Node
        /\ u \in Node \ (adj[u] \ adjUncolored[u])
        /\ adjUncolored[u] \in SUBSET Node /\ u \in Node \ adjUncolored[u]
    BY <1>1
  <2> QED BY <2>1, NodeCount, Zenon
<1>3. Cardinality(adj[u] \ adjUncolored[u]) <= Cardinality(adj[u])
  BY <1>1, NodeCount, FS_Subset
<1> QED BY <1>1, <1>2, <1>3 DEF Bucket

(* `top` bounds the levels the neighbours move to, and is a level; where   *)
(* the search ends there is a node.                                        *)
LEMMA SettleFacts ==
    ASSUME NEW top \in Level
    PROVE  /\ Settle(top) \in (0..top) \cup {-1}
           /\ \A i \in 0..top : i > Settle(top) => \A d \in Level : Q'[i][d] = {}
           /\ Settle(top) >= 0 => \E d \in Level : Q'[Settle(top)][d] # {}
<1> DEFINE used == {i \in 0..top : \E d \in Level : Q'[i][d] # {}}
<1>1. top \in Nat
  BY DEF Level
<1>2. CASE used = {}
  BY <1>2 DEF Settle
<1>3. CASE used # {}
  <2>1. used \in SUBSET (0..top)
    OBVIOUS
  <2>2. Max(used) \in used /\ \A x \in used : x <= Max(used)
    <3> HIDE DEF used
    <3> QED BY <1>1, <1>3, <2>1, MaxFacts
  <2>3. Settle(top) = Max(used)
    BY <1>3 DEF Settle
  <2>4. ASSUME NEW i \in 0..top, i > Settle(top), NEW d \in Level,
               Q'[i][d] # {}
        PROVE  FALSE
    <3>1. i \in used
      BY <2>4
    <3>2. i <= Settle(top) /\ Settle(top) \in 0..top
      BY <2>1, <2>2, <2>3, <3>1, Zenon
    <3> QED BY <1>1, <2>4, <3>2
  <2>5. \E d \in Level : Q'[Settle(top)][d] # {}
    BY <2>2, <2>3
  <2> QED BY <2>2, <2>3, <2>4, <2>5
<1> QED BY <1>2, <1>3

(* A turn of the loop, for the node v it takes.                            *)
LEMMA ColorNodeInv == Inv /\ ColorNode => Inv'
<1> SUFFICES ASSUME Inv, ColorNode
             PROVE  Inv'
  OBVIOUS
<1>0. s \in Level /\ MaxIndex(s) \in Level
  <2>1. s \in Level
    BY DEF ColorNode, Inv, TypeOK
  <2> QED BY <2>1, MaxIndexFacts DEF Inv, TypeOK
<1> DEFINE m == MaxIndex(s)
<1>1. PICK v \in Q[s][m] :
          /\ color' = [color EXCEPT ![v] = FirstFree(v)]
          /\ adjColors' = [u \in Node |->
                IF u \in adjUncolored[v] THEN Append(adjColors[u], FirstFree(v))
                ELSE adjColors[u]]
          /\ adjUncolored' = [u \in Node |->
                IF u \in adjUncolored[v] THEN adjUncolored[u] \ {v}
                ELSE adjUncolored[u]]
          /\ Q' = Moved(v)
          /\ s' = Settle(Max({s} \cup {Bucket(u)'[1] : u \in adjUncolored[v]}))
  BY Zenon DEF ColorNode
<1>2. adj' = adj
  BY DEF ColorNode
<1>3. v \in Node /\ color[v] = Uncolored /\ Bucket(v) = <<s, m>>
  <2> HIDE DEF m
  <2> QED BY <1>0, <1>1 DEF Inv, BucketsRight, m
<1> DEFINE D == adjUncolored[v]
           c == FirstFree(v)
<1>4. D = {w \in adj[v] : color[w] = Uncolored}
  BY <1>3 DEF Inv, BucketsRight
<1>5. /\ c \in 1..(Len(adjColors[v]) + 1) /\ c \notin Range(adjColors[v])
      /\ adjColors[v] \in Seq(Nat)
  BY <1>3, FirstFreeFacts DEF Inv, TypeOK
<1>6. /\ c \in 1..Cardinality(Node) /\ c <= Cardinality(adj[v]) + 1
      /\ c # Uncolored /\ c \in Nat
  <2>1. /\ Len(adjColors[v]) \in Level
        /\ Len(adjColors[v]) <= Cardinality(adj[v])
    BY <1>3, InsideQ
  <2>2. Cardinality(adj[v]) \in Nat /\ Cardinality(Node) \in Nat
    BY <1>3, NodeCount DEF Inv, TypeOK
  <2> HIDE DEF c
  <2> QED BY <1>5, <2>1, <2>2 DEF Level, Uncolored
<1> HIDE DEF c, m
<1>7. /\ color' \in [Node -> (1..Cardinality(Node)) \cup {Uncolored}]
      /\ color'[v] = c
      /\ \A u \in Node \ {v} : color'[u] = color[u]
  BY <1>1, <1>3, <1>6 DEF Inv, TypeOK, c
<1>8. ASSUME NEW u \in Node
      PROVE  /\ v \notin D /\ (u \in D => color[u] = Uncolored)
             /\ color[u] = Uncolored => (u \in D <=> v \in adj[u])
             /\ v \in adj[u] => u \in adj[v]
             /\ u \notin adj[u] /\ adj[u] \subseteq Node
  BY <1>3, <1>4 DEF Inv, AdjOK
<1>9. ASSUME NEW u \in Node
      PROVE  /\ adjColors'[u] = IF u \in D THEN Append(adjColors[u], c)
                                ELSE adjColors[u]
             /\ adjUncolored'[u] = IF u \in D THEN adjUncolored[u] \ {v}
                                   ELSE adjUncolored[u]
             /\ adjColors[u] \in Seq(Nat) /\ adjColors'[u] \in Seq(Nat)
             /\ Len(adjColors'[u]) = IF u \in D THEN Len(adjColors[u]) + 1
                                     ELSE Len(adjColors[u])
             /\ Range(adjColors'[u]) = IF u \in D
                                       THEN Range(adjColors[u]) \cup {c}
                                       ELSE Range(adjColors[u])
  <2>1. /\ adjColors'[u] = IF u \in D THEN Append(adjColors[u], c)
                           ELSE adjColors[u]
        /\ adjUncolored'[u] = IF u \in D THEN adjUncolored[u] \ {v}
                              ELSE adjUncolored[u]
        /\ adjColors[u] \in Seq(Nat)
    BY <1>1 DEF Inv, TypeOK, c
  <2> HIDE DEF D
  <2>2. Range(Append(adjColors[u], c)) = Range(adjColors[u]) \cup {c}
    BY <1>6, <2>1, RangeAppend
  <2>3. /\ Append(adjColors[u], c) \in Seq(Nat)
        /\ Len(Append(adjColors[u], c)) = Len(adjColors[u]) + 1
    BY <1>6, <2>1
  <2> QED BY <2>1, <2>2, <2>3
<1>10. adjColors' \in [Node -> Seq(Nat)] /\ adjUncolored' \in [Node -> SUBSET Node]
  <2>1. adjColors' \in [Node -> Seq(Nat)]
    <3>1. \A u \in Node : adjColors'[u] \in Seq(Nat)
      BY <1>9
    <3>2. adjColors' = [u \in Node |-> adjColors'[u]]
      BY <1>1
    <3> QED BY <3>1, <3>2
  <2>2. adjUncolored \in [Node -> SUBSET Node]
    BY DEF Inv, TypeOK
  <2> QED BY <1>1, <2>1, <2>2
<1>11. AdjOK'
  BY <1>2 DEF Inv, AdjOK
<1>12. ColorsKnown'
  <2> SUFFICES ASSUME NEW u \in Node, color'[u] = Uncolored,
                      NEW w \in adj[u], color'[w] # Uncolored
               PROVE  color'[w] \in Range(adjColors'[u])
    BY <1>2 DEF ColorsKnown
  <2>1. u # v /\ color[u] = Uncolored
    BY <1>6, <1>7
  <2>2. CASE w = v
    BY <1>7, <1>8, <1>9, <2>1, <2>2
  <2>3. CASE w # v
    <3>1. w \in Node /\ color'[w] = color[w]
      BY <1>7, <1>8, <2>3
    <3>2. color[w] \in Range(adjColors[u])
      BY <2>1, <3>1 DEF Inv, ColorsKnown
    <3> HIDE DEF D
    <3> QED BY <1>9, <3>1, <3>2
  <2> QED BY <2>2, <2>3
<1>13. Proper'
  <2> SUFFICES ASSUME NEW u \in Node, NEW w \in adj[u], color'[u] # Uncolored,
                      color'[u] = color'[w]
               PROVE  FALSE
    BY <1>2 DEF Proper
  <2>1. w \in Node /\ u \in adj[w] /\ u # w
    BY DEF Inv, AdjOK
  <2>2. ASSUME NEW x \in adj[v], color'[x] = c
        PROVE  FALSE
    <3>1. x \in Node \ {v} /\ color[x] = c
      BY <1>3, <1>7, <2>2 DEF Inv, AdjOK
    <3>2. color[x] \in Range(adjColors[v])
      BY <1>3, <1>6, <3>1 DEF Inv, ColorsKnown
    <3> QED BY <1>5, <3>1, <3>2 DEF c
  <2>3. CASE u = v
    BY <1>7, <2>2, <2>3
  <2>4. CASE w = v
    BY <1>7, <2>1, <2>2, <2>4
  <2>5. CASE u # v /\ w # v
    BY <1>7, <2>1, <2>5 DEF Inv, Proper
  <2> QED BY <2>3, <2>4, <2>5
<1>14. FewColors'
  <2> SUFFICES ASSUME NEW u \in Node
               PROVE  color'[u] <= Cardinality(adj[u]) + 1
    BY <1>2 DEF FewColors
  <2>1. CASE u = v
    BY <1>6, <1>7, <2>1
  <2>2. CASE u # v
    BY <1>7, <2>2 DEF Inv, FewColors
  <2> QED BY <2>1, <2>2
<1>15. ASSUME NEW u \in Node, color'[u] = Uncolored
       PROVE  /\ u # v /\ color[u] = Uncolored
              /\ adjUncolored'[u] = {w \in adj[u] : color'[w] = Uncolored}
              /\ Len(adjColors'[u]) = Cardinality(adj[u] \ adjUncolored'[u])
              /\ Bucket(u)' \in Level \X Level
              /\ u \notin D => Bucket(u)' = Bucket(u)
  <2>1. u # v /\ color[u] = Uncolored
    BY <1>6, <1>7, <1>15
  <2>2. /\ adjUncolored[u] = {w \in adj[u] : color[w] = Uncolored}
        /\ Len(adjColors[u]) = Cardinality(adj[u] \ adjUncolored[u])
    BY <2>1 DEF Inv, BucketsRight
  <2>3. \A w \in adj[u] : w \in Node /\ (color'[w] = Uncolored <=>
                              color[w] = Uncolored /\ w # v)
    BY <1>6, <1>7, <1>8
  <2>4. adjUncolored'[u] = {w \in adj[u] : color'[w] = Uncolored}
    <3>1. adjUncolored'[u] = IF u \in D THEN adjUncolored[u] \ {v}
                             ELSE adjUncolored[u]
      BY <1>9
    <3>2. u \in D <=> v \in adj[u]
      BY <1>8, <2>1
    <3> HIDE DEF D
    <3> QED BY <2>2, <2>3, <3>1, <3>2
  <2>5. Len(adjColors'[u]) = Cardinality(adj[u] \ adjUncolored'[u])
    <3>1. CASE u \in D
      <4>1. /\ Len(adjColors'[u]) = Len(adjColors[u]) + 1
            /\ adjUncolored'[u] = adjUncolored[u] \ {v}
        BY <1>9, <3>1
      <4>2. v \in adj[u] /\ v \in adjUncolored[u]
        BY <1>3, <1>8, <2>1, <2>2, <3>1
      <4>3. /\ adj[u] \ (adjUncolored[u] \ {v})
                 = (adj[u] \ adjUncolored[u]) \cup {v}
            /\ v \notin adj[u] \ adjUncolored[u]
        BY <4>2
      <4>4. IsFiniteSet(adj[u] \ adjUncolored[u])
        <5>1. adj[u] \ adjUncolored[u] \in SUBSET Node
          BY <1>8
        <5> QED BY <5>1, NodeCount
      <4>5. Cardinality((adj[u] \ adjUncolored[u]) \cup {v})
              = Cardinality(adj[u] \ adjUncolored[u]) + 1
        BY <4>3, <4>4, FS_AddElement
      <4> QED BY <2>2, <4>1, <4>3, <4>5
    <3>2. CASE u \notin D
      BY <1>9, <2>2, <3>2
    <3> QED BY <3>1, <3>2
  <2>6. Bucket(u)' \in Level \X Level
    <3>1. /\ adjUncolored'[u] \in SUBSET Node /\ u \in Node \ adjUncolored'[u]
          /\ adj[u] \ adjUncolored'[u] \in SUBSET Node
          /\ u \in Node \ (adj[u] \ adjUncolored'[u])
      BY <1>8, <2>4
    <3>2. /\ Cardinality(adjUncolored'[u]) \in Level
          /\ Cardinality(adj[u] \ adjUncolored'[u]) \in Level
      BY <3>1, NodeCount, Zenon
    <3>3. Bucket(u)' = <<Len(adjColors'[u]), Cardinality(adjUncolored'[u])>>
      BY DEF Bucket
    <3> QED BY <2>5, <3>2, <3>3
  <2>7. u \notin D => Bucket(u)' = Bucket(u)
    BY <1>9 DEF Bucket
  <2> QED BY <2>1, <2>4, <2>5, <2>6, <2>7
<1>16. ASSUME NEW i \in Level, NEW d \in Level
       PROVE  Q'[i][d] = (Q[i][d] \ {u \in D \cup {v} : Bucket(u) = <<i, d>>})
                           \cup {u \in D : Bucket(u)' = <<i, d>>}
  BY <1>1 DEF Moved
<1>17. ASSUME NEW u \in D
       PROVE  u \in Node /\ u # v /\ color'[u] = Uncolored
  <2>1. u \in Node /\ color[u] = Uncolored
    BY <1>3, <1>4, <1>8
  <2>2. u # v
    BY <1>8, <2>1
  <2> QED BY <1>7, <2>1, <2>2
<1>18. ASSUME NEW i \in Level, NEW d \in Level
       PROVE  Q'[i][d] = {u \in Node : color'[u] = Uncolored
                                        /\ Bucket(u)' = <<i, d>>}
  <2>1. Q[i][d] = {u \in Node : color[u] = Uncolored /\ Bucket(u) = <<i, d>>}
    BY DEF Inv, BucketsRight
  <2>2. ASSUME NEW u \in Node, color'[u] = Uncolored
        PROVE  u \in Q'[i][d] <=> Bucket(u)' = <<i, d>>
    <3>1. u # v /\ color[u] = Uncolored /\ (u \notin D => Bucket(u)' = Bucket(u))
      BY <1>15, <2>2
    <3>2. /\ u \in Q[i][d] <=> Bucket(u) = <<i, d>>
          /\ u \in Q'[i][d] <=>
                \/ u \in Q[i][d] /\ ~ (u \in D /\ Bucket(u) = <<i, d>>)
                \/ u \in D /\ Bucket(u)' = <<i, d>>
      <4>1. u \in Q[i][d] <=> Bucket(u) = <<i, d>>
        BY <2>1, <3>1
      <4> HIDE DEF D
      <4> QED BY <1>16, <3>1, <4>1
    <3> HIDE DEF D
    <3> QED BY <3>1, <3>2
  <2>3. ASSUME NEW u, u \in Q'[i][d]
        PROVE  u \in Node /\ color'[u] = Uncolored
    <3>1. CASE u \in D
      BY <1>17, <3>1
    <3>2. CASE u \notin D
      <4> HIDE DEF D
      <4>1. u \in Q[i][d] /\ u # v
        BY <1>3, <1>16, <2>1, <2>3, <3>2
      <4> QED BY <1>7, <2>1, <4>1
    <3> QED BY <3>1, <3>2
  <2> QED BY <2>2, <2>3
<1>19. Q' \in [Level -> [Level -> SUBSET Node]]
  <2>1. \A i, d \in Level : Q'[i][d] \in SUBSET Node
    BY <1>18
  <2>2. Q' = [i \in Level |-> [d \in Level |-> Q'[i][d]]]
    BY <1>1 DEF Moved
  <2> QED BY <2>1, <2>2
<1>20. BucketsRight'
  BY <1>2, <1>15, <1>18 DEF BucketsRight
<1> DEFINE tops == {s} \cup {Bucket(u)'[1] : u \in D}
           top == Max(tops)
<1>21. top \in Level /\ top \in tops /\ \A x \in tops : x <= top
  <2>1. \A u \in D : Bucket(u)'[1] \in Level
    <3>1. \A u \in D : Bucket(u)' \in Level \X Level
      BY <1>15, <1>17
    <3> QED BY <3>1
  <2>2. /\ tops \in SUBSET (0..(Cardinality(Node) - 1)) /\ tops # {}
        /\ tops \subseteq Level
    BY <1>0, <2>1 DEF Level
  <2>3. Cardinality(Node) - 1 \in Nat
    <3>1. Cardinality(Node) \in Nat \ {0}
      BY NodeCount
    <3> QED BY <3>1
  <2> HIDE DEF tops
  <2>4. Max(tops) \in tops /\ \A x \in tops : x <= Max(tops)
    BY <2>2, <2>3, MaxFacts
  <2> QED BY <2>2, <2>4
<1>22. /\ s' \in (0..top) \cup {-1}
       /\ \A i \in 0..top : i > s' => \A d \in Level : Q'[i][d] = {}
       /\ SomeAtLevel'
  <2>1. s' = Settle(top)
    BY <1>1
  <2> HIDE DEF top
  <2> QED BY <1>21, <2>1, SettleFacts DEF SomeAtLevel
<1>23. s' \in Level \cup {-1}
  <2>1. 0..top \subseteq Level
    <3>1. top \in Level
      BY <1>21
    <3>2. Cardinality(Node) \in Nat
      BY NodeCount
    <3> HIDE DEF top
    <3> QED BY <3>1, <3>2 DEF Level
  <2> HIDE DEF top
  <2> QED BY <1>22, <2>1
<1>24. NothingAbove'
  <2> SUFFICES ASSUME NEW i \in Level, NEW d \in Level, i > s'
               PROVE  Q'[i][d] = {}
    BY DEF NothingAbove
  <2>1. CASE i \in 0..top
    BY <1>22, <2>1
  <2>2. CASE i \notin 0..top
    <3>1. i > top /\ top \in Int /\ i \in Int
      <4> HIDE DEF top
      <4> QED BY <1>21, <2>2 DEF Level
    <3>2. ~ (i <= top)
      <4> HIDE DEF top
      <4> QED BY <3>1
    <3>3. s <= top /\ \A u \in D : Bucket(u)' # <<i, d>>
      <4>1. s <= top
        BY <1>21
      <4>2. ASSUME NEW u \in D, Bucket(u)' = <<i, d>>
            PROVE  FALSE
        <5>1. Bucket(u)'[1] \in tops /\ Bucket(u)'[1] = i
          BY <4>2
        <5> QED BY <1>21, <3>2, <5>1, Zenon
      <4> QED BY <4>1, <4>2
    <3>4. Q[i][d] = {}
      <4>1. i > s
        <5> HIDE DEF top
        <5> QED BY <1>0, <3>1, <3>3 DEF Level
      <4> QED BY <4>1 DEF Inv, NothingAbove
    <3> HIDE DEF D
    <3> QED BY <1>16, <3>3, <3>4
  <2> QED BY <2>1, <2>2
<1>25. TypeOK'
  BY <1>2, <1>7, <1>10, <1>19, <1>23 DEF Inv, TypeOK
<1> QED BY <1>11, <1>12, <1>13, <1>14, <1>20, <1>22, <1>24, <1>25 DEF Inv

(* The invariant holds throughout.                                         *)
LEMMA InvHolds == Spec => []Inv
<1>1. Inv /\ UNCHANGED vars => Inv'
  <2> SUFFICES ASSUME Inv, UNCHANGED vars
               PROVE  Inv'
    OBVIOUS
  <2> USE DEF vars
  <2>1. TypeOK' /\ AdjOK' /\ ColorsKnown' /\ Proper' /\ FewColors' /\ NothingAbove'
        /\ SomeAtLevel'
    BY DEF Inv, TypeOK, AdjOK, ColorsKnown, Proper, FewColors, NothingAbove, SomeAtLevel
  <2>2. BucketsRight'
    BY DEF Inv, BucketsRight, Bucket
  <2> QED BY <2>1, <2>2 DEF Inv
<1>2. Inv /\ [Next]_vars => Inv'
  BY <1>1, ColorNodeInv DEF Next
<1> QED BY <1>2, InitInv, PTL DEF Spec

-----------------------------------------------------------------------------
(* Every variable keeps its type: in particular `s` and the places nodes   *)
(* move to stay inside Q (graphColoring.c 97, 130, 146, 154).              *)
THEOREM TypeInvariant == Spec => []TypeOK
BY InvHolds, PTL DEF Inv

(* graphColoring.c 133-141: no two neighbours ever have the same colour.   *)
THEOREM ColoringIsProper == Spec => []Proper
BY InvHolds, PTL DEF Inv

(* graphColoring.c 143-158: the buckets hold exactly the nodes without a   *)
(* colour, each at the place its lists say.                                *)
THEOREM BucketsAreRight == Spec => []BucketsRight
BY InvHolds, PTL DEF Inv

(* graphColoring.c 135: no colour above the number of neighbours and one.  *)
THEOREM ColorsAreFew == Spec => []FewColors
BY InvHolds, PTL DEF Inv

(* graphColoring.c 119, 163: when the loop ends every node has a colour.   *)
THEOREM EveryNodeIsColored == Spec => []AllColored
<1>1. Inv => AllColored
  <2> SUFFICES ASSUME Inv, s = -1, NEW u \in Node, color[u] = Uncolored
               PROVE  FALSE
    BY DEF AllColored
  <2>1. PICK i \in Level, d \in Level : Bucket(u) = <<i, d>>
    <3>1. Bucket(u) \in Level \X Level
      BY InsideQ
    <3> QED BY <3>1
  <2>2. u \in Q[i][d]
    BY <2>1 DEF Inv, BucketsRight
  <2>3. i > s
    BY DEF Level
  <2> QED BY <2>2, <2>3 DEF Inv, NothingAbove
<1> QED BY <1>1, InvHolds, PTL

(***************************************************************************)
(* Progress: a turn always finds a node to take, and each colours one, so  *)
(* that there are as many turns as nodes.                                  *)
(***************************************************************************)

(* A list is popped only when it has a node                                *)
PopsANode == s >= 0 => Q[s][MaxIndex(s)] # {}

(* Each turn gives one node a colour, and no node gets another one         *)
ColorsOne ==
    LET left == {u \in Node : color[u] = Uncolored}
    IN  /\ Cardinality(left') = Cardinality(left) - 1
        /\ \A u \in Node \ left : color'[u] = color[u]

(* graphColoring.c 120-131: the last of the longest list is taken, and     *)
(* there is a last, as the search in 163-175 stops at a level with a node. *)
THEOREM ListIsNeverEmpty == Spec => []PopsANode
<1>1. Inv => PopsANode
  <2> SUFFICES ASSUME Inv, s >= 0 PROVE Q[s][MaxIndex(s)] # {}
    BY DEF PopsANode
  <2>1. s \in Level /\ Q \in [Level -> [Level -> SUBSET Node]]
    BY DEF Inv, TypeOK
  <2>2. PICK d \in Level : Q[s][d] # {}
    BY DEF Inv, SomeAtLevel
  <2>3. /\ MaxIndex(s) \in Level
        /\ Cardinality(Q[s][d]) <= Cardinality(Q[s][MaxIndex(s)])
    BY <2>1, MaxIndexFacts
  <2>4. /\ IsFiniteSet(Q[s][d]) /\ Cardinality(Q[s][d]) \in Nat
        /\ Cardinality(Q[s][d]) # 0
    <3>1. Q[s][d] \in SUBSET Node
      BY <2>1
    <3>2. IsFiniteSet(Q[s][d])
      BY <3>1, NodeCount
    <3> QED BY <2>2, <3>2, FS_CardinalityType, FS_EmptySet
  <2>5. Cardinality(Q[s][MaxIndex(s)]) # 0
    BY <2>3, <2>4
  <2> QED BY <2>5, FS_EmptySet
<1> QED BY <1>1, InvHolds, PTL

(* graphColoring.c 119-176: the loop colours one node in a turn and never  *)
(* changes a colour, so it ends after as many turns as there are nodes.    *)
THEOREM EachTurnColorsOne == Spec => [][ColorsOne]_vars
<1>1. ASSUME Inv, ColorNode PROVE ColorsOne
  <2> DEFINE left == {u \in Node : color[u] = Uncolored}
             left1 == {u \in Node : color'[u] = Uncolored}
  <2>1. s \in Level /\ MaxIndex(s) \in Level
    <3>1. s \in Level
      BY <1>1 DEF ColorNode, Inv, TypeOK
    <3> QED BY <1>1, <3>1, MaxIndexFacts DEF Inv, TypeOK
  <2>2. PICK v \in Q[s][MaxIndex(s)] : color' = [color EXCEPT ![v] = FirstFree(v)]
    BY <1>1, Zenon DEF ColorNode
  <2>3. v \in Node /\ color[v] = Uncolored
    BY <1>1, <2>1, <2>2 DEF Inv, BucketsRight
  <2>4. FirstFree(v) # Uncolored
    <3>1. adjColors[v] \in Seq(Nat)
      BY <1>1, <2>3 DEF Inv, TypeOK
    <3>2. FirstFree(v) \in 1..(Len(adjColors[v]) + 1)
      BY <2>3, <3>1, FirstFreeFacts
    <3> QED BY <3>1, <3>2 DEF Uncolored
  <2>5. color \in [Node -> (1..Cardinality(Node)) \cup {Uncolored}]
    BY <1>1 DEF Inv, TypeOK
  <2>6. color'[v] = FirstFree(v) /\ \A u \in Node \ {v} : color'[u] = color[u]
    BY <2>2, <2>3, <2>5
  <2>7. v \in left /\ left1 = left \ {v}
    BY <2>3, <2>4, <2>6
  <2>8. Cardinality(left \ {v}) = Cardinality(left) - 1
    <3>1. left \in SUBSET Node
      OBVIOUS
    <3>2. IsFiniteSet(left)
      BY <3>1, NodeCount
    <3> HIDE DEF left
    <3> QED BY <2>7, <3>2, FS_RemoveElement
  <2>9. \A u \in Node \ left : color'[u] = color[u]
    BY <2>6, <2>7
  <2> QED BY <2>7, <2>8, <2>9 DEF ColorsOne
<1>2. Inv /\ [Next]_vars => [ColorsOne]_vars
  BY <1>1 DEF Next
<1> QED BY <1>2, InvHolds, PTL DEF Spec
=============================================================================
