--------------------------- MODULE HashMapProofs ---------------------------
(* Proofs about HashMap, for every set of keys and every hash code.        *)
EXTENDS HashMap, NumberFacts, FiniteSetTheorems, FunctionTheorems, TLAPS

(***************************************************************************)
(* Lists                                                                   *)
(***************************************************************************)

(* A new member takes its place, and those behind it move back by one.     *)
LEMMA InsertAtFacts ==
    ASSUME NEW T, NEW s \in Seq(T), NEW e \in T, NEW i \in 1..(Len(s) + 1)
    PROVE  /\ InsertAt(s, i, e) \in Seq(T)
           /\ Len(InsertAt(s, i, e)) = Len(s) + 1
           /\ \A j \in 1..(Len(s) + 1) :
                 InsertAt(s, i, e)[j] =
                    IF j < i THEN s[j] ELSE IF j = i THEN e ELSE s[j - 1]
<1> DEFINE front == SubSeq(s, 1, i - 1)
           back == SubSeq(s, i, Len(s))
           longer == front \o <<e>>
<1>1. /\ front \in Seq(T) /\ Len(front) = i - 1
      /\ \A j \in 1..(i - 1) : front[j] = s[j]
  OBVIOUS
<1>2. /\ back \in Seq(T) /\ Len(back) = Len(s) - i + 1
      /\ \A j \in 1..(Len(s) - i + 1) : back[j] = s[i + j - 1]
  OBVIOUS
<1>3. InsertAt(s, i, e) = longer \o back
  BY DEF InsertAt
<1> HIDE DEF front, back
<1>4. /\ longer \in Seq(T) /\ Len(longer) = i
      /\ \A j \in 1..(i - 1) : longer[j] = s[j]
      /\ longer[i] = e
  BY <1>1
<1> HIDE DEF longer
<1>5. /\ longer \o back \in Seq(T) /\ Len(longer \o back) = Len(s) + 1
      /\ \A j \in 1..i : (longer \o back)[j] = longer[j]
      /\ \A j \in (i + 1)..(Len(s) + 1) : (longer \o back)[j] = back[j - i]
  BY <1>2, <1>4
<1> QED BY <1>2, <1>3, <1>4, <1>5

(* A member leaves its place, and those behind it move up by one.          *)
LEMMA RemoveAtFacts ==
    ASSUME NEW T, NEW s \in Seq(T), NEW i \in 1..Len(s)
    PROVE  /\ RemoveAt(s, i) \in Seq(T)
           /\ Len(RemoveAt(s, i)) = Len(s) - 1
           /\ \A j \in 1..(Len(s) - 1) :
                 RemoveAt(s, i)[j] = IF j < i THEN s[j] ELSE s[j + 1]
<1> DEFINE front == SubSeq(s, 1, i - 1)
           back == SubSeq(s, i + 1, Len(s))
<1>1. /\ front \in Seq(T) /\ Len(front) = i - 1
      /\ \A j \in 1..(i - 1) : front[j] = s[j]
  OBVIOUS
<1>2. /\ back \in Seq(T) /\ Len(back) = Len(s) - i
      /\ \A j \in 1..(Len(s) - i) : back[j] = s[i + j]
  OBVIOUS
<1>3. RemoveAt(s, i) = front \o back
  BY DEF RemoveAt
<1> HIDE DEF front, back
<1> QED BY <1>1, <1>2, <1>3

(***************************************************************************)
(* Buckets                                                                 *)
(***************************************************************************)

(* The list of bucket b of c: nodes hashed to it, in the order of keys.    *)
GoodList(nodes, b, c) ==
    /\ nodes \in Seq(Node)
    /\ \A i \in DOMAIN nodes : nodes[i].hash = b /\ MapHash(nodes[i].key, c) = b
    /\ \A i, j \in DOMAIN nodes : i < j => nodes[i].key < nodes[j].key

At(nodes) == IF nodes = <<>> THEN {0} ELSE DOMAIN nodes

GoodBucket(bucket, b, c) ==
    /\ bucket \in Bucket
    /\ GoodList(bucket.nodes, b, c)
    /\ bucket.at \in At(bucket.nodes)

(* What a good list is made of.                                            *)
LEMMA GoodListFacts ==
    ASSUME NEW b, NEW c, NEW nodes, GoodList(nodes, b, c)
    PROVE  /\ nodes \in Seq(Node) /\ Len(nodes) \in Nat /\ DOMAIN nodes = 1..Len(nodes)
           /\ \A i \in 1..Len(nodes) :
                 /\ nodes[i] \in Node /\ nodes[i].key \in Key /\ nodes[i].key \in Nat
                 /\ nodes[i].hash = b /\ MapHash(nodes[i].key, c) = b
<1>1. nodes \in Seq(Node) /\ Len(nodes) \in Nat /\ DOMAIN nodes = 1..Len(nodes)
  BY DEF GoodList
<1>2. \A i \in 1..Len(nodes) : nodes[i] \in Node
  BY <1>1
<1>3. \A x \in Node : x.key \in Key /\ x.key \in Nat
  BY KeysOK DEF Node
<1> QED BY <1>1, <1>2, <1>3, Zenon DEF GoodList

(* Wherever the walk of __llInsert starts, a key the list does not have    *)
(* comes after the keys below it and before those above it.                *)
LEMMA PlaceFacts ==
    ASSUME NEW b, NEW c, NEW nodes, GoodList(nodes, b, c),
           NEW from \in At(nodes),
           NEW new \in Node, new.hash = b, b \in Nat,
           \A i \in DOMAIN nodes : nodes[i].key # new.key
    PROVE  LET p == PlaceFor(nodes, from, new)
           IN  /\ p \in 0..Len(nodes)
               /\ \A i \in 1..p : nodes[i].key < new.key
               /\ \A i \in (p + 1)..Len(nodes) : new.key < nodes[i].key
<1> DEFINE p == PlaceFor(nodes, from, new)
<1>1. /\ nodes \in Seq(Node) /\ Len(nodes) \in Nat
      /\ DOMAIN nodes = 1..Len(nodes)
      /\ \A i \in 1..Len(nodes) : nodes[i].key \in Nat /\ nodes[i].hash = b
      /\ new.key \in Nat
  <2>1. new.key \in Nat
    BY KeysOK DEF Node
  <2>2. /\ nodes \in Seq(Node) /\ Len(nodes) \in Nat
        /\ DOMAIN nodes = 1..Len(nodes)
        /\ \A i \in 1..Len(nodes) : nodes[i].key \in Nat /\ nodes[i].hash = b
    BY GoodListFacts
  <2> QED BY <2>1, <2>2
<1>2. \A i \in 1..Len(nodes) : Before(nodes[i], new) <=> nodes[i].key < new.key
  BY <1>1 DEF Before
<1>3. \A i \in 1..Len(nodes) : Before(new, nodes[i]) <=> new.key < nodes[i].key
  BY <1>1 DEF Before
<1>4. \A i \in 1..Len(nodes) : nodes[i].key < new.key \/ new.key < nodes[i].key
  BY <1>1
<1>5. \A i, j \in 1..Len(nodes) : i < j => nodes[i].key < nodes[j].key
  BY <1>1 DEF GoodList
<1>6. CASE from = 0
  <2>1. nodes = <<>> /\ Len(nodes) = 0
    BY <1>1, <1>6 DEF At
  <2>2. p = 0
    BY <1>6 DEF PlaceFor
  <2> QED BY <2>1, <2>2
<1>7. CASE from # 0 /\ Before(new, nodes[from])
  <2> DEFINE S == {i \in 1..(from - 1) : ~Before(new, nodes[i])} \cup {0}
  <2>1. from \in 1..Len(nodes)
    BY <1>1, <1>7 DEF At
  <2>2. p = Max(S)
    BY <1>7 DEF PlaceFor
  <2>3. S \in SUBSET (0..(from - 1)) /\ S # {}
    BY <2>1
  <2>4. p \in S /\ \A i \in S : i <= p
    <3> HIDE DEF S, p
    <3>1. from - 1 \in Nat
      BY <2>1
    <3> QED BY <2>2, <2>3, <3>1, MaxFacts
  <2>5. p \in 0..(from - 1) /\ (p > 0 => nodes[p].key < new.key)
    BY <2>1, <2>4, <1>3, <1>4
  <2>6. \A i \in 1..p : nodes[i].key < new.key
    <3> HIDE DEF p, S
    <3> TAKE i \in 1..p
    <3>1. nodes[p].key < new.key /\ p \in 1..Len(nodes) /\ i \in 1..Len(nodes)
      BY <2>1, <2>5
    <3>2. i < p => nodes[i].key < nodes[p].key
      BY <3>1, <1>5
    <3> QED BY <1>1, <3>1, <3>2
  <2>7. \A i \in (p + 1)..(from - 1) : new.key < nodes[i].key
    <3> TAKE i \in (p + 1)..(from - 1)
    <3>1. i \notin S /\ i \in 1..(from - 1) /\ i \in 1..Len(nodes)
      BY <2>1, <2>4, <2>5
    <3> QED BY <3>1, <1>3
  <2>8. \A i \in from..Len(nodes) : new.key < nodes[i].key
    <3> TAKE i \in from..Len(nodes)
    <3>1. new.key < nodes[from].key /\ i \in 1..Len(nodes)
      BY <1>3, <1>7, <2>1
    <3>2. from < i => nodes[from].key < nodes[i].key
      BY <1>5, <2>1, <3>1
    <3> QED BY <1>1, <2>1, <3>1, <3>2
  <2> HIDE DEF p, S
  <2>9. p \in 0..Len(nodes)
    BY <2>1, <2>5
  <2>10. \A i \in (p + 1)..Len(nodes) : i \in (p + 1)..(from - 1) \/ i \in from..Len(nodes)
    BY <2>1, <2>5
  <2> QED BY <2>6, <2>7, <2>8, <2>9, <2>10 DEF p
<1>8. CASE from # 0 /\ ~Before(new, nodes[from])
  <2> DEFINE ahead == {i \in from..Len(nodes) : ~Before(nodes[i], new)}
  <2>1. from \in 1..Len(nodes)
    BY <1>1, <1>8 DEF At
  <2>2. nodes[from].key < new.key
    BY <1>3, <1>4, <1>8, <2>1
  <2>3. \A i \in 1..from : nodes[i].key < new.key
    <3> TAKE i \in 1..from
    <3>1. i < from => nodes[i].key < nodes[from].key
      BY <1>5, <2>1
    <3> QED BY <1>1, <2>1, <2>2, <3>1
  <2>4. CASE ahead = {}
    <3>1. p = Len(nodes)
      BY <1>8, <2>4 DEF PlaceFor
    <3>2. \A i \in from..Len(nodes) : nodes[i].key < new.key
      BY <1>2, <2>1, <2>4
    <3>3. \A i \in 1..Len(nodes) : i \in 1..from \/ i \in from..Len(nodes)
      BY <2>1
    <3> QED BY <1>1, <2>3, <3>1, <3>2, <3>3
  <2>5. CASE ahead # {}
    <3> DEFINE q == Min(ahead)
    <3>1. p = q - 1
      BY <1>8, <2>5 DEF PlaceFor
    <3>2. q \in ahead /\ \A i \in ahead : q <= i
      <4>1. ahead \in SUBSET Nat
        BY <2>1
      <4> HIDE DEF ahead
      <4> QED BY <2>5, <4>1, MinFacts
    <3> HIDE DEF q
    <3>3. q \in (from + 1)..Len(nodes) /\ new.key < nodes[q].key
      <4>1. q \in from..Len(nodes) /\ ~Before(nodes[q], new)
        BY <3>2
      <4>2. q # from
        BY <1>2, <2>1, <2>2, <4>1
      <4> QED BY <1>2, <1>4, <2>1, <4>1, <4>2
    <3>4. \A i \in from..(q - 1) : nodes[i].key < new.key
      <4> TAKE i \in from..(q - 1)
      <4>1. i \in from..Len(nodes) /\ i \notin ahead
        BY <2>1, <3>2, <3>3
      <4> QED BY <1>2, <2>1, <4>1
    <3>5. \A i \in q..Len(nodes) : new.key < nodes[i].key
      <4> TAKE i \in q..Len(nodes)
      <4>1. q < i => nodes[q].key < nodes[i].key
        BY <1>5, <2>1, <3>3
      <4>2. nodes[i].key \in Nat /\ nodes[q].key \in Nat
        BY <1>1, <2>1, <3>3
      <4> QED BY <1>1, <3>3, <4>1, <4>2
    <3> HIDE DEF p, ahead
    <3>6. \A i \in 1..p : i \in 1..from \/ i \in from..(q - 1)
      BY <2>1, <3>1, <3>3
    <3>7. p \in 0..Len(nodes) /\ p + 1 = q
      BY <2>1, <3>1, <3>3
    <3> QED BY <2>3, <3>4, <3>5, <3>6, <3>7 DEF p
  <2> QED BY <2>4, <2>5
<1> QED BY <1>6, <1>7, <1>8


Grows(r, bucket, new) ==
    /\ Len(r.nodes) = Len(bucket.nodes) + 1
    /\ ToSet(r.nodes) = ToSet(bucket.nodes) \cup {new}

Shrinks(r, bucket, k) ==
    /\ Len(r.nodes) = Len(bucket.nodes) - 1
    /\ ToSet(r.nodes) = {x \in ToSet(bucket.nodes) : x.key # k}

(* A good bucket stays good when a key it does not have is inserted.       *)
LEMMA LLInsertFacts ==
    ASSUME NEW b \in Nat, NEW c, NEW bucket, GoodBucket(bucket, b, c),
           NEW from \in At(bucket.nodes),
           NEW new \in Node, new.hash = b, MapHash(new.key, c) = b,
           \A i \in DOMAIN bucket.nodes : bucket.nodes[i].key # new.key
    PROVE  /\ GoodBucket(LLInsert(bucket, from, new), b, c)
           /\ Grows(LLInsert(bucket, from, new), bucket, new)
<1> DEFINE old == bucket.nodes
           p == PlaceFor(old, from, new)
           longer == InsertAt(old, p + 1, new)
<1>1. /\ old \in Seq(Node) /\ Len(old) \in Nat /\ DOMAIN old = 1..Len(old)
      /\ \A i \in 1..Len(old) : /\ old[i] \in Node /\ old[i].key \in Nat
                                /\ old[i].hash = b /\ MapHash(old[i].key, c) = b
  <2>1. GoodList(old, b, c)
    BY DEF GoodBucket
  <2> HIDE DEF old
  <2> QED BY <2>1, GoodListFacts
<1>2. \A i, j \in 1..Len(old) : i < j => old[i].key < old[j].key
  BY <1>1 DEF GoodBucket, GoodList
<1>3. /\ p \in 0..Len(old)
      /\ \A i \in 1..p : old[i].key < new.key
      /\ \A i \in (p + 1)..Len(old) : new.key < old[i].key
  <2>1. GoodList(old, b, c)
    BY DEF GoodBucket
  <2> HIDE DEF old
  <2> QED BY <2>1, PlaceFacts DEF old
<1>4. LLInsert(bucket, from, new) = [nodes |-> longer, at |-> p + 1]
  BY DEF LLInsert
<1> HIDE DEF p, old
<1>5. /\ longer \in Seq(Node) /\ Len(longer) = Len(old) + 1
      /\ \A j \in 1..(Len(old) + 1) :
            longer[j] = IF j < p + 1 THEN old[j] ELSE IF j = p + 1 THEN new ELSE old[j - 1]
  <2>1. p + 1 \in 1..(Len(old) + 1)
    BY <1>1, <1>3
  <2> DEFINE k == p + 1
  <2>2. k \in 1..(Len(old) + 1)
    BY <2>1
  <2> HIDE DEF k
  <2>3. /\ InsertAt(old, k, new) \in Seq(Node) /\ Len(InsertAt(old, k, new)) = Len(old) + 1
        /\ \A j \in 1..(Len(old) + 1) :
              InsertAt(old, k, new)[j] = IF j < k THEN old[j] ELSE IF j = k THEN new ELSE old[j - 1]
    BY <1>1, <2>2, InsertAtFacts
  <2> QED BY <2>3 DEF k
<1> HIDE DEF longer
<1>6. DOMAIN longer = 1..(Len(old) + 1)
  BY <1>5
<1>7. \A i, j \in 1..(Len(old) + 1) : i < j => longer[i].key < longer[j].key
  <2> SUFFICES ASSUME NEW i \in 1..(Len(old) + 1), NEW j \in 1..(Len(old) + 1), i < j
               PROVE  longer[i].key < longer[j].key
    OBVIOUS
  <2>1. CASE j < p + 1
    BY <1>1, <1>2, <1>3, <1>5, <2>1
  <2>2. CASE j = p + 1
    <3>1. longer[j] = new /\ longer[i] = old[i] /\ i \in 1..p
      BY <1>1, <1>3, <1>5, <2>2
    <3> QED BY <1>3, <3>1
  <2>3. CASE j > p + 1 /\ i < p + 1
    <3>1. longer[i] = old[i] /\ longer[j] = old[j - 1] /\ i \in 1..Len(old) /\ j - 1 \in 1..Len(old)
      BY <1>1, <1>3, <1>5, <2>3
    <3>2. i < j - 1
      BY <1>3, <2>3
    <3> QED BY <1>2, <3>1, <3>2
  <2>4. CASE j > p + 1 /\ i = p + 1
    <3>1. longer[j] = old[j - 1] /\ longer[i] = new /\ j - 1 \in (p + 1)..Len(old)
      BY <1>1, <1>3, <1>5, <2>4
    <3> QED BY <1>3, <3>1
  <2>5. CASE i > p + 1
    <3>1. longer[i] = old[i - 1] /\ longer[j] = old[j - 1]
          /\ i - 1 \in 1..Len(old) /\ j - 1 \in 1..Len(old)
      BY <1>1, <1>3, <1>5, <2>5
    <3> QED BY <1>2, <3>1
  <2> QED BY <1>1, <1>3, <2>1, <2>2, <2>3, <2>4, <2>5
<1>8. \A j \in 1..(Len(old) + 1) : longer[j].hash = b /\ MapHash(longer[j].key, c) = b
  <2> TAKE j \in 1..(Len(old) + 1)
  <2>1. \/ longer[j] = new
        \/ j \in 1..Len(old) /\ longer[j] = old[j]
        \/ j - 1 \in 1..Len(old) /\ longer[j] = old[j - 1]
    BY <1>1, <1>3, <1>5
  <2> QED BY <1>1, <2>1
<1>9. GoodList(longer, b, c)
  BY <1>5, <1>6, <1>7, <1>8 DEF GoodList
<1>10. p + 1 \in At(longer) /\ p + 1 \in Nat
  BY <1>1, <1>3, <1>5, <1>6 DEF At
<1>11. \A x \in ToSet(old) \cup {new} : x \in ToSet(longer)
  <2>1. \A i \in 1..Len(old) : old[i] \in ToSet(longer)
    <3> TAKE i \in 1..Len(old)
    <3>1. CASE i < p + 1
      <4>1. i \in DOMAIN longer /\ longer[i] = old[i]
        BY <1>1, <1>5, <1>6, <3>1
      <4> QED BY <4>1, Zenon DEF ToSet
    <3>2. CASE i >= p + 1
      <4>1. i + 1 \in 1..(Len(old) + 1) /\ longer[i + 1] = old[i]
        BY <1>1, <1>3, <1>5, <3>2
      <4> QED BY <1>6, <4>1, Zenon DEF ToSet
    <3> QED BY <1>1, <1>3, <3>1, <3>2
  <2>2. p + 1 \in 1..(Len(old) + 1) /\ longer[p + 1] = new
    BY <1>1, <1>3, <1>5
  <2> QED BY <1>1, <1>6, <2>1, <2>2, Zenon DEF ToSet
<1>12. ToSet(longer) \subseteq ToSet(old) \cup {new}
  <2>1. \A j \in 1..(Len(old) + 1) : longer[j] \in ToSet(old) \cup {new}
    <3> TAKE j \in 1..(Len(old) + 1)
    <3>1. CASE j < p + 1
      <4>1. j \in 1..Len(old) /\ longer[j] = old[j]
        BY <1>1, <1>3, <1>5, <3>1
      <4> QED BY <1>1, <4>1, Zenon DEF ToSet
    <3>2. CASE j = p + 1
      BY <1>5, <3>2
    <3>3. CASE j > p + 1
      <4>1. j - 1 \in 1..Len(old) /\ longer[j] = old[j - 1]
        BY <1>1, <1>3, <1>5, <3>3
      <4> QED BY <1>1, <4>1, Zenon DEF ToSet
    <3> QED BY <1>3, <3>1, <3>2, <3>3
  <2> QED BY <1>6, <2>1, Zenon DEF ToSet
<1>13. GoodBucket([nodes |-> longer, at |-> p + 1], b, c)
  BY <1>5, <1>9, <1>10 DEF GoodBucket, Bucket
<1> QED BY <1>4, <1>5, <1>11, <1>12, <1>13 DEF old, Grows

(* ... and when one of its nodes is removed, which takes out its key.      *)
LEMMA LLRemoveFacts ==
    ASSUME NEW b \in Nat, NEW c, NEW bucket, GoodBucket(bucket, b, c),
           NEW i \in DOMAIN bucket.nodes
    PROVE  /\ GoodBucket(LLRemove(bucket, i), b, c)
           /\ Shrinks(LLRemove(bucket, i), bucket, bucket.nodes[i].key)
<1> DEFINE old == bucket.nodes
           shorter == RemoveAt(old, i)
           to == IF i > 1 THEN i - 1 ELSE Min({1, Len(old) - 1})
<1>1. /\ old \in Seq(Node) /\ Len(old) \in Nat /\ DOMAIN old = 1..Len(old)
      /\ \A j \in 1..Len(old) : /\ old[j] \in Node /\ old[j].key \in Nat
                                /\ old[j].hash = b /\ MapHash(old[j].key, c) = b
  <2>1. GoodList(old, b, c)
    BY DEF GoodBucket
  <2> HIDE DEF old
  <2> QED BY <2>1, GoodListFacts
<1>2. \A j, k \in 1..Len(old) : j < k => old[j].key < old[k].key
  BY <1>1 DEF GoodBucket, GoodList
<1>3. LLRemove(bucket, i) = [nodes |-> shorter, at |-> to]
  BY DEF LLRemove
<1>4. i \in 1..Len(old)
  BY <1>1
<1> HIDE DEF old
<1>5. /\ shorter \in Seq(Node) /\ Len(shorter) = Len(old) - 1
      /\ \A j \in 1..(Len(old) - 1) : shorter[j] = IF j < i THEN old[j] ELSE old[j + 1]
  BY <1>1, <1>4, RemoveAtFacts
<1> HIDE DEF shorter
<1>6. DOMAIN shorter = 1..(Len(old) - 1)
  BY <1>5
<1>7. \A j, k \in 1..(Len(old) - 1) : j < k => shorter[j].key < shorter[k].key
  <2> SUFFICES ASSUME NEW j \in 1..(Len(old) - 1), NEW k \in 1..(Len(old) - 1), j < k
               PROVE  shorter[j].key < shorter[k].key
    OBVIOUS
  <2> DEFINE J == IF j < i THEN j ELSE j + 1
             K == IF k < i THEN k ELSE k + 1
  <2>1. shorter[j] = old[J] /\ shorter[k] = old[K]
    BY <1>5
  <2>2. J \in 1..Len(old) /\ K \in 1..Len(old) /\ J < K
    BY <1>1, <1>4
  <2> HIDE DEF J, K
  <2> QED BY <1>2, <2>1, <2>2
<1>8. \A j \in 1..(Len(old) - 1) : shorter[j].hash = b /\ MapHash(shorter[j].key, c) = b
  <2> TAKE j \in 1..(Len(old) - 1)
  <2> DEFINE J == IF j < i THEN j ELSE j + 1
  <2>1. shorter[j] = old[J]
    BY <1>5
  <2>2. J \in 1..Len(old)
    BY <1>1, <1>4
  <2> HIDE DEF J
  <2> QED BY <1>1, <2>1, <2>2
<1>9. GoodList(shorter, b, c)
  BY <1>5, <1>6, <1>7, <1>8 DEF GoodList
<1>10. to \in At(shorter) /\ to \in Nat
  <2>1. CASE i > 1
    BY <1>1, <1>4, <1>5, <1>6, <2>1 DEF At
  <2>2. CASE i = 1
    <3>1. to = Min({1, Len(old) - 1})
      BY <2>2
    <3>2. /\ Min({1, Len(old) - 1}) \in {1, Len(old) - 1}
          /\ \A x \in {1, Len(old) - 1} : Min({1, Len(old) - 1}) <= x
      <4>1. {1, Len(old) - 1} \in SUBSET Nat /\ {1, Len(old) - 1} # {}
        BY <1>1, <1>4
      <4> QED BY <4>1, MinFacts, Zenon
    <3> HIDE DEF to
    <3>3. to = IF Len(old) = 1 THEN 0 ELSE 1
      BY <1>1, <1>4, <3>1, <3>2
    <3>4. Len(old) = 1 <=> shorter = <<>>
      BY <1>1, <1>4, <1>5
    <3> QED BY <1>1, <1>4, <1>6, <3>3, <3>4 DEF At
  <2> QED BY <1>1, <1>4, <2>1, <2>2
<1>11. \A x \in ToSet(old) : x.key # old[i].key => x \in ToSet(shorter)
  <2>1. \A k \in 1..Len(old) : k # i => old[k] \in ToSet(shorter)
    <3> SUFFICES ASSUME NEW k \in 1..Len(old), k # i
                 PROVE  old[k] \in ToSet(shorter)
      OBVIOUS
    <3> DEFINE j == IF k < i THEN k ELSE k - 1
    <3>1. j \in 1..(Len(old) - 1) /\ shorter[j] = old[k]
      BY <1>1, <1>4, <1>5
    <3> QED BY <1>6, <3>1, Zenon DEF ToSet
  <2> QED BY <1>1, <2>1, Zenon DEF ToSet
<1>12. \A x \in ToSet(shorter) : x \in ToSet(old) /\ x.key # old[i].key
  <2>1. \A j \in 1..(Len(old) - 1) : shorter[j] \in ToSet(old) /\ shorter[j].key # old[i].key
    <3> TAKE j \in 1..(Len(old) - 1)
    <3> DEFINE J == IF j < i THEN j ELSE j + 1
    <3>1. shorter[j] = old[J]
      BY <1>5
    <3>2. J \in 1..Len(old) /\ (J < i \/ i < J)
      BY <1>1, <1>4
    <3> HIDE DEF J
    <3>3. old[J] \in ToSet(old)
      BY <1>1, <3>2, Zenon DEF ToSet
    <3>4. old[J].key # old[i].key
      BY <1>1, <1>2, <1>4, <3>2
    <3> QED BY <3>1, <3>3, <3>4
  <2> QED BY <1>6, <2>1, Zenon DEF ToSet
<1>13. GoodBucket([nodes |-> shorter, at |-> to], b, c)
  BY <1>5, <1>9, <1>10 DEF GoodBucket, Bucket
<1>14. ToSet(shorter) = {x \in ToSet(old) : x.key # old[i].key}
  BY <1>11, <1>12, Zenon
<1> QED BY <1>3, <1>5, <1>13, <1>14 DEF old, Shrinks


(* The search finds the node of a key if there is one.                     *)
LEMMA LLFindFacts ==
    ASSUME NEW b, NEW c, NEW nodes, GoodList(nodes, b, c), b \in Nat, NEW k \in Nat
    PROVE  LET f == LLFindRight(nodes, [key |-> k, hash |-> b])
           IN  \/ f = 0 /\ \A i \in DOMAIN nodes : nodes[i].key # k
               \/ f \in DOMAIN nodes /\ nodes[f].key = k
<1> DEFINE x == [key |-> k, hash |-> b]
           found == {i \in DOMAIN nodes :
                        /\ Same(x, nodes[i])
                        /\ \A j \in 2..(i - 1) : ~Before(x, nodes[j])}
           f == LLFindRight(nodes, x)
<1>1. /\ Len(nodes) \in Nat /\ DOMAIN nodes = 1..Len(nodes)
      /\ \A i \in 1..Len(nodes) : nodes[i].key \in Nat /\ nodes[i].hash = b
  BY GoodListFacts
<1>2. \A i, j \in 1..Len(nodes) : i < j => nodes[i].key < nodes[j].key
  BY <1>1 DEF GoodList
<1>3. \A i \in 1..Len(nodes) : (Same(x, nodes[i]) <=> nodes[i].key = k)
                                /\ (Before(x, nodes[i]) <=> k < nodes[i].key)
  BY <1>1 DEF Same, Before
<1>4. \A i \in 1..Len(nodes) : nodes[i].key = k => i \in found
  <2> SUFFICES ASSUME NEW i \in 1..Len(nodes), nodes[i].key = k
               PROVE  \A j \in 2..(i - 1) : ~Before(x, nodes[j])
    BY <1>1, <1>3
  <2> TAKE j \in 2..(i - 1)
  <2>1. j \in 1..Len(nodes) /\ j < i
    BY <1>1
  <2>2. nodes[j].key < k
    BY <1>2, <2>1
  <2> QED BY <1>1, <1>3, <2>1, <2>2
<1>5. \A i \in found : i \in 1..Len(nodes) /\ nodes[i].key = k
  BY <1>1, <1>3
<1>6. f = IF found = {} THEN 0 ELSE Min(found)
  BY DEF LLFindRight
<1> HIDE DEF found, f, x
<1>7. CASE found = {}
  BY <1>1, <1>4, <1>6, <1>7 DEF f, x
<1>8. CASE found # {}
  <2>1. found \in SUBSET Nat
    BY <1>1, <1>5
  <2>2. f \in found
    BY <1>6, <1>8, <2>1, MinFacts
  <2> QED BY <1>1, <1>5, <2>2 DEF f, x
<1> QED BY <1>7, <1>8

(***************************************************************************)
(* Maps                                                                    *)
(***************************************************************************)

(* A map of c good buckets, whose sizes are those of their lists.          *)
GoodMap(m, c) ==
    /\ c \in Nat \ {0}
    /\ m = [buckets |-> m.buckets, sizes |-> m.sizes]
    /\ m.buckets \in [0..(c - 1) -> Bucket]
    /\ m.sizes \in [0..(c - 1) -> Nat]
    /\ \A b \in 0..(c - 1) : /\ GoodBucket(m.buckets[b], b, c)
                             /\ m.sizes[b] = Len(m.buckets[b].nodes)

(* What the user of a map put there.                                       *)
Items(m) == {<<x.key, x.value>> : x \in Held(m)}

LEMMA MapHashRange ==
    ASSUME NEW k \in Key, NEW c \in Nat \ {0}
    PROVE  MapHash(k, c) \in 0..(c - 1) /\ MapHash(k, c) \in Nat
<1>1. Code[k] \in Nat
  BY KeysOK
<1> QED BY <1>1 DEF MapHash

LEMMA CountFacts ==
    ASSUME NEW c, NEW m, GoodMap(m, c)
    PROVE  /\ Count(m) = c /\ DOMAIN m.buckets = 0..(c - 1)
           /\ IsFiniteSet(DOMAIN m.buckets)
<1>1. DOMAIN m.buckets = 0..(c - 1) /\ c \in Nat \ {0}
  BY DEF GoodMap
<1>2. IsFiniteSet(0..(c - 1)) /\ Cardinality(0..(c - 1)) = c
  <2>1. c - 1 \in Int /\ 0 \in Int /\ ~(0 > c - 1) /\ c - 1 - 0 + 1 = c
    BY <1>1
  <2> DEFINE top == c - 1
  <2>2. IsFiniteSet(0..top) /\ Cardinality(0..top) = IF 0 > top THEN 0 ELSE top - 0 + 1
    BY <2>1, FS_Interval, Zenon
  <2> QED BY <2>1, <2>2
<1> QED BY <1>1, <1>2 DEF Count

(* A node of a map is in the bucket of its hash; a key has one node.       *)
LEMMA HeldFacts ==
    ASSUME NEW c, NEW m, GoodMap(m, c)
    PROVE  /\ \A b \in 0..(c - 1) : \A i \in DOMAIN m.buckets[b].nodes :
                 m.buckets[b].nodes[i] \in Held(m)
           /\ \A x \in Held(m) :
                 /\ x \in Node /\ x.key \in Key /\ x.key \in Nat
                 /\ x.hash = MapHash(x.key, c)
                 /\ \E i \in DOMAIN m.buckets[MapHash(x.key, c)].nodes :
                       m.buckets[MapHash(x.key, c)].nodes[i] = x
           /\ \A x, y \in Held(m) : x.key = y.key => x = y
<1>1. \A b \in 0..(c - 1) : GoodList(m.buckets[b].nodes, b, c)
  BY DEF GoodMap, GoodBucket
<1>2. DOMAIN m.buckets = 0..(c - 1)
  BY CountFacts
<1>3. \A b \in 0..(c - 1) : \A i \in DOMAIN m.buckets[b].nodes :
         /\ m.buckets[b].nodes[i] \in Node /\ m.buckets[b].nodes[i].key \in Key
         /\ m.buckets[b].nodes[i].key \in Nat
         /\ m.buckets[b].nodes[i].hash = b /\ MapHash(m.buckets[b].nodes[i].key, c) = b
  <2> TAKE b \in 0..(c - 1)
  <2> DEFINE nodes == m.buckets[b].nodes
  <2>1. GoodList(nodes, b, c)
    BY <1>1
  <2> HIDE DEF nodes
  <2>2. \A i \in DOMAIN nodes :
         /\ nodes[i] \in Node /\ nodes[i].key \in Key /\ nodes[i].key \in Nat
         /\ nodes[i].hash = b /\ MapHash(nodes[i].key, c) = b
    BY <2>1, GoodListFacts
  <2> QED BY <2>2 DEF nodes
<1>4. \A x \in Held(m) : \E b \in 0..(c - 1) : \E i \in DOMAIN m.buckets[b].nodes :
         m.buckets[b].nodes[i] = x
  BY <1>2, Zenon DEF Held, ToSet
<1>5. \A b \in 0..(c - 1) : \A i \in DOMAIN m.buckets[b].nodes :
         m.buckets[b].nodes[i] \in Held(m)
  <2> TAKE b \in 0..(c - 1)
  <2> TAKE i \in DOMAIN m.buckets[b].nodes
  <2>1. m.buckets[b].nodes[i] \in ToSet(m.buckets[b].nodes)
    BY Zenon DEF ToSet
  <2>2. ToSet(m.buckets[b].nodes) \in {ToSet(m.buckets[a].nodes) : a \in DOMAIN m.buckets}
    BY <1>2
  <2> QED BY <2>1, <2>2, Zenon DEF Held
<1>6. ASSUME NEW x \in Held(m)
      PROVE  /\ x \in Node /\ x.key \in Key /\ x.key \in Nat
             /\ x.hash = MapHash(x.key, c)
             /\ MapHash(x.key, c) \in 0..(c - 1)
             /\ \E i \in DOMAIN m.buckets[MapHash(x.key, c)].nodes :
                   m.buckets[MapHash(x.key, c)].nodes[i] = x
  <2>1. PICK b \in 0..(c - 1) : \E i \in DOMAIN m.buckets[b].nodes : m.buckets[b].nodes[i] = x
    BY <1>4
  <2>2. PICK i \in DOMAIN m.buckets[b].nodes : m.buckets[b].nodes[i] = x
    BY <2>1
  <2>3. b = MapHash(x.key, c)
    BY <1>3, <2>2
  <2> QED BY <1>3, <2>2, <2>3, Zenon
<1>7. ASSUME NEW x \in Held(m), NEW y \in Held(m), x.key = y.key
      PROVE  x = y
  <2> DEFINE b == MapHash(x.key, c)
             nodes == m.buckets[b].nodes
  <2>1. b \in 0..(c - 1)
    BY <1>6
  <2>2. PICK i \in DOMAIN nodes : nodes[i] = x
    BY <1>6, Zenon
  <2>3. PICK j \in DOMAIN nodes : nodes[j] = y
    BY <1>6, <1>7, Zenon
  <2>4. GoodList(nodes, b, c)
    BY <1>1, <2>1
  <2> HIDE DEF nodes
  <2>5. DOMAIN nodes = 1..Len(nodes) /\ Len(nodes) \in Nat
        /\ \A l \in 1..Len(nodes) : nodes[l].key \in Nat
    BY <2>4, GoodListFacts
  <2>6. \A l, k \in DOMAIN nodes : l < k => nodes[l].key < nodes[k].key
    BY <2>4 DEF GoodList
  <2>7. ~(i < j) /\ ~(j < i)
    BY <1>7, <2>2, <2>3, <2>5, <2>6
  <2> QED BY <2>2, <2>3, <2>5, <2>7
<1> QED BY <1>5, <1>6, <1>7

(* __mapGet finds the node of a key that is held, and nothing otherwise.   *)
LEMMA FindFacts ==
    ASSUME NEW c, NEW m, GoodMap(m, c), NEW k \in Key
    PROVE  \/ Find(m, k) = 0 /\ \A x \in Held(m) : x.key # k
           \/ /\ Find(m, k) # 0
              /\ Find(m, k) \in DOMAIN m.buckets[MapHash(k, c)].nodes
              /\ m.buckets[MapHash(k, c)].nodes[Find(m, k)].key = k
              /\ m.buckets[MapHash(k, c)].nodes[Find(m, k)] \in Held(m)
<1> DEFINE h == MapHash(k, c)
           nodes == m.buckets[h].nodes
<1>1. c \in Nat \ {0} /\ h \in 0..(c - 1) /\ h \in Nat /\ k \in Nat
  BY MapHashRange, KeysOK DEF GoodMap
<1>2. GoodList(nodes, h, c)
  BY <1>1 DEF GoodMap, GoodBucket
<1>3. Find(m, k) = LLFindRight(nodes, [key |-> k, hash |-> h])
  BY CountFacts DEF Find
<1>4. \/ Find(m, k) = 0 /\ \A i \in DOMAIN nodes : nodes[i].key # k
      \/ Find(m, k) \in DOMAIN nodes /\ nodes[Find(m, k)].key = k
  <2> HIDE DEF nodes, h
  <2> QED BY <1>1, <1>2, <1>3, LLFindFacts
<1>5. CASE Find(m, k) = 0 /\ \A i \in DOMAIN nodes : nodes[i].key # k
  <2>1. ASSUME NEW x \in Held(m), x.key = k
        PROVE  FALSE
    <3>1. PICK i \in DOMAIN m.buckets[MapHash(x.key, c)].nodes :
             m.buckets[MapHash(x.key, c)].nodes[i] = x
      BY HeldFacts
    <3>2. i \in DOMAIN nodes /\ nodes[i] = x
      BY <2>1, <3>1
    <3> QED BY <1>5, <2>1, <3>2
  <2> QED BY <1>5, <2>1
<1>6. CASE Find(m, k) \in DOMAIN nodes /\ nodes[Find(m, k)].key = k
  <2>1. DOMAIN nodes = 1..Len(nodes)
    <3> HIDE DEF nodes, h
    <3> QED BY <1>2, GoodListFacts
  <2>2. nodes[Find(m, k)] \in Held(m)
    BY <1>1, <1>6, HeldFacts, Zenon
  <2>3. Find(m, k) # 0
    BY <1>6, <2>1
  <2> QED BY <1>6, <2>2, <2>3
<1> QED BY <1>4, <1>5, <1>6

LEMMA EmptyMapFacts ==
    ASSUME NEW c \in Nat \ {0}
    PROVE  GoodMap(EmptyMap(c), c) /\ Held(EmptyMap(c)) = {}
<1>1. EmptyBucket \in Bucket /\ EmptyBucket.nodes = <<>> /\ EmptyBucket.at = 0
  BY DEF EmptyBucket, Bucket
<1>2. \A b : GoodBucket(EmptyBucket, b, c)
  BY <1>1 DEF GoodBucket, GoodList, At
<1>3. GoodMap(EmptyMap(c), c)
  BY <1>1, <1>2 DEF GoodMap, EmptyMap
<1>4. Held(EmptyMap(c)) = {}
  BY <1>1 DEF Held, EmptyMap, ToSet
<1> QED BY <1>3, <1>4


(* A bucket takes a node that is hashed to it and whose key is new.        *)
LEMMA PutNodeFacts ==
    ASSUME NEW c, NEW m, GoodMap(m, c),
           NEW node \in Node, NEW b \in 0..(c - 1), node.hash = b, MapHash(node.key, c) = b,
           NEW from \in At(m.buckets[b].nodes),
           \A x \in Held(m) : x.key # node.key
    PROVE  /\ GoodMap(PutNode(m, b, from, node), c)
           /\ Held(PutNode(m, b, from, node)) = Held(m) \cup {node}
           /\ \A a \in 0..(c - 1) : a # b =>
                 PutNode(m, b, from, node).buckets[a] = m.buckets[a]
<1> DEFINE r == PutNode(m, b, from, node)
           new == LLInsert(m.buckets[b], from, node)
<1>1. /\ c \in Nat \ {0} /\ b \in Nat
      /\ m.buckets \in [0..(c - 1) -> Bucket] /\ m.sizes \in [0..(c - 1) -> Nat]
      /\ DOMAIN m.buckets = 0..(c - 1)
      /\ \A a \in 0..(c - 1) : /\ GoodBucket(m.buckets[a], a, c)
                               /\ m.sizes[a] = Len(m.buckets[a].nodes)
  BY DEF GoodMap
<1>2. \A i \in DOMAIN m.buckets[b].nodes : m.buckets[b].nodes[i].key # node.key
  BY HeldFacts, Zenon
<1>3. /\ GoodBucket(new, b, c)
      /\ Len(new.nodes) = Len(m.buckets[b].nodes) + 1
      /\ ToSet(new.nodes) = ToSet(m.buckets[b].nodes) \cup {node}
  <2> DEFINE bucket == m.buckets[b]
  <2>1. GoodBucket(bucket, b, c)
    BY <1>1
  <2>2. /\ from \in At(bucket.nodes)
        /\ \A i \in DOMAIN bucket.nodes : bucket.nodes[i].key # node.key
    BY <1>2, Zenon
  <2> HIDE DEF bucket
  <2>3. GoodBucket(LLInsert(bucket, from, node), b, c) /\ Grows(LLInsert(bucket, from, node), bucket, node)
    BY <1>1, <2>1, <2>2, LLInsertFacts
  <2> QED BY <2>3 DEF bucket, Grows
<1>4. r = [buckets |-> [m.buckets EXCEPT ![b] = new], sizes |-> [m.sizes EXCEPT ![b] = @ + 1]]
  BY DEF PutNode
<1> HIDE DEF new, r
<1>5. /\ DOMAIN r.buckets = 0..(c - 1) /\ r = [buckets |-> r.buckets, sizes |-> r.sizes]
      /\ r.buckets[b] = new /\ r.sizes[b] = Len(new.nodes)
      /\ \A a \in 0..(c - 1) : a # b => r.buckets[a] = m.buckets[a] /\ r.sizes[a] = m.sizes[a]
      /\ r.sizes \in [0..(c - 1) -> Nat]
  BY <1>1, <1>3, <1>4
<1>6. r.buckets \in [0..(c - 1) -> Bucket]
  BY <1>1, <1>3, <1>4 DEF GoodBucket
<1>7. GoodMap(r, c)
  <2>1. \A a \in 0..(c - 1) : /\ GoodBucket(r.buckets[a], a, c)
                              /\ r.sizes[a] = Len(r.buckets[a].nodes)
    BY <1>1, <1>3, <1>5
  <2> QED BY <1>1, <1>5, <1>6, <2>1 DEF GoodMap
<1>8. Held(r) = Held(m) \cup {node}
  <2>1. \A x : x \in Held(r) <=> \E a \in 0..(c - 1) : x \in ToSet(r.buckets[a].nodes)
    BY <1>5, Zenon DEF Held
  <2>2. \A x : x \in Held(m) <=> \E a \in 0..(c - 1) : x \in ToSet(m.buckets[a].nodes)
    BY <1>1, Zenon DEF Held
  <2>3. ASSUME NEW x \in Held(r)
        PROVE  x \in Held(m) \cup {node}
    <3>1. PICK a \in 0..(c - 1) : x \in ToSet(r.buckets[a].nodes)
      BY <2>1
    <3> QED BY <1>3, <1>5, <2>2, <3>1
  <2>4. ASSUME NEW x \in Held(m)
        PROVE  x \in Held(r)
    <3>1. PICK a \in 0..(c - 1) : x \in ToSet(m.buckets[a].nodes)
      BY <2>2
    <3> QED BY <1>3, <1>5, <2>1, <3>1
  <2>5. node \in Held(r)
    BY <1>3, <1>5, <2>1
  <2> QED BY <2>3, <2>4, <2>5
<1> QED BY <1>5, <1>7, <1>8 DEF r

(***************************************************************************)
(* Recursion                                                               *)
(***************************************************************************)

(* Nodes(m) is where a run that appends one bucket after the other ends.   *)
LEMMA NodesRun ==
    ASSUME NEW m, Count(m) \in Nat
    PROVE  \E f : /\ f[0] = <<>>
                  /\ \A n \in 1..Count(m) : f[n] = f[n - 1] \o m.buckets[n - 1].nodes
                  /\ Nodes(m) = f[Count(m)]
<1> DEFINE Runs(f, n) ==
             f = [i \in 0..n |-> IF i = 0 THEN <<>> ELSE f[i - 1] \o m.buckets[i - 1].nodes]
           S == {n \in Nat : \E f : Runs(f, n)}
           N == Count(m)
           upTo[n \in 0..N] == IF n = 0 THEN <<>> ELSE upTo[n - 1] \o m.buckets[n - 1].nodes
<1>1. 0 \in S
  <2> DEFINE g == [i \in 0..0 |-> <<>>]
  <2>1. Runs(g, 0)
    OBVIOUS
  <2> QED BY <2>1, Zenon
<1>2. ASSUME NEW n \in Nat, n \in S
      PROVE  n + 1 \in S
  <2>1. PICK f : Runs(f, n)
    BY <1>2
  <2> DEFINE e == f[n] \o m.buckets[n].nodes
             g == [i \in 0..(n + 1) |-> IF i = n + 1 THEN e ELSE f[i]]
  <2>2. /\ g = [i \in 0..(n + 1) |-> g[i]]
        /\ \A i \in 0..n : g[i] = f[i]
        /\ g[n + 1] = f[n] \o m.buckets[n].nodes
    <3>1. n + 1 \in 0..(n + 1) /\ \A i \in 0..n : i \in 0..(n + 1) /\ i # n + 1
      OBVIOUS
    <3> HIDE DEF e
    <3>2. g = [i \in 0..(n + 1) |-> g[i]] /\ (\A i \in 0..n : g[i] = f[i]) /\ g[n + 1] = e
      BY <3>1
    <3> QED BY <3>2 DEF e
  <2>3. \A i \in 0..n : i # 0 => f[i] = f[i - 1] \o m.buckets[i - 1].nodes /\ i - 1 \in 0..n
    <3> TAKE i \in 0..n
    <3>1. i # 0 => i - 1 \in 0..n
      OBVIOUS
    <3>2. i # 0 => f[i] = f[i - 1] \o m.buckets[i - 1].nodes
      BY <2>1, Zenon
    <3> QED BY <3>1, <3>2
  <2>4. f[0] = <<>>
    BY <2>1
  <2> HIDE DEF g
  <2>5. \A i \in 0..(n + 1) :
           g[i] = IF i = 0 THEN <<>> ELSE g[i - 1] \o m.buckets[i - 1].nodes
    <3> TAKE i \in 0..(n + 1)
    <3>1. CASE i = n + 1
      <4>1. i - 1 = n /\ i # 0 /\ n \in 0..n
        BY <3>1
      <4> QED BY <2>2, <3>1, <4>1
    <3>2. CASE i # n + 1
      <4>1. i \in 0..n
        BY <3>2
      <4> QED BY <2>2, <2>3, <2>4, <4>1
    <3> QED BY <3>1, <3>2
  <2>6. Runs(g, n + 1)
    BY <2>2, <2>5, Zenon
  <2>7. n + 1 \in Nat
    OBVIOUS
  <2> HIDE DEF Runs
  <2> QED BY <2>6, <2>7, Zenon
<1>3. \E f : Runs(f, N)
  <2> HIDE DEF Runs
  <2>1. Nat \subseteq S
    <3> HIDE DEF S
    <3> QED BY <1>1, <1>2, AllNumbers
  <2> QED BY <2>1
<1>4. upTo = [n \in 0..N |-> IF n = 0 THEN <<>> ELSE upTo[n - 1] \o m.buckets[n - 1].nodes]
  BY <1>3, Zenon
<1>5. Nodes(m) = upTo[N]
  BY Zenon DEF Nodes
<1> HIDE DEF upTo
<1>6. upTo[0] = <<>>
  BY <1>4
<1>7. \A n \in 1..N : upTo[n] = upTo[n - 1] \o m.buckets[n - 1].nodes
  <2> TAKE n \in 1..N
  <2>1. n \in 0..N /\ n # 0
    OBVIOUS
  <2> QED BY <1>4, <2>1, Zenon
<1> QED BY <1>5, <1>6, <1>7


(* Rehash(m, d) is where a run that moves one node after the other ends.   *)
LEMMA RehashRun ==
    ASSUME NEW m, NEW d, Len(Nodes(m)) \in Nat
    PROVE  \E f : /\ f[0] = EmptyMap(d)
                  /\ \A n \in 1..Len(Nodes(m)) : f[n] = Moved(f[n - 1], Nodes(m)[n], d)
                  /\ Rehash(m, d) = f[Len(Nodes(m))]
<1> DEFINE nodes == Nodes(m)
           Runs(f, n) ==
             f = [i \in 0..n |-> IF i = 0 THEN EmptyMap(d) ELSE Moved(f[i - 1], nodes[i], d)]
           S == {n \in Nat : \E f : Runs(f, n)}
           N == Len(nodes)
           moved[i \in 0..N] == IF i = 0 THEN EmptyMap(d) ELSE Moved(moved[i - 1], nodes[i], d)
<1>1. 0 \in S
  <2> DEFINE g == [i \in 0..0 |-> EmptyMap(d)]
  <2>1. Runs(g, 0)
    OBVIOUS
  <2> QED BY <2>1, Zenon
<1>2. ASSUME NEW n \in Nat, n \in S
      PROVE  n + 1 \in S
  <2>1. PICK f : Runs(f, n)
    BY <1>2
  <2> DEFINE g == [i \in 0..(n + 1) |-> IF i = n + 1 THEN Moved(f[n], nodes[n + 1], d) ELSE f[i]]
  <2>2. /\ g = [i \in 0..(n + 1) |-> g[i]]
        /\ \A i \in 0..n : g[i] = f[i]
        /\ g[n + 1] = Moved(f[n], nodes[n + 1], d)
    OBVIOUS
  <2>3. \A i \in 0..n : i # 0 => f[i] = Moved(f[i - 1], nodes[i], d) /\ i - 1 \in 0..n
    BY <2>1
  <2>4. f[0] = EmptyMap(d)
    BY <2>1
  <2> HIDE DEF g
  <2>5. \A i \in 0..(n + 1) : g[i] = IF i = 0 THEN EmptyMap(d) ELSE Moved(g[i - 1], nodes[i], d)
    <3> TAKE i \in 0..(n + 1)
    <3>1. CASE i = n + 1
      <4>1. i - 1 = n /\ i # 0 /\ n \in 0..n
        BY <3>1
      <4> QED BY <2>2, <3>1, <4>1
    <3>2. CASE i # n + 1
      <4>1. i \in 0..n
        BY <3>2
      <4> QED BY <2>2, <2>3, <2>4, <4>1
    <3> QED BY <3>1, <3>2
  <2>6. Runs(g, n + 1)
    BY <2>2, <2>5, Zenon
  <2>7. n + 1 \in Nat
    OBVIOUS
  <2> HIDE DEF Runs
  <2> QED BY <2>6, <2>7, Zenon
<1>3. \E f : Runs(f, N)
  <2> HIDE DEF Runs
  <2>1. Nat \subseteq S
    <3> HIDE DEF S
    <3> QED BY <1>1, <1>2, AllNumbers
  <2> QED BY <2>1
<1>4. moved = [i \in 0..N |-> IF i = 0 THEN EmptyMap(d) ELSE Moved(moved[i - 1], nodes[i], d)]
  BY <1>3, Zenon
<1>5. Rehash(m, d) = moved[N]
  BY Zenon DEF Rehash
<1> HIDE DEF moved
<1>6. /\ moved[0] = EmptyMap(d)
      /\ \A n \in 1..N : moved[n] = Moved(moved[n - 1], nodes[n], d)
  BY <1>4
<1> QED BY <1>5, <1>6

(* Cloned(m) is where a run that inserts one item after the other ends.    *)
LEMMA CloneRun ==
    ASSUME NEW m, Len(Nodes(m)) \in Nat
    PROVE  \E f : /\ f[0] = EmptyMap(8)
                  /\ \A n \in 1..Len(Nodes(m)) :
                        f[n] = Inserted(f[n - 1], Nodes(m)[n].key, Nodes(m)[n].value)
                  /\ Cloned(m) = f[Len(Nodes(m))]
<1> DEFINE nodes == Nodes(m)
           Runs(f, n) ==
             f = [i \in 0..n |-> IF i = 0 THEN EmptyMap(8)
                                 ELSE Inserted(f[i - 1], nodes[i].key, nodes[i].value)]
           S == {n \in Nat : \E f : Runs(f, n)}
           N == Len(nodes)
           copy[i \in 0..N] ==
             IF i = 0 THEN EmptyMap(8) ELSE Inserted(copy[i - 1], nodes[i].key, nodes[i].value)
<1>1. 0 \in S
  <2> DEFINE g == [i \in 0..0 |-> EmptyMap(8)]
  <2>1. Runs(g, 0)
    OBVIOUS
  <2> QED BY <2>1, Zenon
<1>2. ASSUME NEW n \in Nat, n \in S
      PROVE  n + 1 \in S
  <2>1. PICK f : Runs(f, n)
    BY <1>2
  <2> DEFINE next == Inserted(f[n], nodes[n + 1].key, nodes[n + 1].value)
             g == [i \in 0..(n + 1) |-> IF i = n + 1 THEN next ELSE f[i]]
  <2>2. /\ g = [i \in 0..(n + 1) |-> g[i]]
        /\ \A i \in 0..n : g[i] = f[i]
        /\ g[n + 1] = next
    OBVIOUS
  <2>3. \A i \in 0..n : i # 0 =>
           f[i] = Inserted(f[i - 1], nodes[i].key, nodes[i].value) /\ i - 1 \in 0..n
    BY <2>1
  <2>4. f[0] = EmptyMap(8)
    BY <2>1
  <2> HIDE DEF g
  <2>5. \A i \in 0..(n + 1) :
           g[i] = IF i = 0 THEN EmptyMap(8)
                  ELSE Inserted(g[i - 1], nodes[i].key, nodes[i].value)
    <3> TAKE i \in 0..(n + 1)
    <3>1. CASE i = n + 1
      <4>1. i - 1 = n /\ i # 0 /\ n \in 0..n
        BY <3>1
      <4> QED BY <2>2, <3>1, <4>1
    <3>2. CASE i # n + 1
      <4>1. i \in 0..n
        BY <3>2
      <4> QED BY <2>2, <2>3, <2>4, <4>1
    <3> QED BY <3>1, <3>2
  <2>6. Runs(g, n + 1)
    BY <2>2, <2>5, Zenon
  <2>7. n + 1 \in Nat
    OBVIOUS
  <2> HIDE DEF Runs
  <2> QED BY <2>6, <2>7, Zenon
<1>3. \E f : Runs(f, N)
  <2> HIDE DEF Runs
  <2>1. Nat \subseteq S
    <3> HIDE DEF S
    <3> QED BY <1>1, <1>2, AllNumbers
  <2> QED BY <2>1
<1>4. copy = [i \in 0..N |-> IF i = 0 THEN EmptyMap(8)
                             ELSE Inserted(copy[i - 1], nodes[i].key, nodes[i].value)]
  BY <1>3, Zenon
<1>5. Cloned(m) = copy[N]
  BY Zenon DEF Cloned
<1> HIDE DEF copy
<1>6. /\ copy[0] = EmptyMap(8)
      /\ \A n \in 1..N : copy[n] = Inserted(copy[n - 1], nodes[n].key, nodes[n].value)
  BY <1>4
<1> QED BY <1>5, <1>6

(***************************************************************************)
(* The nodes of a map, and the map that takes them over                    *)
(***************************************************************************)

Distinct(s) == \A i, j \in DOMAIN s : i # j => s[i].key # s[j].key

(* Two lists of nodes one after the other.                                 *)
LEMMA ConcatFacts ==
    ASSUME NEW s \in Seq(Node), NEW t \in Seq(Node), Distinct(s), Distinct(t),
           \A x \in ToSet(s) : \A y \in ToSet(t) : x.key # y.key
    PROVE  /\ s \o t \in Seq(Node) /\ Distinct(s \o t)
           /\ ToSet(s \o t) = ToSet(s) \cup ToSet(t)
<1> DEFINE both == s \o t
<1>1. /\ DOMAIN s = 1..Len(s) /\ DOMAIN t = 1..Len(t)
      /\ Len(s) \in Nat /\ Len(t) \in Nat
      /\ both \in Seq(Node) /\ DOMAIN both = 1..(Len(s) + Len(t))
      /\ \A i \in 1..Len(s) : both[i] = s[i]
      /\ \A i \in (Len(s) + 1)..(Len(s) + Len(t)) : both[i] = t[i - Len(s)]
  OBVIOUS
<1> HIDE DEF both
<1>2. \A i \in DOMAIN both : \/ i \in DOMAIN s /\ both[i] = s[i]
                             \/ i - Len(s) \in DOMAIN t /\ both[i] = t[i - Len(s)]
  BY <1>1
<1>3. \A i \in DOMAIN s : i \in DOMAIN both /\ both[i] = s[i]
  BY <1>1
<1>4. \A i \in DOMAIN t : i + Len(s) \in DOMAIN both /\ both[i + Len(s)] = t[i]
  BY <1>1
<1>5. \A i \in DOMAIN s : s[i] \in ToSet(s)
  BY Zenon DEF ToSet
<1>6. \A i \in DOMAIN t : t[i] \in ToSet(t)
  BY Zenon DEF ToSet
<1>7. Distinct(both)
  <2> SUFFICES ASSUME NEW i \in DOMAIN both, NEW j \in DOMAIN both, i # j
               PROVE  both[i].key # both[j].key
    BY DEF Distinct
  <2>1. CASE i \in DOMAIN s /\ both[i] = s[i] /\ j \in DOMAIN s /\ both[j] = s[j]
    BY <2>1 DEF Distinct
  <2>2. CASE /\ i - Len(s) \in DOMAIN t /\ both[i] = t[i - Len(s)]
             /\ j - Len(s) \in DOMAIN t /\ both[j] = t[j - Len(s)]
    <3>1. i - Len(s) # j - Len(s)
      BY <1>1
    <3>2. \A p, q \in DOMAIN t : p # q => t[p].key # t[q].key
      BY DEF Distinct
    <3> QED BY <2>2, <3>1, <3>2
  <2> QED BY <1>2, <1>5, <1>6, <2>1, <2>2
<1>8. ToSet(both) = ToSet(s) \cup ToSet(t)
  <2>1. ToSet(both) \subseteq ToSet(s) \cup ToSet(t)
    <3>1. \A i \in DOMAIN both : both[i] \in ToSet(s) \cup ToSet(t)
      BY <1>2, <1>5, <1>6
    <3> QED BY <3>1, Zenon DEF ToSet
  <2>2. ToSet(s) \subseteq ToSet(both)
    BY <1>3, Zenon DEF ToSet
  <2>3. ToSet(t) \subseteq ToSet(both)
    BY <1>4, Zenon DEF ToSet
  <2> QED BY <2>1, <2>2, <2>3
<1> QED BY <1>1, <1>7, <1>8 DEF both


(* The nodes counted are those held, each key once.                        *)
LEMMA NodesFacts ==
    ASSUME NEW c, NEW m, GoodMap(m, c)
    PROVE  /\ Nodes(m) \in Seq(Node) /\ Len(Nodes(m)) \in Nat
           /\ DOMAIN Nodes(m) = 1..Len(Nodes(m))
           /\ Distinct(Nodes(m))
           /\ ToSet(Nodes(m)) = Held(m)
<1> DEFINE List(b) == m.buckets[b].nodes
           P(s, n) == /\ s \in Seq(Node) /\ Distinct(s)
                      /\ \A x : x \in ToSet(s) <=> \E b \in 0..(n - 1) : x \in ToSet(List(b))
<1>1. /\ Count(m) = c /\ c \in Nat \ {0} /\ DOMAIN m.buckets = 0..(c - 1)
      /\ \A b \in 0..(c - 1) : GoodList(List(b), b, c)
  BY CountFacts DEF GoodMap, GoodBucket
<1>2. PICK f : /\ f[0] = <<>>
               /\ \A n \in 1..c : f[n] = f[n - 1] \o List(n - 1)
               /\ Nodes(m) = f[c]
  BY <1>1, NodesRun, Zenon
<1>3. \A b \in 0..(c - 1) : /\ List(b) \in Seq(Node) /\ Distinct(List(b))
                            /\ \A x \in ToSet(List(b)) : MapHash(x.key, c) = b
  <2> TAKE b \in 0..(c - 1)
  <2> DEFINE l == List(b)
  <2>1. GoodList(l, b, c)
    BY <1>1
  <2> HIDE DEF l
  <2>2. /\ l \in Seq(Node) /\ DOMAIN l = 1..Len(l) /\ Len(l) \in Nat
        /\ \A i \in 1..Len(l) : l[i].key \in Nat /\ MapHash(l[i].key, c) = b
    BY <2>1, GoodListFacts
  <2>3. Distinct(l)
    <3> SUFFICES ASSUME NEW i \in 1..Len(l), NEW j \in 1..Len(l), i # j
                 PROVE  l[i].key # l[j].key
      BY <2>2 DEF Distinct
    <3>1. \A p, q \in 1..Len(l) : p < q => l[p].key < l[q].key
      BY <2>1, <2>2 DEF GoodList
    <3>2. i < j \/ j < i
      BY <2>2
    <3> QED BY <2>2, <3>1, <3>2
  <2>4. \A x \in ToSet(l) : MapHash(x.key, c) = b
    BY <2>2, Zenon DEF ToSet
  <2> QED BY <2>2, <2>3, <2>4 DEF l
<1> DEFINE S == {n \in 0..c : P(f[n], n)}
<1>4. 0 \in S
  <2>1. f[0] \in Seq(Node) /\ Distinct(f[0]) /\ ToSet(f[0]) = {}
    BY <1>2 DEF Distinct, ToSet
  <2>2. 0 \in 0..c /\ 0..(0 - 1) = {}
    BY <1>1
  <2>3. P(f[0], 0)
    BY <2>1, <2>2
  <2> HIDE DEF P
  <2> QED BY <2>2, <2>3
<1>5. ASSUME NEW n \in 0..(c - 1), n \in S
      PROVE  n + 1 \in S
  <2> DEFINE s == f[n]
             l == List(n)
  <2>1. n + 1 \in 1..c /\ n + 1 \in 0..c /\ n + 1 - 1 = n
    BY <1>1
  <2>2. f[n + 1] = s \o l
    <3> DEFINE k == n + 1
    <3>1. k \in 1..c /\ k - 1 = n
      BY <2>1
    <3> HIDE DEF k
    <3>2. f[k] = f[k - 1] \o List(k - 1)
      BY <1>2, <3>1
    <3> QED BY <3>1, <3>2, Zenon DEF k
  <2>3. P(s, n)
    BY <1>5
  <2>4. /\ l \in Seq(Node) /\ Distinct(l)
        /\ \A x \in ToSet(l) : MapHash(x.key, c) = n
    BY <1>3
  <2>5. \A x \in ToSet(s) : \A y \in ToSet(l) : x.key # y.key
    <3> SUFFICES ASSUME NEW x \in ToSet(s), NEW y \in ToSet(l), x.key = y.key
                 PROVE  FALSE
      OBVIOUS
    <3>1. PICK b \in 0..(n - 1) : x \in ToSet(List(b))
      BY <2>3
    <3>2. b \in 0..(c - 1) /\ b # n
      BY <1>1
    <3>3. MapHash(x.key, c) = b
      BY <1>3, <3>1, <3>2
    <3> QED BY <2>4, <3>2, <3>3
  <2>6. /\ s \o l \in Seq(Node) /\ Distinct(s \o l)
        /\ ToSet(s \o l) = ToSet(s) \cup ToSet(l)
    <3> HIDE DEF s, l
    <3>1. s \in Seq(Node) /\ Distinct(s)
      BY <2>3
    <3> QED BY <2>4, <2>5, <3>1, ConcatFacts
  <2>7. \A x : x \in ToSet(s \o l) <=> \E b \in 0..n : x \in ToSet(List(b))
    <3>1. \A x : x \in ToSet(s) <=> \E b \in 0..(n - 1) : x \in ToSet(List(b))
      BY <2>3
    <3>2. 0..n = (0..(n - 1)) \cup {n}
      BY <1>1
    <3> HIDE DEF s, List
    <3> QED BY <2>6, <3>1, <3>2, Zenon DEF List
  <2>8. P(f[n + 1], n + 1)
    BY <2>1, <2>2, <2>6, <2>7
  <2> HIDE DEF P
  <2> QED BY <2>1, <2>8
<1>6. P(f[c], c)
  <2> HIDE DEF P
  <2>1. 0..c \subseteq S
    <3> HIDE DEF S
    <3> QED BY <1>1, <1>4, <1>5, AllUpTo
  <2> QED BY <1>1, <2>1
<1>7. ToSet(Nodes(m)) = Held(m)
  <2>1. \A x : x \in Held(m) <=> \E b \in 0..(c - 1) : x \in ToSet(List(b))
    BY <1>1, Zenon DEF Held
  <2> QED BY <1>2, <1>6, <2>1
<1> QED BY <1>2, <1>6, <1>7


LEMMA ItemsOfMore ==
    ASSUME NEW m, NEW r, NEW x, Held(r) = Held(m) \cup {x}
    PROVE  Items(r) = Items(m) \cup {<<x.key, x.value>>}
BY Zenon DEF Items

(* A node moves to the bucket its key has in a map of another size.        *)
LEMMA MovedFacts ==
    ASSUME NEW d, NEW m, GoodMap(m, d), NEW node \in Node,
           \A x \in Held(m) : x.key # node.key
    PROVE  /\ GoodMap(Moved(m, node, d), d)
           /\ \E x : x.key = node.key /\ x.value = node.value
                     /\ Held(Moved(m, node, d)) = Held(m) \cup {x}
<1> DEFINE new == Rehashed(node, d)
           b == new.hash % d
<1>1. d \in Nat \ {0} /\ node.key \in Key
  BY DEF GoodMap, Node
<1>2. MapHash(node.key, d) \in 0..(d - 1) /\ MapHash(node.key, d) \in Nat
  BY <1>1, MapHashRange
<1>3. /\ new \in Node /\ new.key = node.key /\ new.value = node.value
      /\ new.hash = MapHash(node.key, d)
  BY <1>2 DEF Rehashed, Node
<1> HIDE DEF new
<1>4. b = MapHash(node.key, d)
  BY <1>1, <1>2, <1>3
<1>5. Moved(m, node, d) = PutNode(m, b, m.buckets[b].at, new)
  BY DEF Moved, new
<1> HIDE DEF b
<1>6. b \in 0..(d - 1) /\ new.hash = b /\ MapHash(new.key, d) = b
  BY <1>2, <1>3, <1>4
<1>7. m.buckets[b].at \in At(m.buckets[b].nodes)
  BY <1>6 DEF GoodMap, GoodBucket
<1>8. \A x \in Held(m) : x.key # new.key
  BY <1>3
<1>9. /\ GoodMap(Moved(m, node, d), d)
      /\ Held(Moved(m, node, d)) = Held(m) \cup {new}
  BY <1>3, <1>5, <1>6, <1>7, <1>8, PutNodeFacts
<1> QED BY <1>3, <1>9, Zenon

(* __mapRehash: the map of another size is good, and holds the same items. *)
LEMMA RehashFacts ==
    ASSUME NEW c, NEW m, GoodMap(m, c), NEW d \in Nat \ {0}
    PROVE  GoodMap(Rehash(m, d), d) /\ Items(Rehash(m, d)) = Items(m)
<1> DEFINE nodes == Nodes(m)
           N == Len(nodes)
           Item(i) == <<nodes[i].key, nodes[i].value>>
           P(r, n) == GoodMap(r, d) /\ Items(r) = {Item(i) : i \in 1..n}
<1>1. /\ N \in Nat /\ DOMAIN nodes = 1..N /\ ToSet(nodes) = Held(m)
      /\ \A i \in 1..N : nodes[i] \in Node
      /\ \A i, j \in 1..N : i # j => nodes[i].key # nodes[j].key
  <2>1. /\ nodes \in Seq(Node) /\ N \in Nat /\ DOMAIN nodes = 1..N
        /\ Distinct(nodes) /\ ToSet(nodes) = Held(m)
    BY NodesFacts
  <2> HIDE DEF nodes
  <2>2. \A i \in 1..N : nodes[i] \in Node
    BY <2>1
  <2> QED BY <2>1, <2>2, Zenon DEF Distinct
<1>2. PICK f : /\ f[0] = EmptyMap(d)
               /\ \A n \in 1..N : f[n] = Moved(f[n - 1], nodes[n], d)
               /\ Rehash(m, d) = f[N]
  BY <1>1, RehashRun, Zenon
<1> HIDE DEF nodes
<1> DEFINE S == {n \in 0..N : P(f[n], n)}
<1>3. 0 \in S
  <2>1. GoodMap(f[0], d) /\ Held(f[0]) = {}
    BY <1>2, EmptyMapFacts
  <2>2. Items(f[0]) = {}
    BY <2>1 DEF Items
  <2>3. 0 \in 0..N /\ 1..0 = {}
    BY <1>1
  <2> QED BY <2>1, <2>2, <2>3
<1>4. ASSUME NEW n \in 0..(N - 1), n \in S
      PROVE  n + 1 \in S
  <2> DEFINE k == n + 1
  <2>1. k \in 1..N /\ k \in 0..N /\ k - 1 = n /\ n \in Nat /\ 1..k = (1..n) \cup {k}
        /\ \A i \in 1..n : i \in 1..N /\ i # k
    BY <1>1
  <2> HIDE DEF k
  <2>2. f[k] = Moved(f[n], nodes[k], d)
    BY <1>2, <2>1
  <2>3. GoodMap(f[n], d) /\ Items(f[n]) = {Item(i) : i \in 1..n}
    BY <1>4
  <2>4. \A x \in Held(f[n]) : x.key # nodes[k].key
    <3> SUFFICES ASSUME NEW x \in Held(f[n])
                 PROVE  x.key # nodes[k].key
      OBVIOUS
    <3>1. <<x.key, x.value>> \in Items(f[n])
      BY Zenon DEF Items
    <3>2. PICK i \in 1..n : <<x.key, x.value>> = Item(i)
      BY <2>3, <3>1, Zenon
    <3>3. x.key = nodes[i].key
      BY <3>2
    <3> QED BY <1>1, <2>1, <3>3
  <2>5. nodes[k] \in Node
    BY <1>1, <2>1
  <2>6. /\ GoodMap(f[k], d)
        /\ \E x : x.key = nodes[k].key /\ x.value = nodes[k].value
                  /\ Held(f[k]) = Held(f[n]) \cup {x}
    <3> DEFINE old == f[n]
               node == nodes[k]
    <3>1. GoodMap(old, d) /\ node \in Node /\ \A x \in Held(old) : x.key # node.key
      BY <2>3, <2>4, <2>5
    <3> HIDE DEF old, node
    <3>2. /\ GoodMap(Moved(old, node, d), d)
          /\ \E x : x.key = node.key /\ x.value = node.value
                    /\ Held(Moved(old, node, d)) = Held(old) \cup {x}
      BY <3>1, MovedFacts
    <3> QED BY <2>2, <3>2, Zenon DEF old, node
  <2>7. PICK x : x.key = nodes[k].key /\ x.value = nodes[k].value
                 /\ Held(f[k]) = Held(f[n]) \cup {x}
    BY <2>6
  <2>8. Items(f[k]) = Items(f[n]) \cup {Item(k)}
    <3>1. Items(f[k]) = Items(f[n]) \cup {<<x.key, x.value>>}
      BY <2>7, ItemsOfMore
    <3> QED BY <2>7, <3>1
  <2>9. {Item(i) : i \in 1..k} = {Item(i) : i \in 1..n} \cup {Item(k)}
    <3> HIDE DEF Item
    <3>1. \A i : i \in 1..k <=> i \in 1..n \/ i = k
      BY <2>1, Zenon
    <3> QED BY <3>1, Zenon
  <2>10. GoodMap(f[k], d) /\ Items(f[k]) = {Item(i) : i \in 1..k}
    BY <2>3, <2>6, <2>8, <2>9, Zenon
  <2> QED BY <2>1, <2>10 DEF k
<1>5. P(f[N], N)
  <2> HIDE DEF P
  <2>1. 0..N \subseteq S
    <3> HIDE DEF S
    <3> QED BY <1>1, <1>3, <1>4, AllUpTo
  <2> QED BY <1>1, <2>1
<1>6. {Item(i) : i \in 1..N} = Items(m)
  <2>1. \A i \in 1..N : nodes[i] \in Held(m)
    BY <1>1, Zenon DEF ToSet
  <2>2. \A x \in Held(m) : \E i \in 1..N : nodes[i] = x
    BY <1>1, Zenon DEF ToSet
  <2> QED BY <2>1, <2>2, Zenon DEF Items
<1> QED BY <1>2, <1>5, <1>6


(***************************************************************************)
(* How full a map is                                                       *)
(***************************************************************************)

(* The numbers of buckets a map may have: 8 and four times any of them.    *)
Sizes == {n \in Nat : \A S \in SUBSET Nat : 8 \in S /\ (\A x \in S : 4 * x \in S) => n \in S}

LEMMA SizesFacts ==
    /\ 8 \in Sizes
    /\ \A n \in Sizes : /\ n \in Nat /\ n >= 8 /\ 4 * n \in Sizes
                        /\ n = 8 \/ \E k \in Sizes : n = 4 * k
<1>1. 8 \in Sizes
  BY DEF Sizes
<1>2. ASSUME NEW n \in Sizes
      PROVE  4 * n \in Sizes
  <2>1. n \in Nat /\ 4 * n \in Nat
    BY DEF Sizes
  <2> SUFFICES ASSUME NEW S \in SUBSET Nat, 8 \in S, \A x \in S : 4 * x \in S
               PROVE  4 * n \in S
    BY <2>1 DEF Sizes
  <2>2. n \in S
    BY DEF Sizes
  <2> QED BY <2>2
<1>3. ASSUME NEW n \in Sizes
      PROVE  n >= 8
  <2> DEFINE S == {x \in Nat : x >= 8}
  <2>1. S \in SUBSET Nat /\ 8 \in S /\ \A x \in S : 4 * x \in S
    OBVIOUS
  <2>2. n \in S
    <3> HIDE DEF S
    <3> QED BY <2>1 DEF Sizes
  <2> QED BY <2>2
<1>4. ASSUME NEW n \in Sizes
      PROVE  n = 8 \/ \E k \in Sizes : n = 4 * k
  <2> DEFINE S == {8} \cup {x \in Nat : \E k \in Sizes : x = 4 * k}
  <2>1. S \in SUBSET Nat /\ 8 \in S
    OBVIOUS
  <2>2. \A x \in S : x \in Sizes /\ 4 * x \in Nat
    BY <1>1, <1>2 DEF Sizes
  <2>3. \A x \in S : 4 * x \in S
    BY <2>2
  <2>4. n \in S
    <3> HIDE DEF S
    <3> QED BY <2>1, <2>3 DEF Sizes
  <2> QED BY <2>4
<1> QED BY <1>1, <1>2, <1>3, <1>4 DEF Sizes

Full(m) == {b \in DOMAIN m.buckets : m.buckets[b].nodes # <<>>}
Empty(m) == DOMAIN m.buckets \ Full(m)
TwoEmpty(m) == \E a, b \in Empty(m) : a # b

(* What is counted as filled and unfilled.                                 *)
LEMMA FilledFacts ==
    ASSUME NEW c, NEW m, GoodMap(m, c)
    PROVE  /\ c \in Nat \ {0}
           /\ IsFiniteSet(Full(m)) /\ Filled(m) = Cardinality(Full(m))
           /\ Filled(m) \in Nat /\ Unfilled(m) = c - Filled(m) /\ Unfilled(m) \in Nat
           /\ Unfilled(m) = 0 => Empty(m) = {}
           /\ Unfilled(m) >= 2 => TwoEmpty(m)
<1> DEFINE D == DOMAIN m.buckets
<1>1. IsFiniteSet(D) /\ Count(m) = c /\ c \in Nat \ {0} /\ Cardinality(D) = c
  BY CountFacts DEF Count, GoodMap
<1>2. Filled(m) = Cardinality(Full(m)) /\ Full(m) \subseteq D
  BY DEF Filled, Full
<1>3. IsFiniteSet(Full(m)) /\ Filled(m) \in Nat /\ Filled(m) <= c
  BY <1>1, <1>2, FS_Subset, FS_CardinalityType
<1>4. IsFiniteSet(Empty(m)) /\ Cardinality(Empty(m)) = c - Filled(m)
  <2>1. D \cap Full(m) = Full(m)
    BY <1>2
  <2>2. /\ IsFiniteSet(D \ Full(m))
        /\ Cardinality(D \ Full(m)) = Cardinality(D) - Cardinality(D \cap Full(m))
    BY <1>1, FS_Difference
  <2> QED BY <1>1, <1>2, <2>1, <2>2 DEF Empty
<1>5. Unfilled(m) = c - Filled(m)
  BY <1>1 DEF Unfilled
<1>6. Unfilled(m) = 0 => Empty(m) = {}
  BY <1>4, <1>5, FS_EmptySet
<1>7. Unfilled(m) >= 2 => TwoEmpty(m)
  <2> SUFFICES ASSUME Unfilled(m) >= 2, ~TwoEmpty(m)
               PROVE  FALSE
    OBVIOUS
  <2>1. Empty(m) # {}
    BY <1>1, <1>3, <1>4, <1>5, FS_EmptySet
  <2>2. PICK b : b \in Empty(m)
    BY <2>1
  <2>3. Empty(m) = {b}
    BY <2>2 DEF TwoEmpty
  <2>4. Cardinality(Empty(m)) = 1
    BY <2>3, FS_Singleton
  <2> QED BY <1>1, <1>3, <1>4, <1>5, <2>4
<1> QED BY <1>1, <1>2, <1>3, <1>5, <1>6, <1>7

(* A bucket is filled exactly when a key that is held is hashed to it.     *)
LEMMA FullFacts ==
    ASSUME NEW c, NEW m, GoodMap(m, c)
    PROVE  /\ Full(m) = {MapHash(p[1], c) : p \in Items(m)}
           /\ \A p \in Items(m) : p[1] \in Key
           /\ Full(m) \subseteq 0..(c - 1) /\ Empty(m) = 0..(c - 1) \ Full(m)
<1>1. DOMAIN m.buckets = 0..(c - 1) /\ c \in Nat \ {0}
  BY CountFacts DEF GoodMap
<1>2. \A x \in Held(m) : /\ x.key \in Key /\ MapHash(x.key, c) \in 0..(c - 1)
                         /\ MapHash(x.key, c) \in Full(m)
  <2> TAKE x \in Held(m)
  <2>1. x.key \in Key
    BY HeldFacts, Zenon
  <2>2. MapHash(x.key, c) \in 0..(c - 1)
    BY <1>1, <2>1, MapHashRange
  <2>3. \E i \in DOMAIN m.buckets[MapHash(x.key, c)].nodes :
           m.buckets[MapHash(x.key, c)].nodes[i] = x
    BY HeldFacts
  <2>4. m.buckets[MapHash(x.key, c)].nodes # <<>>
    BY <2>3
  <2> QED BY <1>1, <2>1, <2>2, <2>4 DEF Full
<1>3. \A b \in Full(m) : \E x \in Held(m) : MapHash(x.key, c) = b
  <2> TAKE b \in Full(m)
  <2> DEFINE l == m.buckets[b].nodes
  <2>1. b \in 0..(c - 1) /\ l # <<>>
    BY <1>1 DEF Full
  <2>2. GoodList(l, b, c)
    BY <2>1 DEF GoodMap, GoodBucket
  <2>3. \A i \in DOMAIN l : l[i] \in Held(m)
    BY <2>1, HeldFacts, Zenon
  <2> HIDE DEF l
  <2>4. 1 \in DOMAIN l /\ MapHash(l[1].key, c) = b
    <3>1. l \in Seq(Node) /\ DOMAIN l = 1..Len(l) /\ Len(l) \in Nat
          /\ \A i \in 1..Len(l) : MapHash(l[i].key, c) = b
      BY <2>2, GoodListFacts
    <3>2. Len(l) # 0
      BY <2>1, <3>1
    <3> QED BY <3>1, <3>2
  <2> QED BY <2>3, <2>4
<1>4. \A p \in Items(m) : \E x \in Held(m) : p = <<x.key, x.value>>
  BY Zenon DEF Items
<1>5. \A p \in Items(m) : p[1] \in Key /\ MapHash(p[1], c) \in Full(m)
  BY <1>2, <1>4
<1>6. \A x \in Held(m) : <<x.key, x.value>> \in Items(m) /\ <<x.key, x.value>>[1] = x.key
  <2> TAKE x \in Held(m)
  <2>1. <<x.key, x.value>> \in Items(m)
    BY Zenon DEF Items
  <2> QED BY <2>1
<1>7. \A b \in Full(m) : \E p \in Items(m) : b = MapHash(p[1], c)
  <2> TAKE b \in Full(m)
  <2>1. PICK x \in Held(m) : MapHash(x.key, c) = b
    BY <1>3
  <2>2. <<x.key, x.value>> \in Items(m) /\ b = MapHash(<<x.key, x.value>>[1], c)
    BY <1>6, <2>1
  <2> QED BY <2>2, Zenon
<1>8. Full(m) = {MapHash(p[1], c) : p \in Items(m)}
  BY <1>5, <1>7, Zenon
<1> QED BY <1>1, <1>5, <1>8 DEF Empty, Full


(* A map whose size is multiplied has two empty buckets for each it had.   *)
LEMMA GrowthFacts ==
    ASSUME NEW c, NEW m, GoodMap(m, c), NEW r, GoodMap(r, 4 * c), Items(r) = Items(m),
           Empty(m) # {}
    PROVE  TwoEmpty(r)
<1> DEFINE d == 4 * c
<1>1. c \in Nat \ {0} /\ d \in Nat \ {0}
  BY DEF GoodMap
<1>2. PICK b \in 0..(c - 1) : b \notin Full(m)
  BY FullFacts
<1>3. \A p \in Items(m) : p[1] \in Key /\ MapHash(p[1], c) # b
  <2>1. /\ Full(m) = {MapHash(p[1], c) : p \in Items(m)}
        /\ \A p \in Items(m) : p[1] \in Key
    BY FullFacts
  <2> QED BY <1>2, <2>1
<1>4. ASSUME NEW k \in Key, MapHash(k, d) = b \/ MapHash(k, d) = b + c
      PROVE  MapHash(k, c) = b
  <2> DEFINE x == Code[k]
  <2>1. x \in Nat
    BY KeysOK
  <2>2. (x % d) % c = x % c
    <3> HIDE DEF x
    <3> DEFINE j == 4
    <3>1. j \in Nat \ {0} /\ d = j * c
      OBVIOUS
    <3> HIDE DEF j, d
    <3> QED BY <1>1, <2>1, <3>1, RemainderOfRemainder
  <2>3. MapHash(k, d) = x % d /\ MapHash(k, c) = x % c
    BY DEF MapHash
  <2>4. b % c = b /\ (b + c) % c = b
    <3>1. (c * 0 + b) % c = b /\ (c * 1 + b) % c = b
      BY <1>1, RemainderIs
    <3>2. c * 0 + b = b /\ c * 1 + b = b + c
      BY <1>1
    <3> QED BY <3>1, <3>2
  <2> HIDE DEF x, d
  <2> QED BY <1>4, <2>2, <2>3, <2>4
<1>5. b \notin Full(r) /\ b + c \notin Full(r)
  <2>1. Full(r) = {MapHash(p[1], d) : p \in Items(m)}
    BY FullFacts
  <2> HIDE DEF d
  <2> QED BY <1>3, <1>4, <2>1, Zenon
<1>6. b \in 0..(d - 1) /\ b + c \in 0..(d - 1) /\ b # b + c
  BY <1>1
<1>7. Empty(r) = 0..(d - 1) \ Full(r)
  BY FullFacts
<1> HIDE DEF d
<1> QED BY <1>5, <1>6, <1>7 DEF TwoEmpty

(* A map whose size is divided fills no more buckets than it did.          *)
LEMMA ShrinkFacts ==
    ASSUME NEW d \in Nat \ {0}, NEW j \in Nat \ {0},
           NEW m, GoodMap(m, j * d), NEW r, GoodMap(r, d), Items(r) = Items(m)
    PROVE  Filled(r) <= Filled(m)
<1> DEFINE c == j * d
<1>1. c \in Nat \ {0}
  OBVIOUS
<1>2. \A k \in Key : MapHash(k, c) % d = MapHash(k, d)
  <2> TAKE k \in Key
  <2>1. Code[k] \in Nat
    BY KeysOK
  <2> DEFINE x == Code[k]
  <2> HIDE DEF x
  <2>2. x \in Nat
    BY <2>1 DEF x
  <2>3. (x % c) % d = x % d
    BY <2>2, RemainderOfRemainder
  <2> QED BY <2>3 DEF MapHash, x
<1> HIDE DEF c
<1>3. /\ Full(m) = {MapHash(p[1], c) : p \in Items(m)}
      /\ Full(r) = {MapHash(p[1], d) : p \in Items(m)}
      /\ \A p \in Items(m) : p[1] \in Key
  BY FullFacts DEF c
<1> DEFINE f == [b \in Full(m) |-> b % d]
<1>4. \A b \in Full(m) : f[b] \in Full(r)
  BY <1>2, <1>3
<1>5. \A a \in Full(r) : \E b \in Full(m) : f[b] = a
  <2> TAKE a \in Full(r)
  <2>1. PICK p \in Items(m) : a = MapHash(p[1], d)
    BY <1>3
  <2>2. MapHash(p[1], c) \in Full(m)
    BY <1>3, Zenon
  <2>3. f[MapHash(p[1], c)] = a
    BY <1>2, <1>3, <2>1, <2>2
  <2> QED BY <2>2, <2>3
<1>6. f \in [Full(m) -> Full(r)]
  BY <1>4
<1> HIDE DEF f
<1>7. f \in Surjection(Full(m), Full(r))
  BY <1>5, <1>6, Fun_IsSurj
<1>8. Cardinality(Full(r)) <= Cardinality(Full(m))
  <2>1. IsFiniteSet(Full(m))
    BY FilledFacts DEF c
  <2> QED BY <1>7, <2>1, FS_Surjection
<1> QED BY <1>8, FilledFacts DEF c

(* __mapRehash: a map with an empty bucket is left, or made, one with two; *)
(* its items stay.                                                         *)
LEMMA BalancedFacts ==
    ASSUME NEW c \in Sizes, NEW m, GoodMap(m, c), Empty(m) # {}
    PROVE  \E d \in Sizes : /\ GoodMap(Balanced(m), d)
                            /\ TwoEmpty(Balanced(m))
                            /\ Items(Balanced(m)) = Items(m)
<1> DEFINE F == Filled(m)
           U == Unfilled(m)
<1>1. /\ c \in Nat /\ c >= 8 /\ 4 * c \in Sizes /\ Count(m) = c
      /\ c = 8 \/ \E k \in Sizes : c = 4 * k
  BY SizesFacts, CountFacts
<1>2. F \in Nat /\ U \in Nat /\ U = c - F /\ U # 0
  BY FilledFacts
<1>3. CASE TooFull(m)
  <2>1. Balanced(m) = Rehash(m, 4 * c)
    BY <1>1, <1>3 DEF Balanced
  <2>2. 4 * c \in Nat \ {0}
    BY <1>1
  <2>3. GoodMap(Rehash(m, 4 * c), 4 * c) /\ Items(Rehash(m, 4 * c)) = Items(m)
    BY <2>2, RehashFacts
  <2>4. TwoEmpty(Rehash(m, 4 * c))
    BY <2>3, GrowthFacts
  <2> QED BY <1>1, <2>1, <2>3, <2>4
<1>4. CASE ~TooFull(m) /\ TooEmpty(m)
  <2> DEFINE d == Max({c \div 4, 8})
  <2>1. Balanced(m) = Rehash(m, d)
    BY <1>1, <1>4 DEF Balanced
  <2>2. d \in Sizes /\ \E j \in Nat \ {0} : c = j * d /\ ((j = 1 /\ d = 8) \/ (j = 4 /\ d >= 8))
    <3>1. d \in {c \div 4, 8} /\ \A x \in {c \div 4, 8} : x <= d
      <4> DEFINE S == {c \div 4, 8}
      <4>1. c \in Nat /\ S \in SUBSET (0..c) /\ S # {}
        BY <1>1
      <4> HIDE DEF S
      <4> QED BY <4>1, MaxFacts DEF S
    <3> HIDE DEF d
    <3>2. CASE c = 8
      <4>1. d = 8
        BY <3>1, <3>2
      <4> QED BY <3>2, <4>1, SizesFacts
    <3>3. CASE \E k \in Sizes : c = 4 * k
      <4>1. PICK k \in Sizes : c = 4 * k
        BY <3>3
      <4>2. k \in Nat /\ k >= 8
        BY SizesFacts
      <4>3. d = k
        BY <3>1, <4>1, <4>2
      <4> QED BY <4>1, <4>2, <4>3
    <3> QED BY <1>1, <3>2, <3>3
  <2> HIDE DEF d
  <2>3. PICK j \in Nat \ {0} : c = j * d /\ ((j = 1 /\ d = 8) \/ (j = 4 /\ d >= 8))
    BY <2>2
  <2>4. d \in Nat \ {0}
    BY <2>2, SizesFacts
  <2>5. GoodMap(Rehash(m, d), d) /\ Items(Rehash(m, d)) = Items(m)
    BY <2>4, RehashFacts
  <2>6. Filled(Rehash(m, d)) <= F
    BY <2>3, <2>4, <2>5, ShrinkFacts
  <2>7. 10 * F < U
    BY <1>2, <1>4 DEF TooEmpty
  <2>8. Unfilled(Rehash(m, d)) = d - Filled(Rehash(m, d)) /\ Filled(Rehash(m, d)) \in Nat
    BY <2>5, FilledFacts
  <2>9. F + 2 <= d
    <3>1. CASE j = 1 /\ d = 8
      BY <1>2, <2>3, <2>7, <3>1
    <3>2. CASE j = 4 /\ d >= 8
      BY <1>2, <2>3, <2>4, <2>7, <3>2
    <3> QED BY <2>3, <3>1, <3>2
  <2>10. Unfilled(Rehash(m, d)) >= 2
    BY <1>2, <2>4, <2>6, <2>8, <2>9
  <2>11. TwoEmpty(Rehash(m, d))
    BY <2>5, <2>10, FilledFacts
  <2> QED BY <2>1, <2>2, <2>5, <2>11
<1>5. CASE ~TooFull(m) /\ ~TooEmpty(m)
  <2>1. Balanced(m) = m
    BY <1>5 DEF Balanced
  <2>2. 2 * F <= 7 * U
    BY <1>2, <1>5 DEF TooFull
  <2>3. U >= 2
    BY <1>1, <1>2, <2>2
  <2> QED BY <2>1, <2>3, FilledFacts
<1> QED BY <1>3, <1>4, <1>5


(***************************************************************************)
(* The operations                                                          *)
(***************************************************************************)

(* What every call leaves: good buckets, two of them empty.                *)
Sound(m) == \E c \in Sizes : GoodMap(m, c) /\ TwoEmpty(m)

(* A key is found if it has an item, which is then the one found.          *)
LEMMA FindItem ==
    ASSUME NEW m, Sound(m), NEW k \in Key
    PROVE  /\ Find(m, k) = 0 => \A p \in Items(m) : p[1] # k
           /\ Find(m, k) # 0 =>
                 <<k, m.buckets[MapHash(k, Count(m))].nodes[Find(m, k)].value>> \in Items(m)
<1>1. PICK c \in Sizes : GoodMap(m, c)
  BY DEF Sound
<1>2. Count(m) = c
  BY <1>1, CountFacts
<1> DEFINE x == m.buckets[MapHash(k, c)].nodes[Find(m, k)]
<1>3. \/ Find(m, k) = 0 /\ \A y \in Held(m) : y.key # k
      \/ Find(m, k) # 0 /\ x.key = k /\ x \in Held(m)
  BY <1>1, FindFacts
<1>4. (\A y \in Held(m) : y.key # k) => \A p \in Items(m) : p[1] # k
  BY DEF Items
<1>5. x.key = k /\ x \in Held(m) => <<k, x.value>> \in Items(m)
  BY Zenon DEF Items
<1> HIDE DEF x
<1>6. CASE Find(m, k) = 0
  BY <1>3, <1>4, <1>6
<1>7. CASE Find(m, k) # 0
  BY <1>2, <1>3, <1>5, <1>7 DEF x
<1> QED BY <1>6, <1>7

(* __mapInsert: a new key is given its item, another keeps its own.        *)
LEMMA InsertedFacts ==
    ASSUME NEW m, Sound(m), NEW k \in Key, NEW v \in Value
    PROVE  /\ Sound(Inserted(m, k, v))
           /\ Find(m, k) # 0 => Inserted(m, k, v) = m
           /\ Find(m, k) = 0 => Items(Inserted(m, k, v)) = Items(m) \cup {<<k, v>>}
<1>1. PICK c \in Sizes : GoodMap(m, c) /\ TwoEmpty(m)
  BY DEF Sound
<1>2. CASE Find(m, k) # 0
  BY <1>2 DEF Inserted
<1>3. CASE Find(m, k) = 0
  <2> DEFINE h == MapHash(k, c)
             node == MapNode(k, v, c)
             from == Min({1, m.sizes[h]})
             p == PutNode(m, h, from, node)
  <2>1. c \in Nat \ {0} /\ h \in 0..(c - 1) /\ h \in Nat
    BY <1>1, MapHashRange DEF GoodMap
  <2>2. node \in Node /\ node.key = k /\ node.hash = h /\ node.value = v
    BY <2>1 DEF MapNode, Node
  <2>3. Inserted(m, k, v) = Balanced(p)
    BY <1>1, <1>3, <2>2, CountFacts DEF Inserted
  <2>4. from \in At(m.buckets[h].nodes)
    <3> DEFINE l == m.buckets[h].nodes
               n == m.sizes[h]
               S == {1, n}
    <3>1. n = Len(l) /\ n \in Nat /\ GoodList(l, h, c)
      BY <1>1, <2>1 DEF GoodMap, GoodBucket
    <3>2. DOMAIN l = 1..n /\ l \in Seq(Node)
      <4> HIDE DEF l
      <4> QED BY <3>1, GoodListFacts
    <3> HIDE DEF l, n
    <3>3. Min(S) \in S /\ \A x \in S : Min(S) <= x
      <4>1. S \in SUBSET Nat /\ S # {}
        BY <3>1
      <4> HIDE DEF S
      <4> QED BY <4>1, MinFacts
    <3>4. n = 0 <=> l = <<>>
      BY <3>1, <3>2
    <3>5. Min(S) \in At(l)
      BY <3>1, <3>2, <3>3, <3>4 DEF At
    <3> QED BY <3>5 DEF l, n
  <2>5. \A x \in Held(m) : x.key # node.key
    <3>1. \A x \in Held(m) : x.key # k
      BY <1>1, <1>3, FindFacts
    <3> QED BY <2>2, <3>1
  <2>6. MapHash(node.key, c) = h
    BY <2>2
  <2> HIDE DEF from, node
  <2>7. /\ GoodMap(p, c) /\ Held(p) = Held(m) \cup {node}
        /\ \A a \in 0..(c - 1) : a # h => p.buckets[a] = m.buckets[a]
    <3> HIDE DEF h
    <3>1. node \in Node /\ node.hash = h /\ MapHash(node.key, c) = h
      BY <2>2, <2>6
    <3>2. /\ GoodMap(PutNode(m, h, from, node), c)
          /\ Held(PutNode(m, h, from, node)) = Held(m) \cup {node}
      BY <1>1, <2>1, <2>4, <2>5, <3>1, PutNodeFacts
    <3>3. \A a \in 0..(c - 1) : a # h => PutNode(m, h, from, node).buckets[a] = m.buckets[a]
      BY <1>1, <2>1, <2>4, <2>5, <3>1, PutNodeFacts
    <3> QED BY <3>2, <3>3
  <2> HIDE DEF p, h
  <2>8. Items(p) = Items(m) \cup {<<k, v>>}
    <3>1. Items(p) = Items(m) \cup {<<node.key, node.value>>}
      BY <2>7, ItemsOfMore
    <3> QED BY <2>2, <3>1
  <2>9. Empty(p) # {}
    <3>1. PICK a, b \in Empty(m) : a # b
      BY <1>1 DEF TwoEmpty
    <3>2. DOMAIN m.buckets = 0..(c - 1) /\ DOMAIN p.buckets = 0..(c - 1)
      BY <1>1, <2>7, CountFacts
    <3>3. \A e \in Empty(m) : e # h => e \in Empty(p)
      BY <2>7, <3>2 DEF Empty, Full
    <3> QED BY <3>1, <3>3
  <2>10. \E d \in Sizes : /\ GoodMap(Balanced(p), d)
                          /\ TwoEmpty(Balanced(p))
                          /\ Items(Balanced(p)) = Items(p)
    BY <2>7, <2>9, BalancedFacts
  <2> QED BY <1>3, <2>3, <2>8, <2>10 DEF Sound
<1> QED BY <1>2, <1>3

(* __mapRemove: the key has no item, and every other key the one it had.   *)
LEMMA RemovedFacts ==
    ASSUME NEW m, Sound(m), NEW k \in Key
    PROVE  /\ Sound(Removed(m, k))
           /\ Items(Removed(m, k)) = {p \in Items(m) : p[1] # k}
<1>1. PICK c \in Sizes : GoodMap(m, c) /\ TwoEmpty(m)
  BY DEF Sound
<1>2. CASE Find(m, k) = 0
  <2>1. Removed(m, k) = m
    BY <1>2 DEF Removed
  <2>2. Items(m) = {p \in Items(m) : p[1] # k}
    BY <1>2, FindItem
  <2> QED BY <2>1, <2>2
<1>3. CASE Find(m, k) # 0
  <2> DEFINE h == MapHash(k, c)
             i == Find(m, k)
             old == m.buckets[h]
             new == LLRemove(old, i)
             q == [buckets |-> [m.buckets EXCEPT ![h] = new],
                   sizes |-> [m.sizes EXCEPT ![h] = @ - 1]]
  <2>1. c \in Nat \ {0} /\ h \in 0..(c - 1) /\ h \in Nat
    BY <1>1, MapHashRange DEF GoodMap
  <2>2. Removed(m, k) = Balanced(q)
    BY <1>1, <1>3, CountFacts DEF Removed, SizesWithout
  <2>3. i \in DOMAIN old.nodes /\ old.nodes[i].key = k
    BY <1>1, <1>3, FindFacts
  <2>4. /\ m = [buckets |-> m.buckets, sizes |-> m.sizes]
        /\ m.buckets \in [0..(c - 1) -> Bucket] /\ m.sizes \in [0..(c - 1) -> Nat]
        /\ DOMAIN m.buckets = 0..(c - 1)
        /\ \A a \in 0..(c - 1) : /\ GoodBucket(m.buckets[a], a, c)
                                 /\ m.sizes[a] = Len(m.buckets[a].nodes)
    BY <1>1 DEF GoodMap
  <2>5. GoodBucket(new, h, c) /\ Shrinks(new, old, k)
    <3>1. GoodBucket(old, h, c)
      BY <2>1, <2>4
    <3> HIDE DEF old, i, h
    <3> QED BY <2>1, <2>3, <3>1, LLRemoveFacts
  <2>6. /\ Len(new.nodes) = Len(old.nodes) - 1
        /\ ToSet(new.nodes) = {x \in ToSet(old.nodes) : x.key # k}
        /\ new \in Bucket /\ Len(new.nodes) \in Nat
    BY <2>5 DEF Shrinks, GoodBucket, GoodList
  <2> HIDE DEF new, i
  <2>7. /\ q.buckets \in [0..(c - 1) -> Bucket] /\ DOMAIN q.buckets = 0..(c - 1)
        /\ q.buckets[h] = new
        /\ \A a \in 0..(c - 1) : a # h => q.buckets[a] = m.buckets[a]
    BY <2>1, <2>4, <2>6
  <2>8. /\ q.sizes[h] = Len(new.nodes)
        /\ \A a \in 0..(c - 1) : a # h => q.sizes[a] = m.sizes[a]
        /\ q.sizes \in [0..(c - 1) -> Nat]
    <3>1. m.sizes[h] = Len(old.nodes) /\ m.sizes[h] - 1 = Len(new.nodes)
      BY <2>1, <2>4, <2>6
    <3> HIDE DEF new, h, old
    <3> QED BY <2>1, <2>4, <2>6, <3>1
  <2>9. q = [buckets |-> q.buckets, sizes |-> q.sizes]
    OBVIOUS
  <2> HIDE DEF q, h
  <2>10. GoodMap(q, c)
    <3>1. \A a \in 0..(c - 1) : GoodBucket(q.buckets[a], a, c)
                                /\ q.sizes[a] = Len(q.buckets[a].nodes)
      BY <2>4, <2>5, <2>7, <2>8
    <3> QED BY <2>1, <2>7, <2>8, <2>9, <3>1 DEF GoodMap
  <2>11. Items(q) = {p \in Items(m) : p[1] # k}
    <3>1. Held(q) = {x \in Held(m) : x.key # k}
      <4>1. \A x : x \in Held(q) <=> \E a \in 0..(c - 1) : x \in ToSet(q.buckets[a].nodes)
        BY <2>7, Zenon DEF Held
      <4>2. \A x : x \in Held(m) <=> \E a \in 0..(c - 1) : x \in ToSet(m.buckets[a].nodes)
        BY <2>4, Zenon DEF Held
      <4>3. \A a \in 0..(c - 1) : \A x \in ToSet(m.buckets[a].nodes) : a # h => x.key # k
        <5> TAKE a \in 0..(c - 1)
        <5> TAKE x \in ToSet(m.buckets[a].nodes)
        <5>1. GoodList(m.buckets[a].nodes, a, c)
          BY <2>4 DEF GoodBucket
        <5>2. MapHash(x.key, c) = a
          BY <5>1, Zenon DEF GoodList, ToSet
        <5> QED BY <5>2 DEF h
      <4>4. \A a \in 0..(c - 1) : \A x : x \in ToSet(q.buckets[a].nodes)
                                         <=> x \in ToSet(m.buckets[a].nodes) /\ x.key # k
        <5> TAKE a \in 0..(c - 1)
        <5>1. CASE a = h
          BY <2>6, <2>7, <5>1
        <5>2. CASE a # h
          BY <2>7, <4>3, <5>2
        <5> QED BY <5>1, <5>2
      <4> QED BY <4>1, <4>2, <4>4, Zenon
    <3>2. \A p : p \in Items(q) <=> p \in Items(m) /\ p[1] # k
      <4> TAKE p
      <4>1. p \in Items(q) <=> \E x \in Held(m) : x.key # k /\ p = <<x.key, x.value>>
        BY <3>1, Zenon DEF Items
      <4>2. p \in Items(m) <=> \E x \in Held(m) : p = <<x.key, x.value>>
        BY Zenon DEF Items
      <4>3. \A x : p = <<x.key, x.value>> => p[1] = x.key
        OBVIOUS
      <4> QED BY <4>1, <4>2, <4>3, Zenon
    <3> QED BY <3>2, Zenon
  <2>12. Empty(q) # {}
    <3>1. PICK e \in Empty(m) : TRUE
      BY <1>1 DEF TwoEmpty
    <3>2. e \in 0..(c - 1) /\ m.buckets[e].nodes = <<>>
      BY <2>4, <3>1 DEF Empty, Full
    <3>3. e # h
      BY <2>3, <3>2
    <3>4. e \in Empty(q)
      BY <2>7, <3>2, <3>3 DEF Empty, Full
    <3> QED BY <3>4
  <2>13. \E d \in Sizes : /\ GoodMap(Balanced(q), d)
                          /\ TwoEmpty(Balanced(q))
                          /\ Items(Balanced(q)) = Items(q)
    BY <2>10, <2>12, BalancedFacts
  <2> QED BY <2>2, <2>11, <2>13 DEF Sound
<1> QED BY <1>2, <1>3


(* A map starts sound, with nothing in it.                                 *)
LEMMA EmptyMapSound ==
    Sound(EmptyMap(8)) /\ Items(EmptyMap(8)) = {}
<1>1. 8 \in Sizes /\ 8 \in Nat \ {0}
  BY SizesFacts
<1>2. GoodMap(EmptyMap(8), 8) /\ Held(EmptyMap(8)) = {}
  BY <1>1, EmptyMapFacts
<1>3. Items(EmptyMap(8)) = {}
  BY <1>2 DEF Items
<1>4. 0 \in Empty(EmptyMap(8)) /\ 1 \in Empty(EmptyMap(8))
  BY DEF Empty, Full, EmptyMap, EmptyBucket
<1>5. TwoEmpty(EmptyMap(8))
  BY <1>4 DEF TwoEmpty
<1> QED BY <1>1, <1>2, <1>3, <1>5 DEF Sound

(* __mapClone: another sound map with the same items.                      *)
LEMMA ClonedFacts ==
    ASSUME NEW m, Sound(m)
    PROVE  Sound(Cloned(m)) /\ Items(Cloned(m)) = Items(m)
<1> DEFINE nodes == Nodes(m)
           N == Len(nodes)
           Item(i) == <<nodes[i].key, nodes[i].value>>
           P(r, n) == Sound(r) /\ Items(r) = {Item(i) : i \in 1..n}
<1>1. /\ N \in Nat /\ DOMAIN nodes = 1..N /\ ToSet(nodes) = Held(m)
      /\ \A i \in 1..N : nodes[i] \in Node
      /\ \A i, j \in 1..N : i # j => nodes[i].key # nodes[j].key
  <2>0. PICK c \in Sizes : GoodMap(m, c)
    BY DEF Sound
  <2>1. /\ nodes \in Seq(Node) /\ N \in Nat /\ DOMAIN nodes = 1..N
        /\ Distinct(nodes) /\ ToSet(nodes) = Held(m)
    BY <2>0, NodesFacts
  <2> HIDE DEF nodes
  <2>2. \A i \in 1..N : nodes[i] \in Node
    BY <2>1
  <2> QED BY <2>1, <2>2, Zenon DEF Distinct
<1>2. PICK f : /\ f[0] = EmptyMap(8)
               /\ \A n \in 1..N : f[n] = Inserted(f[n - 1], nodes[n].key, nodes[n].value)
               /\ Cloned(m) = f[N]
  BY <1>1, CloneRun, Zenon
<1> HIDE DEF nodes
<1> DEFINE S == {n \in 0..N : P(f[n], n)}
<1>3. 0 \in S
  <2>1. Sound(f[0]) /\ Items(f[0]) = {}
    BY <1>2, EmptyMapSound
  <2>2. 0 \in 0..N /\ 1..0 = {}
    BY <1>1
  <2> QED BY <2>1, <2>2
<1>4. ASSUME NEW n \in 0..(N - 1), n \in S
      PROVE  n + 1 \in S
  <2> DEFINE i0 == n + 1
  <2>1. i0 \in 1..N /\ i0 \in 0..N /\ i0 - 1 = n /\ n \in Nat /\ 1..i0 = (1..n) \cup {i0}
        /\ \A i \in 1..n : i \in 1..N /\ i # i0
    BY <1>1
  <2> HIDE DEF i0
  <2>2. f[i0] = Inserted(f[n], nodes[i0].key, nodes[i0].value)
    BY <1>2, <2>1
  <2>3. Sound(f[n]) /\ Items(f[n]) = {Item(i) : i \in 1..n}
    BY <1>4
  <2>4. \A p \in Items(f[n]) : p[1] # nodes[i0].key
    <3> TAKE p \in Items(f[n])
    <3>1. PICK i \in 1..n : p = Item(i)
      BY <2>3
    <3>2. p[1] = nodes[i].key
      BY <3>1
    <3> QED BY <1>1, <2>1, <3>2
  <2>5. nodes[i0].key \in Key /\ nodes[i0].value \in Value
    BY <1>1, <2>1 DEF Node
  <2>6. Sound(f[i0]) /\ Items(f[i0]) = Items(f[n]) \cup {Item(i0)}
    <3> DEFINE old == f[n]
               k == nodes[i0].key
               v == nodes[i0].value
    <3>1. Sound(old) /\ k \in Key /\ v \in Value /\ \A p \in Items(old) : p[1] # k
      BY <2>3, <2>4, <2>5
    <3> HIDE DEF old, k, v
    <3>2. Find(old, k) = 0
      <4>1. Find(old, k) # 0 =>
               <<k, old.buckets[MapHash(k, Count(old))].nodes[Find(old, k)].value>> \in Items(old)
        BY <3>1, FindItem
      <4> QED BY <3>1, <4>1
    <3>3. Sound(Inserted(old, k, v)) /\ Items(Inserted(old, k, v)) = Items(old) \cup {<<k, v>>}
      BY <3>1, <3>2, InsertedFacts
    <3> QED BY <2>2, <3>3, Zenon DEF old, k, v
  <2>7. {Item(i) : i \in 1..i0} = {Item(i) : i \in 1..n} \cup {Item(i0)}
    <3> HIDE DEF Item
    <3>1. \A i : i \in 1..i0 <=> i \in 1..n \/ i = i0
      BY <2>1, Zenon
    <3> QED BY <3>1, Zenon
  <2>8. Sound(f[i0]) /\ Items(f[i0]) = {Item(i) : i \in 1..i0}
    BY <2>3, <2>6, <2>7, Zenon
  <2> QED BY <2>1, <2>8 DEF i0
<1>5. P(f[N], N)
  <2> HIDE DEF P
  <2>1. 0..N \subseteq S
    <3> HIDE DEF S
    <3> QED BY <1>1, <1>3, <1>4, AllUpTo
  <2> QED BY <1>1, <2>1
<1>6. {Item(i) : i \in 1..N} = Items(m)
  <2>1. \A i \in 1..N : nodes[i] \in Held(m)
    BY <1>1, Zenon DEF ToSet
  <2>2. \A x \in Held(m) : \E i \in 1..N : nodes[i] = x
    BY <1>1, Zenon DEF ToSet
  <2> QED BY <2>1, <2>2, Zenon DEF Items
<1> QED BY <1>2, <1>5, <1>6

(***************************************************************************)
(* The invariant                                                           *)
(***************************************************************************)

SoundMap == Sound(Map)

LEMMA MapBecomes ==
    ASSUME NEW m, Becomes(m), Sound(m)
    PROVE  Map' = m
<1>1. m = [buckets |-> m.buckets, sizes |-> m.sizes]
  BY DEF Sound, GoodMap
<1> QED BY <1>1 DEF Becomes, Map

(* What a step does to the map.                                            *)
LEMMA StepFacts ==
    ASSUME SoundMap
    PROVE  /\ \A k \in Key : MapGet(k) => Map' = Map
           /\ \A k \in Key : MapRemove(k) => Map' = Removed(Map, k)
           /\ \A k \in Key : \A v \in Value : MapInsert(k, v) => Map' = Inserted(Map, k, v)
           /\ MapKeys => Map' = Map
           /\ MapClone => Map' = Cloned(Map)
           /\ UNCHANGED vars => Map' = Map
<1>1. ASSUME NEW k \in Key, MapRemove(k)
      PROVE  Map' = Removed(Map, k)
  <2>1. Sound(Removed(Map, k))
    BY RemovedFacts DEF SoundMap
  <2>2. Becomes(Removed(Map, k))
    BY <1>1 DEF MapRemove
  <2> QED BY <2>1, <2>2, MapBecomes
<1>2. ASSUME NEW k \in Key, NEW v \in Value, MapInsert(k, v)
      PROVE  Map' = Inserted(Map, k, v)
  <2>1. Sound(Inserted(Map, k, v))
    BY InsertedFacts DEF SoundMap
  <2>2. Becomes(Inserted(Map, k, v))
    BY <1>2 DEF MapInsert
  <2> QED BY <2>1, <2>2, MapBecomes
<1>3. ASSUME MapClone
      PROVE  Map' = Cloned(Map)
  <2>1. Sound(Cloned(Map))
    BY ClonedFacts DEF SoundMap
  <2>2. Becomes(Cloned(Map))
    BY <1>3 DEF MapClone
  <2> QED BY <2>1, <2>2, MapBecomes
<1>4. \A k \in Key : MapGet(k) => Map' = Map
  BY DEF MapGet, Map
<1>5. MapKeys => Map' = Map
  BY DEF MapKeys, Map
<1>6. UNCHANGED vars => Map' = Map
  BY DEF vars, Map
<1> QED BY <1>1, <1>2, <1>3, <1>4, <1>5, <1>6

LEMMA SoundInit ==
    ASSUME Init
    PROVE  SoundMap
<1>1. Map = EmptyMap(8)
  BY DEF Init, Map, EmptyMap
<1> QED BY <1>1, EmptyMapSound DEF SoundMap

LEMMA SoundNext ==
    ASSUME SoundMap, [Next]_vars
    PROVE  SoundMap'
<1> USE DEF SoundMap
<1>1. ASSUME NEW k \in Key, MapGet(k)
      PROVE  SoundMap'
  BY <1>1, StepFacts
<1>2. ASSUME NEW k \in Key, MapRemove(k)
      PROVE  SoundMap'
  BY <1>2, StepFacts, RemovedFacts
<1>3. ASSUME NEW k \in Key, NEW v \in Value, MapInsert(k, v)
      PROVE  SoundMap'
  BY <1>3, StepFacts, InsertedFacts
<1>4. CASE MapKeys
  BY <1>4, StepFacts
<1>5. CASE MapClone
  BY <1>5, StepFacts, ClonedFacts
<1>6. CASE UNCHANGED vars
  BY <1>6, StepFacts
<1> HIDE DEF SoundMap
<1> QED BY <1>1, <1>2, <1>3, <1>4, <1>5, <1>6 DEF Next

(* Every bucket stays good, the sizes stay counted, and two buckets stay   *)
(* empty, through every growth and every shrinking.                        *)
THEOREM StaysSound == Spec => []SoundMap
<1> QED BY SoundInit, SoundNext, PTL DEF Spec

(* A bucket is a list sorted by strcmp, of nodes hashed to it, and points  *)
(* into it.                                                                *)
LEMMA SoundIsTyped ==
    ASSUME SoundMap
    PROVE  TypeOK
<1>1. PICK c \in Sizes : GoodMap(Map, c)
  BY DEF SoundMap, Sound
<1>2. c \in Nat \ {0} /\ Table = 0..(c - 1)
      /\ \A b \in 0..(c - 1) : GoodBucket(buckets[b], b, c)
  BY <1>1 DEF GoodMap, Map, Table
<1>3. Cardinality(Table) = c
  BY <1>1, CountFacts DEF Count, Map, Table
<1>4. ASSUME NEW b \in Table
      PROVE  LET nodes == buckets[b].nodes IN
             /\ \A i \in DOMAIN nodes : nodes[i] \in Node /\ nodes[i].hash = b
             /\ \A i, j \in DOMAIN nodes : i < j => Before(nodes[i], nodes[j])
             /\ buckets[b].at \in IF nodes = <<>> THEN {0} ELSE DOMAIN nodes
  <2> DEFINE nodes == buckets[b].nodes
  <2>1. GoodList(nodes, b, c) /\ buckets[b].at \in At(nodes)
    BY <1>2, <1>4 DEF GoodBucket
  <2> HIDE DEF nodes
  <2>2. /\ DOMAIN nodes = 1..Len(nodes)
        /\ \A i \in DOMAIN nodes : nodes[i] \in Node /\ nodes[i].hash = b
    BY <2>1, GoodListFacts
  <2>3. \A i, j \in DOMAIN nodes : i < j => Before(nodes[i], nodes[j])
    BY <2>1, <2>2 DEF GoodList, Before
  <2> QED BY <2>1, <2>2, <2>3 DEF nodes, At
<1> QED BY <1>2, <1>3, <1>4 DEF TypeOK

THEOREM TypeInvariant == Spec => []TypeOK
<1> QED BY StaysSound, SoundIsTyped, PTL

(* __mapKeys, "assert(inserted == computedCount)": the size kept for a     *)
(* bucket is that of its list.                                             *)
THEOREM SizesAreCounted == Spec => []SizesCounted
<1>1. ASSUME SoundMap
      PROVE  SizesCounted
  <2>1. PICK c \in Sizes : GoodMap(Map, c)
    BY <1>1 DEF SoundMap, Sound
  <2> QED BY <2>1 DEF GoodMap, Map, SizesCounted, Table
<1> QED BY <1>1, StaysSound, PTL

(* __mapCalculateLoad never meets a map with no empty bucket, for which it *)
(* would answer that the map shall shrink.                                 *)
THEOREM NeverFills == Spec => []NeverFull
<1>1. ASSUME SoundMap
      PROVE  NeverFull
  <2>1. PICK e \in Empty(Map) : TRUE
    BY <1>1 DEF SoundMap, Sound, TwoEmpty
  <2> QED BY <2>1 DEF Empty, Full, Map, NeverFull, Table
<1> QED BY <1>1, StaysSound, PTL


(***************************************************************************)
(* The map as a function from keys to items                                *)
(***************************************************************************)

(* The store of a sound map says what its items say.                       *)
LEMMA StoreFacts ==
    ASSUME NEW m, Sound(m)
    PROVE  /\ StoreOf(m) = [k \in Key |-> StoreOf(m)[k]]
           /\ \A k \in Key : (\A p \in Items(m) : p[1] # k) => StoreOf(m)[k] = None
           /\ \A k \in Key : \A v : <<k, v>> \in Items(m) =>
                 StoreOf(m)[k] = v /\ v \in Value /\ v # None
<1>1. PICK c \in Sizes : GoodMap(m, c)
  BY DEF Sound
<1>2. \A x, y \in Held(m) : x.key = y.key => x = y
  BY <1>1, HeldFacts
<1>3. \A x \in Held(m) : x.key \in Key /\ x.value \in Value
  <2>1. \A x \in Held(m) : x \in Node
    BY <1>1, HeldFacts
  <2> QED BY <2>1 DEF Node
<1>4. \A k \in Key : StoreOf(m)[k] = IF \E x \in Held(m) : x.key = k
                                    THEN (CHOOSE x \in Held(m) : x.key = k).value
                                    ELSE None
  BY DEF StoreOf
<1>5. StoreOf(m) = [k \in Key |-> StoreOf(m)[k]]
  BY DEF StoreOf
<1>6. ASSUME NEW k \in Key, \A p \in Items(m) : p[1] # k
      PROVE  StoreOf(m)[k] = None
  <2>1. \A x \in Held(m) : x.key # k
    <3> TAKE x \in Held(m)
    <3>1. <<x.key, x.value>> \in Items(m)
      BY Zenon DEF Items
    <3> QED BY <1>6, <3>1
  <2> QED BY <1>4, <2>1
<1>7. ASSUME NEW k \in Key, NEW v, <<k, v>> \in Items(m)
      PROVE  StoreOf(m)[k] = v /\ v \in Value /\ v # None
  <2>1. PICK x \in Held(m) : <<k, v>> = <<x.key, x.value>>
    BY <1>7 DEF Items
  <2>2. x.key = k /\ x.value = v
    BY <2>1
  <2> DEFINE y == CHOOSE z \in Held(m) : z.key = k
  <2>3. y \in Held(m) /\ y.key = k
    BY <2>2
  <2>4. StoreOf(m)[k] = y.value
    BY <1>4, <2>2
  <2> HIDE DEF y
  <2>5. y = x
    BY <1>2, <2>2, <2>3
  <2> QED BY <1>3, <2>2, <2>4, <2>5, NoneIsApart
<1> QED BY <1>5, <1>6, <1>7

(* A key has no item, and is not found, or has the one that is found.      *)
LEMMA StoreCases ==
    ASSUME NEW m, Sound(m), NEW k \in Key
    PROVE  \/ /\ Find(m, k) = 0
              /\ \A p \in Items(m) : p[1] # k
              /\ StoreOf(m)[k] = None
           \/ /\ Find(m, k) # 0
              /\ <<k, StoreOf(m)[k]>> \in Items(m)
              /\ StoreOf(m)[k] # None /\ StoreOf(m)[k] \in Value
              /\ StoreOf(m)[k] = m.buckets[MapHash(k, Count(m))].nodes[Find(m, k)].value
<1> DEFINE v == m.buckets[MapHash(k, Count(m))].nodes[Find(m, k)].value
<1>1. /\ Find(m, k) = 0 => \A p \in Items(m) : p[1] # k
      /\ Find(m, k) # 0 => <<k, v>> \in Items(m)
  BY FindItem
<1> HIDE DEF v
<1>2. CASE Find(m, k) = 0
  BY <1>1, <1>2, StoreFacts
<1>3. CASE Find(m, k) # 0
  <2>1. StoreOf(m)[k] = v /\ v \in Value /\ v # None
    BY <1>1, <1>3, StoreFacts
  <2> QED BY <1>1, <1>3, <2>1 DEF v
<1> QED BY <1>2, <1>3

(* Maps with the same items have the same store.                           *)
LEMMA SameItems ==
    ASSUME NEW m, NEW r, Sound(m), Sound(r), Items(r) = Items(m)
    PROVE  StoreOf(r) = StoreOf(m)
<1>1. ASSUME NEW k \in Key
      PROVE  StoreOf(r)[k] = StoreOf(m)[k]
  <2>1. \/ \A p \in Items(m) : p[1] # k
        \/ <<k, StoreOf(m)[k]>> \in Items(m)
    BY StoreCases
  <2>2. CASE \A p \in Items(m) : p[1] # k
    BY <2>2, StoreFacts
  <2>3. CASE <<k, StoreOf(m)[k]>> \in Items(m)
    BY <2>3, StoreFacts
  <2> QED BY <2>1, <2>2, <2>3
<1>2. /\ StoreOf(r) = [k \in Key |-> StoreOf(r)[k]]
      /\ StoreOf(m) = [k \in Key |-> StoreOf(m)[k]]
  BY StoreFacts
<1> QED BY <1>1, <1>2

(* A key without an item gets one.                                         *)
LEMMA MoreItems ==
    ASSUME NEW m, NEW r, Sound(m), Sound(r), NEW k \in Key, NEW v \in Value,
           Items(r) = Items(m) \cup {<<k, v>>}
    PROVE  StoreOf(r) = [StoreOf(m) EXCEPT ![k] = v]
<1>1. ASSUME NEW j \in Key
      PROVE  StoreOf(r)[j] = IF j = k THEN v ELSE StoreOf(m)[j]
  <2>1. \/ \A p \in Items(m) : p[1] # j
        \/ <<j, StoreOf(m)[j]>> \in Items(m)
    BY StoreCases
  <2>2. CASE j = k
    <3>1. <<j, v>> \in Items(r)
      BY <2>2
    <3> QED BY <2>2, <3>1, StoreFacts
  <2>3. CASE j # k /\ \A p \in Items(m) : p[1] # j
    <3>1. \A p \in Items(r) : p[1] # j
      BY <2>3
    <3> QED BY <2>3, <3>1, StoreFacts
  <2>4. CASE j # k /\ <<j, StoreOf(m)[j]>> \in Items(m)
    BY <2>4, StoreFacts
  <2> QED BY <2>1, <2>2, <2>3, <2>4
<1>2. /\ StoreOf(r) = [j \in Key |-> StoreOf(r)[j]]
      /\ StoreOf(m) = [j \in Key |-> StoreOf(m)[j]]
  BY StoreFacts
<1> QED BY <1>1, <1>2

(* A key loses its item, if it has one.                                    *)
LEMMA FewerItems ==
    ASSUME NEW m, NEW r, Sound(m), Sound(r), NEW k \in Key,
           Items(r) = {p \in Items(m) : p[1] # k}
    PROVE  StoreOf(r) = [StoreOf(m) EXCEPT ![k] = None]
<1>1. ASSUME NEW j \in Key
      PROVE  StoreOf(r)[j] = IF j = k THEN None ELSE StoreOf(m)[j]
  <2>1. \/ \A p \in Items(m) : p[1] # j
        \/ <<j, StoreOf(m)[j]>> \in Items(m)
    BY StoreCases
  <2>2. CASE j = k
    <3>1. \A p \in Items(r) : p[1] # j
      BY <2>2
    <3> QED BY <2>2, <3>1, StoreFacts
  <2>3. CASE j # k /\ \A p \in Items(m) : p[1] # j
    <3>1. \A p \in Items(r) : p[1] # j
      BY <2>3
    <3> QED BY <2>3, <3>1, StoreFacts
  <2>4. CASE j # k /\ <<j, StoreOf(m)[j]>> \in Items(m)
    <3>1. <<j, StoreOf(m)[j]>> \in Items(r)
      BY <2>4
    <3> QED BY <2>4, <3>1, StoreFacts
  <2> QED BY <2>1, <2>2, <2>3, <2>4
<1>2. /\ StoreOf(r) = [j \in Key |-> StoreOf(r)[j]]
      /\ StoreOf(m) = [j \in Key |-> StoreOf(m)[j]]
  BY StoreFacts
<1> QED BY <1>1, <1>2


(***************************************************************************)
(* The keys in order                                                       *)
(***************************************************************************)

Lower(key, N, j) == {a \in 1..N : key[a] < key[j]}

(* Different numbers have different ranks, and every rank is had.          *)
LEMMA Ranks ==
    ASSUME NEW N \in Nat, NEW key \in [1..N -> Nat],
           \A a, b \in 1..N : key[a] = key[b] => a = b
    PROVE  /\ \A j \in 1..N : Cardinality(Lower(key, N, j)) \in Nat
           /\ \A i \in 1..N : \E j \in 1..N : Cardinality(Lower(key, N, j)) + 1 = i
           /\ \A a, b \in 1..N : key[a] < key[b] =>
                 Cardinality(Lower(key, N, a)) < Cardinality(Lower(key, N, b))
<1> DEFINE L(j) == Lower(key, N, j)
           R == [j \in 1..N |-> Cardinality(L(j)) + 1]
<1>1. IsFiniteSet(1..N) /\ Cardinality(1..N) = N
  <2>1. N \in Int /\ 1 \in Int /\ (IF 1 > N THEN 0 ELSE N - 1 + 1) = N
    OBVIOUS
  <2>2. IsFiniteSet(1..N) /\ Cardinality(1..N) = IF 1 > N THEN 0 ELSE N - 1 + 1
    BY <2>1, FS_Interval, Zenon
  <2> QED BY <2>1, <2>2
<1>2. \A j \in 1..N : /\ IsFiniteSet(L(j)) /\ Cardinality(L(j)) \in Nat /\ Cardinality(L(j)) < N
                      /\ L(j) \subseteq 1..N
  <2> TAKE j \in 1..N
  <2>1. L(j) \in SUBSET (1..N) /\ j \notin L(j) /\ L(j) # 1..N
    BY DEF Lower
  <2> HIDE DEF L
  <2>2. IsFiniteSet(L(j)) /\ Cardinality(L(j)) <= N /\ Cardinality(L(j)) # N
    BY <1>1, <2>1, FS_Subset
  <2>3. Cardinality(L(j)) \in Nat
    BY <2>2, FS_CardinalityType
  <2> QED BY <2>1, <2>2, <2>3
<1>3. \A a, b \in 1..N : key[a] < key[b] => Cardinality(L(a)) < Cardinality(L(b))
  <2> SUFFICES ASSUME NEW a \in 1..N, NEW b \in 1..N, key[a] < key[b]
               PROVE  Cardinality(L(a)) < Cardinality(L(b))
    BY Zenon
  <2>1. key[a] \in Nat /\ key[b] \in Nat /\ \A x \in 1..N : key[x] \in Nat
    OBVIOUS
  <2>2. a \in L(b) /\ a \notin L(a) /\ L(a) \in SUBSET L(b)
    BY <2>1 DEF Lower
  <2> HIDE DEF L
  <2>3. Cardinality(L(a)) <= Cardinality(L(b)) /\ Cardinality(L(a)) # Cardinality(L(b))
    BY <1>2, <2>2, FS_Subset
  <2> QED BY <1>2, <2>3
<1>4. R \in [1..N -> 1..N]
  <2> HIDE DEF L
  <2>1. \A j \in 1..N : Cardinality(L(j)) + 1 \in 1..N
    BY <1>2
  <2> QED BY <2>1
<1>5. \A a, b \in 1..N : R[a] = R[b] => a = b
  <2> SUFFICES ASSUME NEW a \in 1..N, NEW b \in 1..N, R[a] = R[b]
               PROVE  a = b
    BY Zenon
  <2> HIDE DEF L
  <2>1. Cardinality(L(a)) = Cardinality(L(b))
    BY <1>2
  <2>2. ~(key[a] < key[b]) /\ ~(key[b] < key[a])
    BY <1>2, <1>3, <2>1
  <2>3. key[a] = key[b]
    BY <2>2
  <2> QED BY <2>3
<1> HIDE DEF R
<1>6. R \in Injection(1..N, 1..N)
  BY <1>4, <1>5, Fun_IsInj
<1>7. R \in Surjection(1..N, 1..N)
  BY <1>1, <1>6, FS_Injection
<1>8. \A i \in 1..N : \E j \in 1..N : R[j] = i
  BY <1>7 DEF Surjection
<1> HIDE DEF L
<1>9. \A i \in 1..N : \E j \in 1..N : Cardinality(L(j)) + 1 = i
  BY <1>8 DEF R
<1> QED BY <1>2, <1>3, <1>9 DEF L

(* The qsort of __mapKeys: as many keys as nodes, each once, in order.     *)
LEMMA SortedFacts ==
    ASSUME NEW nodes \in Seq(Node), Distinct(nodes)
    PROVE  LET keys == {nodes[i].key : i \in DOMAIN nodes}
           IN  /\ Cardinality(keys) = Len(nodes)
               /\ SortedKeys(nodes) \in [1..Len(nodes) -> keys]
               /\ \A i, j \in 1..Len(nodes) : i < j => SortedKeys(nodes)[i] < SortedKeys(nodes)[j]
<1> DEFINE N == Len(nodes)
           keys == {nodes[i].key : i \in DOMAIN nodes}
           key == [i \in 1..N |-> nodes[i].key]
           p(i) == CHOOSE j \in 1..N : Cardinality(Lower(key, N, j)) + 1 = i
           sorted == SortedKeys(nodes)
<1>1. N \in Nat /\ DOMAIN nodes = 1..N /\ \A i \in 1..N : nodes[i].key \in Nat
  <2>1. N \in Nat /\ DOMAIN nodes = 1..N /\ \A i \in 1..N : nodes[i] \in Node
    OBVIOUS
  <2> QED BY <2>1, KeysOK DEF Node
<1>2. /\ key \in [1..N -> Nat] /\ \A a, b \in 1..N : key[a] = key[b] => a = b
      /\ \A i \in 1..N : key[i] = nodes[i].key
      /\ \A a, b \in 1..N : nodes[a].key = nodes[b].key => a = b
  BY <1>1 DEF Distinct
<1>3. Cardinality(keys) = N
  <2>1. IsFiniteSet(1..N) /\ Cardinality(1..N) = N
    <3>1. N \in Int /\ 1 \in Int /\ (IF 1 > N THEN 0 ELSE N - 1 + 1) = N
      BY <1>1
    <3>2. IsFiniteSet(1..N) /\ Cardinality(1..N) = IF 1 > N THEN 0 ELSE N - 1 + 1
      BY <3>1, FS_Interval, Zenon
    <3> QED BY <3>1, <3>2
  <2>2. key \in [1..N -> keys] /\ \A t \in keys : \E i \in 1..N : key[i] = t
    BY <1>1
  <2> HIDE DEF key, keys
  <2>3. key \in Injection(1..N, keys)
    BY <1>2, <2>2, Fun_IsInj
  <2>4. key \in Surjection(1..N, keys)
    BY <2>2, Fun_IsSurj
  <2>5. Cardinality(keys) = Cardinality(1..N)
    BY <2>1, <2>3, <2>4, FS_Surjection
  <2> QED BY <2>1, <2>5
<1>4. sorted = [i \in 1..N |-> nodes[p(i)].key]
  <2> DEFINE Ahead(j) == {a \in DOMAIN nodes :
                            \/ nodes[a].key < nodes[j].key
                            \/ nodes[a].key = nodes[j].key /\ a < j}
  <2>1. \A j \in 1..N : Ahead(j) = Lower(key, N, j)
    BY <1>1, <1>2 DEF Lower
  <2>2. \A j \in 1..N : Cardinality(Lower(key, N, j)) \in Nat
    <3>1. key \in [1..N -> Nat] /\ \A a, b \in 1..N : key[a] = key[b] => a = b
      BY <1>2
    <3> HIDE DEF key, N
    <3> QED BY <1>1, <3>1, Ranks
  <2> DEFINE q(i) == CHOOSE j \in 1..N : Cardinality(Ahead(j)) = i - 1
  <2>3. \A i \in 1..N : q(i) = p(i)
    <3> HIDE DEF Ahead, key, N
    <3> TAKE i \in 1..N
    <3>1. \A j \in 1..N : Cardinality(Ahead(j)) = i - 1 <=> Cardinality(Lower(key, N, j)) + 1 = i
      <4> TAKE j \in 1..N
      <4> DEFINE x == Cardinality(Lower(key, N, j))
      <4>1. x \in Nat /\ i \in Int /\ Cardinality(Ahead(j)) = x
        BY <1>1, <2>1, <2>2
      <4> HIDE DEF x
      <4>2. x = i - 1 <=> x + 1 = i
        BY <4>1
      <4> QED BY <4>1, <4>2 DEF x
    <3> QED BY <3>1, Zenon
  <2>4. sorted = [i \in 1..N |-> nodes[q(i)].key]
    BY <1>1 DEF SortedKeys
  <2> HIDE DEF Ahead, p, q, key, N, sorted
  <2> QED BY <2>3, <2>4
<1> DEFINE rank(j) == Cardinality(Lower(key, N, j))
<1>5. \A i \in 1..N : p(i) \in 1..N /\ rank(p(i)) + 1 = i
  <2> HIDE DEF key, N
  <2>1. \A i \in 1..N : \E j \in 1..N : Cardinality(Lower(key, N, j)) + 1 = i
    BY <1>1, <1>2, Ranks
  <2> QED BY <2>1, Zenon
<1>6. /\ \A a, b \in 1..N : key[a] < key[b] => rank(a) < rank(b)
      /\ \A j \in 1..N : rank(j) \in Nat
  <2> HIDE DEF key, N
  <2> QED BY <1>1, <1>2, Ranks
<1> HIDE DEF p, rank, key
<1>7. sorted \in [1..N -> keys]
  <2>1. \A i \in 1..N : nodes[p(i)].key \in keys
    BY <1>1, <1>5
  <2> HIDE DEF keys, sorted, N
  <2> QED BY <1>4, <2>1
<1>8. \A i, j \in 1..N : i < j => sorted[i] < sorted[j]
  <2> SUFFICES ASSUME NEW i \in 1..N, NEW j \in 1..N, i < j
               PROVE  sorted[i] < sorted[j]
    BY Zenon
  <2> DEFINE a == p(i)
             b == p(j)
  <2>1. a \in 1..N /\ b \in 1..N /\ rank(a) + 1 = i /\ rank(b) + 1 = j
    BY <1>5
  <2> HIDE DEF a, b
  <2>2. rank(a) \in Nat /\ rank(b) \in Nat /\ key[a] \in Nat /\ key[b] \in Nat
    BY <1>2, <1>6, <2>1
  <2>3. ~(key[b] < key[a])
    <3>1. key[b] < key[a] => rank(b) < rank(a)
      BY <1>6, <2>1
    <3> QED BY <1>1, <2>1, <2>2, <3>1
  <2>4. key[a] # key[b]
    <3>1. key[a] = key[b] => a = b
      BY <1>2, <2>1
    <3> QED BY <1>1, <2>1, <3>1
  <2>5. sorted[i] = key[a] /\ sorted[j] = key[b]
    <3> HIDE DEF sorted, N
    <3>1. sorted[i] = nodes[a].key /\ sorted[j] = nodes[b].key
      BY <1>4 DEF a, b
    <3> QED BY <1>2, <2>1, <3>1
  <2> QED BY <2>2, <2>3, <2>4, <2>5
<1> QED BY <1>3, <1>7, <1>8


(***************************************************************************)
(* The refinement                                                          *)
(***************************************************************************)

LEMMA KeysStep ==
    ASSUME SoundMap, MapKeys
    PROVE  Abstract!MapKeys
<1> DEFINE nodes == Nodes(Map)
           keys == {nodes[i].key : i \in DOMAIN nodes}
           sorted == SortedKeys(nodes)
           N == Len(nodes)
<1>1. Sound(Map)
  BY DEF SoundMap
<1>2. PICK c \in Sizes : GoodMap(Map, c)
  BY <1>1 DEF Sound
<1>3. nodes \in Seq(Node) /\ N \in Nat /\ DOMAIN nodes = 1..N /\ Distinct(nodes)
      /\ ToSet(nodes) = Held(Map)
  BY <1>2, NodesFacts
<1>4. /\ Cardinality(keys) = N /\ sorted \in [1..N -> keys]
      /\ \A i, j \in 1..N : i < j => sorted[i] < sorted[j]
  <2> HIDE DEF nodes
  <2> QED BY <1>3, SortedFacts
<1>5. Abstract!Present = keys
  <2>1. \A k \in Key : Store[k] # None <=> \E p \in Items(Map) : p[1] = k
    <3> TAKE k \in Key
    <3>1. \/ (\A p \in Items(Map) : p[1] # k) /\ Store[k] = None
          \/ <<k, Store[k]>> \in Items(Map) /\ Store[k] # None
      BY <1>1, StoreCases DEF Store
    <3>2. <<k, Store[k]>> \in Items(Map) => \E p \in Items(Map) : p[1] = k
      <4>1. <<k, Store[k]>>[1] = k
        OBVIOUS
      <4> QED BY <4>1, Zenon
    <3> QED BY <3>1, <3>2
  <2>2. \A k : (\E p \in Items(Map) : p[1] = k) <=> \E x \in Held(Map) : x.key = k
    <3> TAKE k
    <3>1. \A x : <<x.key, x.value>>[1] = x.key
      OBVIOUS
    <3> QED BY <3>1, Zenon DEF Items
  <2>3. \A k : k \in keys <=> \E x \in Held(Map) : x.key = k
    <3> HIDE DEF nodes
    <3> QED BY <1>3, Zenon DEF ToSet
  <2>4. \A x \in Held(Map) : x.key \in Key
    BY <1>2, HeldFacts
  <2> HIDE DEF keys
  <2>5. \A k : k \in Abstract!Present <=> k \in Key /\ Store[k] # None
    BY DEF Abstract!Present
  <2>6. \A k : k \in Abstract!Present <=> k \in keys
    BY <2>1, <2>2, <2>3, <2>4, <2>5
  <2> QED BY <2>6
<1>6. result' = sorted
  BY DEF MapKeys
<1>7. Abstract!InOrder(result')
  <2> HIDE DEF sorted, keys, N
  <2>1. DOMAIN sorted = 1..N
    BY <1>4
  <2> QED BY <1>4, <1>6, <2>1 DEF Abstract!InOrder
<1>8. UNCHANGED Store
  <2>1. Map' = Map
    BY StepFacts
  <2> QED BY <2>1 DEF Store
<1> HIDE DEF keys, sorted, N
<1>9. result' \in [1..Cardinality(Abstract!Present) -> Abstract!Present]
  BY <1>4, <1>5, <1>6
<1>10. Abstract!Cardinality(Abstract!Present) = Cardinality(Abstract!Present)
  BY Zenon DEF Abstract!Cardinality, Cardinality, Abstract!IsFiniteSet, IsFiniteSet
<1> QED BY <1>7, <1>8, <1>9, <1>10 DEF Abstract!MapKeys

(* Each call does to the store what the abstract one does.                 *)
LEMMA NextIsAbstract ==
    ASSUME SoundMap, [Next]_vars
    PROVE  [Abstract!Next]_(Abstract!vars)
<1>0. Sound(Map)
  BY DEF SoundMap
<1>1. ASSUME NEW k \in Key, MapGet(k)
      PROVE  Abstract!MapGet(k)
  <2>1. Map' = Map
    BY <1>1, StepFacts
  <2>2. UNCHANGED Store
    BY <2>1 DEF Store
  <2>3. \/ Find(Map, k) = 0 /\ Store[k] = None
        \/ /\ Find(Map, k) # 0
           /\ Store[k] = Map.buckets[MapHash(k, Count(Map))].nodes[Find(Map, k)].value
    BY <1>0, StoreCases DEF Store
  <2>4. Map.buckets = buckets
    BY DEF Map
  <2>5. result' = <<Store[k]>>
    BY <1>1, <2>3, <2>4 DEF MapGet
  <2> QED BY <2>2, <2>5 DEF Abstract!MapGet
<1>2. ASSUME NEW k \in Key, MapRemove(k)
      PROVE  Abstract!MapRemove(k)
  <2>1. Map' = Removed(Map, k)
    BY <1>2, StepFacts
  <2>2. StoreOf(Removed(Map, k)) = [StoreOf(Map) EXCEPT ![k] = None]
    BY <1>0, RemovedFacts, FewerItems
  <2>3. Store' = [Store EXCEPT ![k] = None]
    BY <2>1, <2>2 DEF Store
  <2> QED BY <1>2, <2>3 DEF MapRemove, Abstract!MapRemove
<1>3. ASSUME NEW k \in Key, NEW v \in Value, MapInsert(k, v)
      PROVE  Abstract!MapInsert(k, v)
  <2>1. Map' = Inserted(Map, k, v)
    BY <1>3, StepFacts
  <2>2. CASE Find(Map, k) = 0
    <3>1. Store[k] = None
      BY <1>0, <2>2, StoreCases DEF Store
    <3>2. StoreOf(Inserted(Map, k, v)) = [StoreOf(Map) EXCEPT ![k] = v]
      BY <1>0, <2>2, InsertedFacts, MoreItems
    <3>3. Store' = [Store EXCEPT ![k] = v]
      BY <2>1, <3>2 DEF Store
    <3> QED BY <1>3, <2>2, <3>1, <3>3 DEF MapInsert, Abstract!MapInsert
  <2>3. CASE Find(Map, k) # 0
    <3>1. Store[k] # None
      BY <1>0, <2>3, StoreCases DEF Store
    <3>2. Inserted(Map, k, v) = Map
      BY <1>0, <2>3, InsertedFacts
    <3>3. UNCHANGED Store
      BY <2>1, <3>2 DEF Store
    <3> QED BY <1>3, <2>3, <3>1, <3>3 DEF MapInsert, Abstract!MapInsert
  <2> QED BY <2>2, <2>3
<1>4. CASE MapKeys
  BY <1>4, KeysStep DEF Abstract!Next
<1>5. CASE MapClone
  <2>1. Map' = Cloned(Map)
    BY <1>5, StepFacts
  <2>2. StoreOf(Cloned(Map)) = StoreOf(Map)
    BY <1>0, ClonedFacts, SameItems
  <2>3. UNCHANGED Store
    BY <2>1, <2>2 DEF Store
  <2>4. Abstract!MapClone
    BY <1>5, <2>3 DEF MapClone, Abstract!MapClone
  <2> QED BY <2>4 DEF Abstract!Next
<1>6. CASE UNCHANGED vars
  <2>1. UNCHANGED <<Store, result>>
    BY <1>6, StepFacts DEF Store, vars
  <2> QED BY <2>1 DEF Abstract!vars
<1>7. ASSUME NEW k \in Key, MapGet(k) \/ MapRemove(k) \/ \E v \in Value : MapInsert(k, v)
      PROVE  Abstract!Next
  BY <1>1, <1>2, <1>3, <1>7 DEF Abstract!Next
<1> QED BY <1>4, <1>5, <1>6, <1>7 DEF Next

(* The buckets implement the map of KeyValueMap: whatever they look like,  *)
(* a look-up, an insertion, a removal, the list of the keys and a clone    *)
(* answer as those of a function from keys to the items first inserted.    *)
THEOREM ImplementsKeyValueMap == Spec => IsKeyValueMap
<1>1. ASSUME Init
      PROVE  Abstract!Init
  <2>1. Map = EmptyMap(8)
    BY <1>1 DEF Init, Map, EmptyMap
  <2>2. \A k \in Key : StoreOf(EmptyMap(8))[k] = None
    BY EmptyMapSound, StoreFacts
  <2>3. StoreOf(EmptyMap(8)) = [k \in Key |-> StoreOf(EmptyMap(8))[k]]
    BY EmptyMapSound, StoreFacts
  <2>4. Store = [k \in Key |-> None]
    BY <2>1, <2>2, <2>3 DEF Store
  <2> QED BY <1>1, <2>4 DEF Init, Abstract!Init
<1> QED BY <1>1, NextIsAbstract, StaysSound, PTL DEF Spec, IsKeyValueMap, Abstract!Spec


=============================================================================
