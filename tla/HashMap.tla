------------------------------ MODULE HashMap ------------------------------
(***************************************************************************)
(* hashTable.c: a chained hash map whose buckets are the sorted, doubly    *)
(* linked lists of linkedList.c.  A bucket is the sequence of its nodes    *)
(* and the place of the node it points to, which is the last one inserted  *)
(* and need not be the first.  The map grows and shrinks by four with the  *)
(* ratio of filled to empty buckets.                                       *)
(*                                                                         *)
(* Keys are numbered in the order of strcmp.  The hash of a string is a    *)
(* polynomial of its characters, reduced by the number of buckets: Code is *)
(* the polynomial.                                                         *)
(***************************************************************************)
EXTENDS Integers, Sequences, SequencesExt, FiniteSetsExt

CONSTANTS
    Key,        \* keys, a set of numbers
    Code,       \* [Key -> Nat]
    Value,
    None

ASSUME KeysOK == Key \subseteq Nat /\ Code \in [Key -> Nat]
ASSUME NoneIsApart == None \notin Value

VARIABLES
    buckets,        \* [0..n-1 -> bucket]
    bucketSizes,    \* [0..n-1 -> Nat]
    result          \* what the last call returned

vars == <<buckets, bucketSizes, result>>

MapHash(k, count) == Code[k] % count

Node == [key : Key, hash : Nat, value : Value]
MapNode(k, v, count) == [key |-> k, hash |-> MapHash(k, count), value |-> v]
EmptyBucket == [nodes |-> <<>>, at |-> 0]
Bucket == [nodes : Seq(Node), at : Nat]

(* __mapBucketInsertPred and __mapBucketGetPred                            *)
Before(a, b) == a.hash < b.hash \/ (a.hash = b.hash /\ a.key < b.key)
Same(a, b) == a.hash = b.hash /\ a.key = b.key

(* __llInsert walks from a node towards the new one's place and stops at   *)
(* the first node beyond it, or at the end; the place is the number of     *)
(* nodes before the new one.                                               *)
BugPlace(nodes, from, new) ==   \* mutant: the walk back stops one too soon
    IF from = 0 THEN 0 ELSE
    IF Before(new, nodes[from]) THEN from - 1
    ELSE LET ahead == {i \in from..Len(nodes) : ~Before(nodes[i], new)}
         IN  IF ahead = {} THEN Len(nodes) ELSE Min(ahead) - 1
PlaceFor(nodes, from, new) ==
    IF from = 0 THEN 0 ELSE
    IF Before(new, nodes[from])
    THEN Max({i \in 1..(from - 1) : ~Before(new, nodes[i])} \cup {0})
    ELSE LET ahead == {i \in from..Len(nodes) : ~Before(nodes[i], new)}
         IN  IF ahead = {} THEN Len(nodes) ELSE Min(ahead) - 1

LLInsert(bucket, from, new) ==
    LET p == PlaceFor(bucket.nodes, from, new)
    IN  [nodes |-> InsertAt(bucket.nodes, p + 1, new), at |-> p + 1]

(* __llFindRight, from the first node: stops at a node beyond the key.     *)
LLFindRight(nodes, x) ==
    LET at == {i \in DOMAIN nodes :
                  /\ Same(x, nodes[i])
                  /\ \A j \in 2..(i - 1) : ~Before(x, nodes[j])}
    IN  IF at = {} THEN 0 ELSE Min(at)

(* __llRemoveNode returns the node before the removed one, else the next.  *)
LLRemove(bucket, i) ==
    [nodes |-> RemoveAt(bucket.nodes, i),
     at |-> IF i > 1 THEN i - 1 ELSE Min({1, Len(bucket.nodes) - 1})]

-----------------------------------------------------------------------------
(* A map is its buckets and their sizes.                                   *)

Count(map) == Cardinality(DOMAIN map.buckets)
EmptyMap(count) == [buckets |-> [b \in 0..(count - 1) |-> EmptyBucket],
                    sizes |-> [b \in 0..(count - 1) |-> 0]]

PutNode(map, b, from, node) ==
    [buckets |-> [map.buckets EXCEPT ![b] = LLInsert(@, from, node)],
     sizes |-> [map.sizes EXCEPT ![b] = @ + 1]]

(* __mapCalculateLoad is 0 if no bucket is empty.                          *)
Filled(map) == Cardinality({b \in DOMAIN map.buckets : map.buckets[b].nodes # <<>>})
Unfilled(map) == Count(map) - Filled(map)

TooFull(map) == Unfilled(map) # 0 /\ 2 * Filled(map) > 7 * Unfilled(map)
TooEmpty(map) == Unfilled(map) = 0 \/ 10 * Filled(map) < Unfilled(map)

(* the nodes of bucket 0, then those of bucket 1...                        *)
Nodes(map) ==
    LET upTo[n \in 0..Count(map)] ==
            IF n = 0 THEN <<>> ELSE upTo[n - 1] \o map.buckets[n - 1].nodes
    IN  upTo[Count(map)]

(* __mapRehash: every node gets the hash of the new size and is inserted,  *)
(* from wherever its bucket points.                                        *)
BugRehashed(node, count) == node    \* mutant: the hash of the old size stays
Rehashed(node, count) == [node EXCEPT !.hash = MapHash(node.key, count)]

Moved(map, node, count) ==
    LET new == Rehashed(node, count)
        b == new.hash % count
    IN  PutNode(map, b, map.buckets[b].at, new)

Rehash(map, count) ==
    LET nodes == Nodes(map)
        moved[i \in 0..Len(nodes)] ==
            IF i = 0 THEN EmptyMap(count) ELSE Moved(moved[i - 1], nodes[i], count)
    IN  moved[Len(nodes)]

BugBalanced(map) ==     \* mutant: a map may shrink to less than eight buckets
    IF TooFull(map) THEN Rehash(map, 4 * Count(map))
    ELSE IF TooEmpty(map) THEN Rehash(map, Max({Count(map) \div 4, 1}))
    ELSE map
Balanced(map) ==
    IF TooFull(map) THEN Rehash(map, 4 * Count(map))
    ELSE IF TooEmpty(map) THEN Rehash(map, Max({Count(map) \div 4, 8}))
    ELSE map

Find(map, k) ==
    LET h == MapHash(k, Count(map))
    IN  LLFindRight(map.buckets[h].nodes, [key |-> k, hash |-> h])

Inserted(map, k, v) ==
    LET node == MapNode(k, v, Count(map))
    IN  IF Find(map, k) # 0 THEN map
        ELSE Balanced(PutNode(map, node.hash, Min({1, map.sizes[node.hash]}), node))

(* __mapRemove                                                             *)
BugSizes(sizes, b) == sizes     \* mutant: the size is not counted down
SizesWithout(sizes, b) == [sizes EXCEPT ![b] = @ - 1]

Removed(map, k) ==
    LET h == MapHash(k, Count(map))
    IN  IF Find(map, k) = 0 THEN map
        ELSE Balanced([buckets |-> [map.buckets EXCEPT ![h] = LLRemove(@, Find(map, k))],
                       sizes |-> SizesWithout(map.sizes, h)])

Cloned(map) ==
    LET nodes == Nodes(map)
        copy[i \in 0..Len(nodes)] ==
            IF i = 0 THEN EmptyMap(8)
            ELSE Inserted(copy[i - 1], nodes[i].key, nodes[i].value)
    IN  copy[Len(nodes)]

-----------------------------------------------------------------------------

Map == [buckets |-> buckets, sizes |-> bucketSizes]
Becomes(map) == buckets' = map.buckets /\ bucketSizes' = map.sizes

Init ==
    /\ buckets = EmptyMap(8).buckets
    /\ bucketSizes = EmptyMap(8).sizes
    /\ result = <<>>

MapGet(k) ==
    /\ result' = IF Find(Map, k) = 0 THEN <<None>>
                 ELSE <<buckets[MapHash(k, Count(Map))].nodes[Find(Map, k)].value>>
    /\ UNCHANGED <<buckets, bucketSizes>>

MapInsert(k, v) ==
    /\ Becomes(Inserted(Map, k, v))
    /\ result' = IF Find(Map, k) # 0 THEN <<-1>> ELSE <<0>>

MapRemove(k) ==
    /\ Becomes(Removed(Map, k))
    /\ result' = <<>>

(* the qsort of __mapKeys: the i-th key is the one with i - 1 before it    *)
SortedKeys(nodes) ==
    LET Ahead(j) == {a \in DOMAIN nodes :
                        \/ nodes[a].key < nodes[j].key
                        \/ nodes[a].key = nodes[j].key /\ a < j}
    IN  [i \in DOMAIN nodes |->
            nodes[CHOOSE j \in DOMAIN nodes : Cardinality(Ahead(j)) = i - 1].key]

(* __mapKeys: the counted keys, sorted                                     *)
MapKeys ==
    /\ result' = SortedKeys(Nodes(Map))
    /\ UNCHANGED <<buckets, bucketSizes>>

(* __mapClone; the caller goes on with the clone                           *)
MapClone ==
    /\ Becomes(Cloned(Map))
    /\ result' = <<>>

Next ==
    \/ \E k \in Key : MapGet(k) \/ MapRemove(k) \/ \E v \in Value : MapInsert(k, v)
    \/ MapKeys
    \/ MapClone

Spec == Init /\ [][Next]_vars

-----------------------------------------------------------------------------
(* Properties                                                              *)

Table == DOMAIN buckets

(* Every bucket is a list sorted by strcmp, of nodes whose hash is the     *)
(* bucket's number.                                                        *)
TypeOK ==
    /\ Table = 0..(Cardinality(Table) - 1)
    /\ \A b \in Table :
          LET nodes == buckets[b].nodes IN
          /\ \A i \in DOMAIN nodes : nodes[i] \in Node /\ nodes[i].hash = b
          /\ \A i, j \in DOMAIN nodes : i < j => Before(nodes[i], nodes[j])
          /\ buckets[b].at \in IF nodes = <<>> THEN {0} ELSE DOMAIN nodes

(* __mapKeys, "assert(inserted == computedCount)", and the arrays that     *)
(* __mapRehash sizes by bucketSizes: the sizes are those of the lists.     *)
SizesCounted ==
    /\ DOMAIN bucketSizes = Table
    /\ \A b \in Table : bucketSizes[b] = Len(buckets[b].nodes)

(* __mapCalculateLoad answers 0, "shrink", for a map with no empty bucket: *)
(* through every growth and shrinking there is always one.                 *)
NeverFull == \E b \in Table : buckets[b].nodes = <<>>

(* The user of a map sees a function from keys to items, whatever its      *)
(* buckets look like.                                                      *)
Held(map) == UNION {ToSet(map.buckets[b].nodes) : b \in DOMAIN map.buckets}
StoreOf(map) ==
    LET held == Held(map)
    IN  [k \in Key |-> IF \E x \in held : x.key = k
                      THEN (CHOOSE x \in held : x.key = k).value
                      ELSE None]
Store == StoreOf(Map)

Abstract == INSTANCE KeyValueMap WITH store <- Store
IsKeyValueMap == Abstract!Spec
=============================================================================
