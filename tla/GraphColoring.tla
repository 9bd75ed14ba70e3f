--------------------------- MODULE GraphColoring ---------------------------
(***************************************************************************)
(* graphColor (graphColoring.c): the greedy colouring by saturation that   *)
(* frame layout rests on.  Nodes without a colour sit in buckets Q[i][d],  *)
(* i being how many colours their neighbours have taken and d how many     *)
(* neighbours are still to colour; `s` is the highest i in use.  Each turn *)
(* takes a node out of the fullest bucket of level s, gives it the first   *)
(* colour none of its neighbours has, and moves its neighbours up.         *)
(*                                                                         *)
(* Abstractions.  Which node of a bucket comes last in its list depends on *)
(* addresses: any may be taken.  The colours of a node's neighbours are    *)
(* kept in the order they came in, repeated ones included, not sorted.     *)
(***************************************************************************)
EXTENDS Integers, Sequences, FiniteSets, FiniteSetsExt, Functions

CONSTANTS Node, Edges   \* the nodes, and the edges a graph may have

ASSUME GraphAssumption ==
    IsFiniteSet(Node) /\ Node # {} /\ Edges \subseteq Node \X Node

VARIABLES
    adj,            \* [Node -> SUBSET Node]
    color,          \* [Node -> Int]
    adjColors,      \* [Node -> Seq(Nat)]: colours neighbours have taken
    adjUncolored,   \* [Node -> SUBSET Node]
    Q,              \* the buckets
    s               \* the highest level in use, -1 when all are empty

vars == <<adj, color, adjColors, adjUncolored, Q, s>>

Uncolored == -1
Level == 0..(Cardinality(Node) - 1)

(* adj(): neighbours by edges in and out, the node itself left out         *)
AdjOf(edges) ==
    [n \in Node |-> {m \in Node \ {n} : <<n, m>> \in edges \/ <<m, n>> \in edges}]

Bucket(u) == <<Len(adjColors[u]), Cardinality(adjUncolored[u])>>

(* the first colour that none of the neighbours of v has                   *)
BugCount(v) ==                  \* mutant: one more than there are colours
    Cardinality(Range(adjColors[v])) + 1
BugZero(v) ==                   \* mutant: counted from zero
    Min((0..Len(adjColors[v])) \ Range(adjColors[v]))
BugNew(v) ==                    \* mutant: above all colours, gaps unused
    Max(Range(adjColors[v]) \cup {0}) + 1
FirstFree(v) ==
    Min((1..(Len(adjColors[v]) + 1)) \ Range(adjColors[v]))

(* the first of the longest lists of level i                               *)
MaxIndex(i) ==
    CHOOSE d \in Level :
        /\ \A e \in Level : Cardinality(Q[i][e]) <= Cardinality(Q[i][d])
        /\ \A e \in 0..(d - 1) : Cardinality(Q[i][e]) < Cardinality(Q[i][d])

Init ==
    /\ \E edges \in SUBSET Edges : adj = AdjOf(edges)
    /\ color = [n \in Node |-> Uncolored]
    /\ adjColors = [n \in Node |-> <<>>]
    /\ adjUncolored = adj
    /\ Q = [i \in Level |-> [d \in Level |->
              IF i = 0 THEN {n \in Node : Cardinality(adj[n]) = d} ELSE {}]]
    /\ s = 0

(* the highest level up to `top` that has a node                           *)
BugSettle(top) ==               \* mutant: an `if` where the `while` is
    IF \E d \in Level : Q'[top][d] # {} THEN top ELSE top - 1
Settle(top) ==
    LET used == {i \in 0..top : \E d \in Level : Q'[i][d] # {}}
    IN  IF used = {} THEN -1 ELSE Max(used)

(* the neighbours of v leave their buckets for those they now belong to    *)
BugMoved(v) ==                  \* mutant: they stay in the old ones as well
    [i \in Level |-> [d \in Level |->
        (Q[i][d] \ {v}) \cup {u \in adjUncolored[v] : Bucket(u)' = <<i, d>>}]]
BugLost(v) ==                   \* mutant: taken out with v, never put back
    [i \in Level |-> [d \in Level |->
        Q[i][d] \ {u \in adjUncolored[v] \cup {v} : Bucket(u) = <<i, d>>}]]
Moved(v) ==
    [i \in Level |-> [d \in Level |->
        (Q[i][d] \ {u \in adjUncolored[v] \cup {v} : Bucket(u) = <<i, d>>})
          \cup {u \in adjUncolored[v] : Bucket(u)' = <<i, d>>}]]

(* one turn of the loop                                                    *)
ColorNode ==
    /\ s >= 0
    /\ \E v \in Q[s][MaxIndex(s)] :
          /\ color' = [color EXCEPT ![v] = FirstFree(v)]
          /\ adjColors' = [u \in Node |->
                IF u \in adjUncolored[v] THEN Append(adjColors[u], FirstFree(v))
                ELSE adjColors[u]]
          /\ adjUncolored' = [u \in Node |->
                IF u \in adjUncolored[v] THEN adjUncolored[u] \ {v}
                ELSE adjUncolored[u]]
          /\ Q' = Moved(v)
          /\ s' = Settle(Max({s} \cup {Bucket(u)'[1] : u \in adjUncolored[v]}))
    /\ UNCHANGED adj

Next == ColorNode

Spec == Init /\ [][Next]_vars
FairSpec == Spec /\ WF_vars(Next)
-----------------------------------------------------------------------------
(* Properties                                                              *)

(* Every variable holds a value of its kind; `s` is a level of Q, and a    *)
(* colour counts from 1 and there are no more of them than nodes.          *)
TypeOK ==
    /\ adj \in [Node -> SUBSET Node]
    /\ color \in [Node -> (1..Cardinality(Node)) \cup {Uncolored}]
    /\ adjColors \in [Node -> Seq(Nat)]
    /\ adjUncolored \in [Node -> SUBSET Node]
    /\ Q \in [Level -> [Level -> SUBSET Node]]
    /\ s \in Level \cup {-1}

(* graphColoring.c 133-141: two neighbours never have the same colour.     *)
Proper ==
    \A u \in Node : \A w \in adj[u] :
        color[u] # Uncolored => color[u] # color[w]

(* graphColoring.c 143-161: the lists kept of a node's neighbours are      *)
(* right until the node is coloured, however often it has moved between    *)
(* buckets, and every node without a colour is in one bucket, the one it   *)
(* is looked for in.                                                       *)
BucketsRight ==
    /\ \A u \in Node : color[u] = Uncolored =>
          /\ adjUncolored[u] = {w \in adj[u] : color[w] = Uncolored}
          /\ Len(adjColors[u]) = Cardinality(adj[u] \ adjUncolored[u])
    /\ \A i, d \in Level :
          Q[i][d] = {u \in Node : color[u] = Uncolored /\ Bucket(u) = <<i, d>>}

(* A node needs no more colours than it has neighbours, and one; when no   *)
(* bucket is left every node has one.                                      *)
FewColors == \A u \in Node : color[u] <= Cardinality(adj[u]) + 1
AllColored == s = -1 => \A u \in Node : color[u] # Uncolored

(* The search for the highest level in use comes to an end.                *)
Ends == <>[](s = -1)

(* Every graph of numbers as nodes                                         *)
EveryPair == {e \in Node \X Node : e[1] < e[2]}
=============================================================================
