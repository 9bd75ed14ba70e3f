--------------------------- MODULE Interference ----------------------------
(***************************************************************************)
(* IRInterferenceGraphFilter (IRLiveness.c): which values of an expression *)
(* must be kept at the same time, found by a walk with a stack.  The nodes *)
(* are numbered in the order the walk finishes them, operands first, and   *)
(* first[n] is where the operands of n begin, so that first[n]..(n - 1)    *)
(* are the nodes below n.  Visit is the body of the recursive function     *)
(* from the return of its last operand to its own return.                  *)
(*                                                                         *)
(* Abstractions.  One expression is walked at a time, and no edge joins    *)
(* two of them, so one is modelled.  Reference counts are left out.  A     *)
(* node stands for an operation, a variable, or an operation together with *)
(* the variable that takes its result; `tracked` holds those with a        *)
(* variable that passes the filter and occurs once in the function.        *)
(***************************************************************************)
EXTENDS Integers, Sequences, FiniteSets, Functions

CONSTANT N      \* the nodes of the expression

ASSUME NAssumption == N \in Nat \ {0}

Node == 1..N

VARIABLES
    first,      \* [Node -> Node]: the expression
    tracked,    \* nodes with a variable of this walk
    at,         \* the next node to finish; N + 1 when the walk is over
    stack,      \* of tracked nodes
    size,       \* size[k]: the length of the stack when k was finished
    edges,      \* pairs that interfere, each a set of two nodes
    liveIn      \* the variables read at a node, its IR_ATTR_BASIC_BLOCK

walk == <<tracked, at, stack, size, edges, liveIn>>

(* what lies below a node that is itself below n is below n                *)
Trees ==
    {f \in [Node -> Node] :
        /\ \A n \in Node : f[n] <= n
        /\ \A n \in Node : \A m \in f[n]..n : f[n] <= f[m]
        /\ f[N] = 1}

PairsOf(S) == {p \in SUBSET S : \E v, w \in S : v # w /\ p = {v, w}}

InitWalk ==
    /\ tracked = {}
    /\ at = N + 1
    /\ stack = <<>>
    /\ size = [k \in 0..N |-> 0]
    /\ edges = {}
    /\ liveIn = [n \in Node |-> {}]

(* a walk over the variables of the nodes T begins                         *)
StartWalk(T) ==
    /\ tracked' = T
    /\ at' = 1
    /\ stack' = <<>>
    /\ size' = [k \in 0..N |-> 0]
    /\ edges' = {}
    /\ liveIn' = [n \in Node |-> {}]

(* the stack once n is finished: a variable takes the place of all that    *)
(* its operands have left there                                            *)
BugAfter(n) ==                  \* mutant: the operands stay
    IF n \in tracked THEN Append(stack, n) ELSE stack
BugAfterAll(n) ==               \* mutant: operations are put there, too
    Append(SubSeq(stack, 1, size[first[n] - 1]), n)
After(n) ==
    IF n \in tracked THEN Append(SubSeq(stack, 1, size[first[n] - 1]), n)
    ELSE stack

Visit ==
    /\ at <= N
    /\ stack' = After(at)
    /\ size' = [size EXCEPT ![at] = Len(After(at))]
    /\ edges' = edges \cup PairsOf(Range(stack)) \cup PairsOf(Range(After(at)))
    /\ liveIn' = [liveIn EXCEPT ![at] = Range(stack)]
    /\ at' = at + 1
    /\ UNCHANGED <<first, tracked>>
-----------------------------------------------------------------------------
(* Properties                                                              *)

Below(f, v, n) == f[n] <= v /\ v < n

(* Of the values of T in the expression f, those that are still to be read when k is finished: *)
(* computed, and not yet taken by a value computed from them.              *)
Held(f, T, k) ==
    {v \in T : v <= k /\ ~\E w \in T : w <= k /\ Below(f, v, w)}

(* IRLiveness.c 87-114: two values interfere exactly when some node is     *)
(* reached at which both are still to be read.                             *)
LivePairsInterfere ==
    \A v, w \in Node : v # w =>
        ({v, w} \in edges
           <=> \E k \in 1..(at - 1) : {v, w} \subseteq Held(first, tracked, k))
=============================================================================
