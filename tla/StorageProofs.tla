--------------------------- MODULE StorageProofs ----------------------------
(* Proofs about Interference and Storage, for every expression, set of     *)
(* registers and colouring: the walk, the registers, then the frame: its   *)
(* types, the slots that variables share and the places these are given.   *)
EXTENDS Storage, NumberFacts, FiniteSetTheorems, TLAPS

(***************************************************************************)
(* The walk.  What a stack was long when a node still to be finished began *)
(* tells which of its members are from before that node (Prefixes): that   *)
(* is why truncating it forgets the operands and nothing else.             *)
(***************************************************************************)

(* k is the last node finished before the operands of a node to come       *)
Begun(k) == \E n \in Node : n >= at /\ first[n] = k + 1

Prefixes ==
    \A k \in 0..(at - 1) : Begun(k) =>
        /\ size[k] <= Len(stack)
        /\ \A i \in 1..Len(stack) : i <= size[k] <=> stack[i] <= k

WalkInv ==
    /\ first \in Trees
    /\ tracked \in SUBSET Node
    /\ at \in 1..(N + 1)
    /\ stack \in Seq(Node)
    /\ size \in [0..N -> Nat]
    /\ liveIn \in [Node -> SUBSET Node]
    /\ \A n \in Node : n < at => liveIn[n] = Held(first, tracked, n - 1)
    /\ Range(stack) = Held(first, tracked, at - 1)
    /\ Len(stack) = size[at - 1]
    /\ Prefixes
    /\ LivePairsInterfere

LEMMA InitWalkInv ==
    ASSUME InitWalk, first \in Trees
    PROVE  WalkInv
<1>0. N \in Nat /\ N >= 1
  BY NAssumption
<1>1. /\ tracked = {} /\ at = N + 1 /\ stack = <<>> /\ edges = {}
      /\ size = [k \in 0..N |-> 0] /\ liveIn = [n \in Node |-> {}]
  BY DEF InitWalk
<1>2. \A k : Held(first, tracked, k) = {}
  BY <1>1 DEF Held
<1>3. Range(stack) = {}
  BY <1>1 DEF Range
<1>4. stack \in Seq(Node) /\ Len(stack) = 0
  BY <1>1
<1>5. size \in [0..N -> Nat] /\ size[at - 1] = 0
  BY <1>0, <1>1
<1>6. Prefixes
  BY <1>0, <1>1 DEF Prefixes, Begun, Node
<1>7. LivePairsInterfere
  BY <1>1, <1>2 DEF LivePairsInterfere
<1> QED BY <1>0, <1>1, <1>2, <1>3, <1>4, <1>5, <1>6, <1>7 DEF WalkInv

LEMMA StartWalkInv ==
    ASSUME NEW T \in SUBSET Node, StartWalk(T), first' = first, first \in Trees
    PROVE  WalkInv'
<1>0. N \in Nat /\ N >= 1
  BY NAssumption
<1>1. /\ tracked' = T /\ at' = 1 /\ stack' = <<>> /\ edges' = {}
      /\ size' = [k \in 0..N |-> 0] /\ liveIn' = [n \in Node |-> {}]
  BY DEF StartWalk
<1>2. Held(first, tracked, at - 1)' = {}
  BY <1>0, <1>1 DEF Held, Node
<1>3. Range(stack)' = {}
  BY <1>1 DEF Range
<1>4. stack' \in Seq(Node) /\ Len(stack') = 0
  BY <1>1
<1>5. size' \in [0..N -> Nat] /\ size'[at' - 1] = 0
  BY <1>0, <1>1
<1>6. Prefixes'
  <2>1. \A k \in 0..0 : size'[k] <= Len(stack') /\ 1..Len(stack') = {}
    BY <1>0, <1>1, <1>4
  <2> QED BY <1>1, <2>1 DEF Prefixes
<1>7. LivePairsInterfere'
  BY <1>1 DEF LivePairsInterfere
<1>8. \A n \in Node : ~ (n < at')
  BY <1>0, <1>1 DEF Node
<1> QED BY <1>0, <1>1, <1>2, <1>3, <1>4, <1>5, <1>6, <1>7, <1>8 DEF WalkInv

(* what the stack holds once the node at `at` is finished                  *)
LEMMA AfterFacts ==
    ASSUME WalkInv, at <= N
    PROVE  /\ After(at) \in Seq(Node)
           /\ Range(After(at)) = Held(first, tracked, at)
           /\ at \notin tracked => After(at) = stack
           /\ at \in tracked =>
                 /\ size[first[at] - 1] \in 0..Len(stack)
                 /\ Len(After(at)) = size[first[at] - 1] + 1
                 /\ \A i \in 1..size[first[at] - 1] : After(at)[i] = stack[i]
                 /\ After(at)[Len(After(at))] = at
                 /\ \A i \in 1..Len(stack) :
                       i <= size[first[at] - 1] <=> stack[i] < first[at]
<1> DEFINE n == at
           p == size[first[n] - 1]
<1>0. /\ N \in Nat /\ n \in Node /\ first \in [Node -> Node] /\ first[n] <= n
      /\ tracked \in SUBSET Node /\ stack \in Seq(Node)
      /\ size \in [0..N -> Nat] /\ Len(stack) \in Nat
      /\ Range(stack) = Held(first, tracked, n - 1)
  BY NAssumption DEF WalkInv, Trees, Node
<1>a. /\ n \in Int /\ first[n] \in Int /\ 1 <= first[n] /\ first[n] <= n /\ n <= N
      /\ \A v \in Node : v \in Int /\ 1 <= v
      /\ \A v \in Node : first[v] \in Int
      /\ \A v \in tracked : v \in Int
  <2>1. \A v \in Node : v \in Int /\ 1 <= v /\ v <= N
    BY <1>0 DEF Node
  <2>2. \A v \in Node : first[v] \in Node
    BY <1>0
  <2> QED BY <1>0, <2>1, <2>2
<1>1. CASE n \notin tracked
  <2>1. After(n) = stack
    BY <1>1 DEF After
  <2>2. \A v \in tracked : v <= n <=> v <= n - 1
    BY <1>a, <1>1
  <2>3. Held(first, tracked, n) = Held(first, tracked, n - 1)
    BY <2>2 DEF Held
  <2> QED BY <1>0, <1>1, <2>1, <2>3
<1>2. CASE n \in tracked
  <2>0. first[n] - 1 \in 0..(n - 1) /\ p \in Nat
    <3>1. first[n] - 1 \in 0..(n - 1) /\ first[n] - 1 \in 0..N
      BY <1>0, <1>a
    <3> QED BY <1>0, <3>1
  <2>1. /\ p <= Len(stack)
        /\ \A i \in 1..Len(stack) : i <= p <=> stack[i] <= first[n] - 1
    <3>1. Begun(first[n] - 1)
      BY <1>0 DEF Begun, Node
    <3> QED BY <2>0, <3>1 DEF WalkInv, Prefixes
  <2>2. After(n) = Append(SubSeq(stack, 1, p), n)
    BY <1>2 DEF After
  <2> DEFINE s == SubSeq(stack, 1, p)
  <2>3. /\ s \in Seq(Node) /\ Len(s) = p
        /\ \A i \in 1..p : s[i] = stack[i]
    BY <1>0, <2>0, <2>1
  <2>4. /\ After(n) \in Seq(Node) /\ Len(After(n)) = p + 1
        /\ \A i \in 1..p : After(n)[i] = stack[i]
        /\ After(n)[p + 1] = n
    <3> HIDE DEF s
    <3>1. After(n) = Append(s, n)
      BY <2>2 DEF s
    <3> HIDE DEF n, p
    <3> QED BY <1>0, <2>0, <2>3, <3>1
  <2>5. Range(After(n)) = {stack[i] : i \in 1..p} \cup {n}
    <3>1. DOMAIN After(n) = 1..(p + 1)
      BY <2>4
    <3>2. 1..(p + 1) = 1..p \cup {p + 1}
      BY <2>0
    <3>3. Range(After(n)) = {After(n)[i] : i \in 1..(p + 1)}
      BY <3>1 DEF Range
    <3> QED BY <2>4, <3>2, <3>3
  <2>6. {stack[i] : i \in 1..p} = {v \in Held(first, tracked, n - 1) : v < first[n]}
    <3>0. /\ \A i \in 1..Len(stack) : stack[i] \in Node
          /\ Held(first, tracked, n - 1) = {stack[i] : i \in 1..Len(stack)}
      BY <1>0 DEF Range
    <3>1. \A i \in 1..Len(stack) : i <= p <=> stack[i] < first[n]
      <4>1. \A x, y \in Int : x <= y - 1 <=> x < y
        OBVIOUS
      <4>2. \A i \in 1..Len(stack) : stack[i] \in Int
        BY <1>a, <3>0
      <4> QED BY <1>a, <2>1, <4>1, <4>2
    <3>2. \A i \in 1..p : i \in 1..Len(stack)
      BY <1>0, <2>0, <2>1
    <3>3. ASSUME NEW v
          PROVE  v \in {stack[i] : i \in 1..p}
                   <=> v \in Held(first, tracked, n - 1) /\ v < first[n]
      <4>1. v \in {stack[i] : i \in 1..p}
              => v \in Held(first, tracked, n - 1) /\ v < first[n]
        BY <3>0, <3>1, <3>2, <2>0, <1>0
      <4>2. ASSUME v \in Held(first, tracked, n - 1), v < first[n]
            PROVE  v \in {stack[i] : i \in 1..p}
        <5>1. PICK i \in 1..Len(stack) : stack[i] = v
          BY <3>0, <4>2
        <5>2. i \in 1..p
          BY <1>0, <2>0, <3>1, <4>2, <5>1
        <5> QED BY <5>1, <5>2
      <4> QED BY <4>1, <4>2
    <3> QED BY <3>3
  <2>7. Held(first, tracked, n) = {v \in Held(first, tracked, n - 1) : v < first[n]} \cup {n}
    <3>1. ASSUME NEW v \in Node
          PROVE  v \in Held(first, tracked, n)
                   <=> v = n \/ (v \in Held(first, tracked, n - 1) /\ v < first[n])
      <4>1. v \in Int /\ (v <= n <=> v = n \/ v <= n - 1)
        BY <1>a
      <4>2. \A w \in tracked : w \in Int /\ (w <= n <=> w = n \/ w <= n - 1)
        BY <1>a
      <4>3. v \in Held(first, tracked, n) <=>
              /\ v \in tracked /\ v <= n
              /\ ~ Below(first, v, n)
              /\ ~ \E w \in tracked : w <= n - 1 /\ Below(first, v, w)
        BY <1>2, <4>2, <1>a DEF Held
      <4>4. Below(first, v, n) <=> first[n] <= v /\ v < n
        BY DEF Below
      <4>5. v = n => ~ \E w \in tracked : w <= n - 1 /\ Below(first, v, w)
        BY <1>a DEF Below
      <4>6. v \in Held(first, tracked, n - 1) <=>
              /\ v \in tracked /\ v <= n - 1
              /\ ~ \E w \in tracked : w <= n - 1 /\ Below(first, v, w)
        BY DEF Held
      <4>7. v < first[n] => v <= n - 1
        BY <1>a
      <4>8. v <= n - 1 => (~ (first[n] <= v /\ v < n) <=> v < first[n])
        BY <1>a
      <4>9. v = n => ~ (v < n) /\ v <= n
        BY <1>a
      <4> QED BY <1>2, <4>1, <4>3, <4>4, <4>5, <4>6, <4>7, <4>8, <4>9
    <3>2. Held(first, tracked, n) \subseteq Node /\ Held(first, tracked, n - 1) \subseteq Node
      BY <1>0 DEF Held
    <3> QED BY <1>0, <3>1, <3>2
  <2>8. \A i \in 1..Len(stack) : i <= p <=> stack[i] < first[n]
    <3>0. \A i \in 1..Len(stack) : stack[i] \in Node
      BY <1>0
    <3>1. \A i \in 1..Len(stack) : stack[i] \in Int
      BY <1>a, <3>0
    <3>2. \A x, y \in Int : x <= y - 1 <=> x < y
      OBVIOUS
    <3> QED BY <1>a, <2>1, <3>1, <3>2
  <2> QED BY <1>2, <2>0, <2>1, <2>4, <2>5, <2>6, <2>7, <2>8
<1> QED BY <1>1, <1>2

(* two different nodes are a pair of S when both are in it                 *)
LEMMA PairsFacts ==
    ASSUME NEW S, NEW v, NEW w, v # w
    PROVE  {v, w} \in PairsOf(S) <=> v \in S /\ w \in S
<1>1. {v, w} \in PairsOf(S) => v \in S /\ w \in S
  BY Zenon DEF PairsOf
<1>2. ASSUME v \in S, w \in S
      PROVE  {v, w} \in PairsOf(S)
  <2>1. {v, w} \in SUBSET S
    BY <1>2, Zenon
  <2> QED BY <1>2, <2>1, Zenon DEF PairsOf
<1> QED BY <1>1, <1>2

LEMMA VisitInv ==
    ASSUME WalkInv, Visit
    PROVE  WalkInv'
<1>0. /\ N \in Nat /\ at \in Int /\ 1 <= at /\ at <= N /\ at \in Node
      /\ at' = at + 1 /\ first' = first /\ tracked' = tracked
      /\ stack' = After(at)
      /\ size' = [size EXCEPT ![at] = Len(After(at))]
      /\ edges' = edges \cup PairsOf(Range(stack)) \cup PairsOf(Range(After(at)))
      /\ liveIn' = [liveIn EXCEPT ![at] = Range(stack)]
      /\ tracked \subseteq Node /\ stack \in Seq(Node)
      /\ size \in [0..N -> Nat] /\ liveIn \in [Node -> SUBSET Node]
  BY NAssumption DEF WalkInv, Visit, Node
<1>1. /\ stack' \in Seq(Node) /\ Len(stack') \in Nat
      /\ Range(stack') = Held(first, tracked, at)
  BY <1>0, AfterFacts
<1>2. at' \in 1..(N + 1) /\ at' - 1 = at
  BY <1>0
<1>3. size' \in [0..N -> Nat] /\ size'[at] = Len(stack')
      /\ \A k \in 0..(at - 1) : size'[k] = size[k]
  <2>1. at \in 0..N /\ \A k \in 0..(at - 1) : k \in 0..N /\ k # at
    BY <1>0
  <2> QED BY <1>0, <1>1, <2>1
<1>5. Held(first, tracked, at - 1)' = Held(first, tracked, at)
  BY <1>0, <1>2 DEF Held, Below
<1>6. liveIn' \in [Node -> SUBSET Node]
      /\ \A n \in Node : n < at' => liveIn'[n] = Held(first, tracked, n - 1)'
  <2>1. Range(stack) = Held(first, tracked, at - 1) /\ Range(stack) \subseteq Node
    BY <1>0 DEF WalkInv, Range
  <2>2. liveIn' \in [Node -> SUBSET Node]
    BY <1>0, <2>1
  <2>3. ASSUME NEW n \in Node, n < at'
        PROVE  liveIn'[n] = Held(first, tracked, n - 1)
    <3>1. n = at \/ n < at
      BY <1>0, <2>3 DEF Node
    <3>2. CASE n = at
      BY <1>0, <2>1, <3>2
    <3>3. CASE n < at /\ n # at
      BY <1>0, <3>3 DEF WalkInv
    <3> QED BY <1>0, <3>1, <3>2, <3>3
  <2> QED BY <1>0, <2>2, <2>3 DEF Held, Below
<1>7. Prefixes'
  <2> SUFFICES ASSUME NEW k \in 0..at, NEW m \in Node,
                      m >= at + 1, first[m] = k + 1
               PROVE  /\ size'[k] <= Len(stack')
                      /\ \A i \in 1..Len(stack') : i <= size'[k] <=> stack'[i] <= k
    BY <1>0, <1>2 DEF Prefixes, Begun
  <2>0. k \in Int /\ m \in Int
    BY DEF Node
  <2>1. CASE k = at
    <3>1. \A i \in 1..Len(stack') : stack'[i] \in Held(first, tracked, at)
      BY <1>1 DEF Range
    <3>2. \A i \in 1..Len(stack') : stack'[i] <= at
      BY <3>1 DEF Held
    <3> QED BY <1>1, <1>3, <2>1, <3>2
  <2>2. CASE k \in 0..(at - 1)
    <3>0. size'[k] = size[k] /\ size[k] \in Nat
      <4>1. k \in 0..N
        BY <1>0, <2>2
      <4> QED BY <1>0, <1>3, <2>2, <4>1
    <3>1. Begun(k)
      BY <1>0, <2>0 DEF Begun
    <3>2. /\ size[k] <= Len(stack)
          /\ \A i \in 1..Len(stack) : i <= size[k] <=> stack[i] <= k
      BY <2>2, <3>1 DEF WalkInv, Prefixes
    <3>3. CASE at \notin tracked
      BY <1>0, <3>0, <3>2, <3>3, AfterFacts
    <3>4. CASE at \in tracked
      <4> DEFINE p == size[first[at] - 1]
      <4>1. /\ p \in 0..Len(stack) /\ Len(stack') = p + 1
            /\ \A i \in 1..p : stack'[i] = stack[i]
            /\ stack'[p + 1] = at
            /\ \A i \in 1..Len(stack) : i <= p <=> stack[i] < first[at]
        BY <1>0, <3>4, AfterFacts
      <4>2. first[m] <= first[at] /\ first[at] \in Int
        <5>1. at \in first[m]..m
          BY <1>0, <2>0, <2>2
        <5>2. \A n \in first[m]..m : first[m] <= first[n]
          BY DEF WalkInv, Trees
        <5>3. first[at] \in Node
          BY <1>0 DEF WalkInv, Trees
        <5> QED BY <5>1, <5>2, <5>3 DEF Node
      <4>3. \A i \in 1..Len(stack) : stack[i] \in Int
        <5>1. \A i \in 1..Len(stack) : stack[i] \in Node
          BY <1>0
        <5>2. \A n \in Node : n \in Int
          BY DEF Node
        <5> QED BY <5>1, <5>2
      <4>4. Len(stack) \in Nat
        BY <1>0
      <4> HIDE DEF p
      <4>5. size[k] <= p
        <5>1. CASE size[k] = 0
          BY <4>1, <5>1
        <5>2. CASE size[k] >= 1
          <6>1. size[k] \in 1..Len(stack)
            BY <3>0, <3>2, <4>4, <5>2
          <6>2. stack[size[k]] <= k
            BY <3>2, <6>1, <3>0
          <6>3. stack[size[k]] < first[at]
            BY <2>0, <4>2, <4>3, <6>1, <6>2
          <6> QED BY <4>1, <6>1, <6>3
        <5> QED BY <3>0, <5>1, <5>2
      <4>6. ASSUME NEW i \in 1..Len(stack')
            PROVE  i <= size[k] <=> stack'[i] <= k
        <5>1. CASE i = p + 1
          BY <1>0, <2>0, <2>2, <3>0, <4>1, <4>4, <4>5, <5>1
        <5>2. CASE i \in 1..p
          <6>1. i \in 1..Len(stack)
            BY <4>1, <4>4, <5>2
          <6> QED BY <3>2, <4>1, <5>2, <6>1
        <5> QED BY <4>1, <4>4, <5>1, <5>2
      <4> QED BY <3>0, <4>1, <4>4, <4>5, <4>6
    <3> QED BY <3>3, <3>4
  <2> QED BY <1>0, <2>0, <2>1, <2>2
<1>8. ASSUME NEW v \in Node, NEW w \in Node, v # w
      PROVE  {v, w} \in edges'
               <=> \E k \in 1..at : {v, w} \subseteq Held(first, tracked, k)
  <2>1. {v, w} \in edges
          <=> \E k \in 1..(at - 1) : {v, w} \subseteq Held(first, tracked, k)
    BY <1>8 DEF WalkInv, LivePairsInterfere
  <2>2. {v, w} \in PairsOf(Range(stack)) <=> {v, w} \subseteq Held(first, tracked, at - 1)
    BY <1>8, PairsFacts DEF WalkInv
  <2>3. {v, w} \in PairsOf(Range(After(at))) <=> {v, w} \subseteq Held(first, tracked, at)
    BY <1>0, <1>1, <1>8, PairsFacts
  <2>4. at = 1 => Held(first, tracked, at - 1) = {}
    <3>1. \A n \in tracked : n \in Int /\ 1 <= n
      BY <1>0 DEF Node
    <3>2. at = 1 => \A n \in tracked : ~ (n <= at - 1)
      BY <3>1
    <3> QED BY <3>2 DEF Held
  <2>5. at # 1 => at - 1 \in 1..(at - 1)
    BY <1>0
  <2>6. \A k : k \in 1..at <=> k \in 1..(at - 1) \/ k = at
    BY <1>0
  <2> HIDE DEF Held
  <2>7. {v, w} \in edges'
          <=> \/ {v, w} \in edges
              \/ {v, w} \in PairsOf(Range(stack))
              \/ {v, w} \in PairsOf(Range(After(at)))
    BY <1>0, Zenon
  <2> QED BY <2>1, <2>2, <2>3, <2>4, <2>5, <2>6, <2>7, Zenon
<1>9. LivePairsInterfere'
  <2>1. at' - 1 = at /\ first' = first /\ tracked' = tracked
    BY <1>0, <1>2
  <2>2. \A v, w \in Node : v # w =>
          ({v, w} \in edges'
             <=> \E k \in 1..(at' - 1) : {v, w} \subseteq Held(first', tracked', k))
    <3> SUFFICES ASSUME NEW v \in Node, NEW w \in Node, v # w
                 PROVE  {v, w} \in edges'
                          <=> \E k \in 1..at : {v, w} \subseteq Held(first, tracked, k)
      BY <2>1
    <3> QED BY <1>8
  <2> QED BY <2>2, Zenon DEF LivePairsInterfere
<1> QED BY <1>0, <1>1, <1>2, <1>3, <1>5, <1>6, <1>7, <1>9 DEF WalkInv
-----------------------------------------------------------------------------
(***************************************************************************)
(* Registers.  The conflicts of a node stay away once it was scanned, as a *)
(* register is only ever taken from a node after that; when all have been  *)
(* scanned, what the walk found of the pairs says that none clash.         *)
(***************************************************************************)

RegInv ==
    /\ reg \in [Node -> RegFile \cup {NoReg}]
    /\ scanned \subseteq Node

PhaseInv ==
    /\ phase \in {"regs", "spill", "abi"} => tracked = Values
    /\ phase = "spill" => at = N + 1
    /\ phase \in {"start", "regs"} => scanned = {}

ScannedClean == phase = "spill" => \A n \in scanned : Clean(n)

IInv ==
    /\ WalkInv
    /\ RegInv
    /\ PhaseInv
    /\ ScannedClean
    /\ NoRegisterClash
    /\ CallsKeepLive

(* the register of a node overlaps with none that has no byte              *)
LEMMA NoRegClean == \A r : ~ Overlap(NoReg, r) /\ ~ Overlap(r, NoReg)
BY DEF Overlap, NoReg

LEMMA InitIInv == Init => IInv
<1> SUFFICES ASSUME Init PROVE IInv
  OBVIOUS
<1>1. first \in Trees
  BY ExprAssumption DEF Init
<1>2. WalkInv
  BY <1>1, InitWalkInv DEF Init
<1>3. RegInv /\ PhaseInv /\ ScannedClean /\ NoRegisterClash /\ CallsKeepLive
  BY DEF Init, RegInv, PhaseInv, ScannedClean, NoRegisterClash, CallsKeepLive
<1> QED BY <1>2, <1>3 DEF IInv

(* what the walk says once it is over                                      *)
LEMMA WalkOver ==
    ASSUME WalkInv, at = N + 1, NEW v \in Node, NEW w \in Node, v # w,
           \E k \in Node : {v, w} \subseteq Held(first, tracked, k)
    PROVE  w \in Adj(v)
<1>1. 1..(at - 1) = Node
  BY NAssumption DEF Node
<1>2. {v, w} \in edges
  BY <1>1, Zenon DEF WalkInv, LivePairsInterfere
<1> QED BY <1>2, Zenon DEF Adj

LEMMA WalkKept ==
    ASSUME WalkInv, UNCHANGED first, UNCHANGED walk
    PROVE  WalkInv'
<1>1. UNCHANGED <<first, tracked, at, stack, size, liveIn, edges>>
  BY DEF walk
<1>2. Prefixes'
  BY <1>1 DEF WalkInv, Prefixes, Begun
<1>3. LivePairsInterfere'
  BY <1>1 DEF WalkInv, LivePairsInterfere
<1> QED BY <1>1, <1>2, <1>3 DEF WalkInv

LEMMA SpillIInv ==
    ASSUME IInv, Spill
    PROVE  IInv'
<1>1. PICK n, m : reg' = [reg EXCEPT ![Spilled(n, m)] = NoReg]
  BY DEF Spill
<1>2. /\ UNCHANGED <<first, kind, type, walk, phase, scanned, saved>> /\ phase = "spill"
  BY DEF Spill, expression
<1>3. reg' \in [Node -> RegFile \cup {NoReg}]
  BY <1>1 DEF IInv, RegInv
<1>4. \A k \in Node : reg'[k] \in {reg[k], NoReg}
  BY <1>1 DEF IInv, RegInv
<1>5. WalkInv'
  BY <1>2, WalkKept DEF IInv
<1>6. ASSUME NEW k \in scanned, NEW j, j \in Adj(k)
      PROVE  ~ Overlap(reg'[k], reg'[j])
  <2>1. ~ Overlap(reg[k], reg[j])
    BY <1>2, <1>6 DEF IInv, ScannedClean, Clean
  <2>2. k \in Node /\ j \in Node
    BY <1>6 DEF IInv, RegInv, Adj
  <2> QED BY <1>4, <2>1, <2>2, NoRegClean, Zenon
<1>7. ScannedClean'
  <2>1. \A k : Adj(k)' = Adj(k)
    BY <1>2 DEF Adj, walk
  <2> QED BY <1>2, <1>6, <2>1 DEF ScannedClean, Clean
<1>8. (RegInv /\ PhaseInv)'
  BY <1>2, <1>3 DEF IInv, RegInv, PhaseInv, walk, Values
<1>9. (NoRegisterClash /\ CallsKeepLive)'
  BY <1>2 DEF NoRegisterClash, CallsKeepLive
<1> QED BY <1>5, <1>7, <1>8, <1>9 DEF IInv

LEMMA StartABIIInv ==
    ASSUME IInv, StartABI
    PROVE  IInv'
<1>1. /\ phase = "spill" /\ phase' = "abi" /\ tracked \subseteq scanned
      /\ StartWalk(Values) /\ UNCHANGED <<first, kind, type, reg, scanned, saved>>
  BY DEF StartABI, expression
<1>2. WalkInv'
  <2>1. Values \in SUBSET Node
    BY DEF Values
  <2>2. first' = first /\ first \in Trees
    BY <1>1 DEF IInv, WalkInv
  <2> QED BY <1>1, <2>1, <2>2, StartWalkInv
<1>3. ASSUME NEW v \in Values, NEW w \in Values, v # w,
             \E k \in Node : {v, w} \subseteq Held(first, Values, k)
      PROVE  reg[v].whole # reg[w].whole \/ reg[v].bytes \cap reg[w].bytes = {}
  <2>1. v \in Node /\ w \in Node /\ tracked = Values /\ at = N + 1 /\ WalkInv
    BY <1>1 DEF Values, IInv, PhaseInv
  <2>2. \E k \in Node : {v, w} \subseteq Held(first, tracked, k)
    BY <1>3, <2>1
  <2>3. w \in Adj(v)
    BY <1>3, <2>1, <2>2, WalkOver
  <2>4. Clean(v)
    BY <1>1, <2>1 DEF IInv, ScannedClean
  <2> QED BY <2>3, <2>4 DEF Clean, Overlap
<1>4. NoRegisterClash'
  <2>1. Values' = Values /\ first' = first /\ reg' = reg
    BY <1>1 DEF Values
  <2>2. \A v, w \in Values' :
          v # w /\ (\E k \in Node : {v, w} \subseteq Held(first', Values', k)) =>
            reg'[v].whole # reg'[w].whole \/ reg'[v].bytes \cap reg'[w].bytes = {}
    BY <1>3, <2>1
  <2> QED BY <2>2, Zenon DEF NoRegisterClash
<1>5. (RegInv /\ PhaseInv /\ ScannedClean /\ CallsKeepLive)'
  BY <1>1 DEF IInv, RegInv, PhaseInv, ScannedClean, CallsKeepLive, StartWalk, Values
<1> QED BY <1>2, <1>4, <1>5 DEF IInv

(* a register of the live ones is in one that is pushed or preserved       *)
LEMMA PushedCovers ==
    ASSUME NEW L \in SUBSET RegFile, NEW q \in L
    PROVE  \E r \in Pushed(L) \cup Preserved : r.whole = q.whole /\ q.bytes \subseteq r.bytes
<1> DEFINE S == {r \in L \cup {Scratch} : r.whole = q.whole}
           big == Containing(S)
<1>1. S \in SUBSET RegFile /\ q \in S /\ \A a, b \in S : a.whole = b.whole
  BY RegAssumption
<1>2. \E r \in Holding(S) : \A a \in Holding(S) : r.bytes \subseteq a.bytes
  <2> HIDE DEF S
  <2> QED BY <1>1, RegAssumption
<1>3. big \in Holding(S)
  <2> HIDE DEF S
  <2> QED BY <1>2, Zenon DEF Containing
<1>4. big \in RegFile /\ q.whole = big.whole /\ q.bytes \subseteq big.bytes
  BY <1>1, <1>3 DEF Holding
<1>5. big \in Merged(L \cup {Scratch})
  BY <1>1 DEF Merged
<1> HIDE DEF big
<1>6. CASE \A p \in Preserved : ~ Overlap(big, p)
  BY <1>4, <1>5, <1>6 DEF Pushed
<1>7. CASE \E p \in Preserved : Overlap(big, p)
  <2>1. PICK p \in Preserved : big.whole = p.whole
    BY <1>7 DEF Overlap
  <2>2. big.bytes \subseteq p.bytes
    BY <1>4, <2>1, RegAssumption
  <2> QED BY <1>4, <2>1, <2>2
<1> QED BY <1>6, <1>7

LEMMA StartFrameIInv ==
    ASSUME IInv, StartFrame
    PROVE  IInv'
<1>1. /\ phase = "abi" /\ phase' = "frame" /\ at > N
      /\ saved' = [c \in Node |->
            IF kind[c] = "call" THEN Pushed({reg[v] : v \in liveIn[c] \cap InReg})
            ELSE {}]
      /\ StartWalk(Values \ InReg) /\ UNCHANGED <<first, kind, type, reg, scanned>>
  BY DEF StartFrame, expression
<1>2. WalkInv'
  <2>1. Values \ InReg \in SUBSET Node
    BY DEF Values
  <2>2. first' = first /\ first \in Trees
    BY <1>1 DEF IInv, WalkInv
  <2> QED BY <1>1, <2>1, <2>2, StartWalkInv
<1>3. NoRegisterClash'
  <2>1. Values' = Values /\ first' = first /\ reg' = reg
    BY <1>1 DEF Values
  <2>2. \A v, w \in Values :
          v # w /\ (\E k \in Node : {v, w} \subseteq Held(first, Values, k)) =>
            reg[v].whole # reg[w].whole \/ reg[v].bytes \cap reg[w].bytes = {}
    BY <1>1, Zenon DEF IInv, NoRegisterClash
  <2>3. \A v, w \in Values' :
          v # w /\ (\E k \in Node : {v, w} \subseteq Held(first', Values', k)) =>
            reg'[v].whole # reg'[w].whole \/ reg'[v].bytes \cap reg'[w].bytes = {}
    BY <2>1, <2>2
  <2> QED BY <2>3, Zenon DEF NoRegisterClash
<1>4. ASSUME NEW c \in Node, NEW v \in Node, kind[c] = "call", reg[v] # NoReg,
             v < first[c], v \in Held(first, Values, c)
      PROVE  \E r \in saved'[c] \cup Preserved :
                r.whole = reg[v].whole /\ reg[v].bytes \subseteq r.bytes
  <2> DEFINE L == {reg[u] : u \in liveIn[c] \cap InReg}
  <2>1. /\ c \in Int /\ v \in Int /\ first[c] \in Int /\ first[c] <= c /\ c < at
        /\ \A u \in Values : u \in Int
        /\ liveIn[c] = Held(first, Values, c - 1) /\ tracked = Values
    <3>1. first \in [Node -> Node] /\ first[c] <= c
      BY DEF IInv, WalkInv, Trees
    <3>2. c < at
      BY <1>1, NAssumption DEF Node, IInv, WalkInv
    <3>3. tracked = Values
      BY <1>1 DEF IInv, PhaseInv
    <3>4. liveIn[c] = Held(first, Values, c - 1)
      BY <3>2, <3>3 DEF IInv, WalkInv
    <3> QED BY <3>1, <3>2, <3>3, <3>4 DEF Node, Values
  <2>2. v \in liveIn[c]
    <3>1. v <= c - 1
      BY <1>4, <2>1
    <3>2. \A w \in Values : w <= c - 1 => w <= c
      BY <2>1
    <3> QED BY <1>4, <2>1, <3>1, <3>2 DEF Held
  <2>3. reg[v] \in L
    BY <1>4, <2>2 DEF InReg
  <2>4. L \in SUBSET RegFile
    BY DEF IInv, RegInv, InReg
  <2>5. saved'[c] = Pushed(L)
    BY <1>1, <1>4
  <2> HIDE DEF L
  <2> QED BY <2>3, <2>4, <2>5, PushedCovers
<1>5. CallsKeepLive'
  <2>1. Values' = Values
    BY <1>1 DEF Values
  <2> QED BY <1>1, <1>4, <2>1, Zenon DEF CallsKeepLive
<1>6. (RegInv /\ PhaseInv /\ ScannedClean)'
  BY <1>1 DEF IInv, RegInv, PhaseInv, ScannedClean
<1> QED BY <1>2, <1>3, <1>5, <1>6 DEF IInv

LEMMA NextIInv == IInv /\ [Next]_vars => IInv'
<1> SUFFICES ASSUME IInv, [Next]_vars PROVE IInv'
  OBVIOUS
<1> USE DEF expression, frame
<1>1. CASE Begin
  <2>1. /\ phase = "start" /\ phase' = "regs" /\ StartWalk(Values)
        /\ UNCHANGED <<first, kind, type, reg, scanned, saved>>
    BY <1>1 DEF Begin
  <2>2. WalkInv'
    <3>1. Values \in SUBSET Node
      BY DEF Values
    <3>2. first' = first /\ first \in Trees
      BY <2>1 DEF IInv, WalkInv
    <3> QED BY <2>1, <3>1, <3>2, StartWalkInv
  <2>3. (RegInv /\ PhaseInv /\ ScannedClean /\ NoRegisterClash /\ CallsKeepLive)'
    BY <2>1 DEF IInv, RegInv, PhaseInv, ScannedClean, NoRegisterClash, CallsKeepLive,
                StartWalk, Values
  <2> QED BY <2>2, <2>3 DEF IInv
<1>2. CASE Walk
  <2>1. /\ Visit /\ UNCHANGED <<first, kind, type, phase, reg, scanned, saved>>
    BY <1>2 DEF Walk, Visit
  <2>2. WalkInv'
    BY <2>1, VisitInv DEF IInv
  <2>3. phase # "spill" /\ tracked' = tracked
    BY <2>1, NAssumption DEF IInv, PhaseInv, Visit
  <2>4. (RegInv /\ PhaseInv /\ ScannedClean)'
    BY <2>1, <2>3 DEF IInv, RegInv, PhaseInv, ScannedClean, Values
  <2>5. (NoRegisterClash /\ CallsKeepLive)'
    BY <2>1 DEF IInv, NoRegisterClash, CallsKeepLive, Values
  <2> QED BY <2>2, <2>4, <2>5 DEF IInv
<1>3. CASE Choose
  <2>1. PICK r \in [Temps -> RegFile] :
          reg' = [n \in Node |-> IF n \in Temps THEN r[n] ELSE NoReg]
    BY <1>3 DEF Choose
  <2>2. /\ phase = "regs" /\ phase' = "spill" /\ at > N
        /\ UNCHANGED <<first, kind, type, walk, scanned, saved>>
    BY <1>3 DEF Choose
  <2>3. WalkInv'
    BY <2>2, WalkKept DEF IInv
  <2>4. reg' \in [Node -> RegFile \cup {NoReg}]
    BY <2>1
  <2>5. at = N + 1
    BY <2>2, NAssumption DEF IInv, WalkInv
  <2>6. (RegInv /\ PhaseInv /\ ScannedClean)'
    BY <2>2, <2>4, <2>5 DEF IInv, RegInv, PhaseInv, ScannedClean, Values, walk
  <2>7. (NoRegisterClash /\ CallsKeepLive)'
    BY <2>2 DEF NoRegisterClash, CallsKeepLive
  <2> QED BY <2>3, <2>6, <2>7 DEF IInv
<1>4. CASE Spill
  BY <1>4, SpillIInv
<1>5. CASE Scan
  <2>1. PICK n \in tracked \ scanned : Clean(n) /\ scanned' = scanned \cup {n}
    BY <1>5 DEF Scan
  <2>2. phase = "spill" /\ UNCHANGED <<first, kind, type, walk, phase, reg, saved>>
    BY <1>5 DEF Scan
  <2>3. WalkInv'
    BY <2>2, WalkKept DEF IInv
  <2>4. ScannedClean'
    BY <2>1, <2>2 DEF IInv, ScannedClean, Clean, Adj, walk
  <2>5. scanned' \subseteq Node
    BY <2>1 DEF IInv, RegInv, WalkInv
  <2>6. (RegInv /\ PhaseInv)'
    BY <2>2, <2>5 DEF IInv, RegInv, PhaseInv, Values, walk
  <2>7. (NoRegisterClash /\ CallsKeepLive)'
    BY <2>2 DEF NoRegisterClash, CallsKeepLive
  <2> QED BY <2>3, <2>4, <2>6, <2>7 DEF IInv
<1>6. CASE StartABI
  BY <1>6, StartABIIInv
<1>7. CASE StartFrame
  BY <1>7, StartFrameIInv
<1>8. CASE Layout \/ Pack \/ Finish \/ UNCHANGED vars
  <2>1. /\ UNCHANGED <<first, kind, type, walk, reg, scanned, saved>>
        /\ \/ phase = "frame" /\ phase' = "pack"
           \/ phase = "pack" /\ phase' = "pack"
           \/ phase = "pack" /\ phase' = "done"
           \/ phase' = phase
    BY <1>8 DEF Layout, Pack, Finish, vars
  <2>2. WalkInv'
    BY <2>1, WalkKept DEF IInv
  <2>3. (RegInv /\ PhaseInv)'
    BY <2>1 DEF IInv, RegInv, PhaseInv, Values, walk
  <2>4. ScannedClean'
    BY <2>1 DEF IInv, ScannedClean, Clean, Adj, walk
  <2>5. (NoRegisterClash /\ CallsKeepLive)'
    BY <2>1 DEF IInv, NoRegisterClash, CallsKeepLive, Values
  <2> QED BY <2>2, <2>3, <2>4, <2>5 DEF IInv
<1> QED BY <1>1, <1>2, <1>3, <1>4, <1>5, <1>6, <1>7, <1>8 DEF Next

(* IInv holds in every state, of whatever expression and registers.        *)
THEOREM StorageInvariant == Spec => []IInv
<1>1. Init => IInv
  BY InitIInv
<1>2. IInv /\ [Next]_vars => IInv'
  BY NextIInv
<1> QED BY <1>1, <1>2, PTL DEF Spec

(* Two values interfere exactly when some node is reached at which both    *)
(* are still to be read (IRLiveness.c 87-114), for every expression and    *)
(* every choice of the variables that are looked at.                       *)
THEOREM LivenessIsExact == Spec => []LivePairsInterfere
<1>1. IInv => LivePairsInterfere
  BY DEF IInv, WalkInv
<1> QED BY <1>1, StorageInvariant, PTL

(* Removing the conflicts leaves no two values that are needed together in *)
(* registers with a byte in common (regAllocator.c 530-545).               *)
THEOREM RegistersApart == Spec => []NoRegisterClash
<1>1. IInv => NoRegisterClash
  BY DEF IInv
<1> QED BY <1>1, StorageInvariant, PTL

(* What is in a register and read after a call is pushed by it or          *)
(* preserved by the function called (abi.c 134-184, 248-263).              *)
THEOREM CallsPreserve == Spec => []CallsKeepLive
<1>1. IInv => CallsKeepLive
  BY DEF IInv
<1> QED BY <1>1, StorageInvariant, PTL

-----------------------------------------------------------------------------
(***************************************************************************)
(* Types.  What IInv leaves out: a stack is never longer than the nodes    *)
(* finished, and a register has the size of its value.                     *)
(***************************************************************************)

Typed ==
    /\ \A n \in Node : type[n].size \in Nat /\ type[n].align \in Nat \ {0}
    /\ \A k \in 0..N : size[k] <= k
    /\ edges \subseteq PairsOf(Node)
    /\ phase \in {"start", "regs", "spill", "abi", "frame", "pack", "done"}
    /\ \A n \in Node : reg[n] # NoReg => n \in Temps /\ reg[n] \in RegsFor(type[n])
    /\ scanned \subseteq Values
    /\ saved \in [Node -> SUBSET RegFile]

LEMMA StartWalkTyped ==
    ASSUME NEW T, StartWalk(T)
    PROVE  (\A k \in 0..N : size[k] <= k)' /\ (edges \subseteq PairsOf(Node))'
<1>1. size' = [k \in 0..N |-> 0] /\ edges' = {}
  BY DEF StartWalk
<1>2. N \in Nat
  BY NAssumption
<1>3. \A k \in 0..N : size'[k] = 0 /\ 0 <= k
  BY <1>1, <1>2
<1>4. \A k \in 0..N : size'[k] <= k
  BY <1>3
<1> QED BY <1>1, <1>4

LEMMA VisitTyped ==
    ASSUME WalkInv, Visit, \A k \in 0..N : size[k] <= k, edges \subseteq PairsOf(Node)
    PROVE  (\A k \in 0..N : size[k] <= k)' /\ (edges \subseteq PairsOf(Node))'
<1>1. /\ at <= N /\ N \in Nat /\ at \in Node /\ first \in [Node -> Node] /\ first[at] <= at
      /\ size \in [0..N -> Nat] /\ stack \in Seq(Node) /\ Len(stack) = size[at - 1]
      /\ tracked \subseteq Node
  <2>1. at <= N /\ at \in 1..(N + 1) /\ N \in Nat
    BY NAssumption DEF Visit, WalkInv
  <2>2. at \in Node
    BY <2>1 DEF Node
  <2>3. first \in [Node -> Node] /\ first[at] <= at
    BY <2>2 DEF WalkInv, Trees
  <2>4. /\ size \in [0..N -> Nat] /\ stack \in Seq(Node) /\ Len(stack) = size[at - 1]
        /\ tracked \subseteq Node
    BY DEF WalkInv
  <2> QED BY <2>1, <2>2, <2>3, <2>4
<1>2. /\ After(at) \in Seq(Node)
      /\ at \notin tracked => After(at) = stack
      /\ at \in tracked => Len(After(at)) = size[first[at] - 1] + 1
  BY <1>1, AfterFacts
<1>3. Len(After(at)) <= at
  <2>1. /\ at \in 1..N /\ at - 1 \in 0..N /\ size[at - 1] \in Nat /\ size[at - 1] <= at - 1
        /\ first[at] - 1 \in 0..N /\ first[at] - 1 <= at - 1
        /\ size[first[at] - 1] <= first[at] - 1 /\ size[first[at] - 1] \in Nat
        /\ first[at] \in 1..N
    <3>1. at \in 1..N /\ first[at] \in 1..N
      BY <1>1 DEF Node
    <3> QED BY <1>1, <3>1
  <2>2. CASE at \in tracked
    BY <1>2, <2>1, <2>2
  <2>3. CASE at \notin tracked
    BY <1>1, <1>2, <2>1, <2>3
  <2> QED BY <2>2, <2>3
<1>4. size' = [size EXCEPT ![at] = Len(After(at))]
  BY DEF Visit
<1>5. \A k \in 0..N : size'[k] <= k
  BY <1>1, <1>3, <1>4
<1>6. edges' = edges \cup PairsOf(Range(stack)) \cup PairsOf(Range(After(at)))
  BY DEF Visit
<1>7. \A S : S \subseteq Node => PairsOf(S) \subseteq PairsOf(Node)
  BY Zenon DEF PairsOf
<1>8. Range(stack) \subseteq Node /\ Range(After(at)) \subseteq Node
  BY <1>1, <1>2 DEF Range
<1> QED BY <1>5, <1>6, <1>7, <1>8

LEMMA PushedRegs ==
    ASSUME NEW L \in SUBSET RegFile
    PROVE  Pushed(L) \subseteq RegFile
<1> DEFINE S(q) == {r \in L \cup {Scratch} : r.whole = q.whole}
<1>1. ASSUME NEW q \in L \cup {Scratch}
      PROVE  Containing(S(q)) \in RegFile
  <2> DEFINE T == S(q)
  <2>1. T \in SUBSET RegFile /\ T # {} /\ \A a, b \in T : a.whole = b.whole
    BY RegAssumption
  <2> HIDE DEF T
  <2>2. \E r \in Holding(T) : \A a \in Holding(T) : r.bytes \subseteq a.bytes
    BY <2>1, RegAssumption
  <2>3. Containing(T) \in Holding(T)
    BY <2>2, Zenon DEF Containing
  <2>4. Containing(T) \in RegFile
    BY <2>3 DEF Holding
  <2> QED BY <2>4 DEF T
<1>2. Merged(L \cup {Scratch}) \subseteq RegFile
  BY <1>1 DEF Merged
<1> QED BY <1>2 DEF Pushed

LEMMA InitTyped == Init => Typed
<1> SUFFICES ASSUME Init PROVE Typed
  OBVIOUS
<1>1. PICK e \in Exprs : first = e.first /\ kind = e.kind /\ type = e.type
  BY DEF Init
<1>2. \A n \in Node : type[n].size \in Nat /\ type[n].align \in Nat \ {0}
  BY <1>1, ExprAssumption
<1>3. size = [k \in 0..N |-> 0] /\ edges = {} /\ N \in Nat
  BY NAssumption DEF Init, InitWalk
<1>4. /\ phase = "start" /\ reg = [n \in Node |-> NoReg] /\ scanned = {}
      /\ saved = [n \in Node |-> {}]
  BY DEF Init
<1> QED BY <1>2, <1>3, <1>4 DEF Typed

LEMMA NextTyped ==
    ASSUME IInv, Typed, [Next]_vars
    PROVE  Typed'
<1> USE DEF expression, frame
<1> DEFINE Phases == {"start", "regs", "spill", "abi", "frame", "pack", "done"}
<1>0. /\ \A n \in Node : type[n].size \in Nat /\ type[n].align \in Nat \ {0}
      /\ \A k \in 0..N : size[k] <= k
      /\ edges \subseteq PairsOf(Node)
      /\ \A n \in Node : reg[n] # NoReg => n \in Temps /\ reg[n] \in RegsFor(type[n])
      /\ scanned \subseteq Values /\ saved \in [Node -> SUBSET RegFile]
      /\ phase \in Phases
  BY DEF Typed
<1>1. UNCHANGED <<kind, type>> => UNCHANGED <<Values, Temps>>
  BY DEF Values, Temps
<1>2. CASE Begin \/ StartABI
  <2>1. StartWalk(Values)
    BY <1>2 DEF Begin, StartABI
  <2>2. UNCHANGED <<kind, type, reg, scanned, saved>> /\ phase' \in Phases
    BY <1>2 DEF Begin, StartABI
  <2> QED BY <1>0, <1>1, <2>1, <2>2, StartWalkTyped DEF Typed
<1>3. CASE Walk
  <2>1. UNCHANGED <<kind, type, phase, reg, scanned, saved>> /\ Visit
    BY <1>3 DEF Walk
  <2>2. (\A k \in 0..N : size[k] <= k)' /\ (edges \subseteq PairsOf(Node))'
    BY <1>0, <2>1, VisitTyped DEF IInv
  <2> QED BY <1>0, <1>1, <2>1, <2>2 DEF Typed
<1>4. CASE Choose
  <2>1. PICK r \in [Temps -> RegFile] :
          /\ \A n \in Temps : r[n] \in RegsFor(type[n])
          /\ reg' = [n \in Node |-> IF n \in Temps THEN r[n] ELSE NoReg]
    BY <1>4 DEF Choose
  <2>2. UNCHANGED <<kind, type, walk, scanned, saved>> /\ phase' \in Phases
    BY <1>4 DEF Choose
  <2>3. \A n \in Node : reg'[n] # NoReg => n \in Temps /\ reg'[n] \in RegsFor(type[n])
    BY <2>1
  <2> QED BY <1>0, <1>1, <2>2, <2>3 DEF Typed, walk
<1>5. CASE Spill
  <2>1. PICK n, m : reg' = [reg EXCEPT ![Spilled(n, m)] = NoReg]
    BY <1>5 DEF Spill
  <2>2. UNCHANGED <<kind, type, walk, phase, scanned, saved>>
    BY <1>5 DEF Spill
  <2>3. \A k \in Node : reg'[k] \in {reg[k], NoReg}
    BY <2>1 DEF IInv, RegInv
  <2> QED BY <1>0, <1>1, <2>2, <2>3 DEF Typed, walk
<1>6. CASE Scan
  <2>1. PICK n \in tracked \ scanned : scanned' = scanned \cup {n}
    BY <1>6 DEF Scan
  <2>2. phase = "spill" /\ UNCHANGED <<kind, type, walk, phase, reg, saved>>
    BY <1>6 DEF Scan
  <2>3. scanned' \subseteq Values
    BY <1>0, <2>1, <2>2 DEF IInv, PhaseInv
  <2> QED BY <1>0, <1>1, <2>2, <2>3 DEF Typed, walk
<1>7. CASE StartFrame
  <2>1. /\ StartWalk(Values \ InReg)
        /\ saved' = [c \in Node |->
              IF kind[c] = "call" THEN Pushed({reg[v] : v \in liveIn[c] \cap InReg})
              ELSE {}]
        /\ UNCHANGED <<kind, type, reg, scanned>> /\ phase' \in Phases
    BY <1>7 DEF StartFrame
  <2>2. \A c \in Node : Pushed({reg[v] : v \in liveIn[c] \cap InReg}) \subseteq RegFile
    <3> TAKE c \in Node
    <3> DEFINE L == {reg[v] : v \in liveIn[c] \cap InReg}
    <3>1. L \in SUBSET RegFile
      BY DEF IInv, RegInv, InReg
    <3> HIDE DEF L
    <3>2. Pushed(L) \subseteq RegFile
      BY <3>1, PushedRegs
    <3> QED BY <3>2 DEF L
  <2>3. saved' \in [Node -> SUBSET RegFile]
    BY <2>1, <2>2
  <2> QED BY <1>0, <1>1, <2>1, <2>3, StartWalkTyped DEF Typed
<1>8. CASE Layout \/ Pack \/ Finish \/ UNCHANGED vars
  <2>1. UNCHANGED <<kind, type, walk, reg, scanned, saved>> /\ phase' \in Phases
    BY <1>0, <1>8 DEF Layout, Pack, Finish, vars
  <2> QED BY <1>0, <1>1, <2>1 DEF Typed, walk
<1> QED BY <1>2, <1>3, <1>4, <1>5, <1>6, <1>7, <1>8 DEF Next

-----------------------------------------------------------------------------
(***************************************************************************)
(* The slots of the frame: colours stay apart however often they are       *)
(* chosen anew, so no slot is shared by values that interfere.             *)
(***************************************************************************)

(* Finitely many numbers have a bound.                                     *)
LEMMA Bounded ==
    ASSUME NEW n \in Nat, NEW f \in [1..n -> Nat]
    PROVE  \E b \in Nat : \A i \in 1..n : f[i] <= b
<1> DEFINE S == {k \in 0..n : \E b \in Nat : \A i \in 1..k : f[i] <= b}
<1>1. 0 \in S
  OBVIOUS
<1>2. ASSUME NEW k \in 0..(n - 1), k \in S
      PROVE  k + 1 \in S
  <2>1. PICK b \in Nat : \A i \in 1..k : f[i] <= b
    BY <1>2
  <2> DEFINE j == k + 1
  <2>2. j \in 1..n /\ j \in 0..n /\ \A i \in 1..j : i = j \/ i \in 1..k
    OBVIOUS
  <2>3. PICK c \in Nat : b <= c /\ f[j] <= c
    <3>1. f[j] \in Nat
      BY <2>2
    <3>2. f[j] + b \in Nat /\ b <= f[j] + b /\ f[j] <= f[j] + b
      BY <3>1
    <3> QED BY <3>2
  <2> HIDE DEF j
  <2>4. \A i \in 1..j : f[i] <= c
    <3> TAKE i \in 1..j
    <3>1. CASE i = j
      BY <2>3, <3>1
    <3>2. CASE i \in 1..k
      <4>1. f[i] \in Nat /\ f[i] <= b
        BY <2>1, <3>2
      <4> QED BY <2>3, <4>1
    <3> QED BY <2>2, <3>1, <3>2
  <2> QED BY <2>2, <2>4 DEF j
<1>3. 0..n \subseteq S
  <2> HIDE DEF S
  <2> QED BY <1>1, <1>2, AllUpTo
<1>4. n \in S
  <2> HIDE DEF S
  <2> QED BY <1>3
<1> QED BY <1>4

(* n has the size and m the alignment of s: neither is exceeded            *)
Extremes(n, m, s) ==
    /\ s.size = type[n].size /\ type[m].size <= type[n].size
    /\ s.align = type[m].align /\ type[n].align <= type[m].align

(* A slot has the largest size and alignment of its variables.             *)
LEMMA SlotFacts ==
    ASSUME Typed, NEW S \in SUBSET Node, S # {}
    PROVE  /\ Slot(S).vars = S
           /\ Slot(S) \in [vars : SUBSET Node, size : Nat, align : Nat \ {0}]
           /\ \E n, m \in S : Extremes(n, m, Slot(S))
<1> DEFINE sizes == {type[n].size : n \in S}
           aligns == {type[n].align : n \in S}
<1>1. N \in Nat /\ \A n \in Node : type[n].size \in Nat /\ type[n].align \in Nat \ {0}
  BY NAssumption DEF Typed
<1>2. /\ Max(sizes) \in Nat /\ Max(sizes) \in sizes
      /\ \A x \in sizes : x <= Max(sizes)
  <2>1. PICK b \in Nat : \A n \in Node : type[n].size <= b
    <3> DEFINE f == [n \in 1..N |-> type[n].size]
    <3>1. f \in [1..N -> Nat] /\ \A n \in Node : f[n] = type[n].size
      BY <1>1 DEF Node
    <3> HIDE DEF f
    <3>2. \E b \in Nat : \A i \in 1..N : f[i] <= b
      BY <1>1, <3>1, Bounded
    <3> QED BY <3>1, <3>2 DEF Node
  <2>2. sizes \in SUBSET (0..b) /\ sizes # {}
    BY <1>1, <2>1
  <2> HIDE DEF sizes
  <2>3. Max(sizes) \in sizes /\ \A x \in sizes : x <= Max(sizes)
    BY <2>2, MaxFacts
  <2>4. \A x \in sizes : x \in Nat
    BY <2>2
  <2> QED BY <2>3, <2>4, Zenon
<1>3. /\ Max(aligns) \in Nat \ {0} /\ Max(aligns) \in aligns
      /\ \A x \in aligns : x <= Max(aligns)
  <2>1. PICK b \in Nat : \A n \in Node : type[n].align <= b
    <3> DEFINE f == [n \in 1..N |-> type[n].align]
    <3>1. f \in [1..N -> Nat] /\ \A n \in Node : f[n] = type[n].align
      BY <1>1 DEF Node
    <3> HIDE DEF f
    <3>2. \E b \in Nat : \A i \in 1..N : f[i] <= b
      BY <1>1, <3>1, Bounded
    <3> QED BY <3>1, <3>2 DEF Node
  <2>2. aligns \in SUBSET (0..b) /\ aligns # {} /\ 0 \notin aligns
    BY <1>1, <2>1
  <2> HIDE DEF aligns
  <2>3. Max(aligns) \in aligns /\ \A x \in aligns : x <= Max(aligns)
    BY <2>2, MaxFacts
  <2>4. \A x \in aligns : x \in Nat \ {0}
    BY <2>2
  <2> QED BY <2>3, <2>4, Zenon
<1>5. \A x \in sizes, y \in aligns : \E n, m \in S : x = type[n].size /\ y = type[m].align
  OBVIOUS
<1>8. \A n \in S : type[n].size \in sizes /\ type[n].align \in aligns
  OBVIOUS
<1> HIDE DEF sizes, aligns
<1>4. Slot(S) = [vars |-> S, size |-> Max(sizes), align |-> Max(aligns)]
  BY DEF Slot, sizes, aligns
<1>6. /\ Slot(S).vars = S
      /\ Slot(S) \in [vars : SUBSET Node, size : Nat, align : Nat \ {0}]
  BY <1>2, <1>3, <1>4
<1>7. \E n, m \in S : Max(sizes) = type[n].size /\ Max(aligns) = type[m].align
  BY <1>2, <1>3, <1>5
<1>9. PICK n, m \in S : Max(sizes) = type[n].size /\ Max(aligns) = type[m].align
  BY <1>7
<1>10. Slot(S).size = Max(sizes) /\ Slot(S).align = Max(aligns)
  BY <1>4
<1>11. Extremes(n, m, Slot(S))
  BY <1>2, <1>3, <1>8, <1>9, <1>10 DEF Extremes
<1> QED BY <1>6, <1>11

(* Neighbours in C have different colours.                                 *)
Apart(C, col) == \A n \in C : \A m \in Adj(n) : col[n] # col[m]

LEMMA AdjFacts ==
    ASSUME NEW n, NEW m
    PROVE  /\ m \in Adj(n) => m # n /\ m \in Node
           /\ n \in Node /\ m \in Adj(n) => n \in Adj(m)
<1>1. {n, m} = {m, n}
  OBVIOUS
<1> QED BY <1>1, Zenon DEF Adj

(* recolorSoNoConflict: the new colour is no neighbour's.                  *)
LEMMA NewColorFacts ==
    ASSUME NEW C, NEW b \in Nat, NEW col \in [C -> 0..b], NEW n \in C, Adj(n) \subseteq C
    PROVE  /\ NewColor(col, n) \in 0..(b + 1)
           /\ \A m \in Adj(n) : NewColor(col, n) # col[m]
<1> DEFINE used == {col[m] : m \in Adj(n)}
           free == (0..(Max(used) + 1)) \ used
<1>1. used \in SUBSET (0..b)
  OBVIOUS
<1>2. NewColor(col, n) = IF used = {} THEN 0 ELSE Min(free)
  BY DEF NewColor
<1>3. CASE used = {}
  <2>1. NewColor(col, n) = 0 /\ \A m \in Adj(n) : FALSE
    BY <1>2, <1>3
  <2> QED BY <2>1
<1>4. CASE used # {}
  <2>1. Max(used) \in used /\ \A x \in used : x <= Max(used)
    <3> HIDE DEF used
    <3> QED BY <1>1, <1>4, MaxFacts
  <2> DEFINE top == Max(used)
  <2>2. top \in 0..b /\ top + 1 \notin used
    <3>1. top \in used /\ \A x \in used : x <= top
      BY <2>1
    <3> HIDE DEF used, top
    <3> QED BY <1>1, <3>1
  <2>6. top + 1 \in free
    <3>1. free = (0..(top + 1)) \ used
      OBVIOUS
    <3> HIDE DEF used, top, free
    <3>2. top + 1 \in 0..(top + 1)
      BY <2>2
    <3> QED BY <2>2, <3>1, <3>2
  <2>3. free \in SUBSET Nat /\ free # {}
    <3>1. \A x \in 0..(top + 1) : x \in Nat
      BY <2>2
    <3> HIDE DEF used, top
    <3> QED BY <2>6, <3>1
  <2>4. Min(free) \in free
    <3> HIDE DEF free
    <3> QED BY <2>3, MinFacts
  <2>5. Min(free) \in 0..(b + 1) /\ Min(free) \notin used
    <3>1. \A x \in free : x \in 0..(top + 1) /\ x \notin used
      OBVIOUS
    <3>2. \A x \in 0..(top + 1) : x \in 0..(b + 1)
      BY <2>2
    <3> HIDE DEF free, used, top
    <3> QED BY <2>4, <3>1, <3>2
  <2> HIDE DEF free, top
  <2> QED BY <1>2, <1>4, <2>5
<1> QED BY <1>3, <1>4

(* f recolours the nodes of s one after the other.                         *)
Recolors(f, col, s) ==
    /\ f[0] = col
    /\ \A i \in 1..Len(s) :
          f[i] = [f[i - 1] EXCEPT ![s[i]] = NewColor(f[i - 1], s[i])]

(* Recolored(col, s) is where such a run ends.                             *)
LEMMA RecolorRun ==
    ASSUME NEW col, NEW s, Len(s) \in Nat
    PROVE  \E f : Recolors(f, col, s) /\ Recolored(col, s) = f[Len(s)]
<1> DEFINE New(c, i) == [c EXCEPT ![s[i]] = NewColor(c, s[i])]
           Runs(f, n) == f = [i \in 0..n |-> IF i = 0 THEN col ELSE New(f[i - 1], i)]
           S == {n \in Nat : \E f : Runs(f, n)}
           L == Len(s)
           step[i \in 0..L] == IF i = 0 THEN col ELSE New(step[i - 1], i)
<1>5. Recolored(col, s) = step[L]
  BY Zenon DEF Recolored
<1>4a. (\E f : Runs(f, L)) => step = [i \in 0..L |-> IF i = 0 THEN col ELSE New(step[i - 1], i)]
  BY Zenon
<1>8. \A c, i : New(c, i) = [c EXCEPT ![s[i]] = NewColor(c, s[i])]
  OBVIOUS
<1> HIDE DEF New, step
<1>1. 0 \in S
  <2> DEFINE g == [i \in 0..0 |-> col]
  <2>1. Runs(g, 0)
    OBVIOUS
  <2> QED BY <2>1, Zenon
<1>2. ASSUME NEW n \in Nat, n \in S
      PROVE  n + 1 \in S
  <2>1. PICK f : Runs(f, n)
    BY <1>2
  <2> DEFINE g == [i \in 0..(n + 1) |-> IF i = n + 1 THEN New(f[n], n + 1) ELSE f[i]]
  <2>2. /\ g = [i \in 0..(n + 1) |-> g[i]]
        /\ \A i \in 0..n : g[i] = f[i]
        /\ g[n + 1] = New(f[n], n + 1)
    OBVIOUS
  <2>3. \A i \in 0..n : i # 0 => f[i] = New(f[i - 1], i) /\ i - 1 \in 0..n
    BY <2>1
  <2>4. f[0] = col
    BY <2>1
  <2> HIDE DEF g
  <2>5. \A i \in 0..(n + 1) : g[i] = IF i = 0 THEN col ELSE New(g[i - 1], i)
    <3> TAKE i \in 0..(n + 1)
    <3>1. CASE i = n + 1
      <4>1. i - 1 = n /\ i # 0 /\ n \in 0..n
        BY <3>1
      <4> QED BY <2>2, <3>1, <4>1
    <3>2. CASE i # n + 1
      <4>1. i \in 0..n
        BY <3>2
      <4> QED BY <2>2, <2>3, <2>4, <4>1
    <3> QED BY <3>1, <3>2
  <2>6. Runs(g, n + 1)
    BY <2>2, <2>5, Zenon
  <2>7. n + 1 \in Nat
    OBVIOUS
  <2> HIDE DEF Runs
  <2> QED BY <2>6, <2>7, Zenon
<1>3. \E f : Runs(f, L)
  <2> HIDE DEF Runs
  <2>1. Nat \subseteq S
    <3> HIDE DEF S
    <3> QED BY <1>1, <1>2, AllNumbers
  <2> QED BY <2>1
<1>4. step = [i \in 0..L |-> IF i = 0 THEN col ELSE New(step[i - 1], i)]
  BY <1>3, <1>4a
<1>6. step[0] = col
  BY <1>4
<1>7. \A i \in 1..L : step[i] = New(step[i - 1], i)
  BY <1>4
<1>9. Recolors(step, col, s)
  BY <1>6, <1>7, <1>8 DEF Recolors
<1> QED BY <1>5, <1>9, Zenon

(* However its nodes are given new colours, a colouring stays one.         *)
LEMMA RecolorFacts ==
    ASSUME NEW C \in SUBSET Node, \A n \in C : Adj(n) \subseteq C,
           NEW b \in Nat, NEW col \in [C -> 0..b], Apart(C, col),
           NEW s \in Seq(C)
    PROVE  /\ \E c \in Nat : Recolored(col, s) \in [C -> 0..c]
           /\ Apart(C, Recolored(col, s))
<1>0. PICK f : Recolors(f, col, s) /\ Recolored(col, s) = f[Len(s)]
  <2>1. Len(s) \in Nat
    OBVIOUS
  <2> QED BY <2>1, RecolorRun, Zenon
<1>1. /\ f[0] = col
      /\ \A i \in 1..Len(s) :
            f[i] = [f[i - 1] EXCEPT ![s[i]] = NewColor(f[i - 1], s[i])]
      /\ Recolored(col, s) = f[Len(s)]
  BY <1>0 DEF Recolors
<1> DEFINE L == Len(s)
           P(g) == Apart(C, g) /\ \E c \in Nat : g \in [C -> 0..c]
           S == {i \in 0..L : P(f[i])}
<1>2. L \in Nat /\ \A i \in 1..L : s[i] \in C
  OBVIOUS
<1>3. 0 \in S
  BY <1>1, <1>2
<1>4. ASSUME NEW i \in 0..(L - 1), i \in S
      PROVE  i + 1 \in S
  <2> DEFINE k == i + 1
             old == f[i]
             n == s[k]
             new == NewColor(old, n)
  <2>1. k \in 1..L /\ k \in 0..L /\ k - 1 = i
    BY <1>2
  <2>2. n \in C /\ Adj(n) \subseteq C
    BY <1>2, <2>1
  <2>3. Apart(C, old) /\ \E c \in Nat : old \in [C -> 0..c]
    BY <1>4
  <2>4. PICK c \in Nat : old \in [C -> 0..c]
    BY <2>3
  <2>5. f[k] = [old EXCEPT ![n] = new]
    BY <1>1, <2>1
  <2> HIDE DEF k, old, n
  <2>6. new \in 0..(c + 1) /\ \A m \in Adj(n) : new # old[m]
    BY <2>2, <2>4, NewColorFacts
  <2> HIDE DEF new
  <2>7. f[k] \in [C -> 0..(c + 1)]
    <3>1. \A x \in 0..c : x \in 0..(c + 1)
      OBVIOUS
    <3> QED BY <2>4, <2>5, <2>6, <3>1
  <2>8. \A m \in C : f[k][m] = IF m = n THEN new ELSE old[m]
    BY <2>4, <2>5
  <2>9. ASSUME NEW a \in C, NEW m \in Adj(a)
        PROVE  f[k][a] # f[k][m]
    <3>1. m \in C /\ m # a /\ a \in Adj(m)
      BY <2>9, AdjFacts
    <3>2. old[a] # old[m]
      BY <2>3 DEF Apart
    <3> QED BY <2>6, <2>8, <3>1, <3>2
  <2>10. c + 1 \in Nat
    OBVIOUS
  <2>11. P(f[k])
    BY <2>7, <2>9, <2>10 DEF Apart
  <2> HIDE DEF P
  <2> QED BY <2>1, <2>11 DEF k
<1>5. 0..L \subseteq S
  <2> HIDE DEF S
  <2> QED BY <1>2, <1>3, <1>4, AllUpTo
<1>6. P(f[L])
  <2> HIDE DEF P
  <2> QED BY <1>2, <1>5
<1> QED BY <1>1, <1>6

(* What is reached from a node is closed: it is the smallest such set.     *)
LEMMA ComponentFacts ==
    ASSUME \A m \in tracked : Adj(m) \subseteq tracked, NEW n \in tracked
    PROVE  /\ Component(n) \subseteq tracked
           /\ \A m \in Component(n) : Adj(m) \subseteq Component(n)
<1> DEFINE Closed(S) == \A m \in S : Adj(m) \subseteq S
           Least == {x \in tracked : \A S \in SUBSET tracked : n \in S /\ Closed(S) => x \in S}
<1>1. Least \in SUBSET tracked /\ n \in Least
  OBVIOUS
<1>2. Closed(Least)
  <2> SUFFICES ASSUME NEW m \in Least, NEW x \in Adj(m)
               PROVE  x \in Least
    OBVIOUS
  <2>1. x \in tracked
    BY <1>1
  <2>2. ASSUME NEW S \in SUBSET tracked, n \in S, Closed(S)
        PROVE  x \in S
    BY <2>2
  <2> QED BY <2>1, <2>2
<1>3. \A R \in SUBSET Least : n \in R /\ Closed(R) => R = Least
  BY <1>1
<1>4. \E S \in SUBSET tracked :
        /\ n \in S /\ \A m \in S : Adj(m) \subseteq S
        /\ \A R \in SUBSET S : n \in R /\ (\A m \in R : Adj(m) \subseteq R) => R = S
  <2> HIDE DEF Least
  <2> QED BY <1>1, <1>2, <1>3
<1> QED BY <1>4, Zenon DEF Component

-----------------------------------------------------------------------------
(***************************************************************************)
(* The frame.  No slot has two values that conflict; the regions still to  *)
(* be filled are in order and clear of what has been placed, so that what  *)
(* is placed next is clear of it too.                                      *)
(***************************************************************************)

Slots == [vars : SUBSET Node, size : Nat, align : Nat \ {0}]
Places == [vars : SUBSET Node, size : Nat, offset : Nat]
Regions == [base : Nat, end : Nat]

(* the two may not share bytes                                             *)
Conflict(v, w) ==
    v # w /\ (kind[v] = "name" \/ \E k \in Node : {v, w} \subseteq Held(first, Values, k))

Harmless(S) == \A v, w \in S : ~Conflict(v, w)

(* o has no byte between base and end                                      *)
Clear(o, base, end) == End(o) <= base \/ end <= o.offset

SlotsInv ==
    /\ slots \subseteq Slots
    /\ \A s \in slots : Harmless(s.vars)

OrderInv ==
    /\ order \in Seq(Places)
    /\ \A i \in 1..Len(order) : Harmless(order[i].vars)
    /\ \A i, j \in 1..Len(order) :
          i # j => Clear(order[i], order[j].offset, End(order[j]))

RegionsInv ==
    /\ regions \in Seq(Regions)
    /\ \A i, j \in 1..Len(regions) : i < j => regions[i].end <= regions[j].base
    /\ \A i \in 1..Len(order), j \in 1..Len(regions) :
          Clear(order[i], regions[j].base, regions[j].end)

(* every value of the frame has a slot or a place                          *)
Kept ==
    \A n \in InMemory : \/ \E s \in slots : n \in s.vars
                        \/ \E i \in 1..Len(order) : n \in order[i].vars

FramePhase ==
    /\ phase \notin {"pack", "done"} => slots = {} /\ regions = <<>> /\ order = <<>>
    /\ phase = "frame" => tracked = Values \ InReg
    /\ phase \in {"pack", "done"} => Kept
    /\ phase = "done" => slots = {}
    /\ frameSize \in Nat

FrameInv ==
    /\ SlotsInv
    /\ OrderInv
    /\ RegionsInv
    /\ FramePhase

LEMMA InitFrame == Init => FrameInv
<1> SUFFICES ASSUME Init PROVE FrameInv
  OBVIOUS
<1>1. phase = "start" /\ slots = {} /\ regions = <<>> /\ order = <<>> /\ frameSize = 0
  BY DEF Init
<1>2. SlotsInv
  BY <1>1 DEF SlotsInv
<1>3. OrderInv
  BY <1>1 DEF OrderInv
<1>4. RegionsInv
  BY <1>1 DEF RegionsInv
<1>5. FramePhase
  BY <1>1 DEF FramePhase
<1> QED BY <1>2, <1>3, <1>4, <1>5 DEF FrameInv

(* Once the walk over what is in memory has ended, two values that conflict *)
(* are neighbours, and no neighbour is outside of what it walked over.     *)
LEMMA WalkedFacts ==
    ASSUME IInv, FramePhase, phase = "frame", at > N
    PROVE  /\ tracked \subseteq Node /\ tracked \subseteq InMemory
           /\ \A m \in tracked : Adj(m) \subseteq tracked
           /\ \A v, w \in tracked : Conflict(v, w) => w \in Adj(v)
<1>1. /\ tracked = Values \ InReg /\ WalkInv /\ tracked \subseteq Node
      /\ \A v \in tracked : kind[v] \in {"temp", "once"}
  BY DEF FramePhase, IInv, WalkInv, Values
<1>2. at = N + 1 /\ 1..(at - 1) = Node
  BY NAssumption DEF IInv, WalkInv, Node
<1>3. ASSUME NEW v \in tracked, NEW w \in tracked, Conflict(v, w)
      PROVE  w \in Adj(v)
  <2>1. PICK k \in Node : {v, w} \subseteq Held(first, Values, k)
    BY <1>1, <1>3 DEF Conflict
  <2>2. {v, w} \subseteq Held(first, tracked, k)
    BY <1>1, <2>1 DEF Held
  <2>3. v \in Node /\ w \in Node /\ v # w
    BY <1>1, <1>3 DEF Conflict
  <2> QED BY <1>1, <1>2, <2>2, <2>3, WalkOver
<1>4. ASSUME NEW m \in tracked, NEW w \in Adj(m)
      PROVE  w \in tracked
  <2>1. w \in Node /\ w # m /\ m \in Node
    BY <1>1, AdjFacts
  <2>2. {m, w} \in edges
    BY <1>4, Zenon DEF Adj
  <2>3. \E k \in 1..(at - 1) : {m, w} \subseteq Held(first, tracked, k)
    <3>1. LivePairsInterfere
      BY <1>1 DEF WalkInv
    <3>2. m # w
      BY <2>1
    <3> QED BY <2>1, <2>2, <3>1, <3>2, Zenon DEF LivePairsInterfere
  <2> QED BY <2>3 DEF Held
<1>5. tracked \subseteq InMemory
  BY <1>1 DEF InMemory
<1> QED BY <1>1, <1>3, <1>4, <1>5

(* One value alone has a slot.                                             *)
LEMMA LoneSlot ==
    ASSUME Typed, NEW n \in Node
    PROVE  /\ Slot({n}) \in Slots
           /\ Slot({n}).vars = {n}
           /\ Harmless({n})
<1>1. {n} \in SUBSET Node /\ {n} # {}
  OBVIOUS
<1>2. Slot({n}) \in Slots /\ Slot({n}).vars = {n}
  <2> DEFINE S == {n}
  <2> HIDE DEF S
  <2>1. Slot(S) \in Slots /\ Slot(S).vars = S
    BY <1>1, SlotFacts DEF S, Slots
  <2> QED BY <2>1 DEF S
<1>3. Harmless({n})
  BY DEF Harmless, Conflict
<1> QED BY <1>2, <1>3

(* Every value has a slot of Q, and there are no others; a slot has no two  *)
(* values that conflict.                                                   *)
SlotsFor(Q) ==
    /\ \A s \in Q : Harmless(s.vars)
    /\ \A s \in Q : \E S \in SUBSET InMemory : S # {} /\ s = Slot(S)
    /\ \E f \in [InMemory -> Q] :
          /\ \A n \in InMemory : n \in f[n].vars
          /\ \A s \in Q : \E n \in InMemory : f[n] = s

(* So it is where every value has a slot of its own,                       *)
LEMMA LoneSlots ==
    ASSUME Typed
    PROVE  SlotsFor({Slot({n}) : n \in InMemory})
<1> DEFINE Q == {Slot({n}) : n \in InMemory}
           f == [n \in InMemory |-> Slot({n})]
<1>1. \A n \in InMemory : {n} \in SUBSET InMemory /\ {n} # {} /\ Slot({n}).vars = {n} /\ Harmless({n})
  <2>1. \A n \in InMemory : n \in Node
    BY DEF InMemory
  <2> QED BY <2>1, LoneSlot
<1>2. \A s \in Q : Harmless(s.vars) /\ \E S \in SUBSET InMemory : S # {} /\ s = Slot(S)
  <2> SUFFICES ASSUME NEW n \in InMemory
               PROVE  /\ Harmless(Slot({n}).vars)
                      /\ \E S \in SUBSET InMemory : S # {} /\ Slot({n}) = Slot(S)
    OBVIOUS
  <2> QED BY <1>1
<1>3. f \in [InMemory -> Q] /\ \A n \in InMemory : f[n] = Slot({n})
  OBVIOUS
<1>4. \A s \in Q : \E n \in InMemory : f[n] = s
  BY <1>3
<1>5. \A n \in InMemory : n \in f[n].vars
  BY <1>1, <1>3
<1> HIDE DEF f, Q
<1>6. SlotsFor(Q)
  BY <1>2, <1>3, <1>4, <1>5 DEF SlotsFor
<1> QED BY <1>6 DEF Q

(* and where values with one colour have one.                              *)
LEMMA MergedSlots ==
    ASSUME Typed, NEW C \in SUBSET InMemory, NEW c \in Nat, NEW R \in [C -> 0..c],
           Apart(C, R), \A v, w \in C : Conflict(v, w) => w \in Adj(v)
    PROVE  SlotsFor(SlotsOf(C, R))
<1> DEFINE Class(x) == {n \in C : R[n] = x}
           f == [n \in InMemory |-> IF n \in C THEN Slot(Class(R[n])) ELSE Slot({n})]
           Q == SlotsOf(C, R)
<1>0. InMemory \subseteq Node
  BY DEF InMemory
<1>1. Range(R) = {R[n] : n \in C}
  BY DEF Range
<1>2. Q = {Slot(Class(x)) : x \in Range(R)} \cup {Slot({n}) : n \in InMemory \ C}
  BY DEF SlotsOf
<1>3. \A x \in Range(R) : Class(x) \in SUBSET InMemory /\ Class(x) # {}
  BY <1>1
<1>4. ASSUME NEW x
      PROVE  Harmless(Class(x))
  <2> SUFFICES ASSUME NEW v \in Class(x), NEW w \in Class(x), Conflict(v, w)
               PROVE  FALSE
    BY DEF Harmless
  <2>1. v \in C /\ w \in C /\ R[v] = R[w] /\ w \in Adj(v)
    OBVIOUS
  <2> QED BY <2>1 DEF Apart
<1>9. \A n \in C : R[n] \in Range(R) /\ n \in Class(R[n])
  BY <1>1
<1>10. \A x \in Range(R) : \E n \in C : R[n] = x
  BY <1>1
<1>11. \A n \in InMemory : f[n] = IF n \in C THEN Slot(Class(R[n])) ELSE Slot({n})
  OBVIOUS
<1>12. f = [n \in InMemory |-> f[n]]
  OBVIOUS
<1> HIDE DEF Class, f, Q
<1>5. \A x \in Range(R) : Slot(Class(x)).vars = Class(x)
  BY <1>0, <1>3, SlotFacts
<1>6. \A n \in InMemory \ C :
         {n} \in SUBSET InMemory /\ {n} # {} /\ Slot({n}).vars = {n} /\ Harmless({n})
  BY <1>0, LoneSlot
<1>7. \A s \in Q : Harmless(s.vars) /\ \E S \in SUBSET InMemory : S # {} /\ s = Slot(S)
  <2> TAKE s \in Q
  <2>1. CASE \E x \in Range(R) : s = Slot(Class(x))
    BY <1>3, <1>4, <1>5, <2>1
  <2>2. CASE \E n \in InMemory \ C : s = Slot({n})
    BY <1>6, <2>2
  <2> QED BY <1>2, <2>1, <2>2
<1>8. \A n \in InMemory : f[n] \in Q /\ n \in f[n].vars
  <2> TAKE n \in InMemory
  <2>1. CASE n \in C
    BY <1>2, <1>5, <1>9, <1>11, <2>1
  <2>2. CASE n \notin C
    BY <1>2, <1>6, <1>11, <2>2
  <2> QED BY <2>1, <2>2
<1>13. \A s \in Q : \E n \in InMemory : f[n] = s
  <2> TAKE s \in Q
  <2>1. CASE \E x \in Range(R) : s = Slot(Class(x))
    <3>1. PICK x \in Range(R) : s = Slot(Class(x))
      BY <2>1
    <3>2. PICK n \in C : R[n] = x
      BY <1>10
    <3>3. n \in InMemory /\ f[n] = s
      BY <1>11, <3>1, <3>2
    <3> QED BY <3>3
  <2>2. CASE \E n \in InMemory \ C : s = Slot({n})
    BY <1>11, <2>2
  <2> QED BY <1>2, <2>1, <2>2
<1>14. f \in [InMemory -> Q]
  BY <1>8, <1>12
<1> QED BY <1>7, <1>8, <1>13, <1>14 DEF SlotsFor, Q

(* There are no more slots than values.                                    *)
LEMMA SlotsForFacts ==
    ASSUME Typed, NEW Q, SlotsFor(Q)
    PROVE  /\ Q \subseteq Slots
           /\ \A n \in InMemory : \E s \in Q : n \in s.vars
           /\ IsFiniteSet(Q) /\ Cardinality(Q) <= N
<1>0. InMemory \subseteq Node
  BY DEF InMemory
<1>1. Q \subseteq Slots
  <2> SUFFICES ASSUME NEW s \in Q PROVE s \in Slots
    OBVIOUS
  <2>1. PICK S \in SUBSET InMemory : S # {} /\ s = Slot(S)
    BY DEF SlotsFor
  <2>2. Slot(S) \in Slots
    BY <1>0, <2>1, SlotFacts DEF Slots
  <2> QED BY <2>1, <2>2
<1>2. PICK f \in [InMemory -> Q] :
        /\ \A n \in InMemory : n \in f[n].vars
        /\ \A s \in Q : \E n \in InMemory : f[n] = s
  BY DEF SlotsFor
<1>3. \A n \in InMemory : \E s \in Q : n \in s.vars
  BY <1>2
<1>4. f \in Surjection(InMemory, Q)
  BY <1>2 DEF Surjection
<1>5. IsFiniteSet(InMemory) /\ Cardinality(InMemory) <= N
  <2>1. IsFiniteSet(Node) /\ Cardinality(Node) = N
    BY NAssumption, FS_Interval DEF Node
  <2> QED BY <1>0, <2>1, FS_Subset
<1>6. IsFiniteSet(Q) /\ Cardinality(Q) <= Cardinality(InMemory)
  BY <1>4, <1>5, FS_Surjection
<1>7. Cardinality(Q) <= N
  <2>1. Cardinality(Q) \in Nat /\ Cardinality(InMemory) \in Nat /\ N \in Nat
    BY <1>5, <1>6, FS_CardinalityType, NAssumption
  <2> QED BY <1>5, <1>6, <2>1
<1> QED BY <1>1, <1>3, <1>6, <1>7

(* Where the colours end up, no slot has two values that conflict.         *)
LEMMA LayoutFacts ==
    ASSUME IInv, Typed, FramePhase, Layout
    PROVE  SlotsFor(slots')
<1>1. phase = "frame" /\ at > N
  BY DEF Layout
<1>2. /\ tracked \subseteq Node /\ tracked \subseteq InMemory
      /\ \A m \in tracked : Adj(m) \subseteq tracked
      /\ \A v, w \in tracked : Conflict(v, w) => w \in Adj(v)
  BY <1>1, WalkedFacts
<1>3. CASE slots' = {Slot({n}) : n \in InMemory}
  BY <1>3, LoneSlots
<1>4. ASSUME NEW n \in tracked, NEW col \in Colorings(Component(n)),
             NEW s \in [1..Cardinality(Component(n)) -> Component(n)],
             slots' = SlotsOf(Component(n), Recolored(col, s))
      PROVE  SlotsFor(slots')
  <2> DEFINE C == Component(n)
             b == Cardinality(C)
             R == Recolored(col, s)
  <2>1. C \subseteq tracked /\ \A m \in C : Adj(m) \subseteq C
    BY <1>2, ComponentFacts
  <2>2. /\ col \in [C -> 1..b] /\ \A v \in C : \A m \in Adj(v) : col[v] # col[m]
        /\ s \in [1..b -> C] /\ slots' = SlotsOf(C, R)
    BY <1>4 DEF Colorings
  <2> HIDE DEF C, R
  <2>3. C \in SUBSET Node
    BY <1>2, <2>1
  <2>4. b \in Nat
    <3>1. IsFiniteSet(Node)
      BY NAssumption, FS_Interval DEF Node
    <3>2. IsFiniteSet(C)
      BY <2>3, <3>1, FS_Subset
    <3> QED BY <3>2, FS_CardinalityType
  <2> HIDE DEF b
  <2>5. s \in Seq(C)
    BY <2>2, <2>4
  <2>6. col \in [C -> 0..b] /\ Apart(C, col)
    <3>1. \A x \in 1..b : x \in 0..b
      BY <2>4
    <3> QED BY <2>2, <3>1 DEF Apart
  <2>7. PICK c \in Nat : R \in [C -> 0..c]
    BY <2>1, <2>3, <2>4, <2>5, <2>6, RecolorFacts DEF R
  <2>8. Apart(C, R)
    BY <2>1, <2>3, <2>4, <2>5, <2>6, RecolorFacts DEF R
  <2>9. \A v, w \in C : Conflict(v, w) => w \in Adj(v)
    BY <1>2, <2>1
  <2>10. C \in SUBSET InMemory
    BY <1>2, <2>1
  <2> QED BY <2>2, <2>7, <2>8, <2>9, <2>10, MergedSlots
<1> QED BY <1>3, <1>4 DEF Layout

(* A conflict depends on nothing a layout changes.                         *)
LEMMA ConflictKept ==
    ASSUME UNCHANGED <<first, kind>>
    PROVE  /\ \A v, w : Conflict(v, w)' = Conflict(v, w)
           /\ \A S : Harmless(S)' = Harmless(S)
<1>1. Values' = Values
  BY DEF Values
<1>2. \A v, w : Conflict(v, w)' = Conflict(v, w)
  BY <1>1 DEF Conflict
<1> QED BY <1>2, Zenon DEF Harmless

LEMMA LayoutFrame ==
    ASSUME IInv, Typed, FrameInv, Layout
    PROVE  FrameInv'
<1>1. /\ phase = "frame" /\ phase' = "pack" /\ regions' = <<Open(0, LONG_MAX)>>
      /\ UNCHANGED <<first, kind, reg, order, frameSize>>
  BY DEF Layout, expression
<1>2. slots = {} /\ order = <<>> /\ frameSize \in Nat
  BY <1>1 DEF FrameInv, FramePhase
<1>3. /\ slots' \subseteq Slots
      /\ \A s \in slots' : Harmless(s.vars)
      /\ \A n \in InMemory : \E s \in slots' : n \in s.vars
  <2>1. SlotsFor(slots')
    BY LayoutFacts DEF FrameInv
  <2> QED BY <2>1, SlotsForFacts DEF SlotsFor
<1>4. SlotsInv'
  <2>1. \A S : Harmless(S)' = Harmless(S)
    BY <1>1, ConflictKept
  <2>2. \A s \in slots' : Harmless(s.vars)'
    BY <1>3, <2>1
  <2> QED BY <1>3, <2>2 DEF SlotsInv, Slots
<1>5. OrderInv'
  BY <1>1, <1>2 DEF OrderInv
<1>6. RegionsInv'
  <2>1. Open(0, LONG_MAX) \in Regions
    BY FrameAssumption DEF Open, Regions
  <2>2. regions' \in Seq(Regions) /\ Len(regions') = 1
    BY <1>1, <2>1
  <2> QED BY <1>1, <1>2, <2>2 DEF RegionsInv
<1>7. FramePhase'
  <2>1. InMemory' = InMemory
    BY <1>1 DEF InMemory, InReg
  <2> QED BY <1>1, <1>2, <1>3, <2>1 DEF FramePhase, Kept
<1> QED BY <1>4, <1>5, <1>6, <1>7 DEF FrameInv


(* What a slot leaves of its region is in order before the other regions.  *)
LEMMA SplitFacts ==
    ASSUME NEW A \in Regions, NEW B \in Regions, regions \in Seq(Regions), regions # <<>>
    PROVE  LET q == <<A, B>> \o Tail(regions)
           IN  /\ q \in Seq(Regions) /\ Len(q) = Len(regions) + 1
               /\ q[1] = A /\ q[2] = B
               /\ \A j \in 3..Len(q) : q[j] = regions[j - 1]
<1> DEFINE p == <<A, B>>
           t == Tail(regions)
           q == p \o t
<1>1. p \in Seq(Regions) /\ t \in Seq(Regions)
  OBVIOUS
<1>2. /\ Len(t) = Len(regions) - 1 /\ Len(regions) \in Nat /\ Len(regions) >= 1
      /\ \A j \in 1..(Len(regions) - 1) : t[j] = regions[j + 1]
  OBVIOUS
<1>6. Len(p) = 2 /\ p[1] = A /\ p[2] = B
  OBVIOUS
<1> HIDE DEF p, t
<1>3. /\ q \in Seq(Regions) /\ Len(q) = Len(regions) + 1
      /\ q[1] = p[1] /\ q[2] = p[2]
      /\ \A j \in 3..(Len(regions) + 1) : q[j] = t[j - 2]
  <2>1. q \in Seq(Regions) /\ Len(q) = Len(p) + Len(t)
    BY <1>1
  <2>2. \A j \in 1..Len(p) : q[j] = p[j]
    BY <1>1
  <2>3. \A j \in (Len(p) + 1)..(Len(p) + Len(t)) : q[j] = t[j - Len(p)]
    BY <1>1
  <2> HIDE DEF q
  <2> QED BY <1>2, <1>6, <2>1, <2>2, <2>3
<1>4. \A j \in 3..(Len(regions) + 1) : t[j - 2] = regions[j - 1]
  <2> TAKE j \in 3..(Len(regions) + 1)
  <2> DEFINE k == j - 2
  <2>1. k \in 1..(Len(regions) - 1) /\ k + 1 = j - 1
    BY <1>2
  <2> HIDE DEF k
  <2>2. t[k] = regions[k + 1]
    BY <1>2, <2>1
  <2> QED BY <2>1, <2>2 DEF k
<1> HIDE DEF q
<1>5. \A j \in 3..Len(q) : q[j] = regions[j - 1]
  BY <1>3, <1>4
<1> QED BY <1>6, <1>3, <1>5 DEF q, p, t

LEMMA PackFrame ==
    ASSUME FrameInv, Pack
    PROVE  FrameInv'
<1>1. /\ phase = "pack" /\ phase' = "pack" /\ regions # <<>>
      /\ UNCHANGED <<first, kind, reg, tracked, frameSize>>
  BY DEF Pack, expression, walk
<1> DEFINE r == Head(regions)
<1>2. PICK s \in slots :
        IF r.base + Pad(s) + s.size <= r.end
        THEN /\ order' = Append(order,
                  [vars |-> s.vars, size |-> s.size, offset |-> r.base + Pad(s)])
             /\ slots' = slots \ {s}
             /\ regions' = <<Open(r.base, r.base + Pad(s)),
                             Open(r.base + Pad(s) + s.size, r.end)>> \o Tail(regions)
        ELSE regions' = Tail(regions) /\ UNCHANGED <<slots, order>>
  BY DEF Pack
<1>3. /\ slots \subseteq Slots /\ \A u \in slots : Harmless(u.vars)
      /\ order \in Seq(Places) /\ regions \in Seq(Regions) /\ frameSize \in Nat
      /\ \A i \in 1..Len(order) : Harmless(order[i].vars)
      /\ \A i, j \in 1..Len(order) :
            i # j => Clear(order[i], order[j].offset, End(order[j]))
      /\ \A i, j \in 1..Len(regions) : i < j => regions[i].end <= regions[j].base
      /\ \A i \in 1..Len(order), j \in 1..Len(regions) :
            Clear(order[i], regions[j].base, regions[j].end)
      /\ Kept
  BY <1>1 DEF FrameInv, SlotsInv, OrderInv, RegionsInv, FramePhase
<1>4. /\ Len(regions) \in Nat /\ Len(regions) >= 1 /\ r = regions[1] /\ r \in Regions
      /\ Len(order) \in Nat
  BY <1>1, <1>3
<1>5. \A S : Harmless(S)' = Harmless(S)
  BY <1>1, ConflictKept
<1>6. InMemory' = InMemory
  BY <1>1 DEF InMemory, InReg
<1>7. CASE ~ (r.base + Pad(s) + s.size <= r.end)
  <2>1. regions' = Tail(regions) /\ UNCHANGED <<slots, order>>
    BY <1>2, <1>7
  <2>2. /\ regions' \in Seq(Regions) /\ Len(regions') = Len(regions) - 1
        /\ \A j \in 1..(Len(regions) - 1) : regions'[j] = regions[j + 1]
    BY <1>1, <1>3, <2>1
  <2>3. RegionsInv'
    <3>1. \A j \in 1..Len(regions') : j + 1 \in 1..Len(regions) /\ regions'[j] = regions[j + 1]
      BY <1>4, <2>2
    <3>2. \A i, j \in 1..Len(regions') : i < j => regions'[i].end <= regions'[j].base
      <4> TAKE i, j \in 1..Len(regions')
      <4>1. i < j => i + 1 < j + 1
        BY <2>2
      <4> QED BY <1>3, <3>1, <4>1
    <3>3. \A i \in 1..Len(order), j \in 1..Len(regions') :
            Clear(order[i], regions'[j].base, regions'[j].end)
      BY <1>3, <3>1
    <3> QED BY <2>1, <2>2, <3>2, <3>3 DEF RegionsInv, Clear, End
  <2>4. SlotsInv' /\ OrderInv'
    BY <1>3, <1>5, <2>1 DEF SlotsInv, OrderInv, Slots, Places, Clear, End
  <2>5. FramePhase'
    BY <1>1, <1>3, <1>6, <2>1 DEF FramePhase, Kept
  <2> QED BY <2>3, <2>4, <2>5 DEF FrameInv
<1>8. CASE r.base + Pad(s) + s.size <= r.end
  <2> DEFINE begin == r.base + Pad(s)
             end == begin + s.size
             o == [vars |-> s.vars, size |-> s.size, offset |-> begin]
             A == Open(r.base, begin)
             B == Open(end, r.end)
             q == <<A, B>> \o Tail(regions)
  <2>1. order' = Append(order, o) /\ slots' = slots \ {s} /\ regions' = q
    BY <1>2, <1>8
  <2>2. s \in Slots /\ Harmless(s.vars)
    BY <1>3
  <2>3. /\ s.size \in Nat /\ s.align \in Nat \ {0} /\ s.vars \in SUBSET Node
        /\ r.base \in Nat /\ r.end \in Nat
    BY <1>4, <2>2 DEF Slots, Regions
  <2>4. Pad(s) \in Nat
    <3> DEFINE x == s.size
               y == s.align
    <3>1. x \in Nat /\ y \in Nat /\ y > 0
      BY <2>3
    <3> HIDE DEF x, y
    <3>2. x % y \in Nat
      BY <3>1
    <3> QED BY <3>2 DEF Pad, x, y
  <2>5. /\ begin \in Nat /\ end \in Nat /\ r.base <= begin /\ begin <= end /\ end <= r.end
        /\ o \in Places /\ o.offset = begin /\ End(o) = end /\ o.vars = s.vars
    <3>1. /\ begin \in Nat /\ end \in Nat /\ r.base <= begin /\ begin <= end /\ end <= r.end
      BY <1>8, <2>3, <2>4
    <3> HIDE DEF begin
    <3>2. o \in Places /\ o.offset = begin /\ o.size = s.size /\ o.vars = s.vars
      BY <2>3, <3>1 DEF Places
    <3> QED BY <3>1, <3>2 DEF End
  <2>6. A \in Regions /\ B \in Regions /\ A.base = r.base /\ A.end = begin
        /\ B.base = end /\ B.end = r.end
    BY <2>3, <2>5 DEF Open, Regions
  <2> HIDE DEF begin, end, o, A, B
  <2>7. /\ q \in Seq(Regions) /\ Len(q) = Len(regions) + 1
        /\ q[1] = A /\ q[2] = B
        /\ \A j \in 3..Len(q) : q[j] = regions[j - 1]
    BY <1>1, <1>3, <2>6, SplitFacts
  <2> HIDE DEF q
  <2>8. \A j \in 1..Len(q) : \/ j = 1 \/ j = 2
                             \/ j \in 3..Len(q) /\ j - 1 \in 2..Len(regions)
    BY <1>4, <2>7
  <2>9. /\ order' \in Seq(Places) /\ Len(order') = Len(order) + 1
        /\ \A i \in 1..Len(order) : order'[i] = order[i]
        /\ order'[Len(order) + 1] = o
    BY <1>3, <2>1, <2>5
  <2>10. \A i \in 1..Len(order') : i \in 1..Len(order) \/ i = Len(order) + 1
    BY <1>4, <2>9
  <2>11. \A i \in 1..Len(order) : order[i].offset \in Nat /\ End(order[i]) \in Nat
    <3> TAKE i \in 1..Len(order)
    <3>1. order[i] \in Places
      BY <1>3
    <3> QED BY <3>1 DEF Places, End
  <2>12. \A j \in 1..Len(regions) : regions[j].base \in Nat /\ regions[j].end \in Nat
    <3> TAKE j \in 1..Len(regions)
    <3>1. regions[j] \in Regions
      BY <1>3
    <3> QED BY <3>1 DEF Regions
  <2>13. \A j \in 2..Len(regions) : r.end <= regions[j].base
    <3> TAKE j \in 2..Len(regions)
    <3>1. 1 \in 1..Len(regions) /\ j \in 1..Len(regions) /\ 1 < j
      BY <1>4
    <3> QED BY <1>3, <1>4, <3>1
  <2>14. \A i \in 1..Len(order) : End(order[i]) <= r.base \/ r.end <= order[i].offset
    <3>1. 1 \in 1..Len(regions)
      BY <1>4
    <3> QED BY <1>3, <1>4, <3>1 DEF Clear
  <2>15. SlotsInv'
    BY <1>3, <1>5, <2>1 DEF SlotsInv, Slots
  <2>16. OrderInv'
    <3>1. \A i \in 1..Len(order') : Harmless(order'[i].vars)
      BY <1>3, <2>2, <2>5, <2>9, <2>10
    <3>2. ASSUME NEW i \in 1..Len(order)
          PROVE  Clear(order[i], begin, end) /\ Clear(o, order[i].offset, End(order[i]))
      <4>1. End(order[i]) <= r.base \/ r.end <= order[i].offset
        BY <2>14
      <4>2. order[i].offset \in Nat /\ End(order[i]) \in Nat
        BY <2>11
      <4>3. End(order[i]) <= begin \/ end <= order[i].offset
        BY <2>3, <2>5, <4>1, <4>2
      <4> QED BY <2>5, <4>3 DEF Clear
    <3>3. ASSUME NEW i \in 1..Len(order'), NEW j \in 1..Len(order'), i # j
          PROVE  Clear(order'[i], order'[j].offset, End(order'[j]))
      <4>1. CASE i \in 1..Len(order) /\ j \in 1..Len(order)
        BY <1>3, <2>9, <3>3, <4>1
      <4>2. CASE i \in 1..Len(order) /\ j = Len(order) + 1
        BY <2>5, <2>9, <3>2, <4>2
      <4>3. CASE i = Len(order) + 1 /\ j \in 1..Len(order)
        BY <2>5, <2>9, <3>2, <4>3
      <4> QED BY <2>10, <3>3, <4>1, <4>2, <4>3
    <3> QED BY <1>5, <2>9, <3>1, <3>3 DEF OrderInv, Places, Clear, End
  <2>17. RegionsInv'
    <3>1. ASSUME NEW i \in 1..Len(q), NEW j \in 1..Len(q), i < j
          PROVE  q[i].end <= q[j].base
      <4>1. CASE i = 1 /\ j = 2
        BY <2>5, <2>6, <2>7, <4>1
      <4>2. CASE i \in {1, 2} /\ j \in 3..Len(q)
        <5>1. j - 1 \in 2..Len(regions) /\ q[j] = regions[j - 1]
          BY <2>7, <2>8, <4>2
        <5>2. r.end <= q[j].base /\ q[j].base \in Nat
          <6>1. j - 1 \in 1..Len(regions)
            BY <5>1
          <6> QED BY <2>12, <2>13, <5>1, <6>1
        <5> QED BY <2>3, <2>5, <2>6, <2>7, <4>2, <5>2
      <4>3. CASE i \in 3..Len(q) /\ j \in 3..Len(q)
        <5>1. /\ i - 1 \in 1..Len(regions) /\ j - 1 \in 1..Len(regions) /\ i - 1 < j - 1
              /\ q[i] = regions[i - 1] /\ q[j] = regions[j - 1]
          BY <2>7, <2>8, <3>1, <4>3
        <5> QED BY <1>3, <5>1
      <4> QED BY <2>8, <3>1, <4>1, <4>2, <4>3
    <3>2. ASSUME NEW i \in 1..Len(order), NEW j \in 1..Len(q)
          PROVE  Clear(order[i], q[j].base, q[j].end)
      <4>1. CASE j \in {1, 2}
        <5>1. /\ q[j] = A \/ q[j] = B
              /\ End(order[i]) <= r.base \/ r.end <= order[i].offset
              /\ order[i].offset \in Nat /\ End(order[i]) \in Nat
          BY <2>7, <2>11, <2>14, <4>1
        <5>2. Clear(order[i], A.base, A.end)
          <6>1. End(order[i]) <= r.base \/ begin <= order[i].offset
            BY <2>3, <2>5, <5>1
          <6> QED BY <2>6, <6>1 DEF Clear
        <5>3. Clear(order[i], B.base, B.end)
          <6>1. End(order[i]) <= end \/ r.end <= order[i].offset
            BY <2>3, <2>5, <5>1
          <6> QED BY <2>6, <6>1 DEF Clear
        <5> QED BY <5>1, <5>2, <5>3
      <4>2. CASE j \in 3..Len(q)
        <5>1. j - 1 \in 1..Len(regions) /\ q[j] = regions[j - 1]
          BY <2>7, <2>8, <4>2
        <5> QED BY <1>3, <5>1
      <4> QED BY <2>8, <4>1, <4>2
    <3>3. ASSUME NEW j \in 1..Len(q)
          PROVE  Clear(o, q[j].base, q[j].end)
      <4>1. CASE j \in {1, 2}
        BY <2>3, <2>5, <2>6, <2>7, <4>1 DEF Clear
      <4>2. CASE j \in 3..Len(q)
        <5>1. j - 1 \in 2..Len(regions) /\ q[j] = regions[j - 1]
          BY <2>7, <2>8, <4>2
        <5>2. r.end <= q[j].base /\ q[j].base \in Nat
          <6>1. j - 1 \in 1..Len(regions)
            BY <5>1
          <6> QED BY <2>12, <2>13, <5>1, <6>1
        <5> QED BY <2>3, <2>5, <5>2 DEF Clear
      <4> QED BY <2>8, <4>1, <4>2
    <3>4. \A i \in 1..Len(order'), j \in 1..Len(q) : Clear(order'[i], q[j].base, q[j].end)
      BY <2>9, <2>10, <3>2, <3>3
    <3> QED BY <2>1, <2>7, <3>1, <3>4 DEF RegionsInv, Clear, End
  <2>18. FramePhase'
    <3>1. ASSUME NEW n \in InMemory
          PROVE  \/ \E u \in slots' : n \in u.vars
                 \/ \E i \in 1..Len(order') : n \in order'[i].vars
      <4>1. CASE \E u \in slots \ {s} : n \in u.vars
        BY <2>1, <4>1
      <4>2. CASE n \in s.vars
        <5>1. Len(order) + 1 \in 1..Len(order') /\ n \in order'[Len(order) + 1].vars
          BY <1>4, <2>5, <2>9, <4>2
        <5> QED BY <5>1
      <4>3. CASE \E i \in 1..Len(order) : n \in order[i].vars
        <5>1. PICK i \in 1..Len(order) : n \in order[i].vars
          BY <4>3
        <5>2. i \in 1..Len(order') /\ n \in order'[i].vars
          BY <1>4, <2>9, <5>1
        <5> QED BY <5>2
      <4> QED BY <1>3, <4>1, <4>2, <4>3 DEF Kept
    <3> QED BY <1>1, <1>3, <1>6, <3>1 DEF FramePhase, Kept
  <2> QED BY <2>15, <2>16, <2>17, <2>18 DEF FrameInv
<1> QED BY <1>7, <1>8


LEMMA NextFrame ==
    ASSUME IInv, Typed, FrameInv, [Next]_vars
    PROVE  FrameInv'
<1>1. CASE Layout
  BY <1>1, LayoutFrame
<1>2. CASE Pack
  BY <1>2, PackFrame
<1>3. CASE Finish
  <2>1. /\ phase = "pack" /\ slots = {} /\ frameSize' = SizeOf /\ phase' = "done"
        /\ UNCHANGED <<first, kind, reg, tracked, slots, regions, order>>
    BY <1>3 DEF Finish, expression, walk
  <2>2. (SlotsInv /\ OrderInv /\ RegionsInv)'
    <3>1. \A S : Harmless(S)' = Harmless(S)
      BY <2>1, ConflictKept
    <3> QED BY <2>1, <3>1
            DEF FrameInv, SlotsInv, OrderInv, RegionsInv, Slots, Places, Regions, Clear, End
  <2>3. frameSize' \in Nat
    <3>1. CASE order = <<>>
      BY <2>1, <3>1 DEF SizeOf
    <3>2. CASE order # <<>>
      <4>1. order \in Seq(Places)
        BY DEF FrameInv, OrderInv
      <4>2. order[Len(order)] \in Places
        BY <3>2, <4>1
      <4>3. End(order[Len(order)]) \in Nat
        BY <4>2 DEF Places, End
      <4> QED BY <2>1, <3>2, <4>3 DEF SizeOf
    <3> QED BY <3>1, <3>2
  <2>4. Kept' /\ phase' = "done" /\ slots' = {}
    BY <2>1 DEF FrameInv, FramePhase, Kept, InMemory, InReg
  <2>5. FramePhase'
    BY <2>3, <2>4 DEF FramePhase
  <2> QED BY <2>2, <2>5 DEF FrameInv
<1>4. CASE Begin \/ Walk \/ Choose \/ Spill \/ Scan \/ StartABI \/ StartFrame \/ UNCHANGED vars
  <2>1. /\ UNCHANGED <<first, kind, slots, regions, order, frameSize>>
        /\ \/ phase' \in {"regs", "spill", "abi"} /\ phase \notin {"pack", "done"}
           \/ /\ phase \notin {"pack", "done"} /\ phase' = "frame"
              /\ tracked' = Values \ InReg /\ reg' = reg
           \/ UNCHANGED <<phase, tracked, reg>>
    <3>1. CASE Begin \/ StartABI \/ Choose
      BY <3>1 DEF Begin, StartABI, Choose, expression, frame
    <3>2. CASE Spill \/ Scan
      BY <3>2 DEF Spill, Scan, expression, frame
    <3>3. CASE Walk
      BY <3>3 DEF Walk, Visit, frame
    <3>4. CASE StartFrame
      BY <3>4 DEF StartFrame, StartWalk, expression, frame
    <3>5. CASE UNCHANGED vars
      BY <3>5 DEF vars, expression, walk, frame
    <3> QED BY <1>4, <3>1, <3>2, <3>3, <3>4, <3>5
  <2>2. (SlotsInv /\ OrderInv /\ RegionsInv)'
    <3>1. \A S : Harmless(S)' = Harmless(S)
      BY <2>1, ConflictKept
    <3> QED BY <2>1, <3>1
            DEF FrameInv, SlotsInv, OrderInv, RegionsInv, Slots, Places, Regions, Clear, End
  <2>3. Values' = Values
    BY <2>1 DEF Values
  <2>4. UNCHANGED reg => InReg' = InReg /\ InMemory' = InMemory
    BY <2>1 DEF InReg, InMemory
  <2>5. FramePhase'
    BY <2>1, <2>3, <2>4 DEF FrameInv, FramePhase, Kept
  <2> QED BY <2>2, <2>5 DEF FrameInv
<1> QED BY <1>1, <1>2, <1>3, <1>4 DEF Next

(* Types and places together: what a step needs of the state before it.    *)
THEOREM FrameInvariant == Spec => [](IInv /\ Typed /\ FrameInv)
<1>1. Init => IInv /\ Typed /\ FrameInv
  BY InitIInv, InitTyped, InitFrame
<1>2. IInv /\ Typed /\ FrameInv /\ [Next]_vars => (IInv /\ Typed /\ FrameInv)'
  BY NextIInv, NextTyped, NextFrame
<1> QED BY <1>1, <1>2, PTL DEF Spec

(* Every variable holds a value of its kind; only a temporary has a        *)
(* register, one of its size that may be given away.                       *)
THEOREM TypeInvariant == Spec => []TypeOK
<1>1. IInv /\ Typed /\ FrameInv => TypeOK
  <2> SUFFICES ASSUME IInv, Typed, FrameInv PROVE TypeOK
    OBVIOUS
  <2>1. stack \in Seq(tracked)
    <3>1. stack \in Seq(Node) /\ Range(stack) \subseteq tracked
      BY DEF IInv, WalkInv, Held
    <3>2. \A i \in 1..Len(stack) : stack[i] \in tracked
      BY <3>1 DEF Range
    <3> QED BY <3>1, <3>2
  <2>2. tracked \subseteq Node /\ at \in 1..(N + 1) /\ size \in [0..N -> Nat]
        /\ liveIn \in [Node -> SUBSET Node]
    BY DEF IInv, WalkInv
  <2>3. frameSize \in Nat
    BY DEF FrameInv, FramePhase
  <2> QED BY <2>1, <2>2, <2>3 DEF Typed, TypeOK
<1> QED BY <1>1, FrameInvariant, PTL

(* Two values needed at the same time have no byte of the frame in common, *)
(* for every expression, colouring and order in which slots are packed     *)
(* (frameLayout.c 72-96, 147-213).                                         *)
THEOREM FramePlacesApart == Spec => []PlacesApart
<1>1. FrameInv => PlacesApart
  <2> SUFFICES ASSUME FrameInv, phase = "done",
                      NEW v \in InMemory, NEW w \in InMemory, Conflict(v, w)
               PROVE  \/ Place(v).offset + Place(v).size <= Place(w).offset
                      \/ Place(w).offset + Place(w).size <= Place(v).offset
    BY DEF PlacesApart, Conflict
  <2>1. ASSUME NEW n \in InMemory
        PROVE  \E i \in 1..Len(order) : Place(n) = order[i] /\ n \in order[i].vars
    <3>1. \E i \in 1..Len(order) : n \in order[i].vars
      BY DEF FrameInv, FramePhase, Kept
    <3>2. Range(order) = {order[i] : i \in 1..Len(order)}
      BY DEF FrameInv, OrderInv, Range
    <3>3. \E o \in Range(order) : n \in o.vars
      BY <3>1, <3>2
    <3>4. Place(n) \in Range(order) /\ n \in Place(n).vars
      BY <3>3, Zenon DEF Place
    <3> QED BY <3>2, <3>4
  <2>2. PICK i \in 1..Len(order) : Place(v) = order[i] /\ v \in order[i].vars
    BY <2>1
  <2>3. PICK j \in 1..Len(order) : Place(w) = order[j] /\ w \in order[j].vars
    BY <2>1
  <2>4. i # j
    BY <2>2, <2>3 DEF FrameInv, OrderInv, Harmless
  <2>5. Clear(order[i], order[j].offset, End(order[j]))
    BY <2>4 DEF FrameInv, OrderInv
  <2> HIDE DEF Place
  <2> QED BY <2>2, <2>3, <2>5 DEF Clear, End
<1> QED BY <1>1, FrameInvariant, PTL


-----------------------------------------------------------------------------
(***************************************************************************)
(* The end of the packing: what is left of the last region is always       *)
(* enough for the slots still to be placed, and where no slot needs        *)
(* padding they are placed without a gap.                                  *)
(***************************************************************************)

(* kinds and types are those of an expression                              *)
OfExprs == \E e \in Exprs : kind = e.kind /\ type = e.type

(* K bytes are enough for a slot and its padding, and the frame has room   *)
(* for one slot per node.                                                  *)
Room(K) ==
    /\ K \in Nat /\ N * K <= LONG_MAX
    /\ \A e \in Exprs : \A n, m \in Node : e.type[n].size + e.type[m].align <= K

LastRegion == regions[Len(regions)]

RoomInv(K) ==
    phase = "pack" =>
        /\ IsFiniteSet(slots)
        /\ \A s \in slots : s.size + s.align <= K
        /\ slots # {} =>
              /\ regions # <<>>
              /\ LastRegion.end = LONG_MAX
              /\ LastRegion.base + Cardinality(slots) * K <= LONG_MAX

(* every size of a variable is a multiple of the alignments that share a   *)
(* slot with it as the largest; so it is of integers and pointers, whose   *)
(* size is their alignment                                                 *)
Unpadded ==
    \A e \in Exprs : \A n, m \in Node :
        /\ e.kind[n] \in {"temp", "once", "name"}
        /\ e.kind[m] \in {"temp", "once", "name"}
        /\ e.type[m].size <= e.type[n].size
        /\ e.type[n].align <= e.type[m].align
        => e.type[n].size > 0 /\ e.type[n].size % e.type[m].align = 0

(* only the last region has room, and it begins where all places end       *)
TightInv ==
    /\ \A s \in slots : s.size > 0 /\ Pad(s) = 0
    /\ \A j \in 1..(Len(regions) - 1) : regions[j].end <= regions[j].base
    /\ regions # <<>> => \A i \in 1..Len(order) : End(order[i]) <= LastRegion.base
    /\ \A i \in 1..Len(order) : End(order[i]) <= End(order[Len(order)])
    /\ phase = "done" => frameSize = SizeOf

(* A slot that is to be placed is: there is a largest, and a region.       *)
PackGoesOn ==
    phase = "pack" /\ slots # {} =>
        regions # <<>> /\ \E s \in slots : \A t \in slots : t.size <= s.size

(* The offset of a value is found: it was given a place.                   *)
AllPlaced ==
    phase = "done" => \A n \in InMemory : \E o \in Range(order) : n \in o.vars

LEMMA OfExprsKept ==
    /\ Init => OfExprs
    /\ OfExprs /\ [Next]_vars => OfExprs'
<1>1. Init => OfExprs
  BY DEF Init, OfExprs
<1>2. [Next]_vars => UNCHANGED <<kind, type>>
  <2> USE DEF expression
  <2>1. CASE Begin \/ Walk \/ Choose \/ Spill \/ Scan
    BY <2>1 DEF Begin, Walk, Choose, Spill, Scan
  <2>2. CASE StartABI \/ StartFrame \/ Layout \/ Pack \/ Finish \/ UNCHANGED vars
    BY <2>2 DEF StartABI, StartFrame, Layout, Pack, Finish, vars
  <2> QED BY <2>1, <2>2 DEF Next
<1>3. OfExprs /\ UNCHANGED <<kind, type>> => OfExprs'
  BY DEF OfExprs
<1> QED BY <1>1, <1>2, <1>3

(* A slot comes from a layout, with a size and an alignment of variables   *)
(* it has.                                                                 *)
LEMMA SlotOrigin ==
    ASSUME Typed, NEW Q, SlotsFor(Q), NEW s \in Q
    PROVE  \E n, m \in InMemory : Extremes(n, m, s)
<1>1. PICK S \in SUBSET InMemory : S # {} /\ s = Slot(S)
  BY DEF SlotsFor
<1>2. S \in SUBSET Node
  BY DEF InMemory
<1>3. \E n, m \in S : Extremes(n, m, Slot(S))
  BY <1>1, <1>2, SlotFacts
<1> QED BY <1>1, <1>3

(* Less often the same is less.                                            *)
LEMMA TimesGrows ==
    ASSUME NEW a \in Nat, NEW b \in Nat, a <= b, NEW k \in Nat
    PROVE  /\ a * k \in Nat /\ b * k \in Nat /\ a * k <= b * k
           /\ (a + 1) * k = a * k + k
<1>1. a * k \in Nat /\ b * k \in Nat
  OBVIOUS
<1>2. (a + 1) * k = a * k + k
  OBVIOUS
<1>3. a * k <= b * k
  <2>1. b - a \in Nat /\ (b - a) * k \in Nat
    OBVIOUS
  <2>2. (b - a) * k = b * k - a * k
    OBVIOUS
  <2> QED BY <1>1, <2>1, <2>2
<1> QED BY <1>1, <1>2, <1>3

LEMMA LayoutRoom ==
    ASSUME NEW K, Room(K), IInv, Typed, FrameInv, OfExprs, Layout
    PROVE  RoomInv(K)'
<1>1. SlotsFor(slots')
  BY LayoutFacts DEF FrameInv
<1>2. IsFiniteSet(slots') /\ Cardinality(slots') <= N
  BY <1>1, SlotsForFacts
<1>3. ASSUME NEW s \in slots'
      PROVE  s.size + s.align <= K
  <2>1. PICK n, m \in InMemory : s.size = type[n].size /\ s.align = type[m].align
    BY <1>1, SlotOrigin DEF Extremes
  <2>2. n \in Node /\ m \in Node
    BY DEF InMemory
  <2>3. type[n].size + type[m].align <= K
    BY <2>2 DEF OfExprs, Room
  <2> QED BY <2>1, <2>3
<1>4. regions' = <<Open(0, LONG_MAX)>>
  BY DEF Layout
<1>5. regions' # <<>> /\ LastRegion'.end = LONG_MAX /\ LastRegion'.base = 0
  BY <1>4 DEF LastRegion, Open
<1>6. Cardinality(slots') * K <= LONG_MAX
  <2> DEFINE c == Cardinality(slots')
  <2>1. c \in Nat /\ N \in Nat /\ c <= N /\ K \in Nat /\ N * K <= LONG_MAX /\ LONG_MAX \in Nat
    BY <1>2, FS_CardinalityType, NAssumption, FrameAssumption DEF Room
  <2> HIDE DEF c
  <2>2. c * K <= N * K /\ c * K \in Nat /\ N * K \in Nat
    BY <2>1, TimesGrows
  <2>3. c * K <= LONG_MAX
    BY <2>1, <2>2
  <2> QED BY <2>3 DEF c
<1>7. 0 + Cardinality(slots') * K <= LONG_MAX
  <2>1. Cardinality(slots') \in Nat /\ K \in Nat
    BY <1>2, FS_CardinalityType DEF Room
  <2>2. Cardinality(slots') * K \in Nat
    BY <2>1
  <2> QED BY <1>6, <2>2
<1> QED BY <1>2, <1>3, <1>5, <1>7 DEF RoomInv

(* What remains of a slot's size is less than its alignment.               *)
LEMMA PadFacts ==
    ASSUME NEW s \in Slots
    PROVE  Pad(s) \in Nat /\ Pad(s) < s.align
<1> DEFINE x == s.size
           y == s.align
<1>1. x \in Nat /\ y \in Nat \ {0}
  BY DEF Slots
<1> HIDE DEF x, y
<1>2. x % y \in 0..(y - 1)
  BY <1>1
<1>3. x % y \in Nat /\ x % y < y
  BY <1>1, <1>2
<1> QED BY <1>3 DEF Pad, x, y

LEMMA PackRoom ==
    ASSUME NEW K, Room(K), FrameInv, RoomInv(K), Pack
    PROVE  RoomInv(K)'
<1> DEFINE r == Head(regions)
           n == Len(regions)
<1>1. phase = "pack" /\ slots # {} /\ regions # <<>>
  BY DEF Pack
<1>2. PICK s \in slots :
        IF r.base + Pad(s) + s.size <= r.end
        THEN /\ slots' = slots \ {s}
             /\ regions' = <<Open(r.base, r.base + Pad(s)),
                             Open(r.base + Pad(s) + s.size, r.end)>> \o Tail(regions)
        ELSE regions' = Tail(regions) /\ UNCHANGED slots
  BY DEF Pack
<1>3. /\ regions \in Seq(Regions) /\ n \in Nat /\ n >= 1 /\ r = regions[1]
      /\ LastRegion = regions[n] /\ LastRegion \in Regions /\ r \in Regions
      /\ n = Len(regions)
  BY <1>1 DEF FrameInv, RegionsInv, LastRegion
<1>11. r.base \in Nat /\ r.end \in Nat
  BY <1>3 DEF Regions
<1>4. /\ IsFiniteSet(slots) /\ \A t \in slots : t.size + t.align <= K
      /\ LastRegion.end = LONG_MAX
      /\ LastRegion.base + Cardinality(slots) * K <= LONG_MAX
  BY <1>1 DEF RoomInv
<1>5. /\ s \in Slots /\ s.size \in Nat /\ s.align \in Nat /\ Pad(s) \in Nat
      /\ Pad(s) + s.size <= K
  <2>1. s \in Slots /\ s.size \in Nat /\ s.align \in Nat
    BY DEF FrameInv, SlotsInv, Slots
  <2>2. Pad(s) \in Nat /\ Pad(s) < s.align
    BY <2>1, PadFacts
  <2>3. s.size + s.align <= K
    BY <1>4
  <2>4. K \in Nat
    BY DEF Room
  <2> QED BY <2>1, <2>2, <2>3, <2>4
<1> DEFINE c == Cardinality(slots)
           b == LastRegion.base
<1>6. /\ c \in Nat /\ c >= 1 /\ Cardinality(slots \ {s}) = c - 1 /\ IsFiniteSet(slots \ {s})
      /\ K \in Nat /\ b \in Nat /\ LONG_MAX \in Nat /\ b + c * K <= LONG_MAX
  <2>1. c \in Nat /\ Cardinality(slots \ {s}) = c - 1 /\ IsFiniteSet(slots \ {s})
    BY <1>4, FS_CardinalityType, FS_RemoveElement
  <2>2. Cardinality(slots \ {s}) \in Nat
    BY <2>1, FS_CardinalityType
  <2>3. K \in Nat /\ b \in Nat /\ LONG_MAX \in Nat /\ b + c * K <= LONG_MAX
    BY <1>3, <1>4, FrameAssumption DEF Room, Regions
  <2> HIDE DEF c, b
  <2> QED BY <2>1, <2>2, <2>3
<1> HIDE DEF c, b, r, n
<1>7. (c - 1) * K \in Nat /\ c * K = (c - 1) * K + K
  <2> DEFINE d == c - 1
  <2>1. d \in Nat /\ c = d + 1
    BY <1>6
  <2> HIDE DEF d
  <2>2. d * K \in Nat /\ (d + 1) * K = d * K + K
    BY <1>6, <2>1, TimesGrows
  <2> QED BY <2>1, <2>2 DEF d
<1>8. phase' = "pack"
  BY DEF Pack
<1>9. CASE r.base + Pad(s) + s.size <= r.end
  <2> DEFINE A == Open(r.base, r.base + Pad(s))
             B == Open(r.base + Pad(s) + s.size, r.end)
             q == <<A, B>> \o Tail(regions)
  <2>1. slots' = slots \ {s} /\ regions' = q
    BY <1>2, <1>9
  <2>2. A \in Regions /\ B \in Regions
    <3>1. r.base + Pad(s) \in Nat /\ r.base + Pad(s) + s.size \in Nat
      BY <1>5, <1>11
    <3> QED BY <1>11, <3>1 DEF Open, Regions
  <2>3. B.base = r.base + Pad(s) + s.size /\ B.end = r.end
    BY DEF Open
  <2> HIDE DEF A, B
  <2>4. /\ q \in Seq(Regions) /\ Len(q) = n + 1 /\ q[2] = B
        /\ \A j \in 3..Len(q) : q[j] = regions[j - 1]
    BY <1>1, <1>3, <2>2, SplitFacts
  <2> HIDE DEF q
  <2>5. q # <<>> /\ LastRegion' = q[n + 1]
    BY <1>3, <2>1, <2>4 DEF LastRegion
  <2>6. LastRegion'.end = LONG_MAX /\ LastRegion'.base + (c - 1) * K <= LONG_MAX
    <3>1. CASE n = 1
      <4>1. LastRegion' = B /\ r = LastRegion
        <5>1. n + 1 = 2
          BY <3>1
        <5> QED BY <1>3, <2>4, <2>5, <3>1, <5>1
      <4>2. B.end = LONG_MAX /\ B.base = b + Pad(s) + s.size
        BY <1>4, <2>3, <4>1 DEF b
      <4>3. b + Pad(s) + s.size + (c - 1) * K <= LONG_MAX
        BY <1>5, <1>6, <1>7
      <4> QED BY <4>1, <4>2, <4>3
    <3>2. CASE n > 1
      <4>1. n + 1 \in 3..Len(q) /\ (n + 1) - 1 = n
        BY <1>3, <2>4, <3>2
      <4>2. LastRegion' = LastRegion
        BY <1>3, <2>4, <2>5, <4>1
      <4>3. b + (c - 1) * K <= LONG_MAX
        BY <1>6, <1>7
      <4> QED BY <1>4, <4>2, <4>3 DEF b
    <3> QED BY <1>3, <3>1, <3>2
  <2> QED BY <1>4, <1>6, <2>1, <2>5, <2>6 DEF RoomInv
<1>10. CASE ~ (r.base + Pad(s) + s.size <= r.end)
  <2>1. regions' = Tail(regions) /\ slots' = slots
    BY <1>2, <1>10
  <2>2. n > 1
    <3>3. n = 1 \/ n > 1
      BY <1>3
    <3> SUFFICES ASSUME n = 1 PROVE FALSE
      BY <3>3
    <3>1. r.base = b /\ r.end = LONG_MAX
      BY <1>3, <1>4 DEF b
    <3>2. b + Pad(s) + s.size <= LONG_MAX
      BY <1>5, <1>6, <1>7
    <3> QED BY <1>10, <3>1, <3>2
  <2>3. regions' # <<>> /\ LastRegion' = LastRegion
    <3>1. /\ Len(regions') = n - 1 /\ Len(regions') \in 1..(Len(regions) - 1)
          /\ \A j \in 1..(Len(regions) - 1) : regions'[j] = regions[j + 1]
      BY <1>3, <2>1, <2>2
    <3>2. regions'[Len(regions')] = regions[Len(regions') + 1] /\ Len(regions') + 1 = n
      BY <1>3, <3>1
    <3> QED BY <1>3, <3>1, <3>2 DEF LastRegion
  <2> QED BY <1>4, <2>1, <2>3 DEF RoomInv
<1> QED BY <1>9, <1>10


LEMMA NextRoom ==
    ASSUME NEW K, Room(K), IInv, Typed, FrameInv, OfExprs, RoomInv(K), [Next]_vars
    PROVE  RoomInv(K)'
<1>1. CASE Layout
  BY <1>1, LayoutRoom
<1>2. CASE Pack
  BY <1>2, PackRoom
<1>3. CASE UNCHANGED vars
  BY <1>3 DEF vars, frame, RoomInv, LastRegion
<1>4. CASE Begin \/ Choose \/ StartABI \/ StartFrame \/ Finish
  <2>1. phase' # "pack"
    BY <1>4 DEF Begin, Choose, StartABI, StartFrame, Finish
  <2> QED BY <2>1 DEF RoomInv
<1>5. CASE Walk \/ Spill \/ Scan
  <2>1. UNCHANGED <<phase, slots, regions>>
    BY <1>5 DEF Walk, Spill, Scan, frame
  <2> QED BY <2>1 DEF RoomInv, LastRegion
<1> QED BY <1>1, <1>2, <1>3, <1>4, <1>5 DEF Next

(* Bounded slots have one of the largest size.                             *)
LEMMA LargestSlot ==
    ASSUME NEW K \in Nat, NEW Q \in SUBSET Slots, Q # {},
           \A s \in Q : s.size + s.align <= K
    PROVE  \E s \in Q : \A t \in Q : t.size <= s.size
<1> DEFINE S == {s.size : s \in Q}
<1>1. \A s \in Q : s.size \in 0..K
  BY DEF Slots
<1>2. S \in SUBSET (0..K) /\ S # {}
  BY <1>1
<1> HIDE DEF S
<1>3. Max(S) \in S /\ \A x \in S : x <= Max(S)
  BY <1>2, MaxFacts
<1>4. PICK s \in Q : s.size = Max(S)
  BY <1>3 DEF S
<1>5. \A t \in Q : t.size <= s.size
  <2>1. \A t \in Q : t.size \in S
    BY DEF S
  <2> QED BY <1>3, <1>4, <2>1
<1> QED BY <1>5

(* Where the frame has room for the expression, packing never runs out of  *)
(* regions with slots left: a slot that does not fit in front goes behind, *)
(* and pack is not left without having placed everything, so that the      *)
(* offset of every value is found, as is asserted (frameLayout.c 72-96,    *)
(* 232-233).                                                               *)
THEOREM NothingIsLeft ==
    ASSUME NEW K, Room(K)
    PROVE  Spec => [](PackGoesOn /\ AllPlaced)
<1> DEFINE Inv == IInv /\ Typed /\ FrameInv /\ OfExprs /\ RoomInv(K)
<1>1. Init => Inv
  <2>1. Init => RoomInv(K)
    BY DEF Init, RoomInv
  <2> QED BY <2>1, InitIInv, InitTyped, InitFrame, OfExprsKept
<1>2. Inv /\ [Next]_vars => Inv'
  <2> SUFFICES ASSUME Inv, [Next]_vars PROVE Inv'
    OBVIOUS
  <2>1. IInv' /\ Typed' /\ FrameInv'
    BY NextIInv, NextTyped, NextFrame
  <2>2. OfExprs'
    BY OfExprsKept
  <2>3. RoomInv(K)'
    BY NextRoom
  <2> QED BY <2>1, <2>2, <2>3
<1>3. Inv => PackGoesOn
  <2> SUFFICES ASSUME Inv, phase = "pack", slots # {}
               PROVE  regions # <<>> /\ \E s \in slots : \A t \in slots : t.size <= s.size
    BY DEF PackGoesOn
  <2>1. regions # <<>> /\ \A s \in slots : s.size + s.align <= K
    BY DEF RoomInv
  <2>2. slots \in SUBSET Slots
    BY DEF FrameInv, SlotsInv
  <2>3. K \in Nat
    BY DEF Room
  <2> QED BY <2>1, <2>2, <2>3, LargestSlot
<1>4. Inv => AllPlaced
  <2> SUFFICES ASSUME Inv, phase = "done", NEW n \in InMemory
               PROVE  \E o \in Range(order) : n \in o.vars
    BY DEF AllPlaced
  <2>1. PICK i \in 1..Len(order) : n \in order[i].vars
    BY DEF FrameInv, FramePhase, Kept
  <2>2. order[i] \in Range(order)
    BY DEF FrameInv, OrderInv, Range
  <2> QED BY <2>1, <2>2
<1> HIDE DEF Inv
<1> QED BY <1>1, <1>2, <1>3, <1>4, PTL DEF Spec


LEMMA LayoutTight ==
    ASSUME Unpadded, IInv, Typed, FrameInv, OfExprs, Layout
    PROVE  TightInv'
<1>1. SlotsFor(slots')
  BY LayoutFacts DEF FrameInv
<1>2. /\ regions' = <<Open(0, LONG_MAX)>> /\ phase' = "pack"
      /\ order' = <<>> /\ UNCHANGED <<kind, type, reg>>
  BY DEF Layout, FrameInv, FramePhase, expression
<1>3. ASSUME NEW s \in slots'
      PROVE  s.size > 0 /\ Pad(s) = 0
  <2>1. PICK n, m \in InMemory : Extremes(n, m, s)
    BY <1>1, SlotOrigin
  <2>2. /\ n \in Node /\ m \in Node
        /\ kind[n] \in {"temp", "once", "name"} /\ kind[m] \in {"temp", "once", "name"}
    BY DEF InMemory
  <2>3. type[m].size <= type[n].size /\ type[n].align <= type[m].align
    BY <2>1 DEF Extremes
  <2>4. type[n].size > 0 /\ type[n].size % type[m].align = 0
    BY <2>2, <2>3, Zenon DEF OfExprs, Unpadded
  <2> QED BY <2>1, <2>4 DEF Pad, Extremes
<1>4. Len(regions') = 1 /\ Len(order') = 0
  BY <1>2
<1>5. \A s \in slots' : s.size > 0 /\ Pad(s) = 0
  BY <1>3
<1> QED BY <1>2, <1>4, <1>5 DEF TightInv, Pad

LEMMA PackTight ==
    ASSUME FrameInv, TightInv, Pack
    PROVE  TightInv'
<1> DEFINE r == Head(regions)
           n == Len(regions)
           l == Len(order)
<1>1. phase = "pack" /\ phase' = "pack" /\ regions # <<>>
  BY DEF Pack
<1>2. PICK s \in slots :
        IF r.base + Pad(s) + s.size <= r.end
        THEN /\ order' = Append(order,
                  [vars |-> s.vars, size |-> s.size, offset |-> r.base + Pad(s)])
             /\ slots' = slots \ {s}
             /\ regions' = <<Open(r.base, r.base + Pad(s)),
                             Open(r.base + Pad(s) + s.size, r.end)>> \o Tail(regions)
        ELSE regions' = Tail(regions) /\ UNCHANGED <<slots, order>>
  BY DEF Pack
<1>3. /\ regions \in Seq(Regions) /\ n \in Nat /\ n >= 1 /\ r = regions[1]
      /\ LastRegion = regions[n] /\ r \in Regions /\ n = Len(regions)
      /\ order \in Seq(Places) /\ l \in Nat /\ l = Len(order)
  BY <1>1 DEF FrameInv, RegionsInv, OrderInv, LastRegion
<1>4. r.base \in Nat /\ r.end \in Nat
  BY <1>3 DEF Regions
<1>5. s.size \in Nat /\ s.size > 0 /\ Pad(s) = 0 /\ s.vars \in SUBSET Node
  BY DEF FrameInv, SlotsInv, Slots, TightInv
<1>6. /\ \A t \in slots : t.size > 0 /\ Pad(t) = 0
      /\ \A j \in 1..(n - 1) : regions[j].end <= regions[j].base
      /\ \A i \in 1..l : End(order[i]) <= LastRegion.base
      /\ \A i \in 1..l : End(order[i]) <= End(order[l])
  BY <1>1 DEF TightInv
<1> HIDE DEF r, n, l
<1>7. CASE r.base + Pad(s) + s.size <= r.end
  <2>1. n = 1
    <3> SUFFICES ASSUME n > 1 PROVE FALSE
      BY <1>3
    <3>1. 1 \in 1..(n - 1)
      BY <1>3
    <3>2. r.end <= r.base
      BY <1>3, <1>6, <3>1
    <3>3. r.base + s.size <= r.end
      BY <1>4, <1>5, <1>7
    <3> QED BY <1>4, <1>5, <3>2, <3>3
  <2> DEFINE b == r.base
             e == b + s.size
             o == [vars |-> s.vars, size |-> s.size, offset |-> b]
  <2>2. b \in Nat /\ e \in Nat /\ b <= e /\ b + Pad(s) = b /\ b + Pad(s) + s.size = e
    BY <1>4, <1>5
  <2>3. Open(b, b) \in Regions /\ Open(e, r.end) \in Regions
    BY <1>4, <2>2 DEF Open, Regions
  <2>4. /\ order' = Append(order, o) /\ slots' = slots \ {s}
        /\ regions' = <<Open(b, b), Open(e, r.end)>> \o Tail(regions)
    BY <1>2, <1>7, <2>2
  <2>5. o \in Places /\ End(o) = e
    BY <1>5, <2>2 DEF Places, End
  <2> HIDE DEF o, e, b
  <2>6. /\ Len(regions') = 2 /\ regions'[1] = Open(b, b) /\ regions'[2] = Open(e, r.end)
    <3>1. Len(regions) + 1 = 2
      BY <1>3, <2>1
    <3>2. LET q == <<Open(b, b), Open(e, r.end)>> \o Tail(regions)
          IN  Len(q) = Len(regions) + 1 /\ q[1] = Open(b, b) /\ q[2] = Open(e, r.end)
      BY <1>1, <1>3, <2>3, SplitFacts
    <3> QED BY <2>4, <3>1, <3>2
  <2>7. LastRegion'.base = e
    BY <2>6 DEF LastRegion, Open
  <2>8. /\ Len(order') = l + 1 /\ order'[l + 1] = o
        /\ \A i \in 1..l : order'[i] = order[i]
    BY <1>3, <2>4, <2>5
  <2>9. \A i \in 1..l : End(order[i]) <= e
    <3> TAKE i \in 1..l
    <3>1. End(order[i]) <= b
      BY <1>3, <1>6, <2>1 DEF b
    <3>2. order[i] \in Places
      BY <1>3
    <3>3. End(order[i]) \in Nat
      BY <3>2 DEF Places, End
    <3> QED BY <2>2, <3>1, <3>3
  <2>10. \A i \in 1..Len(order') : End(order'[i]) <= e
    <3> TAKE i \in 1..Len(order')
    <3>1. i = l + 1 \/ i \in 1..l
      BY <1>3, <2>8
    <3>2. CASE i = l + 1
      BY <2>2, <2>5, <2>8, <3>2
    <3>3. CASE i \in 1..l
      BY <2>8, <2>9, <3>3
    <3> QED BY <3>1, <3>2, <3>3
  <2>11. End(order'[Len(order')]) = e
    BY <2>5, <2>8
  <2>12. \A j \in 1..(Len(regions') - 1) : regions'[j].end <= regions'[j].base
    BY <2>2, <2>6 DEF Open
  <2>13. \A t \in slots' : t.size > 0 /\ Pad(t) = 0
    BY <1>6, <2>4
  <2>14. \A i \in 1..Len(order') : End(order'[i]) <= End(order'[Len(order')])
    BY <2>10, <2>11
  <2> QED BY <1>1, <2>7, <2>10, <2>12, <2>13, <2>14 DEF TightInv, Pad, End
<1>8. CASE ~ (r.base + Pad(s) + s.size <= r.end)
  <2>1. regions' = Tail(regions) /\ slots' = slots /\ order' = order
    BY <1>2, <1>8
  <2>2. /\ Len(regions') = n - 1
        /\ \A j \in 1..(n - 1) : regions'[j] = regions[j + 1]
    BY <1>1, <1>3, <2>1
  <2>3. \A j \in 1..(Len(regions') - 1) : regions'[j].end <= regions'[j].base
    <3> TAKE j \in 1..(Len(regions') - 1)
    <3>1. j \in 1..(n - 1) /\ j + 1 \in 1..(n - 1)
      BY <1>3, <2>2
    <3> QED BY <1>6, <2>2, <3>1
  <2>4. regions' # <<>> => LastRegion' = LastRegion
    <3> SUFFICES ASSUME regions' # <<>> PROVE LastRegion' = LastRegion
      OBVIOUS
    <3>1. regions' \in Seq(Regions)
      BY <1>1, <1>3, <2>1
    <3>2. n - 1 >= 1 /\ n - 1 \in 1..(n - 1)
      BY <1>3, <2>2, <3>1
    <3>3. (n - 1) + 1 = n
      BY <1>3
    <3> QED BY <1>3, <2>2, <3>2, <3>3 DEF LastRegion
  <2> QED BY <1>1, <1>3, <1>6, <2>1, <2>3, <2>4 DEF TightInv, Pad, End
<1> QED BY <1>7, <1>8


LEMMA NextTight ==
    ASSUME Unpadded, IInv, Typed, FrameInv, OfExprs, TightInv, [Next]_vars
    PROVE  TightInv'
<1>1. CASE Layout
  BY <1>1, LayoutTight
<1>2. CASE Pack
  BY <1>2, PackTight
<1>3. CASE Finish
  <2>1. UNCHANGED <<type, slots, regions, order>> /\ frameSize' = SizeOf
    BY <1>3 DEF Finish, expression
  <2> QED BY <2>1 DEF TightInv, LastRegion, Pad, SizeOf, End
<1>4. CASE Begin \/ Walk \/ Choose \/ Spill \/ Scan \/ StartABI \/ StartFrame \/ UNCHANGED vars
  <2>1. UNCHANGED <<slots, regions, order, frameSize>> /\ (phase' = "done" => phase = "done")
    <3>1. CASE Begin \/ Walk \/ Choose \/ Spill \/ Scan
      BY <3>1 DEF Begin, Walk, Choose, Spill, Scan, frame
    <3>2. CASE StartABI \/ StartFrame \/ UNCHANGED vars
      BY <3>2 DEF StartABI, StartFrame, vars, frame
    <3> QED BY <1>4, <3>1, <3>2
  <2> QED BY <2>1 DEF TightInv, LastRegion, Pad, SizeOf, End
<1> QED BY <1>1, <1>2, <1>3, <1>4 DEF Next

(* Where no slot needs padding, as where the variables are integers and    *)
(* pointers, the frame reserved covers every variable in it: only a hole   *)
(* filled last makes the variable placed last not the one at the end       *)
(* (frameLayout.c 72-96, 246-252).                                         *)
THEOREM AlignedFrameCovers ==
    ASSUME Unpadded
    PROVE  Spec => []FrameCovers
<1> DEFINE Inv == IInv /\ Typed /\ FrameInv /\ OfExprs /\ TightInv
<1>1. Init => Inv
  <2>1. Init => TightInv
    <3> SUFFICES ASSUME Init PROVE TightInv
      OBVIOUS
    <3>1. slots = {} /\ regions = <<>> /\ order = <<>> /\ phase = "start"
      BY DEF Init
    <3>2. Len(regions) = 0 /\ Len(order) = 0
      BY <3>1
    <3> QED BY <3>1, <3>2 DEF TightInv
  <2> QED BY <2>1, InitIInv, InitTyped, InitFrame, OfExprsKept
<1>2. Inv /\ [Next]_vars => Inv'
  <2> SUFFICES ASSUME Inv, [Next]_vars PROVE Inv'
    OBVIOUS
  <2>1. IInv' /\ Typed' /\ FrameInv'
    BY NextIInv, NextTyped, NextFrame
  <2>2. OfExprs'
    BY OfExprsKept
  <2>3. TightInv'
    BY NextTight
  <2> QED BY <2>1, <2>2, <2>3
<1>3. Inv => FrameCovers
  <2> SUFFICES ASSUME Inv, phase = "done", NEW o \in Range(order)
               PROVE  End(o) <= frameSize
    BY DEF FrameCovers
  <2>1. order \in Seq(Places) /\ Len(order) \in Nat
    BY DEF FrameInv, OrderInv
  <2>2. PICK i \in 1..Len(order) : o = order[i]
    BY <2>1 DEF Range
  <2>3. order # <<>>
    BY <2>1, <2>2
  <2>4. frameSize = End(order[Len(order)])
    BY <2>3 DEF TightInv, SizeOf
  <2> QED BY <2>2, <2>4 DEF TightInv
<1> HIDE DEF Inv
<1> QED BY <1>1, <1>2, <1>3, PTL DEF Spec


-----------------------------------------------------------------------------
(***************************************************************************)
(* Frame layout asks for any colouring that GraphColoring promises: the    *)
(* set Layout chooses from is the set of colourings that satisfy what is   *)
(* proved of graphColor when it ends.                                      *)
(***************************************************************************)

(* graphColor at its end, run on the nodes C, with the colours col         *)
GC(C, col) ==
    INSTANCE GraphColoring WITH
        Node <- C, Edges <- C \X C, adj <- [n \in C |-> Adj(n)], color <- col,
        adjColors <- <<>>, adjUncolored <- <<>>, Q <- <<>>, s <- -1

Promised(C) ==
    {col \in [C -> (1..Cardinality(C)) \cup {-1}] :
        GC(C, col)!Proper /\ GC(C, col)!FewColors /\ GC(C, col)!AllColored}

(* The interference graph of C is one that graphColor may be given.        *)
LEMMA GraphOfComponent ==
    ASSUME NEW C \in SUBSET Node, \A n \in C : Adj(n) \subseteq C, NEW col
    PROVE  \E E \in SUBSET (C \X C) : [n \in C |-> Adj(n)] = GC(C, col)!AdjOf(E)
<1> DEFINE E == {e \in C \X C : e[2] \in Adj(e[1])}
<1>1. E \in SUBSET (C \X C)
  OBVIOUS
<1>2. ASSUME NEW n \in C
      PROVE  Adj(n) = {m \in C \ {n} : <<n, m>> \in E \/ <<m, n>> \in E}
  <2>1. \A m \in C : <<n, m>> \in E <=> m \in Adj(n)
    OBVIOUS
  <2>2. \A m \in C : <<m, n>> \in E <=> n \in Adj(m)
    OBVIOUS
  <2>3. \A m \in C : n \in Adj(m) => m \in Adj(n)
    BY AdjFacts
  <2>4. \A m \in Adj(n) : m \in C \ {n}
    BY AdjFacts
  <2> HIDE DEF E
  <2> QED BY <2>1, <2>2, <2>3, <2>4, Zenon
<1>3. [n \in C |-> Adj(n)] = [n \in C |-> {m \in C \ {n} : <<n, m>> \in E \/ <<m, n>> \in E}]
  <2> HIDE DEF E
  <2> QED BY <1>2
<1> HIDE DEF E
<1> QED BY <1>1, <1>3 DEF GC!AdjOf

(* It counts as Storage does.                                              *)
LEMMA SameCount ==
    ASSUME NEW C, NEW col, NEW S
    PROVE  GC(C, col)!Cardinality(S) = Cardinality(S)
BY DEF GC!Cardinality, Cardinality

(* What Storage lets Layout choose is what GraphColoring is proved to      *)
(* return, ColoringIsProper, ColorsAreFew and EveryNodeIsColored, for a    *)
(* graph it may begin with (frameLayout.c 180, graphColoring.c 94-195).    *)
THEOREM ColoringsArePromised ==
    ASSUME NEW C \in SUBSET Node, \A n \in C : Adj(n) \subseteq C
    PROVE  /\ Colorings(C) = Promised(C)
           /\ \A col : \E E \in SUBSET (C \X C) :
                 [n \in C |-> Adj(n)] = GC(C, col)!AdjOf(E)
<1>1. ASSUME NEW col \in Colorings(C)
      PROVE  col \in Promised(C)
  <2>1. /\ col \in [C -> 1..Cardinality(C)]
        /\ \A n \in C : /\ col[n] <= Cardinality(Adj(n)) + 1
                        /\ \A m \in Adj(n) : col[n] # col[m]
    BY DEF Colorings
  <2>2. col \in [C -> (1..Cardinality(C)) \cup {-1}]
    BY <2>1
  <2>3. \A n \in C : col[n] # -1
    BY <2>1
  <2>4. GC(C, col)!Proper
    BY <2>1 DEF GC!Proper, GC!Uncolored
  <2>5. GC(C, col)!FewColors
    BY <2>1, SameCount DEF GC!FewColors
  <2>6. GC(C, col)!AllColored
    BY <2>3 DEF GC!AllColored, GC!Uncolored
  <2> QED BY <2>2, <2>4, <2>5, <2>6, Zenon DEF Promised
<1>2. ASSUME NEW col \in Promised(C)
      PROVE  col \in Colorings(C)
  <2>1. /\ col \in [C -> (1..Cardinality(C)) \cup {-1}]
        /\ GC(C, col)!Proper /\ GC(C, col)!FewColors /\ GC(C, col)!AllColored
    BY Zenon DEF Promised
  <2>2. \A n \in C : col[n] # -1
    BY <2>1 DEF GC!AllColored, GC!Uncolored
  <2>3. col \in [C -> 1..Cardinality(C)]
    BY <2>1, <2>2
  <2>4. \A n \in C : \A m \in Adj(n) : col[n] # col[m]
    BY <2>1, <2>2 DEF GC!Proper, GC!Uncolored
  <2>5. \A n \in C : col[n] <= Cardinality(Adj(n)) + 1
    BY <2>1, SameCount DEF GC!FewColors
  <2> QED BY <2>3, <2>4, <2>5, Zenon DEF Colorings
<1> QED BY <1>1, <1>2, GraphOfComponent

=============================================================================
