------------------------------ MODULE Emission -------------------------------
(***************************************************************************)
(* From a flow graph to labels and jumps: what IRCompile does to the       *)
(* labels of a function's graph, and the order in which IR2Asm writes its  *)
(* nodes out.  A graph g has nodes, numbered as they are made, each with   *)
(* its kind k, and edges from a node f to a node t.                        *)
(***************************************************************************)
EXTENDS Integers, Sequences, FiniteSets, Functions

VARIABLE code    \* of the function: its graph in the end, and the text

Top(g) == Len(g.node)
Nodes(g) == DOMAIN g.node
Add(g, kind, x) == [g EXCEPT !.node = Append(@, [k |-> kind, x |-> x])]
Connect(g, from, kind, to) ==
    [g EXCEPT !.edge = @ \cup {[f |-> from, k |-> kind, t |-> to]}]
Flow(g, from, to) == Connect(g, from, "flow", to)
EdgesFrom(g, n) == {e \in g.edge : e.f = n}
EdgesTo(g, n) == {e \in g.edge : e.t = n}

InsertBefore(g, n, entry, exit) ==
    LET old == EdgesTo(g, n)
    IN  Flow([g EXCEPT !.edge = (@ \ old) \cup {[e EXCEPT !.t = entry] : e \in old}],
             exit, n)

Kinds == {"start", "end", "ret", "label", "ev", "map", "cjmp", "tab",
          "read", "nread", "save", "load", "set0", "set1"}
Ways == {"flow", "never", "true", "false", "case", "dft", "src", "dest"}

(* What parse2IR.c sees to: nothing leads to the start; what is above all  *)
(* cases goes to a label; a condition or table has no other ways out than  *)
(* its own, a label none but flows; and what an expression is for has no   *)
(* other way in.                                                           *)
FlowGraph(g) ==
    /\ g = [node |-> g.node, edge |-> g.edge, labs |-> g.labs, swit |-> g.swit]
    /\ g.node \in Seq([k : Kinds, x : Int]) /\ g.node # <<>>
    /\ IsFiniteSet(g.edge) /\ g.edge \subseteq [f : Nodes(g), k : Ways, t : Nodes(g)]
    /\ \A e \in g.edge :
          /\ e.t # 1
          /\ e.k = "dft" => g.node[e.t].k = "label"
          /\ g.node[e.f].k \in {"cjmp", "tab"} => e.k \in {"true", "false", "case", "dft", "never"}
          /\ g.node[e.f].k = "label" => e.k \in {"flow", "never"}
          /\ e.k \in {"src", "dest"} => EdgesTo(g, e.t) = {e}

-----------------------------------------------------------------------------
(* IRCompile: labels.  Nodes that are removed keep their number.           *)

IsLabel(g, n) == g.node[n].k = "label"

(* A label with one way in, a flow, and at most one way out goes           *)
Needless(g, n) ==
    LET in == EdgesTo(g, n) out == EdgesFrom(g, n) IN
    /\ IsLabel(g, n)
    /\ Cardinality(in) = 1 /\ Cardinality(out) <= 1
    /\ \A e \in in : e.k = "flow"

WithoutLabel(g, n) ==
    [g EXCEPT !.edge = (@ \ (EdgesTo(g, n) \cup EdgesFrom(g, n))) \cup
        {[f |-> i.f, k |-> i.k, t |-> o.t] : i \in EdgesTo(g, n), o \in EdgesFrom(g, n)}]

(* One node after the other                                                *)
WithoutNeedless(g, n) == IF Needless(g, n) THEN WithoutLabel(g, n) ELSE g
RemoveNeedlessLabels(g) ==
    LET upTo[n \in 0..Top(g)] ==
            IF n = 0 THEN g
            ELSE IF IsLabel(g, n) THEN WithoutNeedless(upTo[n - 1], n) ELSE upTo[n - 1]
    IN  upTo[Top(g)]

(* In as many steps as there are nodes all are reached that can be         *)
OneFurther(g, ns) == ns \cup {e.t : e \in {e \in g.edge : e.f \in ns}}
ReachedFrom(g, ns) ==
    LET within[i \in 0..Top(g)] == IF i = 0 THEN ns ELSE OneFurther(g, within[i - 1])
    IN  within[Top(g)]

RemoveNeverFlows(g) ==
    LET flows == [g EXCEPT !.edge = {e \in @ : e.k # "never"}]
        live == ReachedFrom(flows, {1})
    IN  [flows EXCEPT !.edge = {e \in @ : e.f \in live}]

(* What may be jumped to gets a label                                      *)
BugNeedsLabel(g, n) ==   \* mutant: the branches of a condition are forgotten
    /\ ~IsLabel(g, n)
    /\ \/ Cardinality({e \in EdgesTo(g, n) : e.k = "flow"}) > 1
       \/ \E e \in EdgesTo(g, n) : e.k = "case"
NeedsLabel(g, n) ==
    /\ ~IsLabel(g, n)
    /\ \/ Cardinality({e \in EdgesTo(g, n) : e.k = "flow"}) > 1
       \/ \E e \in EdgesTo(g, n) : e.k \in {"case", "true", "false"}

WithLabel(g, n) ==
    LET l == Add(g, "label", 0) IN
    IF NeedsLabel(g, n) THEN InsertBefore(l, n, Top(l), Top(l)) ELSE g
(* A label put before a node leaves what leads to the others               *)
LabelsForAsm(g) ==
    LET downTo[i \in 0..Top(g)] ==
            IF i = 0 THEN g
            ELSE IF NeedsLabel(g, Top(g) + 1 - i) THEN WithLabel(downTo[i - 1], Top(g) + 1 - i)
            ELSE downTo[i - 1]
    IN  downTo[Top(g)]

-----------------------------------------------------------------------------
(* IR2Asm: the nodes in the order they are written, the successors of a    *)
(* node by their addresses: addr[n] is that of n.                          *)

Successors(g, n) ==
    IF g.node[n].k \in {"ret", "end"} THEN {}
    ELSE {e.t : e \in {e \in EdgesFrom(g, n) : e.k # "never"}}

ByAddress(ns, addr) ==
    [i \in 1..Cardinality(ns) |->
        CHOOSE n \in ns : Cardinality({m \in ns : addr[m] < addr[n]}) + 1 = i]

(* r.todo: the nodes that are still to be visited, the next one first      *)
Line(op, n) == [op |-> op, n |-> n]
Visited(g, addr, r) ==
    LET n == Head(r.todo)
        done == Line("node", n) \in Range(r.text)
        next == IF done THEN {} ELSE Successors(g, n)
        line == IF ~done THEN <<Line("node", n)>>
                ELSE IF IsLabel(g, n) THEN <<Line("jmp", n)>> ELSE <<>>
        return == IF next = {} /\ g.node[n].k # "ret" THEN <<Line("ret", 0)>> ELSE <<>>
    IN  [text |-> r.text \o line \o return, todo |-> ByAddress(next, addr) \o Tail(r.todo)]
Visit(g, addr, r) == IF r.todo = <<>> THEN r ELSE Visited(g, addr, r)

(* Every node is visited once for the start, or for an edge to it          *)
Emit(g, addr) ==
    LET after[i \in 0..(Cardinality(g.edge) + 1)] ==
            IF i = 0 THEN [text |-> <<>>, todo |-> <<1>>] ELSE Visit(g, addr, after[i - 1])
    IN  after[Cardinality(g.edge) + 1].text

Compile(g, addr) ==
    LET Written(h) == [g |-> h, text |-> Emit(h, addr)]
    IN  Written(LabelsForAsm(RemoveNeverFlows(RemoveNeedlessLabels(g))))

-----------------------------------------------------------------------------
(* IR2asm.c, IRNode2AddrMode of the target of a jump, and nextNodesTo-     *)
(* Compile: what is jumped to and what may come next is written out        *)
(* exactly once, a target has a label, and a node that does not choose     *)
(* is followed by its successor or by a jump to it.                        *)
JumpsLand ==
    LET Once(n) == Cardinality({i \in DOMAIN code.text : code.text[i] = Line("node", n)}) = 1
        Chooses(n) == code.g.node[n].k \in {"cjmp", "tab"}
    IN  \A i \in DOMAIN code.text :
            LET l == code.text[i] next == Successors(code.g, l.n) IN
            /\ l.op = "jmp" => IsLabel(code.g, l.n) /\ Once(l.n)
            /\ l.op = "node" => \A n \in next : Once(n) /\ (Chooses(l.n) => IsLabel(code.g, n))
            /\ l.op = "node" /\ ~Chooses(l.n) /\ next # {} =>
                  /\ i < Len(code.text)
                  /\ code.text[i + 1].op \in {"node", "jmp"} /\ code.text[i + 1].n \in next
=============================================================================
