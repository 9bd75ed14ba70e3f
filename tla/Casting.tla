------------------------------ MODULE Casting -------------------------------
(***************************************************************************)
(* IRTypeInference.c: the types of nodes and the conversions put between   *)
(* them.  A graph is a sequence of nodes; a node has what it is, and the   *)
(* edges into it, each with the node it is from.  A type is a record, t    *)
(* naming its kind.                                                        *)
(***************************************************************************)
EXTENDS Integers, Sequences, SequencesExt

CONSTANTS MembersOf,   \* the members of each class and union: name, ty, off
          BaseOf       \* what each of them is based on, or NoType

VARIABLE converting   \* e, g, root: an expression, its graph, the node it ends in;
                      \* left: the nodes that have not been taken yet

Prim(x) == [t |-> x]
PtrTo(ty) == [t |-> "ptr", of |-> ty]
ClassOf(x) == [t |-> "class", name |-> x]
NoType == Prim("none")

Ranks == <<"U0", "Bool", "I8i", "U8i", "I16i", "U16i", "I32i", "U32i", "I64i", "U64i", "F64">>
PtrTypes == {"ptr", "array"}
Compound == {"class", "union"}
DftValType == Prim("I32i")

(* A forward declaration is what has its name by now                       *)
Declared(ty) == IF ty.t = "forward" /\ ty.name \in DOMAIN BaseOf THEN ClassOf(ty.name) ELSE ty
HasBase(ty) == ty.t \in Compound /\ BaseOf[ty.name] # NoType
Through(ty, base) == IF HasBase(ty) THEN base[ty.name] ELSE Declared(ty)
BaseType[x \in DOMAIN BaseOf] == Through(BaseOf[x], BaseType)
ObjectBaseType(ty) == Through(ty, BaseType)

IsPtrType(ty) == ty.t \in PtrTypes
Pointee(ty) == IF ty.t = "ptr" THEN ty.of ELSE ty

(* Integers have fewer bits than in the program, in the same order         *)
Bits == [Bool |-> 2, I8i |-> 2, U8i |-> 2, I16i |-> 3, U16i |-> 3,
         I32i |-> 5, U32i |-> 5, I64i |-> 7, U64i |-> 7]
Signed == {"I8i", "I16i", "I32i", "I64i"}
Lowest(t) == IF t \in Signed THEN -(2 ^ (Bits[t] - 1)) ELSE 0
Highest(t) == IF t \in Signed THEN 2 ^ (Bits[t] - 1) - 1 ELSE 2 ^ Bits[t] - 1
Holds(t, n) == Lowest(t) <= n /\ n <= Highest(t)

RankOf(t) == CHOOSE i \in DOMAIN Ranks : Ranks[i] = t

Edge(c, n) == [c |-> c, n |-> n]
Node(op, val, in) == [op |-> op, val |-> val, in |-> in]
FromEdges(node, c) == {node.in[i].n : i \in {j \in DOMAIN node.in : node.in[j].c = c}}
Incoming(node, c) == CHOOSE n \in FromEdges(node, c) : TRUE
IsBinop(node) == FromEdges(node, "A") # {} /\ FromEdges(node, "B") # {}

-----------------------------------------------------------------------------
(* The type of a node                                                      *)

Logical == {"LAND", "LOR", "LXOR"}
Compares == {"GT", "GE", "LE", "LT", "EQ", "NE"}
Abort == Prim("abort")

Ranked == {Ranks[i] : i \in DOMAIN Ranks} \ {"Bool"}

(* Bool has no rank here, nor has an array on the right: an assertion      *)
Higher(x, y) ==
    IF {x.t, y.t} \subseteq Ranked THEN IF RankOf(x.t) > RankOf(y.t) THEN x ELSE y ELSE Abort
GetHigherType(a, b) ==
    CASE a.t \in PtrTypes -> a
      [] a.t \notin PtrTypes /\ b.t = "ptr" -> b
      [] OTHER -> Higher(ObjectBaseType(a), ObjectBaseType(b))

(* As signed, or as unsigned, of which a negative number exceeds each type *)
IntUnsignedExceeds(n, t) == n < 0 \/ n > Highest(t)
IntSignedExceeds(n, t) == ~Holds(t, n)
LiteralType(n) ==
    CASE IntUnsignedExceeds(n, "U32i") /\ IntSignedExceeds(n, "I32i") ->
             Prim(IF IntSignedExceeds(n, "I64i") THEN "U64i" ELSE "I64i")
      [] OTHER -> Prim(IF IntSignedExceeds(n, "I32i") THEN "U32i" ELSE "I32i")

ValueType(val) ==
    CASE val.k \in {"var", "tmp", "func"} -> val.ty
      [] val.k = "int" -> LiteralType(val.n)
      [] val.k = "flt" -> Prim("F64")
      [] val.k = "str" -> PtrTo(Prim("U8i"))

BinaryType(op, a, b) ==
    IF a.t \in PtrTypes /\ b.t \in PtrTypes /\ op = "SUB" THEN DftValType ELSE GetHigherType(a, b)
UnaryType(node, a) ==
    CASE node.op = "ADDR_OF" -> PtrTo(a)
      [] node.op = "DERREF" -> IF a.t \in PtrTypes THEN a.of ELSE Abort
      [] node.op = "MEMBERS" -> Last(node.val).ty
      [] node.op = "MEMBERS_ADDR_OF" -> PtrTo(Last(node.val).ty)
      [] OTHER -> a

(* ... from those of what its edges come from                              *)
TypeOf(node, func, a, b) ==
    CASE node.op = "VALUE" -> ValueType(node.val)
      [] node.op = "TYPECAST" -> node.val
      [] node.op = "SIZEOF" -> DftValType
      [] node.op \in Logical \cup Compares -> Prim("U8i")
      [] node.op = "FUNC_CALL" -> Pointee(ObjectBaseType(func)).ret
      [] OTHER -> IF IsBinop(node) THEN BinaryType(node.op, a, b) ELSE UnaryType(node, a)

TypeFrom(node, type) ==
    TypeOf(node, type[Incoming(node, "FUNC")], type[Incoming(node, "A")], type[Incoming(node, "B")])

NodeTypes(g) == LET type[n \in DOMAIN g] == TypeFrom(g[n], type) IN type
IRNodeType(g, n) == NodeTypes(g)[n]

-----------------------------------------------------------------------------
(* IRInsertImplicitTypecasts, at one node.  A conversion of a type to      *)
(* itself, made for some of the edges, is left out.                        *)

(* The edge comes from a new node now, which is of the type                *)
CastEdge(g, n, i, ty) ==
    Append([g EXCEPT ![n].in[i].n = Len(g) + 1], Node("TYPECAST", ty, <<Edge("A", g[n].in[i].n)>>))
CastUnless(g, n, i, ty) == IF ty = IRNodeType(g, g[n].in[i].n) THEN g ELSE CastEdge(g, n, i, ty)
(* Some of its edges, each to a type: types has one for every edge         *)
CastEdges(g, n, edges, types) ==
    LET upTo[i \in 0..Len(g[n].in)] ==
            IF i = 0 THEN g
            ELSE IF g[n].in[i].c \in edges THEN CastUnless(upTo[i - 1], n, i, types[i]) ELSE upTo[i - 1]
    IN  upTo[Len(g[n].in)]
Each(g, n, ty) == [i \in DOMAIN g[n].in |-> IF g[n].in[i].c = "ASSIGN_FROM_PTR" THEN PtrTo(ty) ELSE ty]

AllEdges == {"A", "B", "DEST", "ASSIGN_FROM_PTR"}
Untouched == {"TYPECAST", "ADDR_OF", "MEMBERS", "MEMBERS_ADDR_OF"}

CastArgs(g, n) ==
    LET f == Pointee(IRNodeType(g, Incoming(g[n], "FUNC")))
        params == [i \in DOMAIN g[n].in |->
                      IF i - 1 \in DOMAIN f.args THEN f.args[i - 1].ty ELSE IRNodeType(g, g[n].in[i].n)]
    IN  CastEdges(g, n, {"ARG"}, params)

(* Mutants: comparisons are made in the type of their results; the left    *)
(* operand is left as it is                                                *)
BugCastCompared(g, n, a, b) == CastEdges(g, n, AllEdges, Each(g, n, IRNodeType(g, n)))
BugCastOperands(g, n, a, b) == CastEdges(g, n, AllEdges \ {"A"}, Each(g, n, GetHigherType(a, b)))

CastOperands(g, n, a, b) ==
    LET compared == g[n].op \in Logical \cup Compares
        type == IF compared THEN GetHigherType(a, b) ELSE IRNodeType(g, n)
        added == g[n].op \in {"ADD", "SUB"}
        ptrA == IsPtrType(ObjectBaseType(a))
        ptrB == IsPtrType(ObjectBaseType(b))
    IN  CASE added /\ ptrA /\ ptrB -> g
          [] added /\ ptrA # ptrB -> CastEdges(g, n, {IF ptrA THEN "B" ELSE "A"}, Each(g, n, DftValType))
          [] OTHER -> CastEdges(g, n, AllEdges, Each(g, n, type))

InsertImplicitTypecasts(g, n) ==
    LET types == Each(g, n, IRNodeType(g, n)) IN
    CASE g[n].op = "FUNC_CALL" -> CastArgs(g, n)
      [] g[n].op = "DERREF" -> CastEdges(g, n, {"DEST"}, types)
      [] g[n].op \in Untouched -> g
      [] OTHER -> IF IsBinop(g[n])
                  THEN CastOperands(g, n, IRNodeType(g, Incoming(g[n], "A")), IRNodeType(g, Incoming(g[n], "B")))
                  ELSE CastEdges(g, n, AllEdges, types)


(* What parse2IR.c sees to: what is from nodes of the graph is from one of *)
(* each kind, but for arguments; what computes has an operand, a call its  *)
(* function; operators alone have two; what is assigned to is somewhere;   *)
(* and of any nodes one depends on none of them.                           *)
Somewhere == {"VALUE", "DERREF", "MEMBERS"}
WellMade(node, ns) ==
    LET Has(c) == FromEdges(node, c) # {} IN
    /\ node = Node(node.op, node.val, node.in)
    /\ node.in \in Seq([c : AllEdges \cup {"FUNC", "ARG"}, n : ns])
    /\ \A i, j \in DOMAIN node.in : node.in[i].c = node.in[j].c => i = j \/ node.in[i].c = "ARG"
    /\ IF node.op = "FUNC_CALL" THEN Has("FUNC") ELSE node.op \in {"VALUE", "SIZEOF"} \/ Has("A")
    /\ Has("B") => node.op \notin {"VALUE", "SIZEOF", "FUNC_CALL", "DERREF"} \cup Untouched
    /\ Has("DEST") => node.op \in Somewhere
OfExpression(g) ==
    /\ g = [n \in 1..Len(g) |-> g[n]] /\ Len(g) \in Nat
    /\ \A n \in DOMAIN g : WellMade(g[n], DOMAIN g)
    /\ \A ns \in SUBSET DOMAIN g :
          ns # {} => \E n \in ns : \A i \in DOMAIN g[n].in : g[n].in[i].n \notin ns

(* Nodes that have edges into them are taken, as they lie in memory        *)
Begins ==
    \E e, root, g :
        /\ OfExpression(g)
        /\ converting = [e |-> e, g |-> g, root |-> root, left |-> {n \in DOMAIN g : g[n].in # <<>>}]
Convert(n) ==
    /\ n \in converting.left
    /\ converting' = [converting EXCEPT !.left = @ \ {n}, !.g = InsertImplicitTypecasts(@, n)]

Conversions == Begins /\ [][\E n \in converting.left : Convert(n)]_converting

-----------------------------------------------------------------------------
(* The types an operation is given its operands in                         *)
Agree(g, n) ==
    LET node == g[n]
        type == IRNodeType(g, n)
        Have(c) == {IRNodeType(g, m) : m \in FromEdges(node, c)}
        Pointers(tys) == {ty \in tys : IsPtrType(ObjectBaseType(ty))}
        Same(tys) == \A x, y \in tys : x = y
        operands == Have("A") \cup Have("B")
        Counted == operands \ Pointers(operands) \subseteq {DftValType}
    IN  /\ Have("DEST") \subseteq {type} \/ node.op = "MEMBERS"
        /\ IsBinop(node) =>
               IF node.op \in {"ADD", "SUB"} /\ Pointers(operands) # {} THEN Counted
               ELSE Same(operands) /\ (node.op \in Logical \cup Compares \/ operands = {type})

(* IRTypeInference.c, IRInsertImplicitTypecasts: once every node has been  *)
(* taken, in any order, an operation has its operands in one type, what is *)
(* added to a pointer is an I32i, and what is assigned is of the type of   *)
(* what it is assigned to: no later conversion undid an earlier one. A     *)
(* member that is assigned to is exempt, as the loop passes it over (332). *)
OperandsAgree == converting.left = {} => \A n \in DOMAIN converting.g : Agree(converting.g, n)
=============================================================================
