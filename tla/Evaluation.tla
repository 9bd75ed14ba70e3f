----------------------------- MODULE Evaluation -----------------------------
(***************************************************************************)
(* What an expression computes: by its types, as exprParser.c gives them,  *)
(* and by the graph that is made of it.  Memory has a value at each        *)
(* address, variables of the compiler at addresses of their own.  A result *)
(* is a value, where it is (an address, or Nowhere) and the memory.        *)
(***************************************************************************)
EXTENDS Typing

CONSTANT AddressOf      \* where each variable is

Top == 2 ^ Bits["U32i"]  \* of a pointer
Nowhere == -1
R(v, at, m) == [v |-> v, at |-> at, m |-> m]

RECURSIVE SizeOf(_)
SizeOf(ty) ==
    CASE ty.t \in {"Bool", "I8i", "U8i"} -> 1
      [] ty.t \in {"I16i", "U16i"} -> 2
      [] ty.t \in {"I64i", "U64i", "F64"} -> 8
      [] ty.t = "array" -> ty.dim * SizeOf(ty.of)
      [] ty.t \in Compound ->
             LET last == Last(MembersOf[ty.name])
             IN  IF BaseOf[ty.name] # NoType THEN SizeOf(BaseOf[ty.name]) ELSE last.off + SizeOf(last.ty)
      [] OTHER -> 4

(* A value converted to a type                                             *)
To(ty, v) ==
    LET t == ObjectBaseType(ty).t IN
    CASE t = "F64" -> v
      [] t = "Bool" -> IF v = 0 THEN 0 ELSE 1
      [] t \in Signed -> ((v - Lowest(t)) % (2 ^ Bits[t])) + Lowest(t)
      [] t \in ArithTypes \ (Signed \cup {"F64", "Bool"}) -> v % (2 ^ Bits[t])
      [] OTHER -> v % Top

(* A class or an array is where it is                                      *)
InPlace(ty) == ObjectBaseType(ty).t \in Compound \cup {"array"}
At(ty, a, m) == R(IF InPlace(ty) THEN a ELSE m[a], a, m)
Store(ty, a, r) == R(To(ty, r.v), a, [r.m EXCEPT ![a] = To(ty, r.v)])
Copy(ty, a, r) ==
    LET Moved(x) == (x - a) \in 0 .. SizeOf(ty) - 1
    IN  R(a, a, [x \in DOMAIN r.m |-> IF Moved(x) THEN r.m[(r.v + x - a) % Top] ELSE r.m[x]])

Truth(P) == IF P THEN 1 ELSE 0
Arithmetic(op, x, y) ==
    CASE op = "+" -> x + y
      [] op = "-" -> x - y
      [] op = "*" -> x * y
      [] op = "<" -> Truth(x < y)
      [] op = "==" -> Truth(x = y)
      [] op = "&&" -> Truth(x # 0 /\ y # 0)
(* What a pointer is added to or taken from is counted in what it points to*)
Scaled(op, ta, tb, x, y) ==
    CASE op \in {"+", "-"} /\ IsPtrType(ta) /\ ~IsPtrType(tb) -> Arithmetic(op, x, y * SizeOf(ta.of)) % Top
      [] op \in {"+", "-"} /\ IsPtrType(tb) /\ ~IsPtrType(ta) -> Arithmetic(op, x * SizeOf(tb.of), y) % Top
      [] op = "-" /\ IsPtrType(ta) /\ IsPtrType(tb) -> (x - y) \div SizeOf(ta.of)
      [] OTHER -> Arithmetic(op, x, y)
Unary(op, ty, x) ==
    CASE op = "-" -> To(ty, -x)
      [] op = "~" -> To(ty, -x - 1)
      [] op = "!" -> Truth(x = 0)
      [] op = "+" -> x
(* What a function gives for its arguments, any that tells them apart      *)
Returned(f, args) == To(f.ret, FoldLeft(LAMBDA sum, x : 3 * sum + x, 0, args))

-----------------------------------------------------------------------------
(* An expression, operation by operation, each in the type it is given     *)

RECURSIVE Meaning(_, _), MeaningOfArgs(_, _, _, _, _)

MeaningOfArgs(args, f, m, vs, last) ==
    LET i == Len(vs) + 1
        given == i <= Len(args)
        e == IF given THEN args[i] ELSE f.args[i].dft
        Next(r, ty) == MeaningOfArgs(args, f, r.m, Append(vs, To(f.args[i].ty, r.v)), ty)
    IN  IF i > Len(f.args) THEN [vs |-> vs, m |-> m]
        ELSE IF e.k = "lastclass" THEN Next(R(NameNumber(ObjectClassName(last)), Nowhere, m), PtrTo(Prim("U8i")))
        ELSE Next(Meaning(e, m), AssignTypeToOp(e))

MeaningOfBinop(e, a, b, ta, tb, ty) ==
    LET counted == e.op \in {"+", "-"} /\ (IsPtrType(ta) \/ IsPtrType(tb))
        both == IF counted THEN <<a.v, b.v>> ELSE <<To(ty, a.v), To(ty, b.v)>>
        Result == Scaled(e.op, ta, tb, both[1], both[2])
        operand == IF IsPtrType(ta) THEN b.v ELSE To(ta, b.v)
        Plain == CHOOSE op \in {"+", "-", "*"} : e.op = op \o "="
    IN  CASE e.op \notin AssignOps -> R(To(ty, Result), Nowhere, b.m)
          [] ClassAssigned(e.op, ta) -> Copy(ta, a.at, b)
          [] e.op = "=" -> Store(ta, a.at, b)
          [] OTHER -> Store(ta, a.at, R(Scaled(Plain, ta, tb, b.m[a.at], operand), Nowhere, b.m))

Meaning(e, m) ==
    LET ty == AssignTypeToOp(e)
        Ofa == Meaning(e.a, m)
        By(op, a) == Store(ty, a.at, R(Scaled(op, ty, DftValType, a.v, 1), Nowhere, a.m))
        Before(v, r) == R(v, Nowhere, r.m)
        Changed(a) == LET r == By(IF e.op = "++" THEN "+" ELSE "-", a)
                      IN  IF e.k = "post" THEN Before(a.v, r) ELSE r
        MemberOf(a) == CHOOSE x \in FindMember(e.op, AssignTypeToOp(e.a), e.x) : TRUE
        Bin(a) == MeaningOfBinop(e, a, Meaning(e.b, a.m), AssignTypeToOp(e.a), AssignTypeToOp(e.b), ty)
        Item(a, i) == At(ty, (a.v + i.v * SizeOf(ty)) % Top, i.m)
        Indexed(a) == Item(a, Meaning(e.i, a.m))
        Const(v) == R(v, Nowhere, m)
        Called(f) == LET args == MeaningOfArgs(e.args, f, m, <<>>, Prim("U0"))
                     IN  R(Returned(f, args.vs), Nowhere, args.m)
        (* every expression, in order; neighbours are compared, in one type*)
        InTurn(rs, x) == Append(rs, Meaning(x, Last(rs).m))
        Neighbours(i, x, y, both) == Arithmetic(e.ops[i], To(both, x), To(both, y)) = 1
        Ordered(rs) ==
            R(Truth(\A i \in DOMAIN e.ops :
                        Neighbours(i, rs[i + 1].v, rs[i + 2].v,
                                   PromotionType(AssignTypeToOp(e.exprs[i]), AssignTypeToOp(e.exprs[i + 1])))),
              Nowhere, Last(rs).m)
    IN  CASE e.k = "var" -> At(ty, AddressOf[e.x], m)
          [] e.k \in {"int", "chr", "flt", "str"} -> Const(e.n)
          [] e.k = "sizeof" -> Const(SizeOf(AssignTypeToOp(e.a)))
          [] e.k = "sizeoftype" -> Const(SizeOf(CastType[e.x]))
          [] e.k = "cast" -> R(To(ty, Ofa.v), Nowhere, Ofa.m)
          [] e.k = "un" /\ e.op = "*" -> At(ty, Ofa.v % Top, Ofa.m)
          [] e.k = "un" /\ e.op = "&" -> R(Ofa.at, Nowhere, Ofa.m)
          [] e.k \in {"un", "post"} /\ e.op \in {"++", "--"} -> Changed(Ofa)
          [] e.k = "un" /\ e.op \notin {"*", "&", "++", "--"} -> R(Unary(e.op, ty, Ofa.v), Nowhere, Ofa.m)
          [] e.k = "member" -> At(ty, (Ofa.v + MemberOf(Ofa).off) % Top, Ofa.m)
          [] e.k = "index" -> Indexed(Ofa)
          [] e.k = "bin" -> Bin(Ofa)
          [] e.k = "call" -> Called(Pointee(AssignTypeToOp(e.f)))
          [] e.k = "ranges" -> Ordered(FoldLeft(InTurn, <<Const(0)>>, e.exprs))
          [] e.k = "init" -> IF ClassAssigned("=", ty) THEN Copy(ty, AddressOf[e.x], Ofa)
                            ELSE Store(ty, AddressOf[e.x], Ofa)

-----------------------------------------------------------------------------
(* The code of a graph: of what a node is made of, in the order of the     *)
(* edges, then of the node.  What is not a variable is kept where it is    *)
(* computed; a variable is read when it is used.                           *)

OpOf == [x \in {"ADD", "SUB", "MULT", "LT", "EQ", "LAND", "NEG", "BNOT", "LNOT", "POS"} |->
           CASE x = "ADD" -> "+" [] x = "SUB" -> "-" [] x = "MULT" -> "*" [] x = "LT" -> "<"
             [] x = "EQ" -> "==" [] x = "LAND" -> "&&" [] x = "NEG" -> "-" [] x = "BNOT" -> "~"
             [] x = "LNOT" -> "!" [] x = "POS" -> "+"]
Precedence(c) == CASE c \in {"A", "FUNC", "ARG"} -> 0 [] c = "B" -> 1 [] OTHER -> 2

PlaceOf(val) == IF val.k = "tmp" THEN Top + val.x ELSE AddressOf[val.x]
IsVariable(node) == node.op = "VALUE" /\ node.val.k \in {"var", "tmp"}

RECURSIVE Run(_, _, _)

EdgesByPrec(node) ==
    SortSeq([i \in DOMAIN node.in |-> i],
            LAMBDA i, j : \/ Precedence(node.in[i].c) < Precedence(node.in[j].c)
                          \/ Precedence(node.in[i].c) = Precedence(node.in[j].c) /\ i < j)
RunInputs(g, node, m) ==
    LET Step(rs, i) == Append(rs, Run(g, node.in[i].n, Last(rs).m))
    IN  Tail(FoldLeft(Step, <<R(0, Nowhere, m)>>, EdgesByPrec(node)))
(* The operands as they are when the node is computed                      *)
Operands(g, node, rs, m) ==
    LET order == EdgesByPrec(node)
        Now(k) == LET from == g[node.in[order[k]].n]
                  IN  IF IsVariable(from) THEN At(from.val.ty, PlaceOf(from.val), m).v ELSE rs[k].v
    IN  [k \in DOMAIN rs |-> Now(k)]

Run(g, n, m) ==
    LET node == g[n]
        type == IRNodeType(g, n)
        TypeAt(c) == IRNodeType(g, Incoming(node, c))
        Place(a, vs, m2) ==
            CASE FromEdges(node, "DEST") # {} -> Store(type, a, R(Last(vs), a, m2))
              [] FromEdges(node, "ASSIGN_FROM_PTR") # {} -> Copy(type, a, R(Last(vs), a, m2))
              [] OTHER -> At(type, a, m2)
        Into(vs, m2) ==
            CASE ~IsVariable(node) -> R(IF node.val.k = "func" THEN 0 ELSE node.val.n, Nowhere, m2)
              [] IsVariable(node) /\ node.val.k = "var" -> Place(PlaceOf(node.val), vs, m2)
              [] OTHER -> R(0, Nowhere, IF vs = <<>> THEN m2 ELSE (PlaceOf(node.val) :> To(type, Last(vs))) @@ m2)
        Offset == FoldLeft(LAMBDA sum, x : sum + x.off, 0, node.val)
        Args(f, vs) == [i \in DOMAIN f.args |-> vs[i + 1]]
        Compute(vs, m2) ==
            CASE node.op = "VALUE" -> Into(vs, m2)
              [] node.op = "TYPECAST" -> R(To(type, vs[1]), Nowhere, m2)
              [] node.op = "SIZEOF" -> R(SizeOf(node.val), Nowhere, m2)
              [] node.op = "DERREF" -> Place(vs[1] % Top, vs, m2)
              [] node.op = "MEMBERS" -> Place((vs[1] + Offset) % Top, vs, m2)
              [] node.op = "MEMBERS_ADDR_OF" -> R((vs[1] + Offset) % Top, Nowhere, m2)
              [] node.op = "ADDR_OF" -> R(PlaceOf(g[Incoming(node, "A")].val), Nowhere, m2)
              [] node.op = "FUNC_CALL" ->
                     R(Returned(Pointee(TypeAt("FUNC")), Args(Pointee(TypeAt("FUNC")), vs)), Nowhere, m2)
              [] IsBinop(node) ->
                     R(To(type, Scaled(OpOf[node.op], TypeAt("A"), TypeAt("B"), vs[1], vs[2])), Nowhere, m2)
              [] OTHER -> R(Unary(OpOf[node.op], type, vs[1]), Nowhere, m2)
        Computed(rs) == LET m2 == IF rs = <<>> THEN m ELSE Last(rs).m
                        IN  Compute(Operands(g, node, rs, m2), m2)
    IN  Computed(RunInputs(g, node, m))
-----------------------------------------------------------------------------
(* Nodes that have no edges into them are left as they are                 *)
Translated(e) == LET r == ParserNode2Expr(e, <<>>) IN [e |-> e, g |-> r.g, root |-> r.at,
    left |-> {n \in DOMAIN r.g : r.g[n].in # <<>>}]

(* Where the graph is known to be another computation than the types say.  *)
(* A node may be of another type than its expression: that of a literal no *)
(* I32i holds, of a character, of a comparison (a byte).                   *)
IsComparison(s) == (s.k = "bin" /\ s.op \in {"<", "&&"}) \/ s.k = "ranges"
IsWide(s) == s.k = "int" /\ AssignTypeToOp(s) # LiteralType(s.n)
ByteOrWide(s) == IsComparison(s) \/ IsWide(s)
Negated(s) == s.k = "un" /\ s.op \in {"-", "~"} /\ (s.a.k = "chr" \/ ByteOrWide(s.a))
BothRetyped(s) == s.k = "bin" /\ s.op \in {"+", "-", "*"} /\ ByteOrWide(s.a) /\ ByteOrWide(s.b)
NamesItsType(s) ==
    s.k = "call" /\ Len(s.args) = 2 /\ (Last(s.args).k = "chr" \/ ByteOrWide(Last(s.args)))
(* What was assigned is taken back in at least an I32i                     *)
SuffixUnwrapped(s) ==
    LET t == ObjectBaseType(AssignTypeToOp(s)).t
    IN  s.k = "post" /\ t \in ArithTypes /\ RankOf(t) < RankOf("I32i")

Increments(s) == s.k \in {"un", "post"} /\ s.op \in {"++", "--"}
Compounds(s) == Increments(s) \/ (s.k = "bin" /\ s.op = "+=")
(* No type is found for a Bool, nor for an array right of a number         *)
NoHigher(ta, tb) ==
    ta.t \notin PtrTypes /\ tb.t # "ptr" /\ (Prim("Bool") \in {ta, tb} \/ tb.t = "array")
Unranked(s) ==
    LET ty(i) == AssignTypeToOp(Inner(s)[i]) IN
    CASE s.k = "ranges" -> \E i \in DOMAIN s.ops : NoHigher(ty(i), ty(i + 1))
      [] Compounds(s) -> ty(1) = Prim("Bool") \/ (s.k = "bin" /\ NoHigher(ty(1), ty(2)) /\ IsPtrType(ty(2)))
      [] s.k = "bin" /\ s.op # "=" -> NoHigher(ty(1), ty(2)) /\ IsPtrType(ty(2))
      [] OTHER -> FALSE
ArrayDifference(s) ==
    s.k = "bin" /\ s.op = "-" /\ AssignTypeToOp(s.a).t = "array" /\ IsPtrType(AssignTypeToOp(s.b))
NestedMember(s) == s.k = "member" /\ s.a.k = "member"
(* The target is computed twice: to be read, and to be written             *)
TargetTwice(s) == Compounds(s) /\ \E x \in Within(s.a) : Increments(x)
(* The address of what was assigned to *pc is pc, the assignment is dropped*)
AssignmentLost(s) == s.k = "bin" /\ s.op = "=" /\ s.b.k = "bin" /\ s.b.op = "="
Deviates(e) == \E s \in Within(e) :
    \/ Negated(s) \/ BothRetyped(s) \/ NamesItsType(s) \/ SuffixUnwrapped(s) \/ Unranked(s)
    \/ ArrayDifference(s) \/ NestedMember(s) \/ TargetTwice(s) \/ AssignmentLost(s)

Stopped(g) == \E n \in DOMAIN g : IRNodeType(g, n) = Abort
SameOutcome(x, y) == x.v = y.v /\ \A i \in 0 .. Top - 1 : x.m[i] = y.m[i]
(* ms: what memory may hold                                                *)
ComputesAsTyped(q, ms) ==
    \/ Deviates(q.e)
    \/ q.root # 0 /\ ~Stopped(q.g) /\ \A m \in ms : SameOutcome(Run(q.g, q.root, m), Meaning(q.e, m))
=============================================================================
