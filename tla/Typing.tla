------------------------------- MODULE Typing -------------------------------
(***************************************************************************)
(* exprParser.c: the type of every expression the parser has built, and    *)
(* which expressions are errors; and parse2IR.c: the nodes made of one.    *)
(* Code that makes nodes gives the graph and the node an expression ends   *)
(* in, 0 for none.                                                         *)
(***************************************************************************)
EXTENDS Expressions, Casting

CONSTANTS VarType,     \* the type of each variable,
          FuncType,    \* of each function,
          CastType     \* the type of each name that is cast to

Flt(n) == [k |-> "flt", n |-> n]
Chr(n) == [k |-> "chr", n |-> n]
Str(n) == [k |-> "str", n |-> n]
Initial(x, a) == [k |-> "init", x |-> x, a |-> a]

ArithTypes == {Ranks[i] : i \in 2..Len(Ranks)}
Arith(base) == base.t \in ArithTypes \cup PtrTypes
IsArith(ty) == Arith(ObjectBaseType(ty))
IsPtrOnly(ty) == ObjectBaseType(ty).t = "ptr"

(* The smallest type that has the value                                    *)
IntLitType(n, types) == Prim(types[CHOOSE i \in DOMAIN types :
                                 Holds(types[i], n) /\ \A j \in 1 .. i - 1 : ~Holds(types[j], n)])
SignedLit(n) == IntLitType(n, <<"I8i", "I16i", "I32i", "I64i">>)
UnsignedLit(n) == IntLitType(n, <<"U8i", "U16i", "U32i", "U64i">>)

Promoted(a, b) ==
    CASE a.t \in PtrTypes -> a
      [] a.t \notin PtrTypes /\ b.t \in PtrTypes -> b
      [] OTHER -> Prim(Ranks[Max({RankOf(a.t), RankOf(b.t), RankOf("I32i")})])

PromotionType(a, b) == Promoted(ObjectBaseType(a), ObjectBaseType(b))

-----------------------------------------------------------------------------
(* The type of an expression from the types of what it is made of, and     *)
(* whether it is an error                                                  *)

Complete(ty) == IF ty.t = "forward" THEN ObjectBaseType(ty) ELSE ty
MembersNamed(ty, x) ==
    IF Complete(ty).t \in Compound THEN {m \in Range(MembersOf[Complete(ty).name]) : m.name = x} ELSE {}
FindMember(op, ty, x) == IF op = "->" /\ ty.t # "ptr" THEN {} ELSE MembersNamed(Pointee(ty), x)

ClassAssigned(op, ta) == op = "=" /\ ObjectBaseType(ta).t \in Compound
BinopWrong(op, ta, tb) ==
    IF ClassAssigned(op, ta) THEN ta # ObjectBaseType(tb)
    ELSE ~IsArith(ta) \/ ~IsArith(tb) \/ (op = "+" /\ IsPtrOnly(ta) /\ IsPtrOnly(tb))
(* a and b are the base types                                              *)
BinopTypeFrom(op, ta, tb, a, b) ==
    CASE op = "=" /\ a.t \in Compound /\ ta = b -> a
      [] op \in {"+", "-"} /\ a.t = "ptr" /\ Arith(b) /\ b.t # "ptr" -> ta
      [] op \in {"+", "-"} /\ b.t = "ptr" /\ Arith(a) /\ a.t # "ptr" -> tb
      [] op = "-" /\ a.t = "ptr" /\ b.t = "ptr" -> DftValType
      [] ~Arith(a) \/ ~Arith(b) -> Prim("I64i")
      [] op \in AssignOps -> ta
      [] OTHER -> Promoted(a, b)
BinopType(op, ta, tb) == BinopTypeFrom(op, ta, tb, ObjectBaseType(ta), ObjectBaseType(tb))

UnopWrong(op, ta) ==
    CASE op = "*" -> ta.t \notin PtrTypes
      [] op = "&" -> FALSE
      [] OTHER -> ~IsArith(ta)
UnopType(op, ta) ==
    CASE op = "*" -> IF ta.t \in PtrTypes THEN ta.of ELSE DftValType
      [] op = "&" -> PtrTo(ta)
      [] OTHER -> IF IsArith(ta) THEN ta ELSE Prim("I64i")

(* An argument, for a parameter of the type                                *)
Passes(expected, have) == IF IsArith(expected) THEN IsArith(have) ELSE expected = have
ParamType(f, i) == IF i <= Len(f.args) THEN f.args[i].ty ELSE PtrTo(Prim("U0"))
CallWrong(f, have) ==
    \/ f.t # "function"
    \/ ~f.varargs /\ Len(have) > Len(f.args)
    \/ ~f.varargs /\ \E i \in Len(have) + 1 .. Len(f.args) : f.args[i].dft = None
    \/ \E i \in DOMAIN have : ~Passes(ParamType(f, i), have[i])

ItemOf(ty) == IF ty.t \in PtrTypes THEN ty.of ELSE DftValType

RECURSIVE AssignTypeToOp(_)
AssignTypeToOp(e) ==
    CASE e.k = "var" -> VarType[e.x]
      [] e.k = "func" -> FuncType[e.x]
      [] e.k = "int" -> PromotionType(SignedLit(e.n), DftValType)
      [] e.k = "chr" -> UnsignedLit(e.n)
      [] e.k = "flt" -> Prim("F64")
      [] e.k = "str" -> PtrTo(Prim("U8i"))
      [] e.k \in {"sizeof", "sizeoftype", "ranges"} -> DftValType
      [] e.k = "comma" -> IF Last(e.items) = None THEN Prim("U0") ELSE AssignTypeToOp(Last(e.items))
      [] e.k = "member" ->
             LET found == FindMember(e.op, AssignTypeToOp(e.a), e.x)
             IN  IF found = {} THEN DftValType ELSE (CHOOSE m \in found : TRUE).ty
      [] e.k = "bin" -> BinopType(e.op, AssignTypeToOp(e.a), AssignTypeToOp(e.b))
      [] e.k \in {"un", "post"} -> UnopType(e.op, AssignTypeToOp(e.a))
      [] e.k = "call" -> LET f == Pointee(AssignTypeToOp(e.f))
                         IN  IF f.t = "function" THEN f.ret ELSE Prim("I64i")
      [] e.k = "cast" -> CastType[e.type]
      [] e.k = "index" -> ItemOf(ObjectBaseType(AssignTypeToOp(e.a)))
      [] e.k = "init" -> VarType[e.x]
      [] e.k = "none" -> NoType

(* An initial value: of the same type, unless both are arithmetic          *)
ValidateAssign(ta, tb) == IF IsArith(ta) \/ IsArith(tb) THEN IsArith(ta) /\ IsArith(tb) ELSE ta = tb

Inner(e) ==
    CASE e.k \in {"un", "post", "member", "cast", "sizeof", "init"} -> <<e.a>>
      [] e.k = "bin" -> <<e.a, e.b>>
      [] e.k = "index" -> <<e.i, e.a>>
      [] e.k = "ranges" -> e.exprs
      [] e.k = "comma" -> SelectSeq(e.items, LAMBDA i : i # None)
      [] e.k = "call" -> <<e.f>> \o e.args
      [] OTHER -> <<>>

(* The expression is an error itself                                       *)
Wrong(e) ==
    LET ty == [i \in DOMAIN Inner(e) |-> AssignTypeToOp(Inner(e)[i])] IN
    CASE e.k = "bin" -> BinopWrong(e.op, ty[1], ty[2])
      [] e.k \in {"un", "post"} -> UnopWrong(e.op, ty[1])
      [] e.k = "member" -> FindMember(e.op, ty[1], e.x) = {}
      [] e.k = "call" -> CallWrong(Pointee(ty[1]), Tail(ty))
      [] e.k = "cast" -> ~IsArith(CastType[e.type]) \/ ~IsArith(ty[1])
      [] e.k = "index" -> ~IsArith(ty[1]) \/ ObjectBaseType(ty[2]).t \notin PtrTypes
      [] e.k = "ranges" -> \E i \in DOMAIN ty : ~IsArith(ty[i])
      [] e.k = "init" -> ~ValidateAssign(ObjectBaseType(VarType[e.x]), ObjectBaseType(ty[1]))
      [] OTHER -> FALSE

RECURSIVE Within(_)
Within(e) == {e} \cup UNION {Within(Inner(e)[i]) : i \in DOMAIN Inner(e)}

(* The type of an argument that is left out is asked for as well, of none  *)
Crashes(e) == None \in Within(e)
Accepted(e) == ~Crashes(e) /\ \A s \in Within(e) : ~Wrong(s)

-----------------------------------------------------------------------------
(* IR.c: nodes                                                             *)

N(g, n) == [g |-> g, at |-> n]
Create(g, op, val, in) == N(Append(g, Node(op, val, in)), Len(g) + 1)
Value(g, val) == Create(g, "VALUE", val, <<>>)

IRCreateVarRef(g, x) == Value(g, [k |-> "var", x |-> x, ty |-> VarType[x]])
(* A variable of the compiler's own, named by a number                     *)
IRCreateVirtVar(g, id, ty) == Value(g, [k |-> "tmp", x |-> id, ty |-> ty])
IRCreateIntLit(g, n) == Value(g, [k |-> "int", n |-> n, signed |-> TRUE])
IRCreateSizeof(g, ty) == Create(g, "SIZEOF", ty, <<>>)
IRCreateStrLit(g, n) == Value(g, [k |-> "str", n |-> n])
IRCreateFuncRef(g, x) == Value(g, [k |-> "func", ty |-> FuncType[x]])
IRCreateUnop(g, a, op) == Create(g, op, <<>>, <<Edge("A", a)>>)
IRCreateBinop(g, a, b, op) == Create(g, op, <<>>, <<Edge("A", a), Edge("B", b)>>)
IRCreateTypecast(g, in, outType) == Create(g, "TYPECAST", outType, <<Edge("A", in)>>)
Connect(g, n, to, c) == [g EXCEPT ![to].in = Append(@, Edge(c, n))]

-----------------------------------------------------------------------------
(* IR.c: nodes that depend on what they are made of                        *)

(* The address of a member is that of what it is a member of, further on;  *)
(* that of what a pointer points to is the pointer: the node with what was *)
(* assigned into it is killed.                                             *)
IRCreateAddrOf(g, n) ==
    CASE g[n].op = "MEMBERS" -> Create(g, "MEMBERS_ADDR_OF", g[n].val, g[n].in)
      [] g[n].op = "DERREF" -> N(g, Incoming(g[n], "A"))
      [] OTHER -> IRCreateUnop(g, n, "ADDR_OF")

(* A class is copied from where it is                                      *)
IRCreateAssign(g, in, dst) ==
    IF ObjectBaseType(IRNodeType(g, dst)).t \in Compound
    THEN LET from == IRCreateAddrOf(g, in) IN N(Connect(from.g, from.at, dst, "ASSIGN_FROM_PTR"), dst)
    ELSE N(Connect(g, in, dst, "DEST"), dst)

RECURSIVE IRCreateMemberAccess(_, _, _)
IRCreateMemberAccess(g, n, x) ==
    LET type == IRNodeType(g, n)
        found == MembersNamed(Pointee(type), x)
        member == CHOOSE m \in found : TRUE
        from == IRCreateAddrOf(g, n)
    IN  CASE g[n].op = "DERREF" /\ type.t # "ptr" -> IRCreateMemberAccess(from.g, from.at, x)
          [] found = {} -> N(g, 0)
          [] g[n].op = "MEMBERS" -> N([g EXCEPT ![n].val = Append(@, member)], n)
          [] OTHER -> Create(g, "MEMBERS", <<member>>, <<Edge("A", n)>>)

IRCreateArrayAccess(g, arr, index) ==
    LET ptr == IRCreateBinop(g, arr, index, "ADD") IN IRCreateUnop(ptr.g, ptr.at, "DERREF")

-----------------------------------------------------------------------------
(* parse2IR.c                                                              *)

UnopAssign2IR == [x \in {"++", "--"} |-> IF x = "++" THEN "ADD" ELSE "SUB"]
Unop2IR ==
    ("~" :> "BNOT") @@ ("!" :> "LNOT") @@ ("-" :> "NEG") @@ ("+" :> "POS") @@ ("*" :> "DERREF")
Assign2IR ==
    ("+=" :> "ADD") @@ ("-=" :> "SUB") @@ ("<<=" :> "LSHIFT") @@ (">>=" :> "RSHIFT") @@ ("*=" :> "MULT")
    @@ ("/=" :> "DIV") @@ ("%=" :> "MOD") @@ ("&=" :> "BAND") @@ ("^=" :> "BXOR") @@ ("|=" :> "BOR")
Binop2IR ==
    ("+" :> "ADD") @@ ("-" :> "SUB") @@ ("*" :> "MULT") @@ ("/" :> "DIV") @@ ("%" :> "MOD")
    @@ ("pow" :> "POW") @@ ("<<" :> "LSHIFT") @@ (">>" :> "RSHIFT") @@ ("&" :> "BAND") @@ ("|" :> "BOR")
    @@ ("^" :> "BXOR") @@ (">" :> "GT") @@ ("<" :> "LT") @@ (">=" :> "GE") @@ ("<=" :> "LE")
    @@ ("==" :> "EQ") @@ ("!=" :> "NE") @@ ("&&" :> "LAND") @@ ("||" :> "LOR") @@ ("^^" :> "LXOR")

(* The name of a class, of what pointers and arrays of it point to: as the *)
(* number of the name                                                      *)
RECURSIVE ObjectClassName(_)
ObjectClassName(ty) == IF IsPtrType(ty) THEN ObjectClassName(ty.of) ELSE ty
NameNumber(ty) == IF ty.t \in ArithTypes THEN RankOf(ty.t) ELSE 0

RECURSIVE LowerArgs(_, _, _, _, _), Compared(_, _, _, _, _), ParserNode2Expr(_, _)

CastIf(r, differ, to) == IF differ THEN IRCreateTypecast(r.g, r.at, to) ELSE r

LowerBinop(e, a, b, ta, tb, res) ==
    LET ptrArith == IsPtrType(ta) \/ IsPtrType(tb)
        Operation(x, y) == IRCreateBinop(y.g, x.at, y.at, Binop2IR[e.op])
        Both(x) == Operation(x, CastIf(N(x.g, b.at), tb # res /\ ~ptrArith, res))
        Assigned(y) == IRCreateBinop(y.g, a.at, y.at, Assign2IR[e.op])
        Into(bin, to) == IRCreateAssign(to.g, bin.at, to.at)
        Compounded(bin) == Into(bin, ParserNode2Expr(e.a, bin.g))
    IN  CASE e.op \in DOMAIN Binop2IR -> Both(CastIf(N(b.g, a.at), ta # res /\ ~ptrArith, res))
          [] e.op \in DOMAIN Assign2IR -> Compounded(Assigned(CastIf(b, ta # tb /\ ~ptrArith, ta)))
          [] e.op = "=" -> IRCreateAssign(b.g, b.at, a.at)

(* One more, or less: assigned, and taken back for what it was before      *)
LowerIncrement(e, in) ==
    LET op == UnopAssign2IR[e.op]
        undo == IF op = "ADD" THEN "SUB" ELSE "ADD"
        By(one, x, how) == IRCreateBinop(one.g, x, one.at, how)
        Into(bin, to) == IRCreateAssign(to.g, bin.at, to.at)
        Done(bin) == Into(bin, ParserNode2Expr(e.a, bin.g))
        Result(asn) == IF e.k = "un" THEN asn ELSE By(IRCreateIntLit(asn.g, 1), asn.at, undo)
    IN  Result(Done(By(IRCreateIntLit(in.g, 1), in.at, op)))

LowerUnop(e, in, ta, res) ==
    LET Of(r) == IRCreateUnop(r.g, r.at, Unop2IR[e.op])
    IN  IF e.op = "&" THEN IRCreateAddrOf(in.g, in.at)
        ELSE Of(CastIf(in, e.op # "*" /\ ta # res, res))

(* Arguments, those not given by their defaults; ats are their nodes, last *)
(* is the type of the last                                                 *)
LowerArgs(args, f, g, ats, last) ==
    LET i == Len(ats) + 1
        Next(r) == LowerArgs(args, f, r.g, Append(ats, r.at), IRNodeType(r.g, r.at))
        given == i <= Len(args)
    IN  CASE i > Len(args) /\ i > Len(f.args) -> [g |-> g, ats |-> ats]
          [] given -> Next(ParserNode2Expr(args[i], g))
          [] ~given /\ i <= Len(f.args) ->
                 IF f.args[i].dft.k = "lastclass"
                 THEN Next(IRCreateStrLit(g, NameNumber(ObjectClassName(last))))
                 ELSE Next(ParserNode2Expr(f.args[i].dft, g))

(* A call of a function of type f.  The conversion of an argument has its  *)
(* types swapped: to the type it has                                       *)
LowerCall(e, f, g) ==
    LET Arg(r, i) ==
            LET have == IRNodeType(r.g, r.ats[i])
                differ == i <= Len(f.args) /\ f.args[i].ty # have
                c == CastIf(N(r.g, r.ats[i]), differ, have)
            IN  [g |-> c.g, ats |-> [r.ats EXCEPT ![i] = c.at]]
        Of(func, r) ==
            Create(func.g, "FUNC_CALL", <<>>,
                   <<Edge("FUNC", func.at)>> \o [i \in DOMAIN r.ats |-> Edge("ARG", r.ats[i])])
        Called(r) == Of(ParserNode2Expr(e.f, r.g), r)
        Passed(r) == Called(FoldLeft(Arg, r, [i \in DOMAIN r.ats |-> i]))
    IN  Passed(LowerArgs(e.args, f, g, <<>>, Prim("U0")))

(* A range: each expression in a variable, neighbours compared, all true.  *)
(* all is what has been made, var the variable before expression i         *)
Compared(e, i, g, all, var) ==
    LET Next(r, v) == Compared(e, i + 1, r.g, r.at, v)
        And(cmp) == IF i = 2 THEN cmp ELSE IRCreateBinop(cmp.g, all, cmp.at, "LAND")
        With(l, v) == Next(And(IRCreateBinop(l.g, l.at, v.at, Binop2IR[e.ops[i - 1]])), l.g[v.at].val)
        Left(v) == IF i = 2 THEN With(N(v.g, all), v) ELSE With(Value(v.g, var), v)
        Kept(r, v) == IF i = 1 THEN Next(IRCreateAssign(v.g, r.at, v.at), v.g[v.at].val)
                      ELSE Left(IRCreateAssign(v.g, r.at, v.at))
        Stored(r) == Kept(r, IRCreateVirtVar(r.g, Len(r.g), IRNodeType(r.g, r.at)))
    IN  IF i > Len(e.exprs) THEN N(g, all) ELSE Stored(ParserNode2Expr(e.exprs[i], g))

LowerBinary(e, a) ==
    LowerBinop(e, a, ParserNode2Expr(e.b, a.g), AssignTypeToOp(e.a), AssignTypeToOp(e.b), AssignTypeToOp(e))
LowerUnary(e, in) ==
    IF e.op \in DOMAIN UnopAssign2IR THEN LowerIncrement(e, in)
    ELSE LowerUnop(e, in, AssignTypeToOp(e.a), AssignTypeToOp(e))

ParserNode2Expr(e, g) ==
    LET Again(h) == ParserNode2Expr(e.a, h)
        CastTo(r) == IRCreateTypecast(r.g, r.at, CastType[e.type])
        Indexed(a, i) == IRCreateArrayAccess(i.g, a.at, i.at)
        ItemAt(a) == Indexed(a, ParserNode2Expr(e.i, a.g))
        Dot(r) == IRCreateMemberAccess(r.g, r.at, e.x)
        Into(r, v) == IRCreateAssign(v.g, r.at, v.at)
        Declare(r) == Into(r, IRCreateVarRef(r.g, e.x))
    IN  CASE e.k = "var" -> IRCreateVarRef(g, e.x)
          [] e.k = "func" -> IRCreateFuncRef(g, e.x)
          [] e.k \in {"int", "chr"} -> IRCreateIntLit(g, e.n)
          [] e.k = "flt" -> Value(g, [k |-> "flt", n |-> e.n])
          [] e.k = "str" -> IRCreateStrLit(g, e.n)
          [] e.k = "sizeof" -> IRCreateSizeof(g, AssignTypeToOp(e.a))
          [] e.k = "sizeoftype" -> IRCreateSizeof(g, CastType[e.x])
          [] e.k = "ranges" -> Compared(e, 1, g, 0, <<>>)
          [] e.k = "call" -> LowerCall(e, Pointee(AssignTypeToOp(e.f)), g)
          [] e.k = "bin" -> LowerBinary(e, Again(g))
          [] e.k \in {"un", "post"} -> LowerUnary(e, Again(g))
          [] e.k = "index" -> ItemAt(Again(g))
          [] e.k = "cast" -> CastTo(Again(g))
          [] e.k = "member" -> Dot(Again(g))
          [] e.k = "init" -> Declare(Again(g))
          [] e.k = "comma" -> N(g, 0)
=============================================================================
