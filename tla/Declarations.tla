---------------------------- MODULE Declarations ----------------------------
(***************************************************************************)
(* The declarations of types, variables and functions, read by parserA.c:  *)
(* which type objects they make, in which order, and which of them the     *)
(* variables get.  A parser takes the tokens t, the place i it starts at   *)
(* and the types c known so far; what it gives has the place it ended at   *)
(* and the types known then, which a parser that gives up has added to.    *)
(***************************************************************************)
EXTENDS Tokens, TypeObjects

RegNames == {"EAX", "ESI"}
Linkages == {"public", "static", "extern", "internal", "_extern", "import", "_import"}
IsKw(t, i, kws) == Token(t, i).t = "kw" /\ Token(t, i).x \in kws
IsName(t, i) == Token(t, i).t = "name"

(* The symbol that _extern and _import name is passed over                 *)
GetLinkage(t, i) ==
    IF ~IsKw(t, i, Linkages) THEN i
    ELSE IF IsKw(t, i, {"_extern", "_import"}) /\ IsName(t, i + 1) THEN i + 2 ELSE i + 1

RegNoreg(t, i) ==
    CASE ExpectKeyword(t, i, "noreg") -> i + 1
      [] ExpectKeyword(t, i, "reg") -> IF Token(t, i + 1).x \in RegNames THEN i + 2 ELSE i + 1
      [] OTHER -> i

RECURSIVE Dims(_, _)
Dims(t, i) ==
    LET n == Token(t, i + 1)
        dim == CASE n = Op("]") -> Open [] n.t = "int" -> n.n [] OTHER -> Variable
        Before(rest) == [dims |-> <<dim>> \o rest.dims, at |-> rest.at]
    IN  IF ~ExpectOp(t, i, "[") THEN [dims |-> <<>>, at |-> i]
        ELSE Before(Dims(t, IF n = Op("]") THEN i + 2 ELSE i + 3))

GetPtrsAndDims(t, i) ==
    LET stars == Cardinality({j \in i..Len(t) : \A m \in i..j : ExpectOp(t, m, "*")})
        Named(name, dims) == [ptrs |-> stars, name |-> IF IsName(t, name) THEN t[name].x ELSE "",
                              dims |-> dims.dims, at |-> dims.at]
        At(name) == Named(name, Dims(t, IF IsName(t, name) THEN name + 1 ELSE name))
    IN  At(RegNoreg(t, i + stars))

(* The type of what is declared: pointers first, then the last dimension   *)
Derive(c, base, ptrs, dims) ==
    LET Typed(r) == [c |-> r.c, type |-> r.type]
        Ptr(a, i) == Typed(ObjectPtrCreate(a.c, a.type))
        Arr(a, dim) == Typed(ObjectArrayCreate(a.c, a.type, dim))
    IN  FoldLeft(Arr, FoldLeft(Ptr, [c |-> c, type |-> base], [i \in 1..ptrs |-> i]), Reverse(dims))

RECURSIVE ParseArrayItems(_, _, _), ValidateArrayDim(_, _, _), MetaData(_, _)

(* An array literal is the sequence of its items, another item is <<>>     *)
ParseArrayItems(t, i, items) ==
    LET at == IF items # <<>> /\ ExpectOp(t, i, ",") THEN i + 1 ELSE i
        Inner(inner) ==
            ParseArrayItems(t, inner.at, Append(items, [lit |-> TRUE, items |-> inner.s]))
    IN  CASE ExpectKeyword(t, i, "}") -> [s |-> items, at |-> i + 1]
          [] ExpectKeyword(t, at, "{") -> Inner(ParseArrayItems(t, at + 1, <<>>))
          [] Token(t, at).t = "eof" -> [s |-> items, at |-> at]
          [] OTHER -> ParseArrayItems(t, at + 1, Append(items, [lit |-> FALSE, items |-> <<>>]))

(* Literals of one depth have one length, that of the array's dimension;   *)
(* an open dimension becomes it, in the type object itself                 *)
ValidateArrayDim(c, arr, values) ==
    LET o == c.heap[arr]
        len == IF values = <<>> THEN 0 ELSE Len(values[1].items)
        bad == \E v \in Range(values) :
                   ~v.lit \/ Len(v.items) # len \/ (o.dim >= 0 /\ Len(v.items) # o.dim)
        sized == IF o.dim = Open THEN [c EXCEPT !.heap[arr].dim = len] ELSE c
        inner == FlattenSeq([v \in DOMAIN values |-> values[v].items])
    IN  CASE bad -> ErrorIf(TRUE, c, "array literal")
          [] c.heap[o.of].type = "ARRAY" -> ValidateArrayDim(sized, o.of, inner)
          [] OTHER -> sized

MetaData(t, i) == IF IsName(t, i) THEN MetaData(t, i + 2) ELSE i

(* = and a value: an array's may be a literal in braces                    *)
DefaultValue(t, i, c, type) ==
    LET Literal(lit) ==
            [at |-> lit.at, c |-> ValidateArrayDim(c, type, <<[lit |-> TRUE, items |-> lit.s]>>)]
    IN  CASE ~ExpectOp(t, i, "=") -> [at |-> i, c |-> c]
          [] c.heap[type].type = "ARRAY" /\ ExpectKeyword(t, i + 1, "{") ->
                 Literal(ParseArrayItems(t, i + 2, <<>>))
          [] OTHER -> [at |-> i + 2, c |-> c]

RECURSIVE ParseArgs(_, _, _, _)

ParseVarDeclTail(t, i, c, base) ==
    LET Value(d, type, value) == [type |-> type, name |-> d.name, at |-> value.at, c |-> value.c]
        All(d, at, all) == Value(d, all.type, DefaultValue(t, MetaData(t, at), all.c, all.type))
        Func(d, at, func) ==
            All(d, at, Derive(ErrorIf(SubSeq(t, d.at, d.at + 1) # <<Op(")"), Op("(")>>, func.c,
                                      "expected"), func.type, d.ptrs, d.dims))
        Args(d, args) == Func(d, args.at, ObjectFuncCreate(args.c, base, args.types))
        Pointer(d) == Args(d, ParseArgs(t, d.at + 2, c, <<>>))
        Plain(d) == All(d, d.at, Derive(c, base, d.ptrs, d.dims))
    IN  IF ExpectOp(t, i, "(") THEN Pointer(GetPtrsAndDims(t, i + 1))
        ELSE Plain(GetPtrsAndDims(t, i))

(* Arguments up to the right parenthesis, the ... of a variadic function   *)
(* before it                                                               *)
ParseArgs(t, i, c, types) ==
    LET base == IF IsName(t, i) THEN ObjectByName(c, t[i].x) ELSE 0
        Next(decl) ==
            ParseArgs(t, IF ExpectOp(t, decl.at, ",") THEN decl.at + 1 ELSE decl.at,
                      ErrorIf(~ExpectOp(t, decl.at, ",") /\ ~ExpectOp(t, decl.at, ")"),
                              decl.c, "expected"), Append(types, decl.type))
    IN  CASE ExpectOp(t, i, ")") -> [types |-> types, at |-> i + 1, c |-> c]
          [] ExpectKeyword(t, i, "...") ->
                 [types |-> types, at |-> i + 2, c |-> ErrorIf(~ExpectOp(t, i + 1, ")"), c, "expected")]
          [] base = 0 -> [types |-> types, at |-> i, c |-> ErrorIf(TRUE, c, "argument")]
          [] OTHER -> Next(ParseVarDeclTail(t, i + 1, c, base))

RECURSIVE Declarators(_, _, _, _, _)
Declarators(t, i, c, base, decls) ==
    LET After(d, more) ==
            CASE d.name = "" -> [decls |-> decls, at |-> d.at, c |-> d.c]
              [] ExpectOp(t, d.at, ",") -> Declarators(t, d.at + 1, d.c, base, more)
              [] OTHER -> [decls |-> more, at |-> d.at, c |-> d.c]
        Of(d) == After(d, Append(decls, [name |-> d.name, type |-> d.type]))
    IN  Of(ParseVarDeclTail(t, i, c, base))

(* A forward declaration that is no class yet, or one of the other kind    *)
Incompatible(c, type, kind) ==
    LET o == c.heap[type] IN
    IF o.type = "FORWARD" THEN o.kind # kind ELSE o.type # kind

RECURSIVE Members(_, _, _, _)

ClassKinds == [class |-> "CLASS", union |-> "UNION"]

(* What comes before the braces: the type of the base, the kind and the    *)
(* name; before its members are read, a class is declared forward          *)
ClassHead(t, i, c) ==
    LET None(at, cc) == [named |-> FALSE, base |-> 0, kind |-> "", name |-> "", at |-> at, c |-> cc]
        Named(base, k, kind, fwd) ==
            [named |-> TRUE, base |-> base, kind |-> kind, name |-> t[k + 1].x, at |-> k + 2, c |-> fwd]
        Kind(base, k) ==
            CASE ~IsKw(t, k, {"class", "union"}) -> None(k, c)
              [] ~IsName(t, k + 1) -> None(k, Stop(c))
              [] OTHER -> Named(base, k, ClassKinds[t[k].x],
                                ObjectForwardDeclarationCreate(c, t[k + 1].x, ClassKinds[t[k].x]).c)
        Linked(b) ==
            LET base == IF IsName(t, b) THEN ObjectByName(c, t[b].x) ELSE 0 IN
            IF IsName(t, b) /\ base = 0 THEN None(b + 1, c)
            ELSE Kind(base, IF IsName(t, b) THEN b + 1 ELSE b)
    IN  Linked(GetLinkage(t, i))

(* After the members                                                       *)
Defined(head, ms) ==
    LET New(new) == [type |-> new.type, found |-> TRUE, at |-> ms.at, c |-> new.c] IN
    IF ms.c.stopped THEN [type |-> 0, found |-> FALSE, at |-> ms.at, c |-> ms.c]
    ELSE New(IF head.kind = "CLASS" THEN ObjectClassCreate(ms.c, head.name, ms.members)
             ELSE ObjectUnionCreate(ms.c, head.name, ms.members, head.base))

ClassBody(t, head, allowForwardDecl) ==
    CASE ~head.named -> [type |-> 0, found |-> FALSE, at |-> head.at, c |-> head.c]
      [] ExpectKeyword(t, head.at, "{") -> Defined(head, Members(t, head.at + 1, head.c, <<>>))
      [] allowForwardDecl /\ ExpectKeyword(t, head.at, ";") ->
             [type |-> 0, found |-> TRUE, at |-> head.at + 1,
              c |-> ErrorIf(Incompatible(head.c, ObjectByName(head.c, head.name), head.kind),
                            head.c, "conflict")]
      [] OTHER -> [type |-> 0, found |-> FALSE, at |-> head.at, c |-> head.c]

ParseClass(t, i, c, allowForwardDecl) == ClassBody(t, ClassHead(t, i, c), allowForwardDecl)

VarsFrom(t, i, cls, base, at) ==
    LET Found(ds) ==
            [found |-> cls.type # 0 \/ ds.decls # <<>>, decls |-> ds.decls, at |-> ds.at, c |-> ds.c]
    IN  IF base = 0 \/ cls.c.stopped
        THEN [found |-> FALSE, decls |-> <<>>, at |-> i, c |-> cls.c]
        ELSE Found(Declarators(t, at, cls.c, base, <<>>))

VarsAfter(t, i, cls) ==
    VarsFrom(t, i, cls,
             CASE cls.type # 0 -> cls.type
               [] IsName(t, i) -> ObjectByName(cls.c, t[i].x)
               [] OTHER -> 0,
             IF cls.type # 0 THEN cls.at ELSE i + 1)

(* A class that is defined where its variables are declared, or a name     *)
ParseVarDecls(t, i, c) == VarsAfter(t, i, ParseClass(t, i, c, FALSE))

Members(t, i, c, members) ==
    LET Next(m, semi) ==
            IF ~semi /\ ~m.found THEN [members |-> members, at |-> i, c |-> Stop(m.c)]
            ELSE Members(t, IF semi THEN m.at + 1 ELSE m.at, ErrorIf(~semi, m.c, "expected"),
                         members \o m.decls)
        Of(m) == Next(m, ExpectKeyword(t, m.at, ";"))
    IN  CASE c.stopped -> [members |-> members, at |-> i, c |-> c]
          [] ExpectKeyword(t, i, "}") -> [members |-> members, at |-> i + 1, c |-> c]
          [] OTHER -> Of(ParseVarDecls(t, i, c))

AddDeclsToScope(c, decls) == [c EXCEPT !.vars = @ \o decls]

(* A function: what is declared of it; its body is read by Syntax          *)
ParseFunction(t, i, c) ==
    LET base == IF IsName(t, i) THEN ObjectByName(c, t[i].x) ELSE 0
        stars == Cardinality({j \in (i + 1)..Len(t) : \A m \in (i + 1)..j : ExpectOp(t, m, "*")})
        n == i + 1 + stars
        semi(at) == ExpectKeyword(t, at, ";")
        Func(at, func) ==
            [found |-> TRUE, at |-> IF semi(at) THEN at + 1 ELSE at,
             c |-> AddDeclsToScope(ErrorIf(~semi(at), func.c, "expected"),
                                   <<[name |-> t[n].x, type |-> func.type]>>)]
        Ret(args, ret) == Func(args.at, ObjectFuncCreate(ret.c, ret.type, args.types))
        Args(args) == Ret(args, Derive(args.c, base, stars, <<>>))
    IN  IF base = 0 \/ ~IsName(t, n) \/ ~ExpectOp(t, n + 1, "(") THEN [found |-> FALSE, at |-> i, c |-> c]
        ELSE Args(ParseArgs(t, n + 2, c, <<>>))

AfterVarDecls(t, v) ==
    CASE v.c.stopped -> v.c
      [] v.found -> ErrorIf(~ExpectKeyword(t, v.at, ";"), AddDeclsToScope(v.c, v.decls), "expected")
      [] OTHER -> ParseClass(t, 1, v.c, TRUE).c

AfterFunction(t, i, f) == IF f.found THEN f.c ELSE AfterVarDecls(t, ParseVarDecls(t, i, f.c))

AfterLinkage(t, i, c) == AfterFunction(t, i, ParseFunction(t, i, c))

(* A declaration as a statement: a function, variables, then a class alone *)
ParseDeclaration(t, c) == AfterLinkage(t, GetLinkage(t, 1), c)

(* object.c, hashObject and objectEqual: what is declared with the same    *)
(* words has equal types, whatever was declared in between and whether the *)
(* class was a forward declaration, complete, or became complete.          *)
DeclaredAlikeEqual(d) ==
    \A x \in Range(d.said), y \in Range(d.said) :
        x.text = y.text /\ x.var # 0 /\ y.var # 0 =>
            ObjectEqual(d.c, d.c.vars[x.var].type, d.c.vars[y.var].type)
=============================================================================
