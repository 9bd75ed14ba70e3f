------------------------------ MODULE MCTypes -------------------------------
(* Declarations of a class A and a union U, forward and complete, and of   *)
(* variables v that are made of them.                                      *)
EXTENDS Declarations

Semi == <<Kw(";")>>
Braces(ts) == <<Kw("{")>> \o ts \o <<Kw("}")>>
Class(kind, x, members) == <<Kw(kind), Name(x)>> \o Braces(members)
Field(base, rest) == <<Name(base)>> \o rest \o Semi
V == <<Name("v")>>
Star == <<Op("*")>>
Lit(n) == Braces([i \in 1..(2 * n - 1) |-> IF i % 2 = 1 THEN Exp(i) ELSE Op(",")])
FuncPtr(ret, args) == <<Name(ret), Op("("), Op("*"), Name("v"), Op(")"), Op("(")>> \o args \o <<Op(")")>>

TypeDecls ==
    {<<Kw("class"), Name("A")>> \o Semi, <<Kw("union"), Name("U")>> \o Semi,
     <<Kw("union"), Name("A")>> \o Semi,
     Class("class", "A", Field("A", Star \o <<Name("next")>>) \o Field("I32i", V)) \o Semi,
     Class("class", "A", Field("I8i", <<Name("c"), Op(","), Name("d")>>) \o
                         Field("I16i", <<Name("n"), Op("["), Num(3), Op("]")>>)) \o Star \o V \o Semi,
     Class("union", "U", Field("I16i", V) \o Field("A", Star \o <<Name("a")>>)) \o Semi,
     Class("class", "B", Field("A", <<Name("a")>>) \o Field("U", Star \o Star \o <<Name("u")>>)) \o Semi}

VarDecls ==
    {<<Name("A")>> \o Star \o V \o Semi, <<Name("A")>> \o Star \o Star \o V \o Semi,
     <<Name("A")>> \o Star \o V \o <<Op("["), Num(2), Op("]")>> \o Semi,
     <<Name("U")>> \o Star \o V \o Semi, <<Name("B")>> \o Star \o V \o Semi,
     FuncPtr("I64i", <<Name("A"), Op("*"), Op(","), Name("U"), Op("*")>>) \o Semi,
     <<Name("A"), Op("*"), Name("v"), Op("("), Name("A"), Op("*"), Name("p"), Op(")")>> \o Semi,
     <<Name("I64i")>> \o V \o <<Op("["), Op("]"), Op("=")>> \o Lit(2) \o Semi,
     <<Name("I64i")>> \o V \o <<Op("["), Op("]"), Op("=")>> \o Lit(3) \o Semi}

Declared == TypeDecls \cup VarDecls
MaxDeclarations == 4
=============================================================================
