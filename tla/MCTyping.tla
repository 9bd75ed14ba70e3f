------------------------------ MODULE MCTyping ------------------------------
(***************************************************************************)
(* Expressions of a few variables, of the kinds of types there are, and    *)
(* what the memory may hold before them.                                   *)
(***************************************************************************)
LOCAL INSTANCE Integers
LOCAL INSTANCE Sequences
CONSTANTS FuncNames, ClassNames, MembersOf, BaseOf
VARIABLE converting

I16iPtr == [t |-> "ptr", of |-> [t |-> "I16i"]]
CPtr == [t |-> "ptr", of |-> [t |-> "class", name |-> "C"]]
MCVarType == [
    u8 |-> [t |-> "U8i"], i32 |-> [t |-> "I32i"], u32 |-> [t |-> "U32i"], i64 |-> [t |-> "I64i"],
    b |-> [t |-> "Bool"], f |-> [t |-> "F64"], w |-> [t |-> "union", name |-> "W"], p |-> I16iPtr,
    a |-> [t |-> "array", of |-> [t |-> "I16i"], dim |-> 3], c |-> [t |-> "class", name |-> "C"],
    d |-> [t |-> "class", name |-> "C"], pc |-> CPtr ]
MCAddressOf == [u8 |-> 0, i32 |-> 1, u32 |-> 2, i64 |-> 3, b |-> 4, f |-> 5, w |-> 6, p |-> 7, pc |-> 8,
                c |-> 16, d |-> 21, a |-> 26]
Param(ty, dft) == [ty |-> ty, dft |-> dft]
MCFuncType == [
    g |-> [t |-> "function", ret |-> [t |-> "I16i"], varargs |-> FALSE,
           args |-> <<Param([t |-> "U8i"], [k |-> "none"]), Param([t |-> "I64i"], [k |-> "int", n |-> 1]),
                      Param([t |-> "ptr", of |-> [t |-> "U8i"]], [k |-> "lastclass"])>>] ]
MCCastType == [U8i |-> [t |-> "U8i"], I64i |-> [t |-> "I64i"], F64 |-> [t |-> "F64"]]

INSTANCE Evaluation WITH VarType <- MCVarType, FuncType <- MCFuncType, CastType <- MCCastType, AddressOf <- MCAddressOf

Variables(xs) == {Var(x) : x \in xs}
Scalars == Variables({"u8", "i32", "i64", "b", "f", "w", "p", "a"})
Atoms == Scalars \cup {Lit(1), Lit(20), Chr(1)}
Pointed == Unop("*", Var("p"))
Field == Member(".", Var("c"), "m")
Targets == Variables({"u8", "i64", "b", "f", "w", "p"}) \cup {Pointed, Field}

Binary == {"+", "-", "*", "<", "&&"}
Unaries == {"-", "~", "!", "*"}
Once ==
    {Unop(op, a) : op \in Unaries, a \in Atoms} \cup {Binop(op, a, b) : op \in Binary, a \in Atoms, b \in Atoms}
Changes ==
    {Binop(op, a, b) : op \in {"=", "+="}, a \in Targets, b \in Atoms}
    \cup {Unop("++", a) : a \in Targets} \cup {Suffix("--", a) : a \in Targets}
Places == {
    Unop("&", Pointed), Unop("&", Field), Index(Var("a"), Var("u8")), Index(Var("p"), Lit(1)),
    Member("->", Var("pc"), "m"), Member("->", Member("->", Var("pc"), "next"), "m"),
    Member(".", Var("w"), "lo"), Binop("=", Var("c"), Var("d")), Binop("=", Unop("*", Var("pc")), Var("d")),
    Binop("=", Var("c"), Binop("=", Unop("*", Var("pc")), Var("d"))), Binop("=", Var("pc"), Unop("&", Var("d"))) }
Calls == {Call(Func("g"), <<a>>) : a \in Atoms} \cup {Call(Func("g"), <<Var("i64"), a>>) : a \in Atoms}
         \cup {Call(Func("g"), <<>>), Call(Func("g"), <<None, Lit(1)>>), Call(Var("i32"), <<Lit(1)>>)}
Rest == {Cast(a, x) : a \in Atoms, x \in {"U8i", "F64"}} \cup {Sizeof(a) : a \in Atoms}
        \cup {Ranges(<<"<", "<">>, <<a, b, Var("i32")>>) : a \in Atoms \ {Var("a")}, b \in Scalars}
        \cup {Initial(x, a) : x \in {"u8", "i64", "p", "c"}, a \in Atoms \cup {Var("d")}}

Narrow == Variables({"u8", "i32"})
Inside == {Binop(op, a, b) : op \in {"+", "<"}, a \in Narrow \cup {Var("i64")}, b \in Narrow \cup {Lit(20)}}
          \cup {Unop(op, a) : op \in {"-", "!"}, a \in Narrow} \cup {Binop("=", Var("u8"), Var("i32"))}
          \cup {Suffix("++", Var("u8")), Suffix("++", Var("p")), Index(Var("a"), Var("u8")), Field}
Twice ==
    {Unop(op, a) : op \in Unaries, a \in Inside}
    \cup {Binop(op, a, b) : op \in {"+", "-", "<"}, a \in Inside, b \in Narrow \cup {Var("p"), Var("f")}}
    \cup {Binop(op, a, b) : op \in {"-", "&&"}, a \in Narrow, b \in Inside}
    \cup {Binop("-", a, b) : a \in Inside, b \in Inside \ {Suffix("++", Var("u8"))}} \cup {Binop("+=", Var("i64"), a) : a \in Inside}
    \cup {Call(Func("g"), <<a>>) : a \in Inside} \cup {Cast(a, "I64i") : a \in Inside}
    \cup {Binop("+=", Unop("*", Suffix("++", Var("p"))), Lit(1))}
Typed == Once \cup Changes \cup Places \cup Calls \cup Rest \cup Twice

(* What is in memory: the pointers point into the array, and to a class    *)
Memory(x, y, z) ==
    [i \in 0 .. Top - 1 |->
        CASE i \in {0, 16} -> x [] i = 21 -> 3 - x [] i \in {1, 6, 26} -> y [] i \in {3, 5, 28, 30} -> z [] i = 4 -> Truth(x = 0)
          [] i = 7 -> 28 [] i = 8 -> 16 [] i \in {17, 22} -> 21 [] OTHER -> 0]
Memories == {Memory(3, -1, 2), Memory(0, 3, -4), Memory(1, -3, 0)}

=============================================================================
