------------------------------ MODULE MCGrammar ------------------------------
(* Expressions for Grammar: each operator and suffix over, and next to,    *)
(* each operator and suffix.                                               *)
EXTENDS Grammar

a == Var("x")
b == Var("y")
Binary == {"=", "<<=", "||", "^^", "&&", "!=", "+", "-", "|", "^", "&", "*", "/", "pow", "<<"}
f == Func("f")

Over(e) ==
    {Unop(op, e) : op \in {"-", "*", "&", "++"}} \cup {Binop(op, e, b) : op \in Binary}
    \cup {Binop(op, b, e) : op \in Binary}
    \cup {Suffix("++", e), Member(".", e, "m"), Member("->", e, "m"), Index(e, b), Index(b, e),
          Cast(e, "I64i"), Sizeof(a), SizeofType("I64i"), Unop("&", f),
          Call(e, <<a>>), Call(f, <<e>>), Call(f, <<e, None>>), Call(f, <<None, e>>), Call(f, <<>>),
          Ranges(<<"<">>, <<e, b>>), Ranges(<<">=", "<">>, <<Lit(3), e, b>>),
          Comma(<<e, b>>), Comma(<<b, e, Lit(3)>>)}

(* f((x, y)) is left out: its sole argument is read as two                 *)
Expressions2 == {e \in UNION {Over(x) : x \in Over(a)} :
                    ~(e.k = "call" /\ Len(e.args) = 1 /\ e.args[1].k = "comma")}
=============================================================================
