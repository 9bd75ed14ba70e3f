------------------------------- MODULE Tokens -------------------------------
(* What lexer.c makes of a text, and how parserA.c asks for a token: t is  *)
(* the list of tokens of a text, i a place in it.                          *)
EXTENDS Integers, Sequences

Tk(kind, x, n) == [t |-> kind, x |-> x, n |-> n]
Kw(x) == Tk("kw", x, 0)
Op(x) == Tk("op", x, 0)
Name(x) == Tk("name", x, 0)
Num(n) == Tk("int", "", n)
Exp(id) == Tk("exp", "", id)    \* an expression of which only the value counts

Token(t, i) == IF i <= Len(t) THEN t[i] ELSE Tk("eof", "", 0)
ExpectKeyword(t, i, x) == Token(t, i) = Kw(x)
ExpectOp(t, i, x) == Token(t, i) = Op(x)
=============================================================================
