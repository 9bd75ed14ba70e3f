------------------------------ MODULE Grammar -------------------------------
(***************************************************************************)
(* How an expression is written with as few parentheses as its operators'  *)
(* precedences allow, and what the parser has to read from that.           *)
(***************************************************************************)
EXTENDS Expressions

Level(op) == CHOOSE n \in DOMAIN Ops : n > 1 /\ op \in Ops[n]
LevelOf(e) ==
    CASE e.k = "comma" -> 14
      [] e.k = "bin" -> Level(e.op)
      [] e.k = "ranges" -> 8
      [] e.k \in {"un", "sizeof", "sizeoftype"} -> 1
      [] OTHER -> 0

RECURSIVE Written(_)
(* e where something of a level of n at most is read                       *)
Within(n, e) == IF LevelOf(e) > n THEN <<Op("(")>> \o Written(e) \o <<Op(")")>> ELSE Written(e)
Separated(items) ==
    FlattenSeq([i \in DOMAIN items |->
        (IF i = 1 THEN <<>> ELSE <<Op(",")>>) \o
        (IF items[i] = None THEN <<>> ELSE Within(13, items[i]))])
Operand(e) == \* what a suffix is read after; f alone would be its call
    IF e.k = "call" /\ e.f.k = "func" /\ e.args = <<>>
    THEN <<Name(e.f.x), Op("("), Op(")")>> ELSE Within(0, e)

Written(e) ==
    CASE e.k \in {"var", "func"} -> <<Name(e.x)>>
      [] e.k = "int" -> <<Num(e.n)>>
      [] e.k = "sizeof" -> <<Kw("sizeof"), Op("(")>> \o Written(e.a) \o <<Op(")")>>
      [] e.k = "sizeoftype" -> <<Kw("sizeof"), Op("("), Name(e.x), Op(")")>>
      [] e.k = "un" -> <<Op(e.op)>> \o (IF e.op = "&" THEN Operand(e.a) ELSE Within(1, e.a))
      [] e.k = "post" -> Operand(e.a) \o <<Op(e.op)>>
      [] e.k = "member" -> Operand(e.a) \o <<Op(e.op), Name(e.x)>>
      [] e.k = "cast" -> Operand(e.a) \o <<Op("("), Name(e.type), Op(")")>>
      [] e.k = "index" -> Operand(e.a) \o <<Op("[")>> \o Within(14, e.i) \o <<Op("]")>>
      [] e.k = "call" -> IF e.f.k = "func" /\ e.args = <<>> THEN <<Name(e.f.x)>>
                         ELSE Operand(e.f) \o <<Op("(")>> \o Separated(e.args) \o <<Op(")")>>
      [] e.k = "ranges" -> FlattenSeq([i \in DOMAIN e.exprs |->
                               (IF i = 1 THEN <<>> ELSE <<Op(e.ops[i - 1])>>) \o
                               Within(7, e.exprs[i])])
      [] e.k = "comma" -> Separated(e.items)
      [] e.k = "bin" -> LET n == Level(e.op) IN
                        IF n = 13 THEN Within(12, e.a) \o <<Op(e.op)>> \o Within(13, e.b)
                        ELSE Within(n, e.a) \o <<Op(e.op)>> \o Within(n - 1, e.b)

(* parserA.c, its table of precedences: an expression written with no more *)
(* parentheses than it needs is read as itself, to its end.                *)
ReadsAsWritten(e) == PrecComma(Written(e), 1) = E(e, Len(Written(e)) + 1)
=============================================================================
