---------------------------- MODULE Expressions -----------------------------
(***************************************************************************)
(* Expressions, read from their tokens by parserA.c: one parser per level  *)
(* of precedence, from 13 (assignment) down to 0 (what comes after its     *)
(* operand), and sequences of expressions above.  A parser gives a tree    *)
(* (None for none) and the place it ended at.  The power operator, a back- *)
(* quote in HolyC, is "pow" here.                                          *)
(***************************************************************************)
EXTENDS Tokens, SequencesExt, FiniteSetsExt

CONSTANTS FuncNames,   \* the names parserGetFunc finds
          ClassNames   \* the names objectByName finds

None == [k |-> "none"]
Var(x) == [k |-> "var", x |-> x]
Func(x) == [k |-> "func", x |-> x]
Lit(n) == [k |-> "int", n |-> n]
Unop(op, a) == [k |-> "un", op |-> op, a |-> a]
Suffix(op, a) == [k |-> "post", op |-> op, a |-> a]
Binop(op, a, b) == [k |-> "bin", op |-> op, a |-> a, b |-> b]
Ranges(ops, exprs) == [k |-> "ranges", ops |-> ops, exprs |-> exprs]
Member(op, a, x) == [k |-> "member", op |-> op, a |-> a, x |-> x]
Call(f, args) == [k |-> "call", f |-> f, args |-> args]
Cast(a, type) == [k |-> "cast", a |-> a, type |-> type]
Index(a, i) == [k |-> "index", a |-> a, i |-> i]
Comma(items) == [k |-> "comma", items |-> items]
Sizeof(a) == [k |-> "sizeof", a |-> a]
SizeofType(x) == [k |-> "sizeoftype", x |-> x]

E(s, i) == [s |-> s, at |-> i]

AssignOps == {"=", "-=", "+=", "*=", "/=", "%=", "<<=", ">>=", "&=", "|=", "^="}
Ops == <<{"--", "++", "+", "-", "!", "~", "*", "&"}, {"pow", "<<", ">>"}, {"*", "%", "/"},
         {"&"}, {"^"}, {"|"}, {"+", "-"}, {">", "<", ">=", "<="}, {"==", "!="}, {"&&"},
         {"^^"}, {"||"}, AssignOps>>
IsOp(t, i, ops) == Token(t, i).t = "op" /\ Token(t, i).x \in ops

Lefts == {Op("("), Op("["), Kw("{")}
Rights == {Op(")"), Op("]"), Kw("}")}
(* The bracket that closes the one at i, of whichever kind, or 0           *)
FindOtherSide(t, i) ==
    LET Count(j, brackets) == Cardinality({m \in i..j : t[m] \in brackets})
        ends == {j \in i..Len(t) : Count(j, Lefts) = Count(j, Rights)}
    IN  IF ends = {} THEN 0 ELSE Min(ends)

RECURSIVE Prec(_, _, _), TailBinop(_, _, _), RangeTail(_, _), Items(_, _, _), Postfix(_, _, _),
          Upwards(_, _, _, _)

PrecComma(t, i) ==
    LET Of(r) == IF Len(r.s) = 1 THEN E(r.s[1], r.at) ELSE E(Comma(r.s), r.at)
    IN  Of(Items(t, i, <<None>>))

(* Between two commas there may be nothing                                 *)
Items(t, i, items) ==
    LET Item(e) ==
            IF Last(items) = None /\ e.s # None THEN Items(t, e.at, Append(Front(items), e.s))
            ELSE E(items, i)
    IN  IF ExpectOp(t, i, ",") THEN Items(t, i + 1, Append(items, None))
        ELSE Item(Prec(t, i, 13))

LiteralRecur(t, i) ==
    LET tok == Token(t, i) IN
    CASE tok.t = "int" -> E(Lit(tok.n), i + 1)
      [] tok.t = "name" -> E(IF tok.x \in FuncNames THEN Func(tok.x) ELSE Var(tok.x), i + 1)
      [] OTHER -> E(None, i)

ParenRecur(t, i) ==
    LET Inner(e) == IF e.s = None \/ ~ExpectOp(t, e.at, ")") THEN E(None, i) ELSE E(e.s, e.at + 1)
    IN  IF ~ExpectOp(t, i, "(") THEN LiteralRecur(t, i)
        ELSE IF FindOtherSide(t, i) = 0 THEN E(None, i) ELSE Inner(PrecComma(t, i + 1))

(* The place after the bracket on the right, 0 if this is no such pair     *)
PairOperator(t, left, right, i) ==
    LET Of(e) == IF ExpectOp(t, e.at, right) THEN E(e.s, e.at + 1) ELSE E(None, 0)
    IN  IF ExpectOp(t, i, left) THEN Of(PrecComma(t, i + 1)) ELSE E(None, 0)

ParseSizeof(t, i) ==
    LET x == Token(t, i + 2)
        Of(e) == E(Sizeof(e.s), e.at + 1)
    IN  IF x.t # "name" THEN E(None, i)
        ELSE IF x.x \in ClassNames THEN E(SizeofType(x.x), i + 4)
        ELSE Of(PrecComma(t, i + 2))

(* A function's name calls it, unless its address is taken                 *)
Head0(t, i, allowCallWithoutParen) ==
    LET Of(lit) ==
            CASE lit.s = None -> ParenRecur(t, i)
              [] lit.s.k = "func" /\ allowCallWithoutParen /\ ~ExpectOp(t, lit.at, "(") ->
                     E(Call(lit.s, <<>>), lit.at)
              [] OTHER -> lit
    IN  Of(LiteralRecur(t, i))

Postfix(t, head, i) ==
    LET end == FindOtherSide(t, i)
        name == Token(t, i + 1)
        ArgsOf(e) == CASE e = None -> <<>> [] e.k = "comma" -> e.items [] OTHER -> <<e>>
        OrIndex(index) ==
            IF index.at # 0 THEN Postfix(t, Index(head, index.s), index.at) ELSE E(head, i)
        OrCall(args) ==
            IF args.at # 0 THEN Postfix(t, Call(head, ArgsOf(args.s)), args.at)
            ELSE OrIndex(PairOperator(t, "[", "]", i))
    IN  CASE IsOp(t, i, {"--", "++"}) -> Postfix(t, Suffix(t[i].x, head), i + 1)
          [] IsOp(t, i, {".", "->"}) ->
                 IF name.t # "name" THEN E(None, i)
                 ELSE Postfix(t, Member(t[i].x, head, name.x), i + 2)
          [] ExpectOp(t, i, "(") /\ end # 0 /\ name.t = "name" /\ name.x \in ClassNames ->
                 Postfix(t, Cast(head, name.x), end + 1)
          [] OTHER -> OrCall(PairOperator(t, "(", ")", i))

Prec0(t, i, allowCallWithoutParen) ==
    LET Of(head) == IF head.s = None THEN E(None, i) ELSE Postfix(t, head.s, head.at)
    IN  IF ExpectKeyword(t, i, "sizeof") THEN ParseSizeof(t, i)
        ELSE Of(Head0(t, i, allowCallWithoutParen))

Prec1(t, i) ==
    LET ops == {j \in i..Len(t) : \A m \in i..j : IsOp(t, m, Ops[1])}
        tail == i + Cardinality(ops)
        Around(e0, op) == Unop(op.x, e0)
        Of(e) == IF e.s = None THEN E(None, e.at)
                 ELSE E(FoldLeft(Around, e.s, Reverse(SubSeq(t, i, tail - 1))), e.at)
    IN  Of(Prec0(t, tail, ~(ops # {} /\ t[tail - 1].x = "&")))

(* Operators of a level and their right operands; when one has none, all   *)
(* of them are dropped                                                     *)
TailBinop(t, i, n) ==
    LET Before(e, rest) ==
            [s |-> <<[op |-> t[i].x, e |-> e.s]>> \o rest.s, at |-> rest.at, ok |-> rest.ok]
        Operand(e) ==
            IF e.s = None THEN [s |-> <<>>, at |-> i, ok |-> FALSE]
            ELSE Before(e, TailBinop(t, e.at, n))
    IN  IF IsOp(t, i, Ops[n]) THEN Operand(Prec(t, i + 1, n - 1))
        ELSE [s |-> <<>>, at |-> i, ok |-> TRUE]

(* The first operand, and the operators with the operands they are before  *)
Chain(t, head, n) ==
    LET Joined(tail) ==
            IF tail.ok THEN [head |-> head.s, tail |-> tail.s, at |-> tail.at]
            ELSE [head |-> head.s, tail |-> <<>>, at |-> head.at]
    IN  Joined(TailBinop(t, head.at, n))

JoinLeft(c) == E(FoldLeft(LAMBDA a, p : Binop(p.op, a, p.e), c.head, c.tail), c.at)
JoinRight(c) ==
    LET lefts == [j \in DOMAIN c.tail |->
                     [op |-> c.tail[j].op, a |-> IF j = 1 THEN c.head ELSE c.tail[j - 1].e]]
    IN  IF c.tail = <<>> THEN E(c.head, c.at)
        ELSE E(FoldRight(LAMBDA p, b : Binop(p.op, p.a, b), lefts, Last(c.tail).e), c.at)

BinopLeftAssoc(t, head, n) == IF head.s = None THEN head ELSE JoinLeft(Chain(t, head, n))

BugBinopRightAssoc(t, head, n) ==                          \* mutant: joined from the left
    IF head.s = None THEN head ELSE JoinLeft(Chain(t, head, n))
BinopRightAssoc(t, head, n) == IF head.s = None THEN head ELSE JoinRight(Chain(t, head, n))

(* a < b < c is one node                                                   *)
RangeTail(t, i) ==
    LET Before(e, rest) ==
            [ops |-> <<t[i].x>> \o rest.ops, exprs |-> <<e.s>> \o rest.exprs,
             at |-> rest.at, ok |-> rest.ok]
        Operand(e) ==
            IF e.s = None THEN [ops |-> <<>>, exprs |-> <<>>, at |-> e.at, ok |-> FALSE]
            ELSE Before(e, RangeTail(t, e.at))
    IN  IF IsOp(t, i, Ops[8]) THEN Operand(Prec(t, i + 1, 7))
        ELSE [ops |-> <<>>, exprs |-> <<>>, at |-> i, ok |-> TRUE]

Prec8(t, head) ==
    LET Joined(tail) ==
            IF ~tail.ok THEN E(None, tail.at)
            ELSE E(Ranges(tail.ops, <<head.s>> \o tail.exprs), tail.at)
    IN  Joined(RangeTail(t, head.at))

(* From an operand of the first level up to level n: a level none of whose *)
(* operators is next gives what the level below it gave                    *)
Upwards(t, head, n, from) ==
    LET next == {m \in from..n : IsOp(t, head.at, Ops[m])}
        At(m) == CASE m = 13 -> BinopRightAssoc(t, head, m)
                   [] m = 8 -> Prec8(t, head)
                   [] OTHER -> BinopLeftAssoc(t, head, m)
    IN  IF next = {} THEN head ELSE Upwards(t, At(Min(next)), n, Min(next) + 1)

Prec(t, i, n) == IF n = 1 THEN Prec1(t, i) ELSE Upwards(t, Prec1(t, i), n, 2)
=============================================================================
