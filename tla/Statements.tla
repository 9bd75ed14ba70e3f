----------------------------- MODULE Statements -----------------------------
(***************************************************************************)
(* What the statements of a function mean, apart from any flow graph: what *)
(* is left to do is a sequence of statements, whose first one is run.      *)
(* Marks in it say where a break goes on (after the first "end") and where *)
(* a throw does (at the first "handler").  Of a sub-switch, parse2IR.c     *)
(* says that the code between start: and its first case is run once for    *)
(* every label jumped to.                                                  *)
(***************************************************************************)
EXTENDS Syntax

End == [k |-> "end"]
Choose(yes, no) == [k |-> "choose", yes |-> yes, no |-> no]
Handler(c) == [k |-> "handler", c |-> c]

Within(x, lo, hi) == lo <= x /\ x <= hi

(* One turn of a loop, from the place where it is tested                   *)
Turn(s) ==
    CASE s.k = "while" -> <<s.c, Choose(<<s.b, [k |-> "turn", of |-> s]>>, <<>>)>>
      [] s.k = "do" -> <<s.b, s.c, Choose(<<[k |-> "turn", of |-> s]>>, <<>>)>>
      [] s.k = "for" /\ s.c = NoStmt -> <<s.b, s.n, [k |-> "turn", of |-> s]>>
      [] s.k = "for" -> <<s.c, Choose(<<s.b, s.n, [k |-> "turn", of |-> s]>>, <<>>)>>

(* What is left to do from a label, or from the case label that takes a    *)
(* value, of some statements that are followed by rest.                    *)
RECURSIVE From(_, _, _)
From(stmts, rest, goal) ==
    UNION {LET s == stmts[i]
               after == SubSeq(stmts, i + 1, Len(stmts)) \o rest
               again == [k |-> "turn", of |-> s]
           IN  CASE s.k = "label" -> IF goal.k = "label" /\ goal.l = s.l THEN {after} ELSE {}
                 [] s.k = "case" -> IF goal.k = "case" /\ Within(goal.v, s.lo, s.hi)
                                    THEN {after} ELSE {}
                 [] s.k = "default" -> IF goal.k = "default" THEN {after} ELSE {}
                 [] s.k = "scope" -> From(s.b, after, goal)
                 [] s.k = "if" -> From(<<s.b>>, after, goal) \cup From(<<s.e>>, after, goal)
                 [] s.k = "while" -> From(<<s.b>>, <<again, End>> \o after, goal)
                 [] s.k = "do" ->
                        From(<<s.b>>, <<s.c, Choose(<<again>>, <<>>), End>> \o after, goal)
                 [] s.k = "for" -> From(<<s.b>>, <<s.n, again, End>> \o after, goal)
                 [] s.k = "try" ->
                        From(<<s.b>>, <<Handler(s.c), Ev(Pop)>> \o after, goal) \cup
                        From(<<s.c>>, <<Ev(Pop)>> \o after, goal)
                 [] s.k = "switch" -> IF goal.k = "label" THEN From(<<s.b>>, <<End>> \o after, goal)
                                      ELSE {}
                 [] s.k = "sub" ->
                        LET found == From(s.b, <<End>> \o after, goal)
                        IN  IF goal.k = "case" THEN {s.start \o x : x \in found} ELSE found
                 [] OTHER -> {} : i \in DOMAIN stmts}

(* The case label that takes the value, else the default, else nothing     *)
Dispatch(s, v) ==
    LET case == From(<<s.b>>, <<>>, [k |-> "case", v |-> v])
        dft == From(<<s.b>>, <<>>, [k |-> "default"])
    IN  IF case # {} THEN CHOOSE x \in case : TRUE
        ELSE IF dft # {} THEN CHOOSE x \in dft : TRUE ELSE <<>>

BeyondFirst(todo, kind) == \* TRUE for no such mark: nothing is left to do
    SubSeq(todo, SelectInSeq(todo, LAMBDA s : s.k = kind) + 1, Len(todo))

(* What is left to do, up to the next expression, given the value of the   *)
(* one before.                                                             *)
RECURSIVE Settle(_, _, _)
Settle(body, todo, val) ==
    LET s == Head(todo) rest == Tail(todo) IN
    CASE todo = <<>> -> <<>>
      [] s.k = "ev" -> todo
      [] s.k \in {"none", "label", "case", "default", "end", "handler"} ->
             Settle(body, rest, val)
      [] s.k = "scope" -> Settle(body, s.b \o rest, val)
      [] s.k = "if" -> Settle(body, <<s.c, Choose(<<s.b>>, <<s.e>>)>> \o rest, val)
      [] s.k = "choose" -> Settle(body, (IF val # 0 THEN s.yes ELSE s.no) \o rest, val)
      [] s.k \in {"while", "do"} -> Settle(body, Turn(s) \o <<End>> \o rest, val)
      [] s.k = "for" -> Settle(body, <<s.i>> \o Turn(s) \o <<End>> \o rest, val)
      [] s.k = "turn" -> Settle(body, Turn(s.of) \o rest, val)
      [] s.k = "switch" -> Settle(body, <<s.c, [k |-> "dispatch", of |-> s], End>> \o rest, val)
      [] s.k = "dispatch" -> Settle(body, Dispatch(s.of, val) \o rest, val)
      [] s.k = "sub" -> Settle(body, s.start \o s.b \o <<End>> \o rest, val)
      [] s.k = "try" ->
             Settle(body, <<Ev(Store), s.b, Handler(s.c), Ev(Pop)>> \o rest, val)
      [] s.k = "break" -> Settle(body, BeyondFirst(rest, "end"), val)
      [] s.k = "return" -> Settle(body, <<s.v>>, val)
      [] s.k = "goto" ->
             Settle(body, CHOOSE x \in From(body, <<>>, [k |-> "label", l |-> s.l]) : TRUE, val)

InTry(todo) == \E i \in DOMAIN todo : todo[i].k = "handler"
Thrown(todo) ==
    LET i == SelectInSeq(todo, LAMBDA s : s.k = "handler")
    IN  <<todo[i].c>> \o SubSeq(todo, i + 1, Len(todo))

-----------------------------------------------------------------------------
(* What a function is as a text, and which texts are functions: how its    *)
(* statements are written as tokens, and what the parser must refuse.      *)
Parens(e) == <<Op("("), Exp(e.id), Op(")")>>
Optional(e) == IF e = NoStmt THEN <<>> ELSE <<Exp(e.id)>>

RECURSIVE Text(_)
TextOf(stmts) == FlattenSeq([i \in DOMAIN stmts |-> Text(stmts[i])])

Text(s) ==
    CASE s.k = "none" -> <<>>
      [] s.k = "ev" -> <<Exp(s.id), Kw(";")>>
      [] s.k = "scope" -> <<Kw("{")>> \o TextOf(s.b) \o <<Kw("}")>>
      [] s.k = "break" -> <<Kw("break"), Kw(";")>>
      [] s.k = "goto" -> <<Kw("goto"), Name(s.l), Kw(";")>>
      [] s.k = "label" -> <<Name(s.l), Kw(":")>>
      [] s.k = "return" -> <<Kw("return")>> \o Optional(s.v) \o <<Kw(";")>>
      [] s.k = "if" -> <<Kw("if")>> \o Parens(s.c) \o Text(s.b) \o
                       (IF s.e = NoStmt THEN <<>> ELSE <<Kw("else")>> \o Text(s.e))
      [] s.k = "while" -> <<Kw("while")>> \o Parens(s.c) \o Text(s.b)
      [] s.k = "do" -> <<Kw("do")>> \o Text(s.b) \o <<Kw("while")>> \o Parens(s.c) \o <<Kw(";")>>
      [] s.k = "for" -> <<Kw("for"), Op("(")>> \o Optional(s.i) \o <<Kw(";")>> \o Optional(s.c) \o
                        <<Kw(";")>> \o Optional(s.n) \o <<Op(")")>> \o Text(s.b)
      [] s.k = "try" -> <<Kw("try")>> \o Text(s.b) \o <<Kw("catch")>> \o Text(s.c)
      [] s.k = "switch" -> <<Kw("switch")>> \o Parens(s.c) \o Text(s.b)
      [] s.k = "case" -> <<Kw("case"), Num(s.lo)>> \o
                         (IF s.hi = s.lo THEN <<>> ELSE <<Kw("..."), Num(s.hi)>>) \o <<Kw(":")>>
      [] s.k = "default" -> <<Kw("default"), Kw(":")>>
      [] s.k = "sub" -> <<Name("start"), Kw(":")>> \o TextOf(s.start) \o TextOf(s.b) \o
                        <<Name("end"), Kw(":")>>

(* The statements that hold no other one, in their order, each with where  *)
(* it is: its path, whether a loop or a switch is around it, the catch     *)
(* block it is in, and the switches around it.                             *)
Outside == [path |-> <<>>, breaks |-> FALSE, catch |-> <<>>, switches |-> <<>>]
At(w, i) == [w EXCEPT !.path = Append(@, i)]

RECURSIVE Leaves(_, _)
Leaves(s, w) ==
    CASE s.k = "scope" -> FlattenSeq([i \in DOMAIN s.b |-> Leaves(s.b[i], At(w, i))])
      [] s.k = "if" -> Leaves(s.b, At(w, 1)) \o Leaves(s.e, At(w, 2))
      [] s.k \in {"while", "do", "for"} -> Leaves(s.b, [At(w, 1) EXCEPT !.breaks = TRUE])
      [] s.k = "switch" -> Leaves(s.b, [At(w, 1) EXCEPT !.breaks = TRUE,
                                                       !.switches = Append(@, w.path)])
      [] s.k = "sub" -> Leaves(Scope(s.start \o s.b), [w EXCEPT !.switches = Append(@, w.path)])
      [] s.k = "try" -> Leaves(s.b, At(w, 1)) \o
                        Leaves(s.c, [At(w, 2) EXCEPT !.catch = w.path])
      [] OTHER -> <<[s |-> s, w |-> w]>>

(* A break has something to leave, a goto a label in the same catch block, *)
(* a label is there once, return is not in a catch block, and a case is in *)
(* a switch and has no value of an earlier case of a switch it is in.      *)
WellFormed(body) ==
    LET leaves == Leaves(Scope(body), Outside)
        Of(kind) == {i \in DOMAIN leaves : leaves[i].s.k = kind}
        W(i) == leaves[i].w
        Twins(i, j) == W(i).catch = W(j).catch /\ leaves[i].s.l = leaves[j].s.l
    IN  /\ \A i \in Of("break") : W(i).breaks
        /\ \A i \in Of("return") : W(i).catch = <<>>
        /\ \A i \in Of("goto") : \E j \in Of("label") : Twins(i, j)
        /\ \A i, j \in Of("label") : i # j => ~Twins(i, j)
        /\ \A i \in Of("case") \cup Of("default") : W(i).switches # <<>>
        /\ \A i, j \in Of("case") :
              (i < j /\ Last(W(i).switches) \in Range(W(j).switches)) =>
                  \/ leaves[i].s.hi < leaves[j].s.lo
                  \/ leaves[j].s.hi < leaves[i].s.lo
=============================================================================
