----------------------------- MODULE MCFlowCode -----------------------------
EXTENDS FlowCode

(* Statements of one level, over the statement b as what they contain; the *)
(* expressions of level n are numbered from 10 * n, its cases from 3 * n.  *)
If(c, b, e) == [k |-> "if", c |-> Ev(c), b |-> b, e |-> e]
While(c, b) == [k |-> "while", c |-> Ev(c), b |-> b]
Do(c, b) == [k |-> "do", c |-> Ev(c), b |-> b]
For(i, c, n, b) == [k |-> "for", i |-> i, c |-> c, n |-> n, b |-> b]
Case(lo, hi) == [k |-> "case", lo |-> lo, hi |-> hi]
Default == [k |-> "default"]
Switch(c, b) == [k |-> "switch", c |-> Ev(c), b |-> Scope(b)]
Sub(start, b) == [k |-> "sub", start |-> start, b |-> b]
Try(b, c) == [k |-> "try", b |-> b, c |-> c]
Goto(l) == [k |-> "goto", l |-> l]
Label(l) == [k |-> "label", l |-> l]
Return(v) == [k |-> "return", v |-> v]

CompoundWith(n, b) ==
    LET x == 10 * n v == 3 * (n - 1) IN
    <<While(x, b), Do(x, b), If(x, b, NoStmt), If(x, Ev(x + 1), b),
      For(Ev(x + 2), Ev(x), Ev(x + 1), b),
      For(NoStmt, NoStmt, NoStmt, Scope(<<Ev(x), b>>)),
      For(NoStmt, Ev(x), NoStmt, b),
      For(Ev(x + 2), NoStmt, Ev(x + 1), b),
      Switch(x, <<Case(v, v + 1), b, Ev(x + 1), Default, Ev(x + 2)>>),
      Switch(x, <<Default, Ev(x + 1), b, Case(v, v), Ev(x + 2), Case(v + 1, v + 1), Break>>),
      Switch(x, <<Sub(<<Ev(x + 3)>>, <<Case(v, v), Ev(x + 4), b, Case(v + 1, v + 1)>>),
                  Ev(x + 1), Break, Case(v + 2, v + 2), Ev(x + 2)>>)>>

(* Every statement of stmts inside of every kind of level n                *)
Around(n, stmts) == FlattenSeq([i \in DOMAIN stmts |-> CompoundWith(n, stmts[i])])

(* Longer texts than this are left out: they are of two switches with sub- *)
(* switches, one in the other, of which Jumps has a shorter one            *)
MaxText == 63
Inner == <<Break, Scope(<<Ev(3), If(4, Break, NoStmt)>>), Scope(<<If(4, Return(Ev(2)), NoStmt)>>)>>
Outer == SelectSeq(Around(2, Around(1, Inner)), LAMBDA s : Len(Text(Scope(<<s, Ev(9)>>))) <= MaxText)

Jumps ==
    <<<<Label("a"), Ev(1), If(2, Goto("a"), NoStmt), Ev(3)>>,
      <<Goto("a"), Ev(1), Label("a"), Ev(2)>>,
      <<If(1, Goto("in"), NoStmt), While(2, Scope(<<Ev(3), Label("in"), Ev(4)>>)), Ev(5)>>,
      <<While(1, Scope(<<Switch(2, <<Case(0, 1), Goto("out"), Case(2, 2), Break>>)>>)),
        Label("out"), Ev(3)>>,
      <<Try(Scope(<<Ev(1), If(2, Ev(3), NoStmt)>>), Scope(<<Ev(4)>>)), Ev(5)>>,
      <<While(1, Scope(<<Try(Scope(<<While(2, Scope(<<Ev(3), Break>>))>>), Scope(<<>>))>>)), Ev(5)>>,
      <<Switch(1, <<Sub(<<Ev(2)>>, <<Case(0, 0), Switch(3, <<Sub(<<Ev(4)>>, <<Case(1, 1), Ev(5)>>), Break>>)>>),
                    Case(2, 2), Ev(6)>>), Ev(7)>>,
      <<Ev(1), Return(NoStmt), Ev(2)>>>>

(* Statements that have to fit: x is put in a place the others are around  *)
Leaf == <<Break, Goto("a"), Goto("b"), Label("a"), Return(NoStmt), Case(1, 1), Case(0, 5),
          Case(3, 4), Default>>
Places(x) ==
    <<<<x>>, <<Label("a"), x>>, <<While(1, x), Label("a")>>,
      <<Try(Scope(<<x, Ev(1)>>), Scope(<<Label("b")>>)), Label("a")>>,
      <<Label("b"), Try(Scope(<<Label("a"), Ev(1)>>), Scope(<<x>>))>>,
      <<Try(Scope(<<Ev(1)>>), Scope(<<Label("a"), While(2, Scope(<<x>>))>>))>>,
      <<Switch(1, <<Case(2, 3), Ev(2), x, Case(6, 6)>>)>>,
      <<Switch(1, <<Case(2, 3), Switch(2, <<x, Ev(2)>>)>>), Label("a")>>,
      <<Switch(1, <<Sub(<<Ev(8)>>, <<Case(1, 1), Ev(2), x>>), Case(8, 8), Ev(3)>>)>>,
      <<Switch(1, <<Sub(<<Ev(8)>>, <<Case(7, 7), Ev(2)>>), Case(8, 8), x, Ev(3)>>)>>>>
Fitting == {p \in Range(FlattenSeq([i \in DOMAIN Leaf |-> Places(Leaf[i])])) :
               p # <<Label("a"), Goto("a")>>}

MCBodies == {<<s, Ev(9)>> : s \in Range(Outer)} \cup Range(Jumps) \cup Fitting
MCValues == 0..5

(* The graphs of all of them are as Emission expects                       *)
ASSUME GraphsFlow ==
    \A b \in Bodies : \A read \in {ParseBody(Text(Scope(b)))} :
        read.c.errors = {} => FlowGraph(Function(read.s.b))
=============================================================================
