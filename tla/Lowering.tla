------------------------------ MODULE Lowering ------------------------------
(***************************************************************************)
(* The flow graph parse2IR.c makes of a function's statements, which then  *)
(* Emission writes out.                                                    *)
(*                                                                         *)
(* An expression is one node of the graph here, "ev", whose evaluation is  *)
(* what can be observed of a program; its value is chosen when it is       *)
(* evaluated.                                                              *)
(***************************************************************************)
EXTENDS Emission, SequencesExt, FiniteSetsExt

NoStmt == [k |-> "none"]
Ev(id) == [k |-> "ev", id |-> id]
Scope(b) == [k |-> "scope", b |-> b]
Break == [k |-> "break"]

(* The calls of HCRT_ExceptStoreState and HCRT_ExceptPop, as expressions   *)
Store == -1
Pop == -2

(* A graph under construction.  labs: labelsByPN; swit: per switch scope   *)
(* its casesByRange (those of dft apart) and subSwitchEnterCode.           *)
NewGraph == [node |-> <<>>, edge |-> {}, labs |-> <<>>, swit |-> <<>>]

Pair(g, enter, exit) == [g |-> g, enter |-> enter, exit |-> exit]

InsertAfter(g, n, entry, exit) ==
    LET old == EdgesFrom(g, n)
    IN  Flow([g EXCEPT !.edge = (@ \ old) \cup {[e EXCEPT !.f = exit] : e \in old}],
             n, entry)

(* A node that says where in the source the code is, before what it is of  *)
SrcMapping(p) ==
    LET g == Add(p.g, "map", 0) IN Pair(Flow(g, Top(g), p.enter), Top(g), p.exit)
SrcMappingForBody(s, p) == IF s.k = "ev" THEN SrcMapping(p) ELSE p

CondJump(g, cond, yes, no) ==
    LET g1 == Add(g, "cjmp", 0) n == Top(g1)
    IN  Connect(Connect(Connect(g1, cond, "src", n), n, "true", yes), n, "false", no)

-----------------------------------------------------------------------------
(* One operator per kind of statement: the graph with its nodes, where     *)
(* control enters and where it leaves.  sc: the scopes a break may be of,  *)
(* the innermost first.                                                    *)

RECURSIVE Lower(_, _, _), LowerAll(_, _, _)

LowerEmpty(g) == LET g1 == Add(g, "label", 0) IN Pair(g1, Top(g1), Top(g1))

LowerEv(g, s) == LET g1 == Add(g, "ev", s.id) IN Pair(g1, Top(g1), Top(g1))

LowerScope(g, s, sc) ==
    LET p == LowerAll(g, s.b, sc) IN IF s.b = <<>> THEN LowerEmpty(g) ELSE p

LowerBreak(g, sc) ==
    LET g1 == Add(Add(g, "label", 0), "label", 0)
        lab == Top(g1) - 1
        g2 == Connect(g1, lab, "never", Top(g1))
    IN  Pair(IF sc = <<>> THEN g2 ELSE Flow(g2, lab, Head(sc).exit), lab, Top(g1))

LabelOf(g, name) ==     \* the node of a label, made at the first of its uses
    IF name \in DOMAIN g.labs THEN Pair(g, g.labs[name], 0)
    ELSE LET g1 == Add(g, "label", 0)
         IN  Pair([g1 EXCEPT !.labs = [x \in DOMAIN @ \cup {name} |->
                                         IF x = name THEN Top(g1) ELSE @[x]]],
                  Top(g1), 0)

LowerGoto(g, s) ==
    LET p == LabelOf(Add(g, "label", 0), s.l)
        jump == Top(g) + 1
        g1 == Add(Flow(p.g, jump, p.enter), "label", 0)
    IN  SrcMapping(Pair(Connect(g1, jump, "never", Top(g1)), jump, Top(g1)))

LowerLabel(g, s) == LET p == LabelOf(g, s.l) IN Pair(p.g, p.enter, p.enter)

LowerReturn(g, s, sc) ==
    LET Return(h) == Add(h, "ret", 0)
        Of(p) == Pair(Connect(Return(p.g), p.exit, "src", Top(p.g) + 1), p.enter, Top(p.g) + 1)
    IN  SrcMapping(IF s.v = NoStmt THEN Pair(Return(g), Top(g) + 1, Top(g) + 1)
                   ELSE Of(Lower(g, s.v, sc)))

LowerIf(g, s, sc) ==
    LET end == Top(g) + 1
        no == IF s.e = NoStmt THEN end ELSE end + 1
        Else(e, enter) == Pair(Flow(Flow(e.g, no, e.enter), e.exit, end), enter, end)
        Branches(h, enter) ==
            IF s.e = NoStmt THEN Pair(h, enter, end)
            ELSE Else(SrcMappingForBody(s.e, Lower(h, s.e, sc)), enter)
        Cond(body, cond) ==
            Branches(Flow(CondJump(cond.g, cond.exit, body.enter, no), body.exit, end), cond.enter)
        Body(body) == Cond(body, SrcMapping(Lower(body.g, s.c, sc)))
        Labels(h) == IF s.e = NoStmt THEN h ELSE Add(h, "label", 0)
    IN  Body(SrcMappingForBody(s.b, Lower(Labels(Add(g, "label", 0)), s.b, sc)))

Loop(exit) == [k |-> "loop", exit |-> exit, sw |-> 0]

LowerWhile(g, s, sc) ==
    LET Body(cond, end, body) ==
            Pair(Flow(CondJump(body.g, cond.exit, body.enter, end), body.exit, cond.enter),
                 cond.enter, end)
        Cond(cond, end) ==
            Body(cond, end, SrcMappingForBody(s.b, Lower(Add(cond.g, "label", 0), s.b,
                                                         <<Loop(end)>> \o sc)))
        Of(cond) == Cond(cond, Top(cond.g) + 1)
    IN  Of(SrcMapping(Lower(g, s.c, sc)))

LowerDo(g, s, sc) ==
    LET end == Top(g) + 1
        Body(cond, body) ==
            Pair(CondJump(Flow(body.g, body.exit, cond.enter), cond.exit, body.enter, end),
                 body.enter, end)
        Cond(cond) ==
            Body(cond, SrcMappingForBody(s.b, Lower(SrcMapping(cond).g, s.b, <<Loop(end)>> \o sc)))
    IN  Cond(Lower(Add(g, "label", 0), s.c, sc))

LowerFor(g, s, sc) ==
    LET next == Top(g) + 1
        exit == Top(g) + 2
        current == Top(g) + 4          \* the label before it, labCond, is not used
        Next(n, test) ==
            Flow(Flow(n.g, next, n.enter), n.exit, test)
        Body(body, yes, test, enter) ==
            LET h == Flow(Flow(body.g, yes, body.enter), body.exit, next)
            IN  Pair(IF s.n = NoStmt THEN Flow(h, next, test)
                     ELSE Next(Lower(h, s.n, sc), test), enter, exit)
        Test(test, yes, enter) ==
            Body(SrcMappingForBody(s.b, Lower(test.g, s.b, <<Loop(exit)>> \o sc)),
                 yes, test.enter, enter)
        Cond(cond, start, yes) ==
            Pair(CondJump(Flow(cond.g, start, cond.enter), cond.exit, yes, exit), cond.enter, 0)
        Start(h, start, yes, enter) ==
            Test(IF s.c = NoStmt
                 THEN Pair(Connect(Flow(h, start, yes), start, "never", exit), start, 0)
                 ELSE Cond(SrcMapping(Lower(h, s.c, sc)), start, yes), yes, enter)
        Init(init) ==
            Start(Add(Flow(Add(init.g, "label", 0), init.exit, Top(init.g) + 1), "label", 0),
                  Top(init.g) + 1, Top(init.g) + 2, init.enter)
        Labels(h) ==
            IF s.i = NoStmt THEN Start(Add(h, "label", 0), current, Top(h) + 1, current)
            ELSE Init(SrcMapping(Lower(h, s.i, sc)))
    IN  Labels(Add(Add(Add(Add(g, "label", 0), "label", 0), "label", 0), "label", 0))

(* run is 1 at the first return of HCRT_ExceptStoreState, 0 at a second    *)
LowerTry(g, s, sc) ==
    LET sw == Len(g.swit) + 1         \* the number of the variable run
        set1 == Top(g) + 1
        End(h, b, c, end) ==
            Pair(Flow(Add(Flow(Flow(h, b.exit, end), c.exit, end), "ev", Pop), end, end + 1),
                 set1, end + 1)
        Read(h, b, c, set0, read) ==
            End(Add(CondJump(Flow(h, set1 + 1, read), read, set0, c.enter), "label", 0), b, c,
                Top(h) + 2)
        Catch(b, c, set0) == Read(Add(c.g, "read", sw), b, c, set0, Top(c.g) + 1)
        Body(b, set0) ==
            Catch(b, Lower(InsertBefore(Add(b.g, "set0", sw), b.enter, set0, set0), s.c, sc), set0)
        Of(b) == Body(b, Top(b.g) + 1)
        Enter(h) == Flow(Add(Add([h EXCEPT !.swit = Append(@, <<>>)], "set1", sw), "ev", Store),
                         set1, set1 + 1)
    IN  Of(Lower(Enter(g), s.b, sc))

(* A case label, entered in casesByRange of the innermost switch           *)
InnermostSwitch(sc) == sc[SelectInSeq(sc, LAMBDA c : c.k = "swit")].sw

LowerCase(g, s, sc) ==
    LET g1 == Add(g, "label", 0) IN
    SrcMapping(Pair([g1 EXCEPT !.swit[InnermostSwitch(sc)].cases =
                        @ \cup {[lo |-> s.lo, hi |-> s.hi, sub |-> s.sub, to |-> Top(g1)]}],
                    Top(g1), Top(g1)))

LowerDefault(g, s, sc) ==
    LET g1 == Add(g, "label", 0) IN
    SrcMapping(Pair([g1 EXCEPT !.swit[InnermostSwitch(sc)].dft = Top(g1)],
                    Top(g1), Top(g1)))

LowerSub(g, s, sc) ==
    LET exit == Top(g) + 1
        within == <<[k |-> "sub", exit |-> exit, sw |-> 0]>> \o sc
        Body(start, body) ==
            Pair(Flow(Flow(body.g, start.exit, body.enter), body.exit, exit), start.enter, exit)
        Start(start) ==
            Body(start, LowerAll([start.g EXCEPT !.swit[InnermostSwitch(sc)].enters =
                                     Append(@, [sub |-> s.id, enter |-> start.enter,
                                                exit |-> start.exit])],
                                 s.b, within))
    IN  Start(LowerAll(Add(g, "label", 0), s.start, within))

(* A label of a sub-switch: `if(!run) goto its start code`                 *)
JumpBack(g, sw, c) ==
    LET g1 == Add(Add(g, "label", 0), "read", sw)
        endIf == Top(g1) - 1
        start == CHOOSE e \in Range(g.swit[sw].enters) : e.sub = c.sub
    IN  InsertAfter(CondJump(g1, Top(g1), endIf, start.enter), c.to, Top(g1), endIf)

(* The end of a start code: `if(!run) {run = 1; goto the jump table}`      *)
BugAgain(g, sw, e, label) ==    \* mutant: run is not set
    LET g1 == Add(Add(g, "nread", sw), "label", 0)
    IN  InsertAfter(CondJump(g1, Top(g1) - 1, label, Top(g1)), e.exit, Top(g1) - 1, Top(g1))
Again(g, sw, e, label) ==
    LET g1 == Add(Add(Add(g, "set1", sw), "nread", sw), "label", 0)
        endIf == Top(g1)
    IN  InsertAfter(CondJump(Flow(g1, endIf - 2, label), endIf - 1, endIf - 2, endIf),
                    e.exit, endIf - 1, endIf)

(* With sub-switches the value is kept for the second visit to the table   *)
KeepValue(g, sw, cond, table) ==
    LET g1 == Add(Add(Add(g, "save", sw), "label", 0), "load", sw)
        save == Top(g1) - 2
        g2 == [g1 EXCEPT !.edge = {e \in @ : ~(e.f = cond /\ e.t = table)}]
        g3 == Flow(Flow(Connect(g2, cond, "dest", save), save, save + 1), save + 1, save + 2)
    IN  FoldLeft(LAMBDA h, e : Again(h, sw, e, save + 1),
                 Connect(g3, save + 2, "src", table), g.swit[sw].enters)

LowerSwitch(g, s, sc) ==
    LET end == Top(g) + 1
        Subs(h, sw) == {x \in h.swit[sw].cases : x.sub # 0}
        Kept(h, cond, sw, table) ==
            IF h.swit[sw].enters = <<>> THEN h ELSE KeepValue(h, sw, cond.exit, table)
        Enter(h, cond, sw, table) ==
            IF Subs(h, sw) = {} THEN h ELSE Flow(Add(h, "set0", sw), table + 1, cond.enter)
        Cases(h, sw, table) ==
            FoldSet(LAMBDA x, k : Connect(k, table, "case", x.to), h, h.swit[sw].cases)
        Table(h, cond, sw, table) ==
            Pair(Connect(Kept(FoldSet(LAMBDA x, k : JumpBack(k, sw, x),
                                      Cases(Enter(h, cond, sw, table), sw, table), Subs(h, sw)),
                              cond, sw, table),
                         table, "dft", h.swit[sw].dft),
                 IF Subs(h, sw) = {} THEN cond.enter ELSE table + 1, end)
        Body(body, cond, sw) ==
            Table(Connect(Add(Flow(body.g, body.exit, end), "tab", sw), cond.exit, "src",
                          Top(body.g) + 1), cond, sw, Top(body.g) + 1)
        Scoped(h, sw) ==
            Lower([h EXCEPT !.swit = Append(@, [cases |-> {}, dft |-> end, enters |-> <<>>])], s.b,
                  <<[k |-> "swit", exit |-> end, sw |-> sw]>> \o sc)
        Cond(cond, sw) == Body(SrcMappingForBody(s.b, Scoped(cond.g, sw)), cond, sw)
        Of(cond) == Cond(cond, Len(cond.g.swit) + 1)
    IN  Of(SrcMapping(Lower(Add(g, "label", 0), s.c, sc)))

Lower(g, s, sc) ==
    CASE s.k = "none" -> LowerEmpty(g)
      [] s.k = "ev" -> LowerEv(g, s)
      [] s.k = "scope" -> LowerScope(g, s, sc)
      [] s.k = "break" -> LowerBreak(g, sc)
      [] s.k = "goto" -> LowerGoto(g, s)
      [] s.k = "label" -> LowerLabel(g, s)
      [] s.k = "return" -> LowerReturn(g, s, sc)
      [] s.k = "if" -> LowerIf(g, s, sc)
      [] s.k = "while" -> LowerWhile(g, s, sc)
      [] s.k = "do" -> LowerDo(g, s, sc)
      [] s.k = "for" -> LowerFor(g, s, sc)
      [] s.k = "try" -> LowerTry(g, s, sc)
      [] s.k = "case" -> LowerCase(g, s, sc)
      [] s.k = "default" -> LowerDefault(g, s, sc)
      [] s.k = "sub" -> LowerSub(g, s, sc)
      [] s.k = "switch" -> LowerSwitch(g, s, sc)

(* Statements in a row, each entered from where the one before it leaves   *)
LowerAll(g, stmts, sc) ==
    FoldLeft(LAMBDA p, s :
                 LET After(r) == IF p.enter = 0 THEN r
                                 ELSE Pair(Flow(r.g, p.exit, r.enter), p.enter, r.exit)
                 IN  After(SrcMappingForBody(s, Lower(p.g, s, sc))),
             Pair(g, 0, 0), stmts)

(* NODE_FUNC_DEF: the body between the start and the end of a function     *)
Function(body) ==
    LET End(b) == Flow(Add(Flow(b.g, 1, b.enter), "end", 0), b.exit, Top(b.g) + 1)
    IN  End(Lower(Add(NewGraph, "start", 0), Scope(body), <<>>))
=============================================================================
