------------------------------- MODULE Syntax -------------------------------
(***************************************************************************)
(* The statements of a function, read from its tokens by parserA.c.  An    *)
(* expression is one token here.  Every parser takes the tokens t, the     *)
(* place i it starts at and the context c of what it is within, and gives  *)
(* a node (NoStmt for none), the place it ends at and the context.         *)
(***************************************************************************)
EXTENDS Lowering, Tokens

(* switches: switchStack, the switches and sub-switches around; last is    *)
(* the upper value of the case getNextCaseValue finds.  catch: the catch   *)
(* block around, of those there were, whose labels have names of their own *)
Context == [errors |-> {}, switches |-> <<>>, subs |-> 0, loop |-> FALSE,
            catch |-> 0, catches |-> 0, labels |-> {}, gotos |-> {}]
P(s, i, c) == [s |-> s, at |-> i, c |-> c]
Whine(c, what) == [c EXCEPT !.errors = @ \cup {what}]
WhineIf(bad, c, what) == IF bad THEN Whine(c, what) ELSE c

(* What must be there is passed over, and whined about when it is not.     *)
(* Where reading goes on after that differs in parserA.c from keyword to   *)
(* keyword; the program is refused.                                        *)
Past(t, tok, p) ==
    IF Token(t, p.at) = tok THEN [p EXCEPT !.at = @ + 1]
    ELSE [p EXCEPT !.c = Whine(@, "expected")]

ParseExpression(t, i, c) ==
    LET tok == Token(t, i) IN
    IF tok.t = "exp" THEN P(Ev(tok.n), i + 1, c) ELSE P(NoStmt, i, c)

Following(stmts, s) == IF s = NoStmt THEN stmts ELSE Append(stmts, s)

RECURSIVE ParseStatement(_, _, _), ParseItems(_, _, _, _), ParseSubItems(_, _, _, _)

ParseItems(t, i, c, stmts) ==
    LET More(p) ==
            IF p.at = i THEN P(Scope(Following(stmts, p.s)), i, Whine(p.c, "stopped here"))
            ELSE ParseItems(t, p.at, p.c, Following(stmts, p.s))
    IN  CASE ExpectKeyword(t, i, "}") -> P(Scope(stmts), i + 1, c)
          [] i > Len(t) -> P(Scope(stmts), i, Whine(c, "other }"))
          [] OTHER -> More(ParseStatement(t, i, c))

ParseScope(t, i, c) == ParseItems(t, i + 1, c, <<>>)

ParseBreak(t, i, c) ==
    Past(t, Kw(";"), P(Break, i + 1, WhineIf(~c.loop /\ c.switches = <<>>, c, "break")))

(* ( expression ) of if, while, do and switch                              *)
Condition(t, p) ==
    LET Inner(left) == ParseExpression(t, left.at, left.c)
        Right(e) == Past(t, Op(")"), [e EXCEPT !.c = WhineIf(e.s = NoStmt, @, "expression")])
    IN  Right(Inner(Past(t, Op("("), p)))

InLoop(t, i, c) == \* currentLoop is pushed for the body and restored
    [ParseStatement(t, i, [c EXCEPT !.loop = TRUE]) EXCEPT !.c.loop = c.loop]

ParseWhile(t, i, c) ==
    LET Body(cond, body) == P([k |-> "while", c |-> cond.s, b |-> body.s], body.at, body.c)
        Cond(cond) == Body(cond, InLoop(t, cond.at, cond.c))
    IN  Cond(Condition(t, P(NoStmt, i + 1, c)))

ParseDo(t, i, c) ==
    LET Cond(body, cond) ==
            Past(t, Kw(";"), P([k |-> "do", c |-> cond.s, b |-> body.s], cond.at, cond.c))
        Body(body) == Cond(body, Condition(t, Past(t, Kw("while"), body)))
    IN  Body(InLoop(t, i + 1, c))

(* Of a for statement ( and ; are passed over unseen                       *)
ParseFor(t, i, c) ==
    LET Body(init, cond, inc, body) ==
            P([k |-> "for", i |-> init.s, c |-> cond.s, n |-> inc.s, b |-> body.s],
              body.at, body.c)
        Inc(init, cond, inc) == Body(init, cond, inc, InLoop(t, inc.at + 1, inc.c))
        Cond(init, cond) == Inc(init, cond, ParseExpression(t, cond.at + 1, cond.c))
        Init(init) == Cond(init, ParseExpression(t, init.at + 1, init.c))
    IN  Init(ParseExpression(t, i + 2, c))

ParseIf(t, i, c) ==
    LET Else(cond, body, el) ==
            P([k |-> "if", c |-> cond.s, b |-> body.s, e |-> el.s], el.at, el.c)
        Body(cond, body) ==
            Else(cond, body, IF ExpectKeyword(t, body.at, "else")
                             THEN ParseStatement(t, body.at + 1, body.c)
                             ELSE P(NoStmt, body.at, body.c))
        Cond(cond) == Body(cond, ParseStatement(t, cond.at, cond.c))
    IN  Cond(Condition(t, P(NoStmt, i + 1, c)))

Push(c, id) == [c EXCEPT !.switches = Append(@, [id |-> id, cases |-> {}, last |-> 0])]

ParseSwitch(t, i, c) ==
    LET Body(cond, body) ==
            P([k |-> "switch", c |-> cond.s, b |-> body.s], body.at,
              [body.c EXCEPT !.switches = c.switches])
        Cond(cond) == Body(cond, ParseStatement(t, cond.at, Push(cond.c, 0)))
    IN  Cond(Condition(t, P(NoStmt, i + 1, c)))

LabelNode(c, name) == [name |-> name, catch |-> c.catch]

AddLabel(c, name) ==
    [WhineIf(name \in c.labels, c, "repeat label") EXCEPT !.labels = @ \cup {name}]

MapGotosToLabels(c) == WhineIf(~(c.gotos \subseteq c.labels), c, "undefined label")

(* The body of a sub-switch, up to end:                                    *)
ParseSubItems(t, i, c, stmts) ==
    LET More(p) ==
            IF p.s = NoStmt THEN P(Scope(stmts), p.at, Whine(p.c, "end label"))
            ELSE ParseSubItems(t, p.at, p.c, Append(stmts, p.s))
    IN  IF Token(t, i) = Name("end") /\ ExpectKeyword(t, i + 1, ":")
        THEN P(Scope(stmts), i + 2, c)
        ELSE More(ParseStatement(t, i, c))

(* getSubswitchStartCode: what is before the first case or default; its    *)
(* popping tells the switch around the value its next case goes on from.   *)
SubSwitch(p, id) ==
    LET cut == SelectInSeq(p.s.b, LAMBDA s : s.k \in {"case", "default"}) - 1
        around == Front(p.c.switches)
    IN  P([k |-> "sub", id |-> id, start |-> SubSeq(p.s.b, 1, cut),
           b |-> SubSeq(p.s.b, cut + 1, Len(p.s.b))], p.at,
          [p.c EXCEPT !.switches =
              [around EXCEPT ![Len(around)].last = Last(p.c.switches).last]])

ParseLabel(t, i, c) ==
    LET name == Token(t, i).x IN
    IF name = "start" /\ c.switches # <<>>
    THEN SubSwitch(ParseSubItems(t, i + 2, Push([c EXCEPT !.subs = @ + 1], c.subs + 1), <<>>),
                   c.subs + 1)
    ELSE P([k |-> "label", l |-> LabelNode(c, name)], i + 2, AddLabel(c, name))

ParseGoto(t, i, c) ==
    LET name == Token(t, i + 1) IN
    IF name.t # "name" THEN P(NoStmt, i + 1, Whine(c, "name after goto"))
    ELSE P([k |-> "goto", l |-> LabelNode(c, name.x)], i + 2, [c EXCEPT !.gotos = @ \cup {name.x}])

ParseReturn(t, i, c) ==
    LET Of(v) ==
            IF c.catch # 0 THEN P(NoStmt, i, Whine(v.c, "return in catch"))
            ELSE P([k |-> "return", v |-> v.s], IF v.s = NoStmt THEN i + 2 ELSE v.at, v.c)
    IN  Of(ParseExpression(t, i + 1, c))

(* ensureCaseDoesntExist looks at every switch that is open                *)
Overlaps(a, b) == a.lo <= b.hi /\ b.lo <= a.hi
Conflict(c, case) ==
    \E i \in DOMAIN c.switches : \E x \in c.switches[i].cases : Overlaps(x, case)
AddCase(c, case) ==
    LET n == Len(c.switches) IN
    [WhineIf(Conflict(c, case), c, "conflicting case") EXCEPT
        !.switches[n].cases = @ \cup {case}, !.switches[n].last = case.hi]

(* A value left out is that of the case before; -1 is no upper value       *)
ParseCase(t, i, c) ==
    LET given == Token(t, i + 1).t = "int"
        lo == IF given THEN Token(t, i + 1).n ELSE Last(c.switches).last
        at == IF given THEN i + 2 ELSE i + 1
        range == ExpectKeyword(t, at, "...")
        hi == IF range /\ Token(t, at + 1).n # -1 THEN Token(t, at + 1).n ELSE lo
        end == Past(t, Kw(":"), P(NoStmt, IF range THEN at + 2 ELSE at, c))
    IN  IF c.switches = <<>> THEN P(NoStmt, i, Whine(c, "not in switch"))
        ELSE P([k |-> "case", lo |-> lo, hi |-> hi, sub |-> Last(c.switches).id],
               end.at, AddCase(end.c, [lo |-> lo, hi |-> hi]))

ParseDefault(t, i, c) ==
    Past(t, Kw(":"), P([k |-> "default"], i + 1,
                       WhineIf(c.switches = <<>>, c, "not in switch")))

BugParseTry(t, i, c) == \* mutant: the gotos of a catch block are not set apart
    LET Catch(body, catch) ==
            P([k |-> "try", b |-> body.s, c |-> catch.s], catch.at,
              [catch.c EXCEPT !.catch = c.catch])
        Body(body, kw) == Catch(body, ParseStatement(t, kw.at, [kw.c EXCEPT !.catch = 1]))
        Of(body) == Body(body, Past(t, Kw("catch"), body))
    IN  Of(ParseStatement(t, i + 1, c))

(* In a catch block only its own labels can be jumped to                   *)
ParseTry(t, i, c) ==
    LET Inside(cc, id) ==
            [cc EXCEPT !.catch = id, !.catches = id, !.labels = {}, !.gotos = {}]
        Catch(body, kw, catch) ==
            P([k |-> "try", b |-> body.s, c |-> catch.s], catch.at,
              [WhineIf(NoStmt \in {body.s, catch.s}, MapGotosToLabels(catch.c), "body") EXCEPT
                  !.catch = c.catch, !.labels = kw.c.labels, !.gotos = kw.c.gotos])
        Body(body, kw) ==
            Catch(body, kw, ParseStatement(t, kw.at, Inside(kw.c, kw.c.catches + 1)))
        Of(body) == Body(body, Past(t, Kw("catch"), body))
    IN  Of(ParseStatement(t, i + 1, c))

(* A statement, and the ; after it but of break, try and the empty one     *)
ParseStatement(t, i, c) ==
    LET tok == Token(t, i)
        Is(x) == ExpectKeyword(t, i, x)
        AfterSemi(p) == IF p.s # NoStmt /\ ExpectKeyword(t, p.at, ";")
                        THEN [p EXCEPT !.at = @ + 1] ELSE p
        expr == ParseExpression(t, i, c)
    IN  CASE Is(";") -> P(NoStmt, i + 1, c)
          [] Is("break") -> ParseBreak(t, i, c)
          [] Is("try") -> ParseTry(t, i, c)
          [] Is("goto") -> AfterSemi(ParseGoto(t, i, c))
          [] Is("return") -> AfterSemi(ParseReturn(t, i, c))
          [] tok.t = "name" /\ ExpectKeyword(t, i + 1, ":") -> AfterSemi(ParseLabel(t, i, c))
          [] tok.t = "exp" -> Past(t, Kw(";"), expr)
          [] Is("if") -> AfterSemi(ParseIf(t, i, c))
          [] Is("{") -> AfterSemi(ParseScope(t, i, c))
          [] Is("for") -> AfterSemi(ParseFor(t, i, c))
          [] Is("while") -> AfterSemi(ParseWhile(t, i, c))
          [] Is("do") -> AfterSemi(ParseDo(t, i, c))
          [] Is("case") -> AfterSemi(ParseCase(t, i, c))
          [] Is("default") -> AfterSemi(ParseDefault(t, i, c))
          [] Is("switch") -> AfterSemi(ParseSwitch(t, i, c))
          [] OTHER -> P(NoStmt, i, c)

(* parseFunction: the body, whose gotos then find their labels             *)
ParseBody(t) ==
    [ParseScope(t, 1, Context) EXCEPT !.c = MapGotosToLabels(@)]
=============================================================================
