------------------------------ MODULE FlowCode ------------------------------
(***************************************************************************)
(* A function from its text to its code, and the code runs: what parserA.c *)
(* read, parse2IR.c and IR2asm.c made of it, next to what its statements   *)
(* mean.  A step evaluates the expression both have come to, with a value  *)
(* that is chosen, or throws.                                              *)
(***************************************************************************)
EXTENDS Statements

CONSTANTS Bodies,  \* the bodies of the functions that are compiled
          Values   \* what an expression may have as its value; 0 is false

ASSUME ValuesOK == Values \subseteq Int /\ 0 \in Values

VARIABLES body,    \* the statements of the function
          errors,  \* what parserA.c whined about in its text
          at, memory, todo

vars == <<body, errors, code, at, memory, todo>>

(* JNE and JE to the two labels of a condition; the table of a switch, the *)
(* default for what is outside of all ranges.                              *)
EdgeTo(g, n, kind) == (CHOOSE e \in EdgesFrom(g, n) : e.k = kind).t
TableTarget(g, n, v) ==
    LET hit == {c \in g.swit[g.node[n].x].cases : Within(v, c.lo, c.hi)}
    IN  IF hit = {} THEN EdgeTo(g, n, "dft") ELSE (CHOOSE c \in hit : TRUE).to

LineOf(c, n) == SelectInSeq(c.text, LAMBDA l : l = [op |-> "node", n |-> n])

(* Runs on to the next expression, or to a return (line 0).  mem: for each *)
(* switch or try its variable run, the value a switch is on, and the line  *)
(* that the exception frame goes back to.                                  *)
RECURSIVE Run(_, _, _, _)
Run(c, line, val, mem) ==
    LET l == c.text[line]
        k == c.g.node[l.n].k
        sw == c.g.node[l.n].x
        On(v, m) == Run(c, line + 1, v, m)
    IN  CASE l.op = "ret" -> [at |-> 0, memory |-> mem]
          [] l.op = "jmp" -> Run(c, LineOf(c, l.n), val, mem)
          [] k \in {"ret", "end"} -> [at |-> 0, memory |-> mem]
          [] k = "ev" -> [at |-> line, memory |-> mem]
          [] k = "cjmp" -> Run(c, LineOf(c, EdgeTo(c.g, l.n, IF val # 0 THEN "true" ELSE "false")),
                               val, mem)
          [] k = "tab" -> Run(c, LineOf(c, TableTarget(c.g, l.n, val)), val, mem)
          [] k = "set0" -> On(val, [mem EXCEPT !.run[sw] = 0])
          [] k = "set1" -> On(val, [mem EXCEPT !.run[sw] = 1])
          [] k = "read" -> On(mem.run[sw], mem)
          [] k = "nread" -> On(1 - mem.run[sw], mem)
          [] k = "save" -> On(val, [mem EXCEPT !.sel[sw] = val])
          [] k = "load" -> On(mem.sel[sw], mem)
          [] OTHER -> On(val, mem)

EvAt(line) == code.g.node[code.text[line].n].x

Refused == [g |-> NewGraph, text |-> <<>>]

(* Nodes lie in memory as they were made, or the other way round           *)
Addresses(g) == LET N == 1..(2 * Top(g)) IN {[n \in N |-> n], [n \in N |-> -n]}

(* The driver compiles what was read without an error                      *)
Begin(stmts) ==
    /\ body = stmts
    /\ \E read \in {ParseBody(Text(Scope(stmts)))} :
           /\ errors = read.c.errors
           /\ IF errors # {} THEN code = Refused
              ELSE \E g \in {Function(read.s.b)} : \E addr \in Addresses(g) : code = Compile(g, addr)
    /\ LET zero == [sw \in DOMAIN code.g.swit |-> 0]
           mem == [run |-> zero, sel |-> zero, frame |-> 0]
           r == IF errors # {} THEN [at |-> 0, memory |-> mem] ELSE Run(code, 1, 0, mem)
       IN  at = r.at /\ memory = r.memory
    /\ todo = IF errors # {} THEN <<>> ELSE Settle(body, body, 0)

Init == \E stmts \in Bodies : Begin(stmts)

(* HCRT_ExceptStoreState keeps where to come back to                       *)
Evaluate(v) ==
    /\ at # 0 /\ todo # <<>>
    /\ LET stored == IF EvAt(at) = Store THEN [memory EXCEPT !.frame = at] ELSE memory
           r == Run(code, at + 1, v, stored)
       IN  at' = r.at /\ memory' = r.memory
    /\ todo' = Settle(body, Tail(todo), v)
    /\ UNCHANGED <<body, errors, code>>

(* throw, in an expression of the body of a try statement                  *)
Throw ==
    /\ at # 0 /\ todo # <<>> /\ InTry(todo) /\ EvAt(at) # Store
    /\ LET r == Run(code, memory.frame + 1, 1, memory)
       IN  at' = r.at /\ memory' = r.memory
    /\ todo' = Settle(body, Thrown(todo), 0)
    /\ UNCHANGED <<body, errors, code>>

Next == Throw \/ \E v \in Values : Evaluate(v)

Spec == Init /\ [][Next]_vars

-----------------------------------------------------------------------------
(* Properties                                                              *)

(* parserA.c: a text is refused exactly when its breaks, gotos, labels,    *)
(* returns and cases do not fit together, however they are nested.         *)
RefusesIllFormed == (errors = {}) <=> WellFormed(body)

(* parse2IR.c: whatever the values of its expressions, a function's code   *)
(* evaluates the expressions that its statements do, in their order, and   *)
(* returns when they end.                                                  *)
RunsAsWritten ==
    IF todo = <<>> THEN at = 0 ELSE at # 0 /\ EvAt(at) = Head(todo).id
=============================================================================
