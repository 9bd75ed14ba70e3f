---------------------------- MODULE SymbolTable ----------------------------
(***************************************************************************)
(* What the parser remembers of names (parserB.c), driven by the           *)
(* declarations parseStatement meets (parserA.c): a table of the global    *)
(* symbols, which outlives a source file, and the scopes of variables, one *)
(* per open function above the global one.                                 *)
(*                                                                         *)
(* A name is found in the scopes when it is used as a variable, and in the *)
(* table by everything else, so the two must tell the same story.  A       *)
(* symbol is replaced by one of at least its precedence; a declaration of  *)
(* less is dropped, with or without a diagnostic.                          *)
(***************************************************************************)
EXTENDS Integers, Sequences, SequencesExt

CONSTANTS
    Id,             \* names
    Type,           \* types of variables and functions
    Declared,       \* the linkages sources use
    None,           \* no symbol, no variable
    MaxVars,        \* bound: variables created
    MaxDepth        \* bound: functions open at a time

Linkage == {"LOCAL", "STATIC", "PUBLIC", "EXTERN", "_EXTERN", "IMPORT", "INTERNAL"}
Kind == {"var", "func", "funcForward", "class", "classForward", "label"}
Var == [id : Nat, type : Type, isGlobal : BOOLEAN]
Symbol == [kind : Kind, type : Type \cup {None}, link : Linkage,
           var : Var \cup {None}, prec : {-2, -1, 2}]

ASSUME NoneIsApart == None \notin Symbol \cup Var \cup Type
ASSUME DeclaredOK == Declared \subseteq Linkage \ {"IMPORT", "INTERNAL"}

VARIABLES
    symbolTable,    \* [Id -> Symbol \cup {None}]
    scopes,         \* the current scope is the last, its parent before it
    open,           \* the functions whose bodies are being parsed
    fresh,          \* variables created so far
    errors,         \* whether a diagnostic was reported
    crashed         \* whether the parser followed a null pointer

vars == <<symbolTable, scopes, open, fresh, errors, crashed>>

Forward == -1

ShadowPrecedence(kind, link) ==
    IF link \in {"EXTERN", "IMPORT"} THEN Forward
    ELSE CASE kind = "label" -> Forward - 1
           [] kind \in {"funcForward", "classForward"} -> Forward
           [] OTHER -> 2

NewSymbol(kind, type, link, var) ==
    [kind |-> kind, type |-> type, link |-> link, var |-> var,
     prec |-> ShadowPrecedence(kind, link)]

IsFunction(sym) == sym # None /\ sym.kind \in {"func", "funcForward"}
IsDefinition(sym) == sym # None /\ sym.kind \in {"func", "var"} /\ sym.prec = 2

(* __addGlobalSymbol                                                       *)
BugOlderStays(tab, n, sym) ==   \* mutant: an older symbol is never replaced
    IF tab[n] = None THEN [tab EXCEPT ![n] = sym] ELSE tab
Added(tab, n, sym) ==
    IF tab[n] = None \/ sym.prec >= tab[n].prec
    THEN [tab EXCEPT ![n] = sym]
    ELSE tab
AddErrs(tab, n, sym) ==
    /\ tab[n] # None
    /\ sym.prec < tab[n].prec
    /\ tab[n].prec # Forward /\ sym.prec # Forward

(* parserAddFunc complains about a second definition, and about a type     *)
(* that is not the one of an earlier forward declaration.                  *)
BugDefsRepeat(tab, n, kind, type) == FALSE
FuncErrs(tab, n, kind, type) ==
    /\ IsFunction(tab[n])
    /\ \/ tab[n].kind = "func" /\ kind = "func"
       \/ tab[n].kind = "funcForward" /\ tab[n].type # type

NoVars == [n \in Id |-> None]
Depth == Len(scopes)
IsGlobalScope == Depth = 1

-----------------------------------------------------------------------------

Init ==
    /\ symbolTable = [n \in Id |-> None]
    /\ scopes = <<NoVars>>
    /\ open = <<>>
    /\ fresh = 0
    /\ errors = FALSE
    /\ crashed = FALSE

(* parserAddVar: a repeated variable is reported and takes the place of    *)
(* the older one, an older one that may be repeated is kept.               *)
Repeats(n, link) ==
    IF IsGlobalScope
    THEN symbolTable[n] # None /\ symbolTable[n].prec > Forward
           /\ link \notin {"EXTERN", "IMPORT"}
    ELSE scopes[Depth][n] # None

ScopeVar(n, type, link) ==
    LET old == scopes[Depth][n] IN
    IF old = None \/ Repeats(n, link)
    THEN [id |-> fresh + 1, type |-> type, isGlobal |-> IsGlobalScope]
    ELSE old

(* addDeclsToScope                                                         *)
DeclareVar(n, type, link) ==
    /\ ~crashed /\ fresh < MaxVars
    /\ fresh' = fresh + 1
    /\ scopes' = [scopes EXCEPT ![Depth][n] = ScopeVar(n, type, link)]
    /\ LET v == ScopeVar(n, type, link)
           sym == NewSymbol("var", v.type, link, v)
       IN  IF IsGlobalScope
           THEN /\ symbolTable' = Added(symbolTable, n, sym)
                /\ errors' = (errors \/ Repeats(n, link) \/ AddErrs(symbolTable, n, sym))
           ELSE /\ UNCHANGED symbolTable
                /\ errors' = (errors \/ Repeats(n, link))
    /\ UNCHANGED <<open, crashed>>

(* parseFunction declares the function before it knows whether a body      *)
(* follows, so that the body may call it, and always as LOCAL.             *)
Early(type) == NewSymbol("funcForward", type, "LOCAL", None)

(* a body follows                                                          *)
EnterFunction(n, type, link) ==
    /\ ~crashed /\ Len(open) < MaxDepth
    /\ symbolTable' = Added(symbolTable, n, Early(type))
    /\ errors' = (errors \/ FuncErrs(symbolTable, n, "funcForward", type)
                         \/ AddErrs(symbolTable, n, Early(type)))
    /\ scopes' = Append(scopes, NoVars)
    /\ open' = Append(open, [name |-> n, type |-> type, link |-> link])
    /\ UNCHANGED <<fresh, crashed>>

(* The tokens of the definition are kept with the symbol's function, which *)
(* is null if the name is by now that of something else.                   *)
BugScopeStays == UNCHANGED scopes   \* mutant: leaveScope is forgotten
ScopeLeft == scopes' = Front(scopes)

LeaveFunction ==
    /\ ~crashed /\ open # <<>>
    /\ ScopeLeft
    /\ open' = Front(open)
    /\ LET f == Last(open)
           sym == NewSymbol("func", f.type, f.link, None)
       IN  IF IsFunction(symbolTable[f.name])
           THEN /\ symbolTable' = Added(symbolTable, f.name, sym)
                /\ errors' = (errors \/ FuncErrs(symbolTable, f.name, "func", f.type)
                                     \/ AddErrs(symbolTable, f.name, sym))
                /\ UNCHANGED crashed
           ELSE /\ crashed' = TRUE
                /\ UNCHANGED <<symbolTable, errors>>
    /\ UNCHANGED fresh

(* no body follows: the early declaration, then one with the linkage       *)
ForwardFunction(n, type, link) ==
    /\ ~crashed
    /\ LET t1 == Added(symbolTable, n, Early(type))
           sym == NewSymbol("funcForward", type, link, None)
       IN  /\ symbolTable' = Added(t1, n, sym)
           /\ errors' = (errors \/ FuncErrs(symbolTable, n, "funcForward", type)
                                \/ FuncErrs(t1, n, "funcForward", type)
                                \/ AddErrs(symbolTable, n, Early(type))
                                \/ AddErrs(t1, n, sym))
    /\ UNCHANGED <<scopes, open, fresh, crashed>>

(* parseClass, and parseLabel of a global assembler label, which adds the  *)
(* label twice                                                             *)
DeclareOther(n, kind, link) ==
    /\ ~crashed
    /\ LET sym == NewSymbol(kind, None, link, None)
       IN  /\ symbolTable' = Added(symbolTable, n, sym)
           /\ errors' = (errors \/ AddErrs(symbolTable, n, sym))
    /\ UNCHANGED <<scopes, open, fresh, crashed>>

(* parserMoveGlobals2Extern, between two sources of a command: what was    *)
(* static is forgotten, the rest becomes extern but keeps its precedence,  *)
(* and the global scope is built again from the table.                     *)
Moved(sym) ==
    IF sym = None \/ sym.link \in {"STATIC", "INTERNAL"} THEN None
    ELSE IF sym.link \in {"LOCAL", "PUBLIC"} THEN [sym EXCEPT !.link = "IMPORT"]
    ELSE sym

BugScopeKept(tab) == scopes     \* mutant: the global scope is not built again
GlobalScopeOf(tab) ==
    <<[n \in Id |-> IF tab[n] = None THEN None ELSE tab[n].var]>>

NextFile ==
    /\ ~crashed /\ ~errors /\ open = <<>>
    /\ symbolTable' = [n \in Id |-> Moved(symbolTable[n])]
    /\ scopes' = GlobalScopeOf(symbolTable')
    /\ UNCHANGED <<open, fresh, errors, crashed>>

Next ==
    \/ \E n \in Id, type \in Type, link \in Declared :
          \/ DeclareVar(n, type, link)
          \/ EnterFunction(n, type, link)
          \/ ForwardFunction(n, type, link)
    \/ \E n \in Id :
          \/ \E link \in Declared : DeclareOther(n, "class", link)
          \/ DeclareOther(n, "classForward", "LOCAL")
          \/ DeclareOther(n, "label", "LOCAL")
    \/ LeaveFunction
    \/ NextFile

Spec == Init /\ [][Next]_vars

-----------------------------------------------------------------------------
(* Properties                                                              *)

(* Symbols and variables are of their types, and there is one scope more   *)
(* than there are open functions.                                          *)
TypeOK ==
    /\ symbolTable \in [Id -> Symbol \cup {None}]
    /\ scopes \in Seq([Id -> Var \cup {None}])
    /\ open \in Seq([name : Id, type : Type, link : Linkage])
    /\ Len(scopes) = Len(open) + 1
    /\ fresh \in Nat
    /\ errors \in BOOLEAN /\ crashed \in BOOLEAN

(* addDeclsToScope and parserMoveGlobals2Extern: a global variable is the  *)
(* same one whether the table is asked, as the emitter of globals does, or *)
(* the scopes, as an expression does, however often it was declared before *)
(* and in whichever source; what a source keeps to itself, no later source *)
(* finds in either.                                                        *)
Agree(tab, global) ==
    \A n \in Id : IF tab[n] = None THEN global[n] = None
                  ELSE tab[n].var \in {None, global[n]}
GlobalVarsAgree == Agree(symbolTable, scopes[1])

(* parserAddVar and parserAddFunc: where a variable or function is defined *)
(* by a second definition of its kind, a diagnostic was reported.          *)
RedefinitionReported ==
    [][\A n \in Id :
          /\ IsDefinition(symbolTable[n]) /\ IsDefinition(symbolTable'[n])
          /\ symbolTable'[n].kind = symbolTable[n].kind
          /\ symbolTable'[n] # [symbolTable[n] EXCEPT !.link = "IMPORT"]
          => symbolTable'[n] = symbolTable[n] \/ errors']_vars

(* parseFunction: a definition whose end is reached with nothing reported  *)
(* is the one calls find from then on, whatever its name was declared as   *)
(* before it and within its body.                                          *)
DefinitionsReachTable ==
    [][Len(open') < Len(open) /\ ~errors' /\ ~crashed' =>
          LET f == Last(open) IN
          symbolTable'[f.name] = NewSymbol("func", f.type, f.link, None)]_vars
=============================================================================
