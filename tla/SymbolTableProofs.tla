------------------------- MODULE SymbolTableProofs -------------------------
(***************************************************************************)
(* For every set of names, types and linkages: the symbol table and the    *)
(* scopes agree on global variables (GlobalVarsAgree), a second definition *)
(* is reported (RedefinitionReported), and one that ends with nothing      *)
(* reported is in the table (DefinitionsReachTable).                       *)
(***************************************************************************)
EXTENDS SymbolTable, SequenceTheorems, TLAPS

(* A new symbol is one, with the variable it was given.                    *)
LEMMA SymbolType ==
    ASSUME NEW kind \in Kind, NEW type \in Type \cup {None},
           NEW link \in Linkage, NEW v \in Var \cup {None}
    PROVE  /\ NewSymbol(kind, type, link, v) \in Symbol
           /\ NewSymbol(kind, type, link, v).var = v
           /\ NewSymbol(kind, type, link, v) # None
  <1>1. ShadowPrecedence(kind, link) \in {-2, -1, 2}
    BY DEF ShadowPrecedence, Forward
  <1>2. NewSymbol(kind, type, link, v) \in Symbol
    BY <1>1 DEF NewSymbol, Symbol
  <1> QED
    BY <1>2, NoneIsApart DEF NewSymbol

(* Adding a symbol leaves the table a table, puts the symbol or keeps the  *)
(* older one, and changes no other name.                                   *)
LEMMA AddedFacts ==
    ASSUME NEW tab \in [Id -> Symbol \cup {None}], NEW n \in Id,
           NEW sym \in Symbol
    PROVE  /\ Added(tab, n, sym) \in [Id -> Symbol \cup {None}]
           /\ \A m \in Id \ {n} : Added(tab, n, sym)[m] = tab[m]
           /\ \/ Added(tab, n, sym)[n] = sym
              \/ /\ Added(tab, n, sym)[n] = tab[n] /\ tab[n] # None
                 /\ sym.prec < tab[n].prec
           /\ tab[n] # None => /\ Added(tab, n, sym)[n] # None
                               /\ Added(tab, n, sym)[n].prec >= tab[n].prec
  <1>1. sym # None /\ sym.prec \in Int /\ (tab[n] # None => tab[n].prec \in Int)
    BY NoneIsApart DEF Symbol
  <1>2. CASE tab[n] = None \/ sym.prec >= tab[n].prec
    BY <1>1, <1>2 DEF Added
  <1>3. CASE ~(tab[n] = None \/ sym.prec >= tab[n].prec)
    BY <1>1, <1>3 DEF Added
  <1> QED
    BY <1>2, <1>3

(* A symbol without a variable keeps the agreement.                        *)
LEMMA AgreeAfterAdded ==
    ASSUME NEW tab \in [Id -> Symbol \cup {None}], NEW n \in Id,
           NEW sym \in Symbol, sym.var = None, NEW global, Agree(tab, global)
    PROVE  Agree(Added(tab, n, sym), global)
  <1> DEFINE new == Added(tab, n, sym)
  <1> SUFFICES ASSUME NEW m \in Id
               PROVE  IF new[m] = None THEN global[m] = None
                      ELSE new[m].var \in {None, global[m]}
    BY DEF Agree
  <1>1. CASE new[m] = tab[m]
    BY <1>1 DEF Agree
  <1>2. CASE new[m] = sym
    BY <1>2, NoneIsApart
  <1>3. m # n => new[m] = tab[m]
    BY AddedFacts
  <1>4. new[n] = sym \/ new[n] = tab[n]
    BY AddedFacts
  <1> HIDE DEF new
  <1> QED
    BY <1>1, <1>2, <1>3, <1>4

(* What is left of a sequence without its last element.                    *)
LEMMA FrontFacts ==
    ASSUME NEW S, NEW s \in Seq(S), Len(s) > 0
    PROVE  /\ Last(s) \in S
           /\ Front(s) \in Seq(S)
           /\ Len(Front(s)) = Len(s) - 1
           /\ \A i \in 1..(Len(s) - 1) : Front(s)[i] = s[i]
  <1>1. Len(s) \in Nat /\ Len(s) \in 1..Len(s)
    OBVIOUS
  <1>2. Last(s) \in S
    BY <1>1 DEF Last
  <1>3. /\ Len(Front(s)) = Len(s) - 1
        /\ \A i \in 1..(Len(s) - 1) : Front(s)[i] = s[i]
    <2> DEFINE k == Len(s) - 1
    <2>2. k \in Nat /\ Len(s) = k + 1 /\ Front(s) = SubSeq(s, 1, k)
      BY <1>1 DEF Front
    <2> HIDE DEF k
    <2>3. Len(SubSeq(s, 1, k)) = k
      BY <2>2
    <2>4. \A i \in 1..k : SubSeq(s, 1, k)[i] = s[i]
      BY <2>2
    <2> QED
      BY <2>2, <2>3, <2>4
  <1>4. Front(s) \in Seq(S)
    BY <1>1 DEF Front
  <1> QED
    BY <1>2, <1>3, <1>4

(* The declaration of a function before its body is a symbol.              *)
LEMMA EarlyType ==
    ASSUME NEW type \in Type
    PROVE  Early(type) \in Symbol /\ Early(type).var = None
  BY SymbolType DEF Early, Kind, Linkage

Inv == TypeOK /\ GlobalVarsAgree

(* The invariant holds of an empty table and scope.                        *)
LEMMA InitInv == Init => Inv
  <1> SUFFICES ASSUME Init PROVE Inv
    OBVIOUS
  <1>1. NoVars \in [Id -> Var \cup {None}]
    BY DEF NoVars
  <1>2. Len(scopes) = 1 /\ Len(open) = 0
    BY DEF Init
  <1>3. scopes \in Seq([Id -> Var \cup {None}])
    BY <1>1 DEF Init
  <1>4. symbolTable \in [Id -> Symbol \cup {None}]
    BY DEF Init
  <1>5. TypeOK
    <2>1. open \in Seq([name : Id, type : Type, link : Linkage])
      BY DEF Init
    <2>2. fresh \in Nat /\ errors \in BOOLEAN /\ crashed \in BOOLEAN
      BY DEF Init
    <2> QED
      BY <1>2, <1>3, <1>4, <2>1, <2>2 DEF TypeOK
  <1>6. GlobalVarsAgree
    BY DEF Init, GlobalVarsAgree, Agree, NoVars
  <1> QED
    BY <1>5, <1>6 DEF Inv

(* A variable is put in the scope and, globally, in the table.             *)
LEMMA DeclareVarInv ==
    ASSUME Inv, NEW n \in Id, NEW type \in Type, NEW link \in Declared,
           DeclareVar(n, type, link)
    PROVE  Inv'
  <1> USE DEF Inv
  <1> DEFINE v == ScopeVar(n, type, link)
             sym == NewSymbol("var", v.type, link, v)
  <1>1. link \in Linkage
    BY DeclaredOK
  <1>2. Depth \in 1..Len(scopes) /\ Depth = Len(scopes)
    BY DEF TypeOK, Depth
  <1>3. scopes[Depth] \in [Id -> Var \cup {None}]
    BY <1>2 DEF TypeOK
  <1>4. v \in Var /\ v # None
    <2>1. [id |-> fresh + 1, type |-> type, isGlobal |-> IsGlobalScope] \in Var
      BY DEF TypeOK, Var, IsGlobalScope
    <2> QED
      BY <2>1, <1>3, NoneIsApart DEF ScopeVar
  <1>5. v.type \in Type
    BY <1>4 DEF Var
  <1> HIDE DEF v
  <1>6. sym \in Symbol /\ sym.var = v /\ sym # None
    BY <1>1, <1>4, <1>5, SymbolType DEF Kind
  <1>7. scopes' = [scopes EXCEPT ![Depth][n] = v]
    BY DEF DeclareVar, v
  <1>8. /\ scopes' \in Seq([Id -> Var \cup {None}])
        /\ Len(scopes') = Len(scopes)
        /\ scopes'[Depth] = [scopes[Depth] EXCEPT ![n] = v]
        /\ \A i \in 1..Len(scopes) : i # Depth => scopes'[i] = scopes[i]
    BY <1>2, <1>3, <1>4, <1>7 DEF TypeOK
  <1>9. CASE IsGlobalScope
    <2>1. symbolTable' = Added(symbolTable, n, sym)
      BY <1>9 DEF DeclareVar, v
    <2>2. Depth = 1
      BY <1>9 DEF IsGlobalScope
    <2>3. symbolTable \in [Id -> Symbol \cup {None}]
      BY DEF TypeOK
    <2>4. symbolTable' \in [Id -> Symbol \cup {None}]
      BY <1>6, <2>1, <2>3, AddedFacts
    <2>5. errors' \in BOOLEAN
      BY <1>9 DEF DeclareVar, TypeOK, Repeats, AddErrs, v
    <2>6. TypeOK'
      BY <1>8, <2>4, <2>5 DEF DeclareVar, TypeOK
    <2>7. ASSUME NEW m \in Id
          PROVE  IF symbolTable'[m] = None THEN scopes'[1][m] = None
                 ELSE symbolTable'[m].var \in {None, scopes'[1][m]}
      <3>1. CASE m # n
        <4>1. symbolTable'[m] = symbolTable[m]
          BY <1>6, <2>1, <2>3, <3>1, AddedFacts
        <4>2. scopes'[1][m] = scopes[1][m]
          BY <1>3, <1>8, <2>2, <3>1
        <4> QED
          BY <4>1, <4>2 DEF GlobalVarsAgree, Agree
      <3>2. CASE m = n /\ symbolTable'[n] = sym
        BY <1>3, <1>6, <1>8, <2>2, <3>2
      (* The older symbol is kept: the declaration is extern, so the older *)
      (* variable is too.                                                  *)
      <3>3. CASE m = n /\ symbolTable'[n] # sym
        <4>1. symbolTable'[n] = symbolTable[n] /\ sym.prec < symbolTable[n].prec
          BY <1>6, <2>1, <2>3, <3>3, AddedFacts
        <4>2. symbolTable[n] # None /\ symbolTable[n].var \in {None, scopes[1][n]}
          BY <1>6, <2>1, <2>3, <3>3, AddedFacts DEF GlobalVarsAgree, Agree
        <4>4. symbolTable[n].prec \in {-2, -1, 2}
          BY <2>3, <4>2 DEF Symbol
        <4>5. sym.prec \in {-1, 2} /\ (sym.prec = -1 => link \in {"EXTERN", "IMPORT"})
          BY DEF NewSymbol, ShadowPrecedence, Forward
        <4>6. link \in {"EXTERN", "IMPORT"}
          BY <4>1, <4>4, <4>5
        <4>7. ~Repeats(n, link)
          BY <1>9, <4>6 DEF Repeats
        <4>8. scopes[1][n] = None \/ v = scopes[1][n]
          BY <4>7, <2>2 DEF v, ScopeVar
        <4>9. scopes'[1][n] = v
          BY <1>3, <1>8, <2>2
        <4> QED
          BY <3>3, <4>1, <4>2, <4>8, <4>9
      <3> QED
        BY <3>1, <3>2, <3>3
    <2> QED
      BY <2>6, <2>7 DEF GlobalVarsAgree, Agree
  <1>10. CASE ~IsGlobalScope
    <2>1. symbolTable' = symbolTable
      BY <1>10 DEF DeclareVar
    <2>2. errors' \in BOOLEAN
      BY <1>10, <1>3 DEF DeclareVar, TypeOK, Repeats
    <2>3. TypeOK'
      BY <1>8, <2>1, <2>2 DEF DeclareVar, TypeOK
    <2>4. 1 \in 1..Len(scopes) /\ Depth # 1
      BY <1>2, <1>10 DEF IsGlobalScope
    <2>5. scopes'[1] = scopes[1]
      BY <1>8, <2>4
    <2> QED
      BY <2>1, <2>3, <2>5 DEF GlobalVarsAgree
  <1> QED
    BY <1>9, <1>10

(* A function's scope is put on top of the others.                         *)
LEMMA EnterFunctionInv ==
    ASSUME Inv, NEW n \in Id, NEW type \in Type, NEW link \in Declared,
           EnterFunction(n, type, link)
    PROVE  Inv'
  <1> USE DEF Inv
  <1>1. symbolTable \in [Id -> Symbol \cup {None}]
    BY DEF TypeOK
  <1>2. symbolTable' = Added(symbolTable, n, Early(type))
    BY DEF EnterFunction
  <1>3. symbolTable' \in [Id -> Symbol \cup {None}]
    BY <1>1, <1>2, EarlyType, AddedFacts
  <1>4. NoVars \in [Id -> Var \cup {None}]
    BY DEF NoVars
  <1> DEFINE f == [name |-> n, type |-> type, link |-> link]
  <1>5. f \in [name : Id, type : Type, link : Linkage]
    BY DeclaredOK
  <1>6. scopes' = Append(scopes, NoVars) /\ open' = Append(open, f)
    BY DEF EnterFunction
  <1> HIDE DEF f
  <1>7. /\ scopes' \in Seq([Id -> Var \cup {None}])
        /\ Len(scopes') = Len(scopes) + 1
        /\ scopes'[1] = scopes[1]
    BY <1>4, <1>6 DEF TypeOK
  <1>8. /\ open' \in Seq([name : Id, type : Type, link : Linkage])
        /\ Len(open') = Len(open) + 1
    BY <1>5, <1>6 DEF TypeOK
  <1>9. errors' \in BOOLEAN
    BY DEF EnterFunction, TypeOK, FuncErrs, AddErrs
  <1>10. TypeOK'
    BY <1>3, <1>7, <1>8, <1>9 DEF EnterFunction, TypeOK
  <1>11. GlobalVarsAgree'
    BY <1>1, <1>2, <1>7, EarlyType, AgreeAfterAdded DEF GlobalVarsAgree
  <1> QED
    BY <1>10, <1>11

(* The scope of a function is gone with it, the others stay.               *)
LEMMA LeaveFunctionInv ==
    ASSUME Inv, LeaveFunction
    PROVE  Inv'
  <1> USE DEF Inv
  <1> DEFINE f == Last(open)
             sym == NewSymbol("func", f.type, f.link, None)
  <1>1. symbolTable \in [Id -> Symbol \cup {None}]
    BY DEF TypeOK
  <1>2. open # <<>> /\ Len(open) \in Nat \ {0} /\ Len(scopes) = Len(open) + 1
    BY DEF LeaveFunction, TypeOK
  <1> DEFINE Header == [name : Id, type : Type, link : Linkage]
             Scope == [Id -> Var \cup {None}]
  <1>3. open \in Seq(Header) /\ scopes \in Seq(Scope)
    BY DEF TypeOK
  <1> HIDE DEF Header, Scope
  <1>4. f.name \in Id /\ f.type \in Type /\ f.link \in Linkage
    <2>1. f \in Header
      BY <1>2, <1>3, FrontFacts
    <2> QED
      BY <2>1 DEF Header
  <1> HIDE DEF f
  <1>5. sym \in Symbol /\ sym.var = None
    BY <1>4, SymbolType DEF Kind
  <1>6. scopes' = Front(scopes)
    BY DEF LeaveFunction, ScopeLeft
  <1>7. open' = Front(open)
    BY DEF LeaveFunction
  <1>8. /\ scopes' \in Seq([Id -> Var \cup {None}])
        /\ Len(scopes') = Len(scopes) - 1
        /\ scopes'[1] = scopes[1]
    <2>1. 1 \in 1..(Len(scopes) - 1) /\ Len(scopes) > 0
      BY <1>2
    <2>2. /\ scopes' \in Seq(Scope)
          /\ Len(scopes') = Len(scopes) - 1
          /\ scopes'[1] = scopes[1]
      BY <1>3, <1>6, <2>1, FrontFacts
    <2> QED
      BY <2>2 DEF Scope
  <1>9. /\ open' \in Seq([name : Id, type : Type, link : Linkage])
        /\ Len(open') = Len(open) - 1
    <2>1. open' \in Seq(Header) /\ Len(open') = Len(open) - 1
      BY <1>2, <1>3, <1>7, FrontFacts
    <2> QED
      BY <2>1 DEF Header
  <1>10. CASE IsFunction(symbolTable[f.name])
    <2>1. symbolTable' = Added(symbolTable, f.name, sym)
      BY <1>10 DEF LeaveFunction, f
    <2>2. symbolTable' \in [Id -> Symbol \cup {None}]
      BY <1>1, <1>4, <1>5, <2>1, AddedFacts
    <2>3. errors' \in BOOLEAN /\ crashed' \in BOOLEAN
      BY <1>10 DEF LeaveFunction, TypeOK, FuncErrs, AddErrs, f
    <2>4. TypeOK'
      BY <1>2, <1>8, <1>9, <2>2, <2>3 DEF LeaveFunction, TypeOK
    <2>5. GlobalVarsAgree'
      BY <1>1, <1>4, <1>5, <1>8, <2>1, AgreeAfterAdded DEF GlobalVarsAgree
    <2> QED
      BY <2>4, <2>5
  <1>11. CASE ~IsFunction(symbolTable[f.name])
    <2>1. symbolTable' = symbolTable /\ errors' = errors /\ crashed' = TRUE
      BY <1>11 DEF LeaveFunction, f
    <2>2. TypeOK'
      BY <1>2, <1>8, <1>9, <2>1 DEF LeaveFunction, TypeOK
    <2>3. GlobalVarsAgree'
      BY <1>8, <2>1 DEF GlobalVarsAgree
    <2> QED
      BY <2>2, <2>3
  <1> QED
    BY <1>10, <1>11

(* Declarations of functions have no variable.                             *)
LEMMA ForwardFunctionInv ==
    ASSUME Inv, NEW n \in Id, NEW type \in Type, NEW link \in Declared,
           ForwardFunction(n, type, link)
    PROVE  Inv'
  <1> USE DEF Inv
  <1> DEFINE t1 == Added(symbolTable, n, Early(type))
             sym == NewSymbol("funcForward", type, link, None)
  <1>1. symbolTable \in [Id -> Symbol \cup {None}]
    BY DEF TypeOK
  <1>2. symbolTable' = Added(t1, n, sym)
    BY DEF ForwardFunction
  <1>3. sym \in Symbol /\ sym.var = None
    BY DeclaredOK, SymbolType DEF Kind
  <1>4. t1 \in [Id -> Symbol \cup {None}]
    BY <1>1, EarlyType, AddedFacts
  <1>5. Agree(t1, scopes[1])
    BY <1>1, EarlyType, AgreeAfterAdded DEF GlobalVarsAgree
  <1>6. errors' \in BOOLEAN
    BY DEF ForwardFunction, TypeOK, FuncErrs, AddErrs
  <1> HIDE DEF t1, sym
  <1>7. symbolTable' \in [Id -> Symbol \cup {None}]
    BY <1>2, <1>3, <1>4, AddedFacts
  <1>8. TypeOK'
    BY <1>6, <1>7 DEF ForwardFunction, TypeOK
  <1>9. Agree(symbolTable', scopes[1])
    BY <1>2, <1>3, <1>4, <1>5, AgreeAfterAdded
  <1>10. GlobalVarsAgree'
    BY <1>9 DEF GlobalVarsAgree, ForwardFunction
  <1> QED
    BY <1>8, <1>10

(* Nor have classes and labels.                                            *)
LEMMA DeclareOtherInv ==
    ASSUME Inv, NEW n \in Id, NEW kind \in {"class", "classForward", "label"},
           NEW link \in Linkage, DeclareOther(n, kind, link)
    PROVE  Inv'
  <1> USE DEF Inv
  <1> DEFINE sym == NewSymbol(kind, None, link, None)
  <1>1. symbolTable \in [Id -> Symbol \cup {None}]
    BY DEF TypeOK
  <1>2. symbolTable' = Added(symbolTable, n, sym)
    BY DEF DeclareOther
  <1>3. sym \in Symbol /\ sym.var = None
    BY SymbolType DEF Kind
  <1>4. errors' \in BOOLEAN
    BY DEF DeclareOther, TypeOK, AddErrs
  <1> HIDE DEF sym
  <1>5. symbolTable' \in [Id -> Symbol \cup {None}]
    BY <1>1, <1>2, <1>3, AddedFacts
  <1>6. TypeOK'
    BY <1>4, <1>5 DEF DeclareOther, TypeOK
  <1>7. Agree(symbolTable', scopes[1])
    BY <1>1, <1>2, <1>3, AgreeAfterAdded DEF GlobalVarsAgree
  <1>8. GlobalVarsAgree'
    BY <1>7 DEF GlobalVarsAgree, DeclareOther
  <1> QED
    BY <1>6, <1>8

(* The global scope is built from the table.                               *)
LEMMA NextFileInv ==
    ASSUME Inv, NextFile
    PROVE  Inv'
  <1> USE DEF Inv
  <1>1. symbolTable' = [n \in Id |-> Moved(symbolTable[n])]
    BY DEF NextFile
  <1>2. ASSUME NEW n \in Id PROVE Moved(symbolTable[n]) \in Symbol \cup {None}
    BY DEF TypeOK, Moved, Symbol, Linkage
  <1>3. symbolTable' \in [Id -> Symbol \cup {None}]
    BY <1>1, <1>2
  <1> DEFINE g == [n \in Id |-> IF symbolTable'[n] = None THEN None
                                 ELSE symbolTable'[n].var]
  <1>4. scopes' = <<g>>
    BY DEF NextFile, GlobalScopeOf
  <1>5. g \in [Id -> Var \cup {None}]
    BY <1>3 DEF Symbol
  <1>6. Agree(symbolTable', g)
    BY DEF Agree
  <1> HIDE DEF g
  <1>7. scopes' \in Seq([Id -> Var \cup {None}]) /\ Len(scopes') = 1 /\ scopes'[1] = g
    BY <1>4, <1>5
  <1>8. Len(open') = 0
    BY DEF NextFile
  <1>9. TypeOK'
    BY <1>3, <1>7, <1>8 DEF NextFile, TypeOK
  <1>10. GlobalVarsAgree'
    BY <1>6, <1>7 DEF GlobalVarsAgree
  <1> QED
    BY <1>9, <1>10

(* The function whose body ends has a name, a type and a linkage.          *)
LEMMA LastHeader ==
    ASSUME Inv, LeaveFunction
    PROVE  /\ Last(open).name \in Id
           /\ Last(open).type \in Type
           /\ Last(open).link \in Linkage
  <1> DEFINE Header == [name : Id, type : Type, link : Linkage]
  <1>1. open \in Seq(Header) /\ open # <<>>
    BY DEF Inv, TypeOK, LeaveFunction
  <1> HIDE DEF Header
  <1>2. Last(open) \in Header
    BY <1>1, FrontFacts
  <1> QED
    BY <1>2 DEF Header

(* Every step preserves the invariant.                                     *)
LEMMA NextInv == Inv /\ [Next]_vars => Inv'
  <1> SUFFICES ASSUME Inv, [Next]_vars PROVE Inv'
    OBVIOUS
  <1>1. ASSUME NEW n \in Id, NEW type \in Type, NEW link \in Declared,
               DeclareVar(n, type, link)
        PROVE  Inv'
    BY <1>1, DeclareVarInv
  <1>2. ASSUME NEW n \in Id, NEW type \in Type, NEW link \in Declared,
               EnterFunction(n, type, link)
        PROVE  Inv'
    BY <1>2, EnterFunctionInv
  <1>3. ASSUME NEW n \in Id, NEW type \in Type, NEW link \in Declared,
               ForwardFunction(n, type, link)
        PROVE  Inv'
    BY <1>3, ForwardFunctionInv
  <1>4. ASSUME NEW n \in Id, NEW link \in Declared, DeclareOther(n, "class", link)
        PROVE  Inv'
    BY <1>4, DeclareOtherInv, DeclaredOK
  <1>5. ASSUME NEW n \in Id, DeclareOther(n, "classForward", "LOCAL")
        PROVE  Inv'
    BY <1>5, DeclareOtherInv DEF Linkage
  <1>6. ASSUME NEW n \in Id, DeclareOther(n, "label", "LOCAL")
        PROVE  Inv'
    BY <1>6, DeclareOtherInv DEF Linkage
  <1>7. CASE LeaveFunction
    BY <1>7, LeaveFunctionInv
  <1>8. CASE NextFile
    BY <1>8, NextFileInv
  <1>9. CASE UNCHANGED vars
    BY <1>9 DEF Inv, TypeOK, GlobalVarsAgree, vars
  <1> QED
    BY <1>1, <1>2, <1>3, <1>4, <1>5, <1>6, <1>7, <1>8, <1>9 DEF Next

(* The table and the scopes tell the same story of every global variable,  *)
(* through any number of declarations, functions and sources.              *)
THEOREM VariablesAgree == Spec => [](TypeOK /\ GlobalVarsAgree)
  <1>1. Inv => TypeOK /\ GlobalVarsAgree
    BY DEF Inv
  <1> QED
    BY <1>1, InitInv, NextInv, PTL DEF Spec

(* Symbols and variables are of their types, and there is one scope more   *)
(* than there are open functions.                                          *)
THEOREM TypeInvariant == Spec => []TypeOK
  <1>1. Inv => TypeOK
    BY DEF Inv
  <1> QED
    BY <1>1, InitInv, NextInv, PTL DEF Spec

(* Adding a symbol to a table puts it at its name or changes nothing.      *)
LEMMA AddedChoice ==
    ASSUME NEW tab \in [Id -> Symbol \cup {None}], NEW n \in Id, NEW m \in Id,
           NEW sym
    PROVE  \/ Added(tab, n, sym)[m] = tab[m]
           \/ m = n /\ Added(tab, n, sym)[m] = sym
  BY DEF Added

(* What a name means after a step is what it meant, moved to the next      *)
(* source or not, or a new symbol.                                         *)
IsNew(sym) ==
    \E kind \in Kind : \E type, link, v : sym = NewSymbol(kind, type, link, v)
LEMMA NextSymbol ==
    ASSUME Inv, [Next]_vars, NEW m \in Id
    PROVE  \/ symbolTable'[m] \in {symbolTable[m], Moved(symbolTable[m])}
           \/ IsNew(symbolTable'[m])
  <1>1. symbolTable \in [Id -> Symbol \cup {None}]
    BY DEF Inv, TypeOK
  <1>2. ASSUME NEW n \in Id, NEW sym, IsNew(sym), symbolTable' = Added(symbolTable, n, sym)
        PROVE  symbolTable'[m] = symbolTable[m] \/ IsNew(symbolTable'[m])
    <2>1. symbolTable'[m] = symbolTable[m] \/ symbolTable'[m] = sym
      BY <1>1, <1>2, AddedChoice
    <2> QED
      BY <1>2, <2>1
  <1>3. ASSUME NEW kind \in Kind, NEW type, NEW link, NEW v
        PROVE  IsNew(NewSymbol(kind, type, link, v))
    BY DEF IsNew
  <1>4. \A type : IsNew(Early(type))
    BY <1>3 DEF Early, Kind
  <1>5. ASSUME NEW n \in Id, NEW type \in Type, NEW link \in Declared,
               DeclareVar(n, type, link)
        PROVE  symbolTable'[m] = symbolTable[m] \/ IsNew(symbolTable'[m])
    <2> DEFINE v == ScopeVar(n, type, link)
               sym == NewSymbol("var", v.type, link, v)
    <2>1. symbolTable' = symbolTable \/ symbolTable' = Added(symbolTable, n, sym)
      BY <1>5 DEF DeclareVar
    <2>2. IsNew(sym)
      BY <1>3 DEF Kind
    <2> HIDE DEF sym
    <2> QED
      BY <1>2, <2>1, <2>2
  <1>6. ASSUME NEW n \in Id, NEW type \in Type, NEW link \in Declared,
               EnterFunction(n, type, link)
        PROVE  symbolTable'[m] = symbolTable[m] \/ IsNew(symbolTable'[m])
    <2>1. symbolTable' = Added(symbolTable, n, Early(type))
      BY <1>6 DEF EnterFunction
    <2> QED
      BY <1>2, <1>4, <2>1
  <1>7. ASSUME NEW n \in Id, NEW type \in Type, NEW link \in Declared,
               ForwardFunction(n, type, link)
        PROVE  symbolTable'[m] = symbolTable[m] \/ IsNew(symbolTable'[m])
    <2> DEFINE t1 == Added(symbolTable, n, Early(type))
               sym == NewSymbol("funcForward", type, link, None)
    <2>1. symbolTable' = Added(t1, n, sym)
      BY <1>7 DEF ForwardFunction
    <2>2. t1 \in [Id -> Symbol \cup {None}]
      BY <1>1, EarlyType, AddedFacts
    <2>3. t1[m] = symbolTable[m] \/ t1[m] = Early(type)
      BY <1>1, AddedChoice
    <2>4. IsNew(sym)
      BY <1>3 DEF Kind
    <2> HIDE DEF t1, sym
    <2>5. symbolTable'[m] = t1[m] \/ symbolTable'[m] = sym
      BY <2>1, <2>2, AddedChoice
    <2> QED
      BY <1>4, <2>3, <2>4, <2>5
  <1>8. ASSUME NEW n \in Id, NEW kind \in {"class", "classForward", "label"},
               NEW link, DeclareOther(n, kind, link)
        PROVE  symbolTable'[m] = symbolTable[m] \/ IsNew(symbolTable'[m])
    <2>1. symbolTable' = Added(symbolTable, n, NewSymbol(kind, None, link, None))
      BY <1>8 DEF DeclareOther
    <2>2. IsNew(NewSymbol(kind, None, link, None))
      BY <1>3 DEF Kind
    <2> QED
      BY <1>2, <2>1, <2>2
  <1>9. CASE LeaveFunction
    <2> DEFINE f == Last(open)
               sym == NewSymbol("func", f.type, f.link, None)
    <2>1. symbolTable' = symbolTable \/ symbolTable' = Added(symbolTable, f.name, sym)
      BY <1>9 DEF LeaveFunction
    <2>2. f.name \in Id
      BY <1>9, LastHeader
    <2>3. IsNew(sym)
      BY <1>3 DEF Kind
    <2> HIDE DEF f, sym
    <2> QED
      BY <1>2, <2>1, <2>2, <2>3
  <1>10. CASE NextFile
    BY <1>10 DEF NextFile
  <1>11. CASE UNCHANGED vars
    BY <1>11 DEF vars
  <1> QED
    BY <1>5, <1>6, <1>7, <1>8, <1>9, <1>10, <1>11 DEF Next

(* A forward declaration of a function is of the forward precedence.       *)
ForwardsAreLow ==
    \A n \in Id : symbolTable[n] # None /\ symbolTable[n].kind = "funcForward" =>
                     symbolTable[n].prec = Forward

LEMMA NextForwardsAreLow ==
    ASSUME Inv, ForwardsAreLow, [Next]_vars
    PROVE  ForwardsAreLow'
  <1> SUFFICES ASSUME NEW m \in Id, symbolTable'[m] # None,
                      symbolTable'[m].kind = "funcForward"
               PROVE  symbolTable'[m].prec = Forward
    BY DEF ForwardsAreLow
  <1>1. symbolTable[m] \in Symbol \cup {None}
    BY DEF Inv, TypeOK
  <1>2. CASE symbolTable'[m] = symbolTable[m]
    BY <1>2 DEF ForwardsAreLow
  <1>3. CASE symbolTable'[m] = Moved(symbolTable[m])
    <2>1. symbolTable[m] \in Symbol /\ symbolTable[m] # None
      BY <1>1, <1>3 DEF Moved
    <2>2. /\ symbolTable'[m].kind = symbolTable[m].kind
          /\ symbolTable'[m].prec = symbolTable[m].prec
      BY <1>3, <2>1 DEF Moved, Symbol
    <2> QED
      BY <2>1, <2>2 DEF ForwardsAreLow
  <1>4. CASE IsNew(symbolTable'[m])
    BY <1>4 DEF IsNew, NewSymbol, ShadowPrecedence, Forward
  <1> QED
    BY <1>2, <1>3, <1>4, NextSymbol

(* Where the end of a definition is reached and nothing is reported, the   *)
(* name was that of a forward declaration, which the definition replaces.  *)
LEMMA NextReaches ==
    ASSUME Inv, ForwardsAreLow, Next, Len(open') < Len(open), ~errors', ~crashed'
    PROVE  symbolTable'[Last(open).name]
             = NewSymbol("func", Last(open).type, Last(open).link, None)
  <1> DEFINE f == Last(open)
             sym == NewSymbol("func", f.type, f.link, None)
  <1>1. Len(open) \in Nat
    BY DEF Inv, TypeOK
  <1>2. LeaveFunction
    <2>1. ASSUME NEW h PROVE Len(Append(open, h)) >= Len(open)
      <3> DEFINE Header == [name : Id, type : Type, link : Linkage]
      <3>1. open \in Seq(Header)
        BY DEF Inv, TypeOK
      <3> HIDE DEF Header
      <3> QED
        BY <3>1
    <2>2. \A n, type, link : ~EnterFunction(n, type, link)
      BY <1>1, <2>1 DEF EnterFunction
    <2> QED
      BY <1>1, <2>2 DEF Next, DeclareVar, ForwardFunction, DeclareOther, NextFile
  <1>3. f.name \in Id /\ f.type \in Type /\ f.link \in Linkage
    BY <1>2, LastHeader
  <1>4. /\ IsFunction(symbolTable[f.name])
        /\ symbolTable' = Added(symbolTable, f.name, sym)
        /\ ~FuncErrs(symbolTable, f.name, "func", f.type)
    BY <1>2 DEF LeaveFunction
  <1> HIDE DEF f
  <1>5. symbolTable[f.name].prec = Forward
    BY <1>3, <1>4 DEF FuncErrs, IsFunction, ForwardsAreLow
  <1>6. sym.prec >= Forward
    BY DEF NewSymbol, ShadowPrecedence, Forward
  <1>7. symbolTable \in [Id -> Symbol \cup {None}]
    BY DEF Inv, TypeOK
  <1> HIDE DEF sym
  <1>8. symbolTable'[f.name] = sym
    BY <1>3, <1>4, <1>5, <1>6, <1>7 DEF Added
  <1> QED
    BY <1>8 DEF f, sym

(* A definition whose end is reached with nothing reported is the one      *)
(* calls find, whatever its name was before.                               *)
THEOREM DefinitionsArrive == Spec => DefinitionsReachTable
  <1>1. Init => ForwardsAreLow
    BY DEF Init, ForwardsAreLow
  <1>2. Inv /\ ForwardsAreLow /\ [Next]_vars => ForwardsAreLow'
    BY NextForwardsAreLow
  <1>3. Inv /\ ForwardsAreLow /\ [Next]_vars =>
          [Len(open') < Len(open) /\ ~errors' /\ ~crashed' =>
             LET f == Last(open) IN
             symbolTable'[f.name] = NewSymbol("func", f.type, f.link, None)]_vars
    BY NextReaches
  <1> QED
    BY <1>1, <1>2, <1>3, InitInv, NextInv, PTL DEF Spec, DefinitionsReachTable

(* A step that puts one definition in the place of another of its kind     *)
(* reports it.                                                             *)
LEMMA NextReports ==
    ASSUME Inv, Next, NEW m \in Id,
           IsDefinition(symbolTable[m]), IsDefinition(symbolTable'[m]),
           symbolTable'[m].kind = symbolTable[m].kind,
           symbolTable'[m] # [symbolTable[m] EXCEPT !.link = "IMPORT"],
           symbolTable'[m] # symbolTable[m]
    PROVE  errors'
  <1>1. symbolTable \in [Id -> Symbol \cup {None}]
    BY DEF Inv, TypeOK
  <1>2. symbolTable' # symbolTable
    OBVIOUS
  <1>3. ASSUME NEW n \in Id, NEW type \in Type, NEW link \in Declared,
               DeclareVar(n, type, link)
        PROVE  errors'
    <2> DEFINE v == ScopeVar(n, type, link)
               sym == NewSymbol("var", v.type, link, v)
    <2>1. IsGlobalScope /\ symbolTable' = Added(symbolTable, n, sym)
          /\ errors' = (errors \/ Repeats(n, link) \/ AddErrs(symbolTable, n, sym))
      BY <1>2, <1>3 DEF DeclareVar
    <2>2. sym.prec = 2 => link \notin {"EXTERN", "IMPORT"}
      BY DEF NewSymbol, ShadowPrecedence, Forward
    <2> HIDE DEF sym
    <2>3. m = n /\ symbolTable'[m] = sym
      BY <1>1, <2>1, AddedChoice
    <2>4. Repeats(n, link)
      BY <2>1, <2>2, <2>3 DEF Repeats, IsDefinition, Forward
    <2> QED
      BY <2>1, <2>4
  <1>4. ASSUME NEW n \in Id, NEW type \in Type, NEW link \in Declared,
               EnterFunction(n, type, link)
        PROVE  FALSE
    <2>1. symbolTable' = Added(symbolTable, n, Early(type))
      BY <1>4 DEF EnterFunction
    <2>2. symbolTable'[m] = Early(type)
      BY <1>1, <2>1, AddedChoice
    <2> QED
      BY <2>2 DEF IsDefinition, Early, NewSymbol
  <1>5. ASSUME NEW n \in Id, NEW type \in Type, NEW link \in Declared,
               ForwardFunction(n, type, link)
        PROVE  FALSE
    <2> DEFINE t1 == Added(symbolTable, n, Early(type))
               sym == NewSymbol("funcForward", type, link, None)
    <2>1. symbolTable' = Added(t1, n, sym)
      BY <1>5 DEF ForwardFunction
    <2>2. t1 \in [Id -> Symbol \cup {None}]
      BY <1>1, EarlyType, AddedFacts
    <2>3. t1[m] = symbolTable[m] \/ t1[m] = Early(type)
      BY <1>1, AddedChoice
    <2>4. sym.kind = "funcForward" /\ Early(type).kind = "funcForward"
      BY DEF NewSymbol, Early
    <2> HIDE DEF t1, sym
    <2>5. symbolTable'[m] = t1[m] \/ symbolTable'[m] = sym
      BY <2>1, <2>2, AddedChoice
    <2> QED
      BY <2>3, <2>4, <2>5 DEF IsDefinition
  <1>6. ASSUME NEW n \in Id, NEW kind \in {"class", "classForward", "label"},
               NEW link, DeclareOther(n, kind, link)
        PROVE  FALSE
    <2> DEFINE sym == NewSymbol(kind, None, link, None)
    <2>1. symbolTable' = Added(symbolTable, n, sym)
      BY <1>6 DEF DeclareOther
    <2>2. sym.kind = kind
      BY DEF NewSymbol
    <2> HIDE DEF sym
    <2>3. symbolTable'[m] = sym
      BY <1>1, <2>1, AddedChoice
    <2> QED
      BY <2>2, <2>3 DEF IsDefinition
  <1>7. ASSUME LeaveFunction PROVE errors'
    <2> DEFINE f == Last(open)
               sym == NewSymbol("func", f.type, f.link, None)
    <2>1. /\ symbolTable' = Added(symbolTable, f.name, sym)
          /\ FuncErrs(symbolTable, f.name, "func", f.type) => errors'
      BY <1>2, <1>7 DEF LeaveFunction
    <2>2. f.name \in Id
      BY <1>7, LastHeader
    <2>3. sym.kind = "func"
      BY DEF NewSymbol
    <2> HIDE DEF f, sym
    <2>4. m = f.name /\ symbolTable'[m] = sym
      BY <1>1, <2>1, <2>2, AddedChoice
    <2>5. FuncErrs(symbolTable, f.name, "func", f.type)
      BY <2>3, <2>4 DEF FuncErrs, IsFunction, IsDefinition
    <2> QED
      BY <2>1, <2>5
  <1>8. ASSUME NextFile PROVE FALSE
    <2>1. symbolTable'[m] = Moved(symbolTable[m])
      BY <1>8 DEF NextFile
    <2> QED
      BY <2>1 DEF Moved, IsDefinition
  <1> QED
    BY <1>3, <1>4, <1>5, <1>6, <1>7, <1>8 DEF Next

(* A second definition of a variable or a function is reported, whatever   *)
(* was declared between the two.                                           *)
THEOREM RedefinitionsAreReported == Spec => RedefinitionReported
  <1>1. Inv /\ [Next]_vars =>
          [\A n \in Id :
              /\ IsDefinition(symbolTable[n]) /\ IsDefinition(symbolTable'[n])
              /\ symbolTable'[n].kind = symbolTable[n].kind
              /\ symbolTable'[n] # [symbolTable[n] EXCEPT !.link = "IMPORT"]
              => symbolTable'[n] = symbolTable[n] \/ errors']_vars
    BY NextReports
  <1> QED
    BY <1>1, InitInv, NextInv, PTL DEF Spec, RedefinitionReported
=============================================================================
