------------------------- MODULE SourceCacheProofs -------------------------
(* Proofs about SourceCache, for every program, type and hash function.    *)
EXTENDS SourceCache, TLAPS, SequenceTheorems

(* RemoveAt takes one element out and keeps the order of the others.       *)
LEMMA RemoveAtFacts ==
    ASSUME NEW S, NEW s \in Seq(S), NEW n \in 1..Len(s)
    PROVE  /\ RemoveAt(s, n) \in Seq(S)
           /\ Len(RemoveAt(s, n)) = Len(s) - 1
           /\ \A i \in 1..(Len(s) - 1) :
                 RemoveAt(s, n)[i] = IF i < n THEN s[i] ELSE s[i + 1]
<1> DEFINE a == SubSeq(s, 1, n - 1)
           b == SubSeq(s, n + 1, Len(s))
<1>1. /\ a \in Seq(S) /\ Len(a) = n - 1
      /\ \A i \in 1..(n - 1) : a[i] = s[i]
  OBVIOUS
<1>2. /\ b \in Seq(S) /\ Len(b) = Len(s) - n
      /\ \A i \in 1..(Len(s) - n) : b[i] = s[n + i]
  OBVIOUS
<1> HIDE DEF a, b
<1>3. /\ a \o b \in Seq(S) /\ Len(a \o b) = Len(s) - 1
      /\ \A i \in 1..(Len(s) - 1) :
            (a \o b)[i] = IF i < n THEN s[i] ELSE s[i + 1]
  <2>0. a \in Seq(S) /\ b \in Seq(S)
    BY <1>1, <1>2
  <2>1. /\ a \o b \in Seq(S)
        /\ Len(a \o b) = Len(a) + Len(b)
        /\ \A i \in 1..(Len(a) + Len(b)) :
              (a \o b)[i] = IF i <= Len(a) THEN a[i] ELSE b[i - Len(a)]
    BY <2>0, ConcatProperties, Zenon
  <2> QED BY <1>1, <1>2, <2>1
<1> USE DEF a, b
<1> QED BY <1>3 DEF RemoveAt

-----------------------------------------------------------------------------
(* Where the process is tells which of its variables hold something.       *)

Compiling == {"scan", "diff", "remove", "write", "lookup", "initWrite", "leave",
              "leaveWrite"}

Shape ==
    /\ pc \in Compiling => src # <<>>
    /\ pc \in {"scan", "lookup"} => k >= 1
    /\ pc = "leaveWrite" => stmts # <<>>

TypeInv == TypeOK /\ Shape

(* The name a text is cached under is the name of a file.                  *)
LEMMA HashNameType ==
    ASSUME NEW nm \in Name, NEW t \in Text
    PROVE  HashNameOf(nm, t) \in HashName /\ Printed[t] \in Image
BY ConstantsOK DEF HashNameOf, HashName

(* The lines of the types file are those of global names.                  *)
LEMMA LineNames == \A l \in Line : l[1] \in Name
BY DEF Line, Decl, HashName, Name

(* Declarations make lines.                                                *)
LEMMA LinesType ==
    ASSUME NEW decls \in SUBSET Decl
    PROVE  Lines(decls) \subseteq Line
<1>1. ASSUME NEW d \in Decl
      PROVE  LineOf(d) \in Line
  <2>1. CASE d[1] \in Class
    <3>1. d \in Class \X Text
      BY <2>1, ConstantsOK DEF Decl
    <3>2. HashNameOf(d[1], d[2]) \in Class \X HashVal
      BY <3>1, ConstantsOK DEF HashNameOf
    <3> QED BY <2>1, <3>2 DEF LineOf, Line
  <2>2. CASE d[1] \notin Class
    BY <2>2 DEF LineOf, Line, Decl
  <2> QED BY <2>1, <2>2
<1> QED BY <1>1 DEF Lines

(* Every value stays of its type, and the process where its variables say. *)
LEMMA TypeInvHolds == Spec => []TypeInv
<1>1. Init => TypeInv
  BY ConstantsOK DEF Init, TypeInv, TypeOK, Shape, Compiling, PCs, Code
<1>2. TypeInv /\ [Next]_vars => TypeInv'
  <2> SUFFICES ASSUME TypeInv, [Next]_vars
               PROVE  TypeInv'
    OBVIOUS
  <2> USE ConstantsOK, ProgramsOK
      DEF TypeInv, TypeOK, Shape, Compiling, PCs, disk, out
  <2>1. ASSUME NEW ps \in Sources, Command(ps) PROVE TypeInv'
    <3>1. PICK n \in 1..MaxSources : ps \in [1..n -> Program]
      BY DEF Sources
    <3>2. n \in Nat /\ ps \in Seq(Program)
      BY <3>1
    <3> QED BY <2>1, <3>2 DEF Command, Starts
  <2>2. ASSUME BeginFile PROVE TypeInv'
    <3>1. Head(src) \in Program
      BY <2>2 DEF BeginFile
    <3>2. table' \subseteq Decl
      BY <2>2, <3>1 DEF BeginFile, Declared
    <3>3. stmts' \in Seq([name : Func, text : Text])
      BY <2>2, <3>1 DEF BeginFile
    <3> QED BY <2>2, <3>1, <3>2, <3>3 DEF BeginFile
  <2>3. CASE ParseAborts
    BY <2>3 DEF ParseAborts, Gone, Starts
  <2>4. CASE ScanClass
    <3>1. PICK t \in Text :
             /\ changed' = IF HashFound(ClassOrder[k], t) THEN changed
                           ELSE changed \cup {ClassOrder[k]}
             /\ hashFile' = HashStored(ClassOrder[k], t)
      BY <2>4 DEF ScanClass
    <3>2. ClassOrder[k] \in Name
      BY <2>4 DEF ScanClass, Name
    <3>3. hashFile' \in [HashName -> Image \cup {NoFile}] /\ changed' \subseteq Name
      BY <3>1, <3>2, HashNameType DEF HashStored
    <3> QED BY <2>4, <3>3 DEF ScanClass
  <2>5. CASE SkipClass
    BY <2>5 DEF SkipClass
  <2>6. CASE RefChangedTypes
    <3>1. FuncsOfChangedTypes \subseteq Name
      BY DEF FuncsOfChangedTypes, Name
    <3> QED BY <2>6, <3>1 DEF RefChangedTypes
  <2>7. CASE DiffTypes
    <3>1. Head(src) \in Program
      BY <2>7 DEF DiffTypes
    <3>2. gVarTypes[Head(src).file] \subseteq Line
      BY <3>1
    <3>3. DiffersFrom(gVarTypes[Head(src).file]) \subseteq Name
      BY <3>2, LineNames DEF DiffersFrom
    <3> QED BY <2>7, <3>2, <3>3 DEF DiffTypes
  <2>8. CASE RemoveTypes
    BY <2>8 DEF RemoveTypes, proc
  <2>9. CASE WriteTypes
    <3>1. Lines(table) \subseteq Line
      BY LinesType
    <3> QED BY <2>9, <3>1 DEF WriteTypes
  <2>10. CASE Reuse
    <3>a. k \in 1..Len(stmts)
      BY <2>10 DEF Reuse
    <3>1. /\ stmts[k] \in [name : Func, text : Text]
          /\ RemoveAt(stmts, k) \in Seq([name : Func, text : Text])
      BY <3>a, ElementOfSeq, RemoveAtFacts
    <3>2. HashNameOf(stmts[k].name, stmts[k].text) \in HashName
      BY <3>1, HashNameType DEF Name
    <3> QED BY <2>10, <3>1, <3>2 DEF Reuse
  <2>11. CASE Keep
    <3>a. k \in 1..Len(stmts)
      BY <2>11 DEF Keep
    <3>0. stmts[k] \in [name : Func, text : Text]
      BY <3>a, ElementOfSeq
    <3>1. stmts[k].name \in Name /\ stmts[k].text \in Text
      BY <3>0 DEF Name
    <3>2. hashFile' \in [HashName -> Image \cup {NoFile}]
      BY <2>11, <3>1, HashNameType DEF Keep, HashStored
    <3> QED BY <2>11, <3>2 DEF Keep
  <2>12. CASE OpenInit
    BY <2>12 DEF OpenInit, proc
  <2>13. CASE WriteInit
    BY <2>13 DEF WriteInit, proc
  <2>14. CASE OpenAsm
    <3>0. Head(stmts) \in [name : Func, text : Text]
      BY <2>14, HeadTailProperties DEF OpenAsm
    <3>1. Head(stmts).name \in Name /\ Head(stmts).text \in Text
      BY <3>0 DEF Name
    <3>2. /\ hashFile' \in [HashName -> Image \cup {NoFile}]
          /\ asmFile' \in [HashName -> Code]
      BY <2>14, <3>1, HashNameType DEF OpenAsm, HashStored, Code
    <3> QED BY <2>14, <3>2 DEF OpenAsm, proc
  <2>15. CASE WriteAsm
    <3>0. Head(stmts) \in [name : Func, text : Text]
      BY <2>15, HeadTailProperties DEF WriteAsm
    <3>1. Head(stmts).name \in Name /\ Head(stmts).text \in Text
      BY <3>0 DEF Name
    <3>2. Compiled(table, Head(stmts).text) \in Code
      BY <3>1 DEF Compiled, Code
    <3>3. asmFile' \in [HashName -> Code] /\ funcFiles' \subseteq HashName
      BY <2>15, <3>1, <3>2, HashNameType DEF WriteAsm
    <3> QED BY <2>15, <3>3 DEF WriteAsm
  <2>16. CASE Emit
    BY <2>16 DEF Emit
  <2>17. CASE Assemble
    BY <2>17 DEF Assemble, proc
  <2>18. CASE Crash
    <3>1. PICK lines \in SUBSET Lines(table) :
             gVarTypes' = IF pc = "write"
                          THEN [gVarTypes EXCEPT ![Head(src).file] = lines]
                          ELSE gVarTypes
      BY <2>18 DEF Crash
    <3>2. lines \subseteq Line
      BY <3>1, LinesType
    <3> QED BY <2>18, <3>1, <3>2 DEF Crash, Gone, Starts
  <2>19. CASE UNCHANGED vars
    BY <2>19 DEF vars, proc
  <2> QED
    BY <2>1, <2>2, <2>3, <2>4, <2>5, <2>6, <2>7, <2>8, <2>9, <2>10, <2>11, <2>12,
       <2>13, <2>14, <2>15, <2>16, <2>17, <2>18, <2>19 DEF Next, CompilerStep
<1> QED BY <1>1, <1>2, PTL DEF Spec

(* Files and variables hold values of their kinds in every history of      *)
(* commands, killed ones included.                                         *)
THEOREM TypeInvariant == Spec => []TypeOK
BY TypeInvHolds, PTL DEF TypeInv

-----------------------------------------------------------------------------
(* No function of a source is lost: it is still to be compiled, or a file  *)
(* that exists is included for it.                                         *)

Included(s) == /\ HashNameOf(s.name, s.text) \in funcFiles
               /\ asmFile[HashNameOf(s.name, s.text)] # NoFile

Accounted ==
    pc \in Compiling =>
        \A j \in 1..Len(Head(src).stmts) :
            \/ Included(Head(src).stmts[j])
            \/ \E i \in 1..Len(stmts) : stmts[i] = Head(src).stmts[j]

(* A statement still to compile is a function with its text.               *)
LEMMA StatementType ==
    ASSUME NEW q \in Program, NEW j \in 1..Len(q.stmts)
    PROVE  /\ q.stmts[j] \in [name : Func, text : Text]
           /\ HashNameOf(q.stmts[j].name, q.stmts[j].text) \in HashName
<1>1. q.stmts \in Seq([name : Func, text : Text])
  BY ProgramsOK
<1>2. q.stmts[j] \in [name : Func, text : Text]
  BY <1>1, ElementOfSeq
<1> QED BY <1>2, HashNameType DEF Name

(* A file of code, once there, is there for good.                          *)
LEMMA AsmFilesStay ==
    ASSUME TypeInv, Next
    PROVE  \A hn \in HashName : asmFile[hn] # NoFile => asmFile'[hn] # NoFile
<1> USE DEF TypeInv, TypeOK
<1>1. CASE OpenAsm
  <2>1. asmFile' = [asmFile EXCEPT
           ![HashNameOf(Head(stmts).name, Head(stmts).text)] = Partial]
    BY <1>1 DEF OpenAsm
  <2> QED BY <2>1, ConstantsOK
<1>2. CASE WriteAsm
  <2>1. asmFile' = [asmFile EXCEPT
           ![HashNameOf(Head(stmts).name, Head(stmts).text)] =
              Compiled(table, Head(stmts).text)]
    BY <1>2 DEF WriteAsm
  <2>2. Head(stmts) \in [name : Func, text : Text]
    BY <1>2, HeadTailProperties DEF WriteAsm, Shape
  <2>3. Compiled(table, Head(stmts).text) \in [text : Text, sees : SUBSET Decl]
    BY <2>2 DEF Compiled
  <2> QED BY <2>1, <2>3, ConstantsOK
<1>3. CASE ~OpenAsm /\ ~WriteAsm
  <2>1. asmFile' = asmFile
    BY <1>3 DEF Next, CompilerStep, Command, Starts, BeginFile, ParseAborts, Gone,
       ScanClass, SkipClass, RefChangedTypes, DiffTypes, RemoveTypes, WriteTypes,
       Reuse, Keep, OpenInit, WriteInit, Emit, Assemble, Crash, disk
  <2> QED BY <2>1
<1> QED BY <1>1, <1>2, <1>3

(* AllFunctionsLinked holds of every command, killed ones included.        *)
THEOREM FunctionsLinked == Spec => []AllFunctionsLinked
<1>1. Init => Accounted /\ AllFunctionsLinked
  BY DEF Init, Accounted, Compiling, AllFunctionsLinked
<1>2. TypeInv /\ TypeInv' /\ Accounted /\ AllFunctionsLinked /\ [Next]_vars
        => (Accounted /\ AllFunctionsLinked)'
  <2> SUFFICES ASSUME TypeInv, TypeInv', Accounted, AllFunctionsLinked, Next
               PROVE  Accounted' /\ AllFunctionsLinked'
    <3>1. ASSUME Accounted, UNCHANGED vars PROVE Accounted'
      BY <3>1 DEF vars, disk, proc, Accounted, Included, HashNameOf
    <3>2. ASSUME AllFunctionsLinked, UNCHANGED vars PROVE AllFunctionsLinked'
      BY <3>2 DEF vars, disk, out, AllFunctionsLinked, HashNameOf
    <3> QED BY <3>1, <3>2
  <2>0. \A hn \in HashName : asmFile[hn] # NoFile => asmFile'[hn] # NoFile
    BY AsmFilesStay
  <2>a. pc \in Compiling => Head(src) \in Program
    BY HeadTailProperties DEF TypeInv, TypeOK, Shape
  <2>1. ASSUME asmOut' = asmOut PROVE AllFunctionsLinked'
    <3> SUFFICES ASSUME NEW i \in 1..Len(asmOut), NEW j \in 1..Len(asmOut[i].prog.stmts)
                 PROVE  LET s == asmOut[i].prog.stmts[j]
                            hn == HashNameOf(s.name, s.text)
                        IN  hn \in asmOut[i].includes /\ asmFile'[hn] # NoFile
      BY <2>1 DEF AllFunctionsLinked, HashNameOf
    <3>a. asmOut[i] \in [prog : Program, decls : SUBSET Decl,
                         includes : SUBSET HashName]
      BY ElementOfSeq DEF TypeInv, TypeOK
    <3>1. asmOut[i].prog \in Program
      BY <3>a
    <3> QED BY <2>0, <3>1, StatementType DEF AllFunctionsLinked
  <2>2. ASSUME pc \in Compiling, src' = src, stmts' = stmts, funcFiles \subseteq funcFiles'
        PROVE  Accounted'
    <3> SUFFICES ASSUME NEW j \in 1..Len(Head(src).stmts)
                 PROVE  \/ Included(Head(src).stmts[j])'
                        \/ \E i \in 1..Len(stmts) : stmts[i] = Head(src).stmts[j]
      BY <2>2 DEF Accounted, Included, HashNameOf
    <3> QED BY <2>0, <2>2, <2>a, StatementType DEF Accounted, Included, HashNameOf
  <2>3. CASE \E ps \in Sources : Command(ps)
    BY <2>3 DEF Command, Starts, Accounted, Compiling, AllFunctionsLinked
  <2>4. CASE BeginFile
    <3>1. Head(src) \in Program /\ Head(src).stmts \in Seq([name : Func, text : Text])
      BY <2>4, HeadTailProperties, ProgramsOK DEF BeginFile, TypeInv, TypeOK
    <3>2. Accounted'
      BY <2>4 DEF BeginFile, Accounted
    <3> QED BY <2>4, <2>1, <3>2 DEF BeginFile, out
  <2>5. CASE ParseAborts \/ Crash
    BY <2>5 DEF ParseAborts, Crash, Gone, Starts, Accounted, Compiling, AllFunctionsLinked
  <2>6. CASE ScanClass
    BY <2>6, <2>1, <2>2 DEF ScanClass, out, Compiling
  <2>7. CASE SkipClass
    BY <2>7, <2>1, <2>2 DEF SkipClass, out, Compiling
  <2>8. CASE RefChangedTypes
    BY <2>8, <2>1, <2>2 DEF RefChangedTypes, out, Compiling
  <2>9. CASE DiffTypes
    BY <2>9, <2>1, <2>2 DEF DiffTypes, out, Compiling
  <2>10. CASE RemoveTypes
    BY <2>10, <2>1, <2>2 DEF RemoveTypes, out, proc, Compiling
  <2>11. CASE WriteTypes
    BY <2>11, <2>1, <2>2 DEF WriteTypes, out, Compiling
  <2>12. CASE Reuse
    <3>1. Accounted'
      <4> SUFFICES ASSUME NEW j \in 1..Len(Head(src).stmts)
                   PROVE  \/ Included(Head(src).stmts[j])'
                          \/ \E i \in 1..Len(stmts') : stmts'[i] = Head(src).stmts[j]
        BY <2>12 DEF Reuse, Accounted, Included, HashNameOf
      <4>1. CASE Included(Head(src).stmts[j])
        BY <4>1, <2>12 DEF Reuse, Included, HashNameOf, disk
      <4>2. ASSUME NEW i \in 1..Len(stmts), stmts[i] = Head(src).stmts[j]
            PROVE  \/ Included(Head(src).stmts[j])'
                   \/ \E m \in 1..Len(stmts') : stmts'[m] = Head(src).stmts[j]
        <5>a. k \in 1..Len(stmts) /\ stmts \in Seq([name : Func, text : Text])
          BY <2>12 DEF Reuse, TypeInv, TypeOK, Shape
        <5>b. /\ Len(stmts') = Len(stmts) - 1
              /\ \A m \in 1..(Len(stmts) - 1) :
                    stmts'[m] = IF m < k THEN stmts[m] ELSE stmts[m + 1]
          BY <5>a, <2>12, RemoveAtFacts DEF Reuse
        <5>1. CASE i = k
          <6>1. /\ HashNameOf(stmts[k].name, stmts[k].text) \in funcFiles'
                /\ asmFile'[HashNameOf(stmts[k].name, stmts[k].text)] # NoFile
            BY <2>12, <5>a, <5>b DEF Reuse, Cached, Included, HashNameOf, disk
          <6>2. Head(src').stmts[j]  = Head(src).stmts[j]
            BY <2>12 DEF Reuse
          <6> QED BY <4>2, <5>1, <6>1, <6>2 DEF Included, HashNameOf
        <5>2. CASE i < k
          <6>1. /\ i \in 1..(Len(stmts) - 1)
                /\ stmts'[i] = stmts[i]
            BY <5>2, <5>a, <5>b
          <6> QED BY <4>2, <5>b, <6>1
        <5>3. CASE i > k
          <6>1. /\ i - 1 \in 1..(Len(stmts) - 1)
                /\ stmts'[i - 1] = stmts[i]
            BY <5>3, <5>a, <5>b
          <6> QED BY <4>2, <5>b, <6>1
        <5> QED BY <5>1, <5>2, <5>3, <5>a
      <4> QED BY <4>1, <4>2, <2>12 DEF Accounted, Reuse, Compiling
    <3> QED BY <2>12, <2>1, <3>1 DEF Reuse, out
  <2>13. CASE Keep
    BY <2>13, <2>1, <2>2 DEF Keep, out, Compiling
  <2>14. CASE OpenInit
    BY <2>14, <2>1, <2>2 DEF OpenInit, out, proc, Compiling
  <2>15. CASE WriteInit
    BY <2>15, <2>1, <2>2 DEF WriteInit, out, proc, Compiling
  <2>16. CASE OpenAsm
    BY <2>16, <2>1, <2>2 DEF OpenAsm, out, proc, Compiling
  <2>17. CASE WriteAsm
    <3> DEFINE s == Head(stmts)
    <3>1. /\ stmts # <<>> /\ stmts \in Seq([name : Func, text : Text])
          /\ stmts' = Tail(stmts)
      BY <2>17 DEF WriteAsm, TypeInv, TypeOK, Shape
    <3>2. s = stmts[1]
      BY <3>1
    <3>a. /\ s \in [name : Func, text : Text] /\ s = stmts[1]
          /\ Len(stmts') = Len(stmts) - 1
          /\ \A m \in 1..(Len(stmts) - 1) : stmts'[m] = stmts[m + 1]
      BY <3>1, <3>2, HeadTailProperties
    <3>b. /\ HashNameOf(s.name, s.text) \in HashName
          /\ Compiled(table, s.text) \in [text : Text, sees : SUBSET Decl]
      BY <3>a, HashNameType DEF Name, Compiled, TypeInv, TypeOK
    <3>c. /\ HashNameOf(s.name, s.text) \in funcFiles'
          /\ asmFile'[HashNameOf(s.name, s.text)] # NoFile
      BY <2>17, <3>b, ConstantsOK DEF WriteAsm, TypeInv, TypeOK
    <3>3. Accounted'
      <4> SUFFICES ASSUME NEW j \in 1..Len(Head(src).stmts)
                   PROVE  \/ Included(Head(src).stmts[j])'
                          \/ \E i \in 1..Len(stmts') : stmts'[i] = Head(src).stmts[j]
        BY <2>17 DEF WriteAsm, Accounted, Included, HashNameOf
      <4>1. CASE Included(Head(src).stmts[j])
        BY <4>1, <2>17, <2>0, <2>a, StatementType
           DEF WriteAsm, Included, HashNameOf, Compiling
      <4>2. ASSUME NEW i \in 1..Len(stmts), stmts[i] = Head(src).stmts[j]
            PROVE  \/ Included(Head(src).stmts[j])'
                   \/ \E m \in 1..Len(stmts') : stmts'[m] = Head(src).stmts[j]
        <5>1. CASE i = 1
          BY <4>2, <5>1, <3>a, <3>c, <2>17 DEF Included, HashNameOf, WriteAsm
        <5>2. CASE i > 1
          <6>1. /\ i - 1 \in 1..(Len(stmts) - 1)
                /\ stmts'[i - 1] = stmts[i]
            <7>1. Len(stmts) \in Nat
              BY <3>1
            <7> QED BY <5>2, <3>a, <7>1
          <6> QED BY <4>2, <3>a, <6>1
        <5> QED BY <5>1, <5>2
      <4> QED BY <4>1, <4>2, <2>17 DEF Accounted, WriteAsm, Compiling
    <3> QED BY <2>17, <2>1, <3>3 DEF WriteAsm, out
  <2>18. CASE Emit
    <3> DEFINE e == [prog |-> Head(src), decls |-> table, includes |-> funcFiles]
    <3>1. /\ asmOut' = Append(asmOut, e)
          /\ asmFile' = asmFile
          /\ Head(src) \in Program
          /\ \A j \in 1..Len(Head(src).stmts) : Included(Head(src).stmts[j])
      BY <2>18, <2>a DEF Emit, Accounted, Compiling, disk
    <3>2. /\ Len(asmOut') = Len(asmOut) + 1
          /\ \A i \in 1..Len(asmOut) : asmOut'[i] = asmOut[i]
          /\ asmOut'[Len(asmOut) + 1] = e
      BY <3>1 DEF TypeInv, TypeOK
    <3>3. ASSUME NEW i \in 1..Len(asmOut'), NEW j \in 1..Len(asmOut'[i].prog.stmts)
          PROVE  LET s == asmOut'[i].prog.stmts[j]
                     hn == HashNameOf(s.name, s.text)
                 IN  hn \in asmOut'[i].includes /\ asmFile'[hn] # NoFile
      <4>1. CASE i <= Len(asmOut)
        BY <4>1, <3>1, <3>2 DEF AllFunctionsLinked
      <4>2. CASE i = Len(asmOut) + 1
        BY <4>2, <3>1, <3>2 DEF Included
      <4> QED BY <4>1, <4>2, <3>2 DEF TypeInv, TypeOK
    <3>4. Accounted'
      BY <2>18 DEF Emit, Accounted, Compiling
    <3> QED BY <3>3, <3>4 DEF AllFunctionsLinked, HashNameOf
  <2>19. CASE Assemble
    BY <2>19, <2>1 DEF Assemble, Accounted, Compiling
  <2> QED
    BY <2>3, <2>4, <2>5, <2>6, <2>7, <2>8, <2>9, <2>10, <2>11, <2>12, <2>13, <2>14,
       <2>15, <2>16, <2>17, <2>18, <2>19 DEF Next, CompilerStep
<1> QED BY <1>1, <1>2, TypeInvHolds, PTL DEF Spec

-----------------------------------------------------------------------------
(* What the types file said is not forgotten before the lookup uses it.    *)

DiffKnown ==
    pc \in {"remove", "write", "lookup"} => DiffersFrom(prev) \subseteq changed

(* From the comparison on, what differs from the lines read is known to    *)
(* have changed.                                                           *)
LEMMA DiffIsKnown == Spec => []DiffKnown
<1>1. Init => DiffKnown
  BY DEF Init, DiffKnown
<1>2. DiffKnown /\ [Next]_vars => DiffKnown'
  <2> SUFFICES ASSUME DiffKnown, [Next]_vars PROVE DiffKnown'
    OBVIOUS
  <2> USE DEF DiffKnown, DiffersFrom
  <2>1. CASE DiffTypes
    BY <2>1 DEF DiffTypes
  <2>2. CASE RemoveTypes \/ WriteTypes \/ Reuse \/ Keep
    BY <2>2 DEF RemoveTypes, WriteTypes, Reuse, Keep, proc
  <2>3. ASSUME pc' \notin {"remove", "write", "lookup"} PROVE DiffKnown'
    BY <2>3
  <2>4. CASE UNCHANGED vars
    BY <2>4 DEF vars, proc
  <2>5. CASE OpenInit \/ WriteInit \/ OpenAsm \/ WriteAsm \/ Emit \/ Assemble
    BY <2>5, <2>3 DEF OpenInit, WriteInit, OpenAsm, WriteAsm, Emit, Assemble
  <2>6. CASE ScanClass \/ SkipClass \/ RefChangedTypes
    BY <2>6, <2>3 DEF ScanClass, SkipClass, RefChangedTypes
  <2>7. CASE BeginFile \/ ParseAborts \/ Crash \/ \E ps \in Sources : Command(ps)
    BY <2>7, <2>3 DEF BeginFile, ParseAborts, Crash, Gone, Command
  <2> QED BY <2>1, <2>2, <2>4, <2>5, <2>6, <2>7 DEF Next, CompilerStep
<1> QED BY <1>1, <1>2, PTL DEF Spec

(* ReuseSound: no step takes code from the cache for a function that       *)
(* mentions a name of another type than the types file had.                *)
THEOREM ReuseIsSound == Spec => ReuseSound
<1>1. DiffKnown /\ Reuse =>
        LET s == stmts[k] IN
          /\ hashFile[HashNameOf(s.name, s.text)] = Printed[s.text]
          /\ Mentions[s.text] \cap DiffersFrom(prev) = {}
  BY DEF DiffKnown, Reuse, Cached, HashFound
<1> QED BY <1>1, DiffIsKnown, PTL DEF ReuseSound

-----------------------------------------------------------------------------
(* Source and code of the cache agree while no process is killed.  The     *)
(* strengthening says where the two may part: only a function's name gets  *)
(* code, the index never passes the end of the statements by more than     *)
(* one, and while code is written its source is already on record.         *)

FuncCode == \A hn \in HashName : asmFile[hn] # NoFile => hn[1] \in Func
IndexInRange == pc = "lookup" => k <= Len(stmts) + 1
SourceFirst ==
    pc = "leaveWrite" =>
        hashFile[HashNameOf(Head(stmts).name, Head(stmts).text)] =
            Printed[Head(stmts).text]

CoherentInv == FuncCode /\ IndexInRange /\ SourceFirst /\ CacheCoherent

(* The next statement to compile is one of the source's.                   *)
LEMMA HeadStatement ==
    ASSUME TypeInv, stmts # <<>>
    PROVE  /\ Head(stmts) \in [name : Func, text : Text]
           /\ HashNameOf(Head(stmts).name, Head(stmts).text) \in HashName
           /\ HashNameOf(Head(stmts).name, Head(stmts).text)[1] = Head(stmts).name
           /\ Head(stmts) = stmts[1]
           /\ Len(Tail(stmts)) = Len(stmts) - 1
           /\ \A m \in 1..(Len(stmts) - 1) : Tail(stmts)[m] = stmts[m + 1]
<1>1. stmts \in Seq([name : Func, text : Text])
  BY DEF TypeInv, TypeOK
<1>2. Head(stmts) = stmts[1]
  BY <1>1
<1>3. /\ Head(stmts) \in [name : Func, text : Text]
      /\ Len(Tail(stmts)) = Len(stmts) - 1
      /\ \A m \in 1..(Len(stmts) - 1) : Tail(stmts)[m] = stmts[m + 1]
  BY <1>1, HeadTailProperties
<1> QED BY <1>2, <1>3, HashNameType DEF Name, HashNameOf

(* Every step keeps code to the files of functions.                        *)
LEMMA FuncCodeStep == TypeInv /\ FuncCode /\ [Next]_vars => FuncCode'
<1> SUFFICES ASSUME TypeInv, FuncCode, [Next]_vars PROVE FuncCode'
  OBVIOUS
<1> USE DEF FuncCode
<1>1. CASE OpenAsm
  BY <1>1, HeadStatement DEF OpenAsm, TypeInv, TypeOK
<1>2. CASE WriteAsm
  BY <1>2, HeadStatement DEF WriteAsm, TypeInv, TypeOK, Shape
<1>3. CASE ~OpenAsm /\ ~WriteAsm
  <2>1. asmFile' = asmFile
    BY <1>3 DEF Next, CompilerStep, Command, Starts, BeginFile, ParseAborts, Gone,
       ScanClass, SkipClass, RefChangedTypes, DiffTypes, RemoveTypes, WriteTypes,
       Reuse, Keep, OpenInit, WriteInit, Emit, Assemble, Crash, disk, vars
  <2> QED BY <2>1
<1> QED BY <1>1, <1>2, <1>3

(* CacheCoherent holds of every history of commands that are not killed.   *)
THEOREM CacheIsCoherent == ASSUME ~Crashes PROVE Spec => []CacheCoherent
<1>1. Init => CoherentInv
  BY DEF Init, CoherentInv, FuncCode, IndexInRange, SourceFirst, CacheCoherent
<1>2. TypeInv /\ CoherentInv /\ [Next]_vars => CoherentInv'
  <2> SUFFICES ASSUME TypeInv, CoherentInv, [Next]_vars PROVE CoherentInv'
    OBVIOUS
  <2>0. FuncCode'
    BY FuncCodeStep DEF CoherentInv
  <2> USE DEF CoherentInv, IndexInRange, SourceFirst
  <2>1. ASSUME asmFile' = asmFile, hashFile' = hashFile,
               \A hn \in HashName : IsPending(hn) => IsPending(hn)'
        PROVE  CacheCoherent'
    BY <2>1 DEF CacheCoherent
  <2>2. ASSUME pc \notin {"lookup", "initWrite", "leave", "leaveWrite"}
        PROVE  \A hn \in HashName : ~IsPending(hn)
    BY <2>2 DEF IsPending
  <2>3. CASE \E ps \in Sources : Command(ps)
    <3>1. CacheCoherent'
      BY <2>3, <2>1, <2>2 DEF Command, disk
    <3> QED BY <2>0, <2>3, <3>1 DEF Command
  <2>4. CASE BeginFile
    <3>1. CacheCoherent'
      BY <2>4, <2>1, <2>2 DEF BeginFile, disk
    <3> QED BY <2>0, <2>4, <3>1 DEF BeginFile
  <2>5. CASE ParseAborts
    <3>1. CacheCoherent'
      BY <2>5, <2>1, <2>2 DEF ParseAborts, disk
    <3> QED BY <2>0, <2>5, <3>1 DEF ParseAborts, Gone
  <2>6. CASE ScanClass
    <3>1. PICK t \in Text : hashFile' = HashStored(ClassOrder[k], t)
      BY <2>6 DEF ScanClass
    <3>2. ClassOrder[k] \in Class
      BY <2>6, ConstantsOK DEF ScanClass, TypeInv, TypeOK, Shape
    <3>3. \A hn \in HashName : hn[1] \in Func => hashFile'[hn] = hashFile[hn]
      BY <3>1, <3>2, ConstantsOK DEF HashStored, HashNameOf, TypeInv, TypeOK
    <3>4. CacheCoherent'
      BY <2>6, <2>2, <3>3 DEF ScanClass, CacheCoherent, FuncCode
    <3> QED BY <2>0, <2>6, <3>4 DEF ScanClass
  <2>7. CASE SkipClass \/ RefChangedTypes \/ DiffTypes \/ RemoveTypes \/ Assemble
    <3>1. CacheCoherent'
      BY <2>7, <2>1, <2>2 DEF SkipClass, RefChangedTypes, DiffTypes, RemoveTypes,
         Assemble, disk
    <3> QED BY <2>0, <2>7, <3>1
         DEF SkipClass, RefChangedTypes, DiffTypes, RemoveTypes, Assemble
  <2>8. CASE WriteTypes
    <3>1. CacheCoherent'
      BY <2>8, <2>1, <2>2 DEF WriteTypes
    <3>2. k' <= Len(stmts') + 1
      BY <2>8 DEF WriteTypes, TypeInv, TypeOK
    <3> QED BY <2>0, <2>8, <3>1, <3>2 DEF WriteTypes
  <2>9. CASE Reuse
    <3>1. k \in 1..Len(stmts) /\ stmts \in Seq([name : Func, text : Text])
      BY <2>9 DEF Reuse, TypeInv, TypeOK, Shape
    <3>a. /\ Len(stmts') = Len(stmts) - 1
          /\ \A m \in 1..(Len(stmts) - 1) :
                stmts'[m] = IF m < k THEN stmts[m] ELSE stmts[m + 1]
      BY <2>9, <3>1, RemoveAtFacts DEF Reuse
    <3>2. /\ Len(stmts') = Len(stmts) - 1
          /\ \A m \in 1..(k - 1) : stmts'[m] = stmts[m]
      BY <3>1, <3>a
    <3>3. CacheCoherent'
      BY <2>9, <2>1, <3>2 DEF Reuse, disk, IsPending, HashNameOf
    <3> QED BY <2>0, <2>9, <3>1, <3>2, <3>3 DEF Reuse
  <2>10. CASE Keep
    <3> DEFINE g == HashNameOf(stmts[k].name, stmts[k].text)
    <3>1. k \in 1..Len(stmts) /\ Len(stmts) \in Nat
      BY <2>10 DEF Keep, TypeInv, TypeOK, Shape
    <3>2. \A hn \in HashName : hn # g => hashFile'[hn] = hashFile[hn]
      BY <2>10 DEF Keep, HashStored, TypeInv, TypeOK
    <3>3. \A hn \in HashName : IsPending(hn) \/ hn = g => IsPending(hn)'
      BY <2>10, <3>1 DEF Keep, IsPending, HashNameOf
    <3>4. CacheCoherent'
      BY <2>10, <3>2, <3>3 DEF Keep, CacheCoherent
    <3> QED BY <2>0, <2>10, <3>1, <3>4 DEF Keep
  <2>11. CASE OpenInit
    <3>1. \A hn \in HashName : IsPending(hn) => IsPending(hn)'
      BY <2>11 DEF OpenInit, IsPending, HashNameOf, proc, TypeInv, TypeOK
    <3> QED BY <2>0, <2>1, <2>11, <3>1 DEF OpenInit
  <2>12. CASE WriteInit
    <3>1. \A hn \in HashName : IsPending(hn) => IsPending(hn)'
      BY <2>12 DEF WriteInit, IsPending, HashNameOf, proc
    <3> QED BY <2>0, <2>1, <2>12, <3>1 DEF WriteInit
  <2>13. CASE OpenAsm
    <3> DEFINE s == Head(stmts)
               g == HashNameOf(s.name, s.text)
    <3>1. /\ g \in HashName /\ s = stmts[1] /\ stmts' = stmts
          /\ Len(stmts) \in Nat /\ Len(stmts) >= 1
          /\ hashFile' = [hashFile EXCEPT ![g] = Printed[s.text]]
          /\ asmFile' = [asmFile EXCEPT ![g] = Partial]
      BY <2>13, HeadStatement DEF OpenAsm, HashStored, proc, TypeInv, TypeOK
    <3>2. \A hn \in HashName : IsPending(hn) \/ hn = g => IsPending(hn)'
      BY <2>13, <3>1 DEF OpenAsm, IsPending, HashNameOf
    <3>3. CacheCoherent'
      BY <3>1, <3>2 DEF CacheCoherent, TypeInv, TypeOK
    <3>4. SourceFirst'
      BY <3>1 DEF HashNameOf, TypeInv, TypeOK
    <3> QED BY <2>0, <2>13, <3>3, <3>4 DEF OpenAsm
  <2>14. CASE WriteAsm
    <3> DEFINE s == Head(stmts)
               g == HashNameOf(s.name, s.text)
    <3>1. /\ g \in HashName /\ s = stmts[1] /\ s.text \in Text
          /\ Len(stmts) \in Nat /\ Len(stmts') = Len(stmts) - 1
          /\ \A m \in 1..(Len(stmts) - 1) : stmts'[m] = stmts[m + 1]
          /\ asmFile' = [asmFile EXCEPT ![g] = Compiled(table, s.text)]
          /\ hashFile' = hashFile /\ hashFile[g] = Printed[s.text]
      BY <2>14, HeadStatement DEF WriteAsm, TypeInv, TypeOK, Shape
    <3>2. asmFile'[g] # Partial /\ asmFile'[g].text = s.text
      <4>1. Compiled(table, s.text) \in [text : Text, sees : SUBSET Decl]
        BY <3>1 DEF Compiled, TypeInv, TypeOK
      <4> QED BY <3>1, <4>1, ConstantsOK DEF Compiled, TypeInv, TypeOK
    <3>3. ASSUME NEW hn \in HashName, IsPending(hn), hn # g PROVE IsPending(hn)'
      <4>1. PICK i \in 1..Len(stmts) : hn = HashNameOf(stmts[i].name, stmts[i].text)
        BY <2>14, <3>3 DEF WriteAsm, IsPending
      <4>2. i # 1
        BY <3>1, <3>3, <4>1
      <4>3. i - 1 \in 1..Len(stmts') /\ stmts'[i - 1] = stmts[i]
        BY <3>1, <4>2
      <4> QED BY <2>14, <4>1, <4>3 DEF WriteAsm, IsPending, HashNameOf
    <3>4. \A hn \in HashName : hn # g => asmFile'[hn] = asmFile[hn]
      BY <3>1 DEF TypeInv, TypeOK
    <3>5. CacheCoherent'
      BY <3>1, <3>2, <3>3, <3>4 DEF CacheCoherent
    <3> QED BY <2>0, <2>14, <3>5 DEF WriteAsm
  <2>15. CASE Emit
    <3>1. \A hn \in HashName : ~IsPending(hn)
      BY <2>15 DEF Emit, IsPending
    <3> QED BY <2>0, <2>1, <2>15, <3>1 DEF Emit, disk
  <2>16. CASE UNCHANGED vars
    <3>1. \A hn \in HashName : IsPending(hn) => IsPending(hn)'
      BY <2>16 DEF vars, proc, IsPending, HashNameOf
    <3> QED BY <2>0, <2>1, <2>16, <3>1 DEF vars, disk, proc, HashNameOf
  <2> QED
    BY <2>3, <2>4, <2>5, <2>6, <2>7, <2>8, <2>9, <2>10, <2>11, <2>12, <2>13, <2>14,
       <2>15, <2>16 DEF Next, CompilerStep, Crash
<1> QED BY <1>1, <1>2, TypeInvHolds, PTL DEF Spec, CoherentInv

-----------------------------------------------------------------------------
(* What the cache gives is what a compiler without one would make, while   *)
(* no type changes.  The code of a text is then a function of the text     *)
(* (CompiledFixed), so that code found is as good as code made.            *)

AllDecls == UNION {p.decl : p \in Program}

(* decls are declarations of the programs, and name what they refer to     *)
Closed(decls) ==
    /\ decls \subseteq AllDecls
    /\ \A d \in decls : d[1] \notin Class => ClassesOf[d[2]] \subseteq Names(decls)

Knows(decls, t) == Closed(decls) /\ Mentions[t] \subseteq Names(decls)

(* What a text sees in one table it sees in another that knows it.         *)
LEMMA SeesFixed ==
    ASSUME TypesFixed, NEW t \in Text, NEW D, NEW E, Knows(D, t), Knows(E, t)
    PROVE  {d \in D : d[1] \in Reaches(D, t)} \subseteq {d \in E : d[1] \in Reaches(E, t)}
<1>1. ASSUME NEW d \in D, d[1] \in Names(E) PROVE d \in E
  <2>1. PICK e \in E : e[1] = d[1]
    BY <1>1 DEF Names
  <2>2. PICK q \in Program : d \in q.decl
    BY DEF Knows, Closed, AllDecls
  <2>3. PICK r \in Program : e \in r.decl
    BY DEF Knows, Closed, AllDecls
  <2> QED BY <2>1, <2>2, <2>3 DEF TypesFixed
<1>2. ASSUME NEW d \in D, d[1] \in Mentions[t]
      PROVE  d \in E /\ d[1] \in Reaches(E, t)
  BY <1>1, <1>2 DEF Knows, Reaches
<1>3. ASSUME NEW d \in D, NEW f \in D, f[1] \in Mentions[t] \ Class,
             d[1] \in ClassesOf[f[2]]
      PROVE  d \in E /\ d[1] \in Reaches(E, t)
  <2>1. f \in E
    BY <1>2, <1>3
  <2>2. d[1] \in Names(E)
    BY <1>3, <2>1 DEF Knows, Closed
  <2>3. d[1] \in Reaches(E, t)
    BY <1>3, <2>1 DEF Reaches
  <2> QED BY <1>1, <2>2, <2>3
<1>4. ASSUME NEW d \in D, d[1] \in Reaches(D, t)
      PROVE  d \in E /\ d[1] \in Reaches(E, t)
  BY <1>2, <1>3, <1>4 DEF Reaches
<1> QED BY <1>4

(* Its code is the same too.                                               *)
LEMMA CompiledFixed ==
    ASSUME TypesFixed, NEW t \in Text, NEW D, NEW E, Knows(D, t), Knows(E, t)
    PROVE  Compiled(D, t) = Compiled(E, t)
<1>1. {d \in D : d[1] \in Reaches(D, t)} = {d \in E : d[1] \in Reaches(E, t)}
  BY SeesFixed
<1> QED BY <1>1 DEF Compiled

Made(s, decls) == asmFile[HashNameOf(s.name, s.text)] = Compiled(decls, s.text)

(* the code in the cache is what any table that knows its text makes       *)
Canonical ==
    \A hn \in HashName :
        asmFile[hn] \notin {NoFile, Partial} =>
            \A D : Knows(D, asmFile[hn].text) => asmFile[hn] = Compiled(D, asmFile[hn].text)

(* the statements are those of the source, each once, and the names of     *)
(* earlier sources are not defined again                                   *)
SourceKnown ==
    /\ Names(Head(src).decl) \subseteq Names(table)
    /\ \A j \in 1..Len(Head(src).stmts) :
          Mentions[Head(src).stmts[j].text] \subseteq Names(table)
FromSource ==
    \A i \in 1..Len(stmts) :
        \E j \in 1..Len(Head(src).stmts) : stmts[i] = Head(src).stmts[j]
OnceEach == \A i, l \in 1..Len(stmts) : stmts[i].name = stmts[l].name => i = l
NewNames ==
    \A i \in 1..Len(asmOut) : \A j \in 1..Len(asmOut[i].prog.stmts) :
        \A l \in 1..Len(Head(src).stmts) :
            asmOut[i].prog.stmts[j].name # Head(src).stmts[l].name
InSource ==
    pc \in Compiling => SourceKnown /\ FromSource /\ OnceEach /\ NewNames

(* what is not to be compiled is made                                      *)
Settled ==
    pc \in Compiling =>
        \A j \in 1..Len(Head(src).stmts) :
            \/ Made(Head(src).stmts[j], table)
            \/ \E i \in 1..Len(stmts) : stmts[i] = Head(src).stmts[j]

Emitted ==
    \A i \in 1..Len(asmOut) :
        /\ Names(asmOut[i].prog.decl) \subseteq Names(table)
        /\ \A j \in 1..Len(asmOut[i].prog.stmts) :
              Made(asmOut[i].prog.stmts[j], asmOut[i].decls)

UpInv == /\ Closed(table) /\ Canonical /\ InSource /\ Settled
         /\ Emitted /\ CodeUpToDate

(* The names of earlier sources change with the sources only.              *)
LEMMA NewNamesStay ==
    ASSUME UNCHANGED <<src, asmOut>>
    PROVE  NewNames' = NewNames
BY DEF NewNames

(* A step that leaves the statements, the code and the table alone.        *)
LEMMA QuietUp ==
    ASSUME UpInv, pc' \in Compiling => pc \in Compiling,
           UNCHANGED <<asmFile, src, table, stmts, asmOut, objs>>
    PROVE  UpInv'
<1> USE DEF UpInv
<1>1. Closed(table)' /\ Canonical'
  BY DEF Canonical
<1>2. InSource'
  <2>1. UNCHANGED <<SourceKnown, FromSource, OnceEach, NewNames>>
    BY DEF SourceKnown, FromSource, OnceEach, NewNames
  <2> QED BY <2>1 DEF InSource
<1>3. Settled'
  BY DEF Settled, Made
<1>4. Emitted'
  BY DEF Emitted, Made
<1>5. CodeUpToDate'
  BY DEF CodeUpToDate
<1> QED BY <1>1, <1>2, <1>3, <1>4, <1>5

(* A process that starts or ends leaves only files.                        *)
LEMMA StartsUp ==
    ASSUME UpInv, NEW ps, Starts(ps), asmFile' = asmFile, pc' \notin Compiling
    PROVE  UpInv'
<1>1. table' = {} /\ asmOut' = <<>> /\ objs' = <<>>
  BY DEF Starts
<1>2. Closed(table)'
  BY <1>1 DEF Closed
<1>3. Canonical'
  BY DEF UpInv, Canonical
<1>4. InSource' /\ Settled'
  BY DEF InSource, Settled
<1>5. Emitted' /\ CodeUpToDate'
  BY <1>1 DEF Emitted, CodeUpToDate
<1> QED BY <1>2, <1>3, <1>4, <1>5 DEF UpInv

(* A source that is parsed defines no function of an earlier one.          *)
LEMMA BeginFileUp ==
    ASSUME TypeInv, UpInv, BeginFile
    PROVE  UpInv'
<1> DEFINE q == Head(src)
<1>1. /\ src # <<>> /\ Parses(table, q) /\ table' = Declared(table, q.decl)
      /\ stmts' = q.stmts /\ src' = src /\ asmFile' = asmFile
      /\ asmOut' = asmOut /\ objs' = objs
  BY DEF BeginFile, disk, out
<1>2. q \in Program
  BY <1>1, HeadTailProperties DEF TypeInv, TypeOK
<1>3. q.decl \subseteq AllDecls
  BY <1>2 DEF AllDecls
<1> HIDE DEF q
<1>4. Names(table) \subseteq Names(table') /\ Names(q.decl) \subseteq Names(table')
  BY <1>1 DEF Declared, Names
<1>5. Closed(table)'
  <2>1. table' \subseteq AllDecls
    BY <1>1, <1>3 DEF Declared, UpInv, Closed
  <2>2. ASSUME NEW d \in table', d[1] \notin Class
        PROVE  ClassesOf[d[2]] \subseteq Names(table')
    <3>1. CASE d \in q.decl
      BY <1>1, <2>2, <3>1 DEF Parses
    <3>2. CASE d \in table
      BY <1>4, <2>2, <3>2 DEF UpInv, Closed
    <3> QED BY <1>1, <3>1, <3>2 DEF Declared
  <2>3. AllDecls' = AllDecls
    BY DEF AllDecls
  <2> QED BY <2>1, <2>2, <2>3 DEF Closed, Names
<1>6. Canonical'
  BY <1>1 DEF UpInv, Canonical
<1>7. InSource'
  <2>1. \A j \in 1..Len(q.stmts) : Mentions[q.stmts[j].text] \subseteq Names(table')
    BY <1>1 DEF Parses
  <2>2. \A i, l \in 1..Len(q.stmts) : q.stmts[i].name = q.stmts[l].name => i = l
    BY <1>2, ProgramsOK
  <2>3. ASSUME NEW i \in 1..Len(asmOut), NEW j \in 1..Len(asmOut[i].prog.stmts),
               NEW l \in 1..Len(q.stmts)
        PROVE  asmOut[i].prog.stmts[j].name # q.stmts[l].name
    <3>1. asmOut[i].prog \in Program
      <4>1. asmOut[i] \in [prog : Program, decls : SUBSET Decl,
                           includes : SUBSET HashName]
        BY ElementOfSeq DEF TypeInv, TypeOK
      <4> QED BY <4>1
    <3>2. asmOut[i].prog.stmts[j].name \in Names(asmOut[i].prog.decl)
      BY <3>1, ProgramsOK DEF Names
    <3>3. q.stmts[l].name \in Names(q.decl)
      BY <1>2, ProgramsOK DEF Names
    <3>4. q.stmts[l].name \in Func
      BY <1>2, StatementType
    <3>5. Names(table) \cap Names(q.decl) \subseteq Class
      BY <1>1 DEF Parses
    <3> QED BY <3>2, <3>3, <3>4, <3>5, ConstantsOK DEF UpInv, Emitted
  <2> QED BY <1>1, <1>4, <2>1, <2>2, <2>3 DEF InSource, q,
          SourceKnown, FromSource, OnceEach, NewNames
<1>8. Settled'
  BY <1>1 DEF Settled, q
<1>9. Emitted'
  BY <1>1, <1>4 DEF UpInv, Emitted, Made, HashNameOf
<1>10. CodeUpToDate'
  BY <1>1 DEF UpInv, CodeUpToDate, HashNameOf
<1> QED BY <1>5, <1>6, <1>7, <1>8, <1>9, <1>10 DEF UpInv

(* Code that is reused was made of the same text.                          *)
LEMMA ReuseUp ==
    ASSUME PrintsApart, TypeInv, CacheCoherent, UpInv, Reuse
    PROVE  UpInv'
<1> DEFINE s == stmts[k]
           hn == HashNameOf(s.name, s.text)
<1>1. /\ k \in 1..Len(stmts) /\ stmts \in Seq([name : Func, text : Text])
      /\ pc = "lookup" /\ pc' = pc /\ src' = src /\ table' = table
      /\ asmFile' = asmFile /\ asmOut' = asmOut /\ objs' = objs
      /\ hashFile[hn] = Printed[s.text] /\ asmFile[hn] # NoFile
  BY DEF Reuse, Cached, HashFound, TypeInv, TypeOK, Shape, disk, out
<1>2. /\ Len(stmts') = Len(stmts) - 1
      /\ \A m \in 1..(Len(stmts) - 1) :
            stmts'[m] = IF m < k THEN stmts[m] ELSE stmts[m + 1]
  BY <1>1, RemoveAtFacts DEF Reuse
<1>3. s \in [name : Func, text : Text] /\ hn \in HashName
  <2>1. s \in [name : Func, text : Text]
    BY <1>1, ElementOfSeq
  <2> QED BY <2>1, HashNameType DEF Name
<1>4. Made(s, table)
  <2>1. ~IsPending(hn)
    <3>1. ASSUME NEW i \in 1..(k - 1), hn = HashNameOf(stmts[i].name, stmts[i].text)
          PROVE  FALSE
      <4>1. stmts[i].name = s.name
        BY <3>1 DEF HashNameOf
      <4>2. i \in 1..Len(stmts) /\ i # k
        BY <1>1
      <4> QED BY <1>1, <4>1, <4>2 DEF UpInv, InSource, OnceEach, Compiling
    <3> QED BY <1>1, <3>1 DEF IsPending
  <2>2. asmFile[hn] # Partial /\ hashFile[hn] = Printed[asmFile[hn].text]
    BY <1>1, <1>3, <2>1 DEF CacheCoherent
  <2>3. asmFile[hn].text \in Text
    <3>1. asmFile[hn] \in [text : Text, sees : SUBSET Decl]
      BY <1>1, <1>3, <2>2 DEF TypeInv, TypeOK, Code
    <3> QED BY <3>1
  <2>4. asmFile[hn].text = s.text
    BY <1>1, <1>3, <2>2, <2>3 DEF PrintsApart
  <2>5. PICK j \in 1..Len(Head(src).stmts) : s = Head(src).stmts[j]
    BY <1>1 DEF UpInv, InSource, FromSource, Compiling
  <2>6. Knows(table, s.text)
    BY <1>1, <2>5 DEF UpInv, InSource, SourceKnown, Compiling, Knows
  <2> QED BY <1>1, <1>3, <2>2, <2>4, <2>6 DEF UpInv, Canonical, Made
<1> HIDE DEF s, hn
<1>5. Closed(table)' /\ Canonical' /\ Emitted' /\ CodeUpToDate'
  BY <1>1 DEF UpInv, Canonical, Emitted, CodeUpToDate, Made, HashNameOf
<1>6. InSource'
  <2>b. SourceKnown /\ FromSource /\ OnceEach /\ NewNames
    BY <1>1 DEF UpInv, InSource, Compiling
  <2>1. \A m \in 1..Len(stmts') : \E i \in 1..Len(stmts) :
           stmts'[m] = stmts[i] /\ i = IF m < k THEN m ELSE m + 1
    BY <1>1, <1>2
  <2>2. \A m \in 1..Len(stmts') :
           \E j \in 1..Len(Head(src).stmts) : stmts'[m] = Head(src).stmts[j]
    BY <2>1, <2>b DEF FromSource
  <2>a. \A i, l \in 1..Len(stmts) : stmts[i].name = stmts[l].name => i = l
    BY <2>b DEF OnceEach
  <2>3. \A m, l \in 1..Len(stmts') : stmts'[m].name = stmts'[l].name => m = l
    <3> SUFFICES ASSUME NEW m \in 1..Len(stmts'), NEW l \in 1..Len(stmts'),
                        stmts'[m].name = stmts'[l].name
                 PROVE  m = l
      OBVIOUS
    <3>1. PICK i \in 1..Len(stmts) :
             stmts'[m] = stmts[i] /\ i = IF m < k THEN m ELSE m + 1
      BY <2>1
    <3>2. PICK h \in 1..Len(stmts) :
             stmts'[l] = stmts[h] /\ h = IF l < k THEN l ELSE l + 1
      BY <2>1
    <3>3. i = h
      BY <2>a, <3>1, <3>2
    <3> QED BY <1>1, <1>2, <3>1, <3>2, <3>3
  <2>4. FromSource'
    BY <1>1, <2>2 DEF FromSource
  <2>5. OnceEach'
    BY <2>3 DEF OnceEach
  <2>c. UNCHANGED <<src, table, asmOut>>
    BY <1>1
  <2>6. SourceKnown'
    BY <2>b, <2>c DEF SourceKnown
  <2>7. NewNames'
    BY <2>b, <2>c, NewNamesStay
  <2> QED BY <2>4, <2>5, <2>6, <2>7 DEF InSource
<1>7. Settled'
  <2> SUFFICES ASSUME NEW j \in 1..Len(Head(src).stmts)
               PROVE  \/ Made(Head(src).stmts[j], table)
                      \/ \E m \in 1..Len(stmts') : stmts'[m] = Head(src).stmts[j]
    BY <1>1 DEF Settled, Made, HashNameOf
  <2>1. ASSUME NEW i \in 1..Len(stmts), stmts[i] = Head(src).stmts[j], i # k
        PROVE  \E m \in 1..Len(stmts') : stmts'[m] = stmts[i]
    <3>1. CASE i < k
      <4>1. i \in 1..(Len(stmts) - 1) /\ stmts'[i] = stmts[i]
        BY <1>1, <1>2, <3>1
      <4> QED BY <1>2, <4>1
    <3>2. CASE i > k
      <4>1. i - 1 \in 1..(Len(stmts) - 1) /\ stmts'[i - 1] = stmts[i]
        BY <1>1, <1>2, <3>2
      <4> QED BY <1>2, <4>1
    <3> QED BY <1>1, <2>1, <3>1, <3>2
  <2> QED BY <1>1, <1>4, <2>1 DEF UpInv, Settled, Compiling, s
<1> QED BY <1>5, <1>6, <1>7 DEF UpInv

(* Writing the code of the first statement leaves that of every other      *)
(* function, of this source and of those before it, as it was.             *)
LEMMA WritingFacts ==
    ASSUME TypeInv, UpInv, pc \in Compiling, stmts # <<>>,
           NEW c, asmFile' = [asmFile EXCEPT
               ![HashNameOf(Head(stmts).name, Head(stmts).text)] = c],
           UNCHANGED <<src, table, asmOut>>
    PROVE  /\ \A j \in 1..Len(Head(src).stmts) :
                 Head(src).stmts[j] # Head(stmts) /\ Made(Head(src).stmts[j], table)
                 => Made(Head(src).stmts[j], table)'
           /\ Emitted'
<1> DEFINE s == Head(stmts)
           hn == HashNameOf(s.name, s.text)
<1>1. hn \in HashName /\ hn[1] = s.name /\ s = stmts[1] /\ Len(stmts) >= 1
  BY HeadStatement DEF TypeInv, TypeOK
<1>2. \A h \in HashName : h # hn => asmFile'[h] = asmFile[h]
  BY <1>1 DEF TypeInv, TypeOK
<1>3. PICK l \in 1..Len(Head(src).stmts) : s = Head(src).stmts[l]
  <2>1. 1 \in 1..Len(stmts)
    BY <1>1 DEF TypeInv, TypeOK
  <2> QED BY <1>1, <2>1 DEF UpInv, InSource, FromSource
<1>4. Head(src) \in Program
  BY HeadTailProperties DEF TypeInv, TypeOK, Shape
<1> HIDE DEF hn, s
<1>5. ASSUME NEW r, HashNameOf(r.name, r.text) \in HashName, r.name # s.name,
             NEW D, Made(r, D)
      PROVE  asmFile'[HashNameOf(r.name, r.text)] = Compiled(D, r.text)
  <2>1. HashNameOf(r.name, r.text) # hn
    BY <1>1, <1>5 DEF HashNameOf
  <2> QED BY <1>2, <1>5, <2>1 DEF Made
<1>6. ASSUME NEW j \in 1..Len(Head(src).stmts),
             Head(src).stmts[j] # s, Made(Head(src).stmts[j], table)
      PROVE  Made(Head(src).stmts[j], table)'
  <2>1. Head(src).stmts[j].name # s.name
    BY <1>3, <1>4, <1>6, ProgramsOK
  <2> QED BY <1>4, <1>5, <1>6, <2>1, StatementType
          DEF Made, HashNameOf
<1>7. Emitted'
  <2> SUFFICES ASSUME NEW i \in 1..Len(asmOut)
               PROVE  /\ Names(asmOut[i].prog.decl) \subseteq Names(table)
                      /\ \A j \in 1..Len(asmOut[i].prog.stmts) :
                            Made(asmOut[i].prog.stmts[j], asmOut[i].decls)'
    BY DEF Emitted, Names, Made, HashNameOf
  <2>1. asmOut[i].prog \in Program
    <3>1. asmOut[i] \in [prog : Program, decls : SUBSET Decl,
                         includes : SUBSET HashName]
      BY ElementOfSeq DEF TypeInv, TypeOK
    <3> QED BY <3>1
  <2>2. ASSUME NEW j \in 1..Len(asmOut[i].prog.stmts)
        PROVE  Made(asmOut[i].prog.stmts[j], asmOut[i].decls)'
    <3>1. asmOut[i].prog.stmts[j].name # s.name
      BY <1>3 DEF UpInv, InSource, NewNames
    <3>2. Made(asmOut[i].prog.stmts[j], asmOut[i].decls)
      BY DEF UpInv, Emitted
    <3> QED BY <1>5, <2>1, <3>1, <3>2, StatementType
            DEF Made, HashNameOf
  <2> QED BY <2>2 DEF UpInv, Emitted
<1> QED BY <1>6, <1>7 DEF s

(* The file is opened: its function is still a statement.                  *)
LEMMA OpenAsmUp ==
    ASSUME TypeInv, UpInv, OpenAsm
    PROVE  UpInv'
<1> DEFINE s == Head(stmts)
           hn == HashNameOf(s.name, s.text)
<1>1. /\ pc \in Compiling /\ pc' \in Compiling /\ stmts # <<>>
      /\ asmFile' = [asmFile EXCEPT ![hn] = Partial]
      /\ UNCHANGED <<src, table, stmts, asmOut, objs>>
  BY DEF OpenAsm, Compiling, proc, out
<1>2. s = stmts[1] /\ 1 \in 1..Len(stmts) /\ hn \in HashName
  BY <1>1, HeadStatement DEF TypeInv, TypeOK
<1>3. /\ \A j \in 1..Len(Head(src).stmts) :
            Head(src).stmts[j] # s /\ Made(Head(src).stmts[j], table)
            => Made(Head(src).stmts[j], table)'
      /\ Emitted'
  BY <1>1, WritingFacts
<1> HIDE DEF s, hn
<1>4. Settled'
  BY <1>1, <1>2, <1>3 DEF UpInv, Settled
<1>5. Canonical'
  BY <1>1, <1>2 DEF UpInv, Canonical, TypeInv, TypeOK
<1>6. Closed(table)' /\ CodeUpToDate'
  BY <1>1 DEF UpInv, CodeUpToDate
<1>7. InSource'
  <2>1. UNCHANGED <<SourceKnown, FromSource, OnceEach, NewNames>>
    BY <1>1 DEF SourceKnown, FromSource, OnceEach, NewNames
  <2> QED BY <1>1, <2>1 DEF UpInv, InSource
<1> QED BY <1>3, <1>4, <1>5, <1>6, <1>7 DEF UpInv

(* The code is written: its function is made.                              *)
LEMMA WriteAsmUp ==
    ASSUME TypesFixed, TypeInv, UpInv, WriteAsm
    PROVE  UpInv'
<1> DEFINE s == Head(stmts)
           hn == HashNameOf(s.name, s.text)
           c == Compiled(table, s.text)
<1>1. /\ pc \in Compiling /\ pc' \in Compiling /\ stmts # <<>>
      /\ asmFile' = [asmFile EXCEPT ![hn] = c]
      /\ stmts' = Tail(stmts)
      /\ UNCHANGED <<src, table, asmOut, objs>>
  BY DEF WriteAsm, Compiling, out, TypeInv, Shape
<1>2. /\ s = stmts[1] /\ s \in [name : Func, text : Text] /\ hn \in HashName
      /\ Len(stmts) \in Nat /\ Len(stmts) >= 1 /\ Len(stmts') = Len(stmts) - 1
      /\ \A m \in 1..(Len(stmts) - 1) : stmts'[m] = stmts[m + 1]
  BY <1>1, HeadStatement DEF TypeInv, TypeOK
<1>3. /\ \A j \in 1..Len(Head(src).stmts) :
            Head(src).stmts[j] # s /\ Made(Head(src).stmts[j], table)
            => Made(Head(src).stmts[j], table)'
      /\ Emitted'
  BY <1>1, WritingFacts
<1>4. Knows(table, s.text)
  <2>1. PICK j \in 1..Len(Head(src).stmts) : s = Head(src).stmts[j]
    BY <1>1, <1>2 DEF UpInv, InSource, FromSource
  <2> QED BY <1>1, <2>1 DEF UpInv, InSource, SourceKnown, Knows
<1>5. c.text = s.text
  BY DEF Compiled
<1>6. asmFile'[hn] = c
  BY <1>1, <1>2 DEF TypeInv, TypeOK
<1> HIDE DEF c
<1>7. Canonical'
  <2>1. ASSUME NEW D, Knows(D, c.text) PROVE c = Compiled(D, c.text)
    BY <1>2, <1>4, <1>5, <2>1, CompiledFixed DEF c
  <2>2. \A h \in HashName : asmFile'[h] = IF h = hn THEN c ELSE asmFile[h]
    BY <1>1, <1>2 DEF TypeInv, TypeOK
  <2> HIDE DEF s, hn
  <2> QED BY <2>1, <2>2 DEF UpInv, Canonical
<1>8. asmFile'[HashNameOf(s.name, s.text)] = Compiled(table, s.text)
  BY <1>6 DEF c
<1> HIDE DEF s, hn
<1>9. Settled'
  <2> SUFFICES ASSUME NEW j \in 1..Len(Head(src).stmts),
                      Head(src).stmts[j] # s
               PROVE  \/ Made(Head(src).stmts[j], table)'
                      \/ \E m \in 1..Len(stmts') : stmts'[m] = Head(src).stmts[j]
    BY <1>1, <1>8 DEF Settled, Made
  <2>1. ASSUME NEW i \in 1..Len(stmts), stmts[i] = Head(src).stmts[j]
        PROVE  \E m \in 1..Len(stmts') : stmts'[m] = Head(src).stmts[j]
    <3>1. i - 1 \in 1..(Len(stmts) - 1) /\ stmts'[i - 1] = stmts[i]
      BY <1>2, <2>1
    <3> QED BY <1>2, <2>1, <3>1
  <2> QED BY <1>1, <1>3, <2>1 DEF UpInv, Settled
<1>10. InSource'
  <2>b. SourceKnown /\ FromSource /\ OnceEach /\ NewNames
    BY <1>1 DEF UpInv, InSource
  <2>1. \A m \in 1..Len(stmts') : m + 1 \in 1..Len(stmts) /\ stmts'[m] = stmts[m + 1]
    BY <1>2
  <2>2. \A m \in 1..Len(stmts') :
           \E j \in 1..Len(Head(src).stmts) : stmts'[m] = Head(src).stmts[j]
    BY <2>1, <2>b DEF FromSource
  <2>a. \A i, l \in 1..Len(stmts) : stmts[i].name = stmts[l].name => i = l
    BY <2>b DEF OnceEach
  <2>3. \A m, l \in 1..Len(stmts') : stmts'[m].name = stmts'[l].name => m = l
    <3> SUFFICES ASSUME NEW m \in 1..Len(stmts'), NEW l \in 1..Len(stmts'),
                        stmts'[m].name = stmts'[l].name
                 PROVE  m = l
      OBVIOUS
    <3>1. /\ m + 1 \in 1..Len(stmts) /\ stmts'[m] = stmts[m + 1]
          /\ l + 1 \in 1..Len(stmts) /\ stmts'[l] = stmts[l + 1]
      BY <2>1
    <3>2. m + 1 = l + 1
      BY <2>a, <3>1
    <3> QED BY <1>2, <3>2
  <2>4. FromSource'
    BY <1>1, <2>2 DEF FromSource
  <2>5. OnceEach'
    BY <2>3 DEF OnceEach
  <2>c. UNCHANGED <<src, table, asmOut>>
    BY <1>1
  <2>6. SourceKnown'
    BY <2>b, <2>c DEF SourceKnown
  <2>7. NewNames'
    BY <2>b, <2>c, NewNamesStay
  <2> QED BY <2>4, <2>5, <2>6, <2>7 DEF InSource
<1>11. Closed(table)' /\ CodeUpToDate'
  BY <1>1 DEF UpInv, CodeUpToDate, HashNameOf
<1> QED BY <1>3, <1>7, <1>9, <1>10, <1>11 DEF UpInv

(* The source is emitted when all its functions are made.                  *)
LEMMA EmitUp ==
    ASSUME TypeInv, UpInv, Emit
    PROVE  UpInv'
<1> DEFINE e == [prog |-> Head(src), decls |-> table, includes |-> funcFiles]
<1>1. /\ pc \in Compiling /\ pc' \notin Compiling /\ stmts = <<>>
      /\ asmOut' = Append(asmOut, e)
      /\ UNCHANGED <<asmFile, table, objs>>
  BY DEF Emit, Compiling, disk
<1>2. /\ Names(Head(src).decl) \subseteq Names(table)
      /\ \A j \in 1..Len(Head(src).stmts) : Made(Head(src).stmts[j], table)
  <2>1. SourceKnown
    BY <1>1 DEF UpInv, InSource
  <2>2. \A j \in 1..Len(Head(src).stmts) : Made(Head(src).stmts[j], table)
    BY <1>1 DEF UpInv, Settled
  <2> QED BY <2>1, <2>2 DEF SourceKnown
<1>3. /\ Len(asmOut) \in Nat /\ Len(asmOut') = Len(asmOut) + 1
      /\ \A i \in 1..Len(asmOut) : asmOut'[i] = asmOut[i]
      /\ asmOut'[Len(asmOut) + 1] = e
  BY <1>1 DEF TypeInv, TypeOK
<1>4. Emitted'
  <2> SUFFICES ASSUME NEW i \in 1..Len(asmOut')
               PROVE  /\ Names(asmOut'[i].prog.decl) \subseteq Names(table)
                      /\ \A j \in 1..Len(asmOut'[i].prog.stmts) :
                            Made(asmOut'[i].prog.stmts[j], asmOut'[i].decls)
    BY <1>1 DEF Emitted, Names, Made, HashNameOf
  <2>1. CASE i <= Len(asmOut)
    BY <1>3, <2>1 DEF UpInv, Emitted
  <2>2. CASE i = Len(asmOut) + 1
    BY <1>2, <1>3, <2>2
  <2> QED BY <1>3, <2>1, <2>2
<1>5. InSource' /\ Settled'
  BY <1>1 DEF InSource, Settled
<1>6. Closed(table)' /\ Canonical' /\ CodeUpToDate'
  BY <1>1 DEF UpInv, Canonical, CodeUpToDate, HashNameOf
<1> QED BY <1>4, <1>5, <1>6 DEF UpInv

(* What is assembled is what was made.                                     *)
LEMMA AssembleUp ==
    ASSUME AllFunctionsLinked, UpInv, Assemble
    PROVE  UpInv'
<1>1. /\ pc' \notin Compiling
      /\ UNCHANGED <<asmFile, table, asmOut>>
      /\ objs' = [i \in 1..Len(asmOut) |->
                    [prog |-> asmOut[i].prog, decls |-> asmOut[i].decls,
                     code |-> [h \in asmOut[i].includes |-> asmFile[h]],
                     init |-> initFile]]
  BY DEF Assemble, Compiling, disk, proc
<1>2. CodeUpToDate'
  <2> SUFFICES ASSUME NEW i \in 1..Len(asmOut), NEW j \in 1..Len(asmOut[i].prog.stmts)
               PROVE  LET s == asmOut[i].prog.stmts[j]
                      IN  objs'[i].code[HashNameOf(s.name, s.text)] =
                            Compiled(asmOut[i].decls, s.text)
    <3>1. /\ DOMAIN objs' = 1..Len(asmOut)
          /\ \A i \in 1..Len(asmOut) : objs'[i].prog = asmOut[i].prog
                                       /\ objs'[i].decls = asmOut[i].decls
      BY <1>1
    <3> QED BY <3>1 DEF CodeUpToDate
  <2> DEFINE s == asmOut[i].prog.stmts[j]
             hn == HashNameOf(s.name, s.text)
  <2>1. hn \in asmOut[i].includes
    BY DEF AllFunctionsLinked
  <2>2. asmFile[hn] = Compiled(asmOut[i].decls, s.text)
    BY DEF UpInv, Emitted, Made
  <2> HIDE DEF s, hn
  <2>3. objs'[i].code[hn] = asmFile[hn]
    BY <1>1, <2>1
  <2> QED BY <2>2, <2>3 DEF s, hn
<1>3. InSource' /\ Settled'
  BY <1>1 DEF InSource, Settled
<1>4. Closed(table)' /\ Canonical' /\ Emitted'
  BY <1>1 DEF UpInv, Canonical, Emitted, Made, HashNameOf
<1> QED BY <1>2, <1>3, <1>4 DEF UpInv

(* CodeUpToDate: whatever was taken from the cache, the program linked is  *)
(* the one a compiler without a cache makes, as long as no type changes,   *)
(* texts that differ print differently and no process is killed; hashes    *)
(* may collide.                                                            *)
THEOREM CacheIsTransparent ==
    ASSUME ~Crashes, TypesFixed, PrintsApart
    PROVE  Spec => []CodeUpToDate
<1>1. Init => UpInv
  <2>1. ASSUME Init PROVE Closed(table) /\ InSource /\ Settled
    BY <2>1 DEF Init, Closed, InSource, Settled, Compiling
  <2>2. ASSUME Init PROVE Canonical /\ Emitted /\ CodeUpToDate
    BY <2>2 DEF Init, Canonical, Emitted, CodeUpToDate
  <2> QED BY <2>1, <2>2 DEF UpInv
<1>2. TypeInv /\ CacheCoherent /\ AllFunctionsLinked /\ UpInv /\ [Next]_vars => UpInv'
  <2> SUFFICES ASSUME TypeInv, CacheCoherent, AllFunctionsLinked, UpInv, [Next]_vars
               PROVE  UpInv'
    OBVIOUS
  <2>1. ASSUME NEW ps \in Sources, Command(ps) PROVE UpInv'
    BY <2>1, StartsUp DEF Command, Compiling, disk
  <2>2. CASE ParseAborts
    BY <2>2, StartsUp DEF ParseAborts, Gone, Compiling, disk
  <2>3. CASE \/ ScanClass \/ SkipClass \/ RefChangedTypes \/ DiffTypes \/ RemoveTypes
             \/ WriteTypes \/ Keep \/ OpenInit \/ WriteInit
    <3>1. pc \in Compiling /\ UNCHANGED <<asmFile, src, table, stmts, asmOut, objs>>
      BY <2>3 DEF ScanClass, SkipClass, RefChangedTypes, DiffTypes, RemoveTypes,
         WriteTypes, Keep, OpenInit, WriteInit, Compiling, disk, proc, out
    <3> QED BY <3>1, QuietUp
  <2>4. CASE UNCHANGED vars
    BY <2>4, QuietUp DEF vars, disk, proc, out
  <2> QED
    BY <2>1, <2>2, <2>3, <2>4, BeginFileUp, ReuseUp, OpenAsmUp, WriteAsmUp, EmitUp,
       AssembleUp DEF Next, CompilerStep, Crash
<1>3. UpInv => CodeUpToDate
  BY DEF UpInv
<1> QED
  BY <1>1, <1>2, <1>3, TypeInvHolds, CacheIsCoherent, FunctionsLinked, PTL DEF Spec

-----------------------------------------------------------------------------
(***************************************************************************)
(* Progress: every step of a command brings it nearer to its end, in the   *)
(* order of the sources left, where the process is in one, and what its    *)
(* loop has left; and there is a step until the end is reached.            *)
(***************************************************************************)

Stage ==
    CASE pc = "file" -> 8 [] pc = "scan" -> 7 [] pc = "diff" -> 6
      [] pc = "remove" -> 5 [] pc = "write" -> 4 [] pc = "lookup" -> 3
      [] pc = "initWrite" -> 2 [] pc \in {"leave", "leaveWrite"} -> 1
      [] OTHER -> 0

InLoop ==
    CASE pc = "scan" -> Len(ClassOrder) + 1 - k
      [] pc = "lookup" -> Len(stmts) + 1 - k
      [] pc = "leave" -> 2 * Len(stmts)
      [] pc = "leaveWrite" -> 2 * Len(stmts) - 1
      [] OTHER -> 0

Descends ==
    \/ Len(src') < Len(src)
    \/ /\ Len(src') = Len(src)
       /\ Stage' < Stage \/ (Stage' = Stage /\ InLoop' < InLoop)

RankOK == Len(src) \in Nat /\ Stage \in 0..8 /\ InLoop \in Nat

(* the guard of some step holds                                            *)
StepIsOpen ==
    \/ pc \in {"file", "diff", "remove", "write", "lookup", "initWrite", "leave"}
    \/ pc = "scan" /\ (k <= Len(ClassOrder) =>
                          \/ \E t \in Text : <<ClassOrder[k], t>> \in table
                          \/ ClassOrder[k] \notin Names(table))
    \/ pc = "leaveWrite" /\ stmts # <<>>

(* a loop's index is at most one past its end                              *)
IndexInv ==
    /\ pc = "scan" => k <= Len(ClassOrder) + 1
    /\ pc = "lookup" => k <= Len(stmts) + 1

LEMMA LoopLengths ==
    ASSUME TypeInv
    PROVE  Len(ClassOrder) \in Nat /\ Len(stmts) \in Nat /\ Len(src) \in Nat /\ k \in Nat
BY ConstantsOK DEF TypeInv, TypeOK

LEMMA IndexStep ==
    ASSUME TypeInv, IndexInv, [Next]_vars
    PROVE  IndexInv'
<1>0. Len(ClassOrder) \in Nat /\ Len(stmts) \in Nat /\ k \in Nat
  BY LoopLengths
<1>1. CASE BeginFile
  BY <1>0, <1>1 DEF BeginFile, IndexInv
<1>2. CASE WriteTypes
  BY <1>0, <1>2 DEF WriteTypes, IndexInv
<1>3. CASE ScanClass \/ SkipClass
  BY <1>0, <1>3 DEF ScanClass, SkipClass, IndexInv
<1>4. CASE Reuse
  <2>1. k \in 1..Len(stmts) /\ stmts \in Seq([name : Func, text : Text])
    BY <1>0, <1>4 DEF Reuse, TypeInv, TypeOK, Shape
  <2>2. Len(RemoveAt(stmts, k)) = Len(stmts) - 1
    BY <2>1, RemoveAtFacts
  <2>3. pc' = "lookup" /\ k' = k /\ stmts' = RemoveAt(stmts, k)
    BY <1>4 DEF Reuse
  <2> QED BY <1>0, <2>1, <2>2, <2>3 DEF IndexInv
<1>5. CASE Keep
  BY <1>0, <1>5 DEF Keep, IndexInv
<1>6. CASE UNCHANGED vars
  BY <1>6 DEF vars, proc, IndexInv
<1>7. ASSUME NEW ps \in Sources, Command(ps)
      PROVE  IndexInv'
  BY <1>7 DEF Command, IndexInv
<1>8. CASE \/ ParseAborts \/ RefChangedTypes \/ DiffTypes \/ RemoveTypes \/ OpenInit
           \/ WriteInit \/ OpenAsm \/ WriteAsm \/ Emit \/ Assemble \/ Crash
  <2>1. pc' \notin {"scan", "lookup"}
    BY <1>8 DEF ParseAborts, Gone, RefChangedTypes, DiffTypes, RemoveTypes, OpenInit,
       WriteInit, OpenAsm, WriteAsm, Emit, Assemble, Crash
  <2> QED BY <2>1 DEF IndexInv
<1> QED BY <1>1, <1>2, <1>3, <1>4, <1>5, <1>6, <1>7, <1>8 DEF Next, CompilerStep

LEMMA StepDescends ==
    ASSUME TypeInv, IndexInv, CompilerStep
    PROVE  Descends
<1>0. /\ Len(ClassOrder) \in Nat /\ Len(stmts) \in Nat /\ Len(src) \in Nat /\ k \in Nat
      /\ src \in Seq(Program) /\ stmts \in Seq([name : Func, text : Text])
  BY LoopLengths DEF TypeInv, TypeOK
<1>1. CASE BeginFile \/ RefChangedTypes \/ DiffTypes \/ RemoveTypes \/ WriteTypes
  <2>1. src' = src
    BY <1>1 DEF BeginFile, RefChangedTypes, DiffTypes, RemoveTypes, WriteTypes, proc
  <2>2. \/ pc = "file" /\ pc' = "scan"
        \/ pc = "scan" /\ pc' = "diff"
        \/ pc = "diff" /\ pc' = "remove"
        \/ pc = "remove" /\ pc' = "write"
        \/ pc = "write" /\ pc' = "lookup"
    BY <1>1 DEF BeginFile, RefChangedTypes, DiffTypes, RemoveTypes, WriteTypes
  <2>3. Stage' < Stage
    BY <2>2 DEF Stage
  <2> QED BY <2>1, <2>3 DEF Descends
<1>2. CASE OpenInit \/ WriteInit \/ Assemble
  <2>1. src' = src
    BY <1>2 DEF OpenInit, WriteInit, Assemble, proc
  <2>2. \/ pc = "lookup" /\ pc' = "initWrite"
        \/ pc = "initWrite" /\ pc' = "leave"
        \/ pc = "file" /\ pc' = "linked"
    BY <1>2 DEF OpenInit, WriteInit, Assemble
  <2>3. Stage' < Stage
    BY <2>2 DEF Stage
  <2> QED BY <2>1, <2>3 DEF Descends
<1>3. CASE ScanClass \/ SkipClass
  <2>1. /\ src' = src /\ pc = "scan" /\ pc' = "scan" /\ k' = k + 1
    BY <1>3 DEF ScanClass, SkipClass
  <2> QED BY <1>0, <2>1 DEF Descends, Stage, InLoop
<1>4. CASE Reuse
  <2>1. k \in 1..Len(stmts)
    BY <1>0, <1>4 DEF Reuse, TypeInv, Shape
  <2>2. Len(RemoveAt(stmts, k)) = Len(stmts) - 1
    BY <1>0, <2>1, RemoveAtFacts
  <2>3. src' = src /\ pc = "lookup" /\ pc' = "lookup" /\ k' = k /\ stmts' = RemoveAt(stmts, k)
    BY <1>4 DEF Reuse
  <2> QED BY <1>0, <2>2, <2>3 DEF Descends, Stage, InLoop
<1>5. CASE Keep
  <2>1. src' = src /\ stmts' = stmts /\ pc = "lookup" /\ pc' = "lookup" /\ k' = k + 1
    BY <1>5 DEF Keep
  <2> QED BY <1>0, <2>1 DEF Descends, Stage, InLoop
<1>6. CASE OpenAsm
  <2>1. src' = src /\ stmts' = stmts /\ pc = "leave" /\ pc' = "leaveWrite"
    BY <1>6 DEF OpenAsm, proc
  <2> QED BY <1>0, <2>1 DEF Descends, Stage, InLoop
<1>7. CASE WriteAsm
  <2>1. src' = src /\ stmts' = Tail(stmts) /\ pc = "leaveWrite" /\ pc' = "leave"
    BY <1>7 DEF WriteAsm
  <2>2. Len(stmts') = Len(stmts) - 1
    BY <1>0, <2>1, HeadTailProperties DEF TypeInv, Shape
  <2>3. InLoop' = 2 * Len(stmts') /\ InLoop = 2 * Len(stmts) - 1
    BY <2>1 DEF InLoop
  <2>4. InLoop' < InLoop
    BY <1>0, <2>2, <2>3
  <2>5. Stage' = Stage
    BY <2>1 DEF Stage
  <2> QED BY <1>0, <2>1, <2>4, <2>5 DEF Descends
<1>8. CASE ParseAborts \/ Emit
  <2>1. Len(src') < Len(src)
    <3>1. CASE ParseAborts
      BY <1>0, <3>1 DEF ParseAborts, Gone, Starts
    <3>2. CASE Emit
      <4>1. src # <<>> /\ src' = Tail(src)
        BY <3>2 DEF Emit, TypeInv, Shape, Compiling
      <4>2. Len(src') = Len(src) - 1
        BY <1>0, <4>1, HeadTailProperties
      <4> QED BY <1>0, <4>2
    <3> QED BY <1>8, <3>1, <3>2
  <2> QED BY <2>1 DEF Descends
<1> QED BY <1>1, <1>2, <1>3, <1>4, <1>5, <1>6, <1>7, <1>8 DEF CompilerStep

(* compile.c 117-141, sourceHash.c 135-222: no step of a command leaves it *)
(* as far from its end as it was, the lookup's included, whose index       *)
(* stands still while functions are taken out; and a class of the table    *)
(* has a source to be scanned, so that there is a step until the end.      *)
THEOREM CommandsDescend ==
    Spec => /\ [](RankOK /\ (pc \notin {"idle", "linked"} => StepIsOpen))
            /\ [][CompilerStep => Descends]_vars
<1>1. Init => IndexInv
  BY DEF Init, IndexInv
<1>2. TypeInv /\ IndexInv /\ [Next]_vars => IndexInv'
  BY IndexStep
<1>3. TypeInv /\ IndexInv /\ [Next]_vars => [CompilerStep => Descends]_vars
  BY StepDescends
<1>4. TypeInv /\ IndexInv => RankOK
  <2> SUFFICES ASSUME TypeInv, IndexInv PROVE RankOK
    OBVIOUS
  <2>1. /\ Len(ClassOrder) \in Nat /\ Len(stmts) \in Nat /\ Len(src) \in Nat /\ k \in Nat
        /\ stmts \in Seq([name : Func, text : Text])
    BY LoopLengths DEF TypeInv, TypeOK
  <2>2. pc = "leaveWrite" => Len(stmts) >= 1
    BY <2>1 DEF TypeInv, Shape
  <2>3. InLoop \in Nat
    BY <2>1, <2>2 DEF InLoop, IndexInv
  <2>4. Stage \in 0..8
    BY DEF Stage
  <2> QED BY <2>1, <2>3, <2>4 DEF RankOK
<1>5. TypeInv => (pc \notin {"idle", "linked"} => StepIsOpen)
  <2> SUFFICES ASSUME TypeInv, pc \notin {"idle", "linked"} PROVE StepIsOpen
    OBVIOUS
  <2>1. ASSUME pc = "scan", k <= Len(ClassOrder), ClassOrder[k] \in Names(table)
        PROVE  \E t \in Text : <<ClassOrder[k], t>> \in table
    <3>1. PICK d \in table : d[1] = ClassOrder[k]
      BY <2>1 DEF Names
    <3>2. k \in 1..Len(ClassOrder)
      BY <2>1, LoopLengths DEF TypeInv, Shape
    <3>3. ClassOrder[k] \in Class
      BY <3>2, ConstantsOK
    <3>4. d \in Decl
      BY DEF TypeInv, TypeOK
    <3>5. d[2] \in Text /\ d = <<d[1], d[2]>>
      BY <3>1, <3>3, <3>4, ConstantsOK DEF Decl
    <3> QED BY <3>1, <3>5
  <2> QED BY <2>1 DEF StepIsOpen, TypeInv, TypeOK, PCs, Shape
<1> QED BY <1>1, <1>2, <1>3, <1>4, <1>5, TypeInvHolds, PTL DEF Spec

=============================================================================
