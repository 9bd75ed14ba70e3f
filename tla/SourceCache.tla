---------------------------- MODULE SourceCache ----------------------------
(***************************************************************************)
(* One `hcc` process and the cache of compiled functions it keeps on disk. *)
(*                                                                         *)
(* A command compiles its source files one after the other (compile.c),    *)
(* and only then assembles what each of them emitted (commandLine.c).      *)
(* Compiling a file first finds out which global names changed their type  *)
(* since the file was last compiled (sourceHash.c), then takes every       *)
(* function whose source and names did not change out of the statements to *)
(* compile, and writes one assembler file per function that is left        *)
(* (asmEmitter.c).  The process may die between any two file operations.   *)
(* A command does this twice, first for the runtime HCRT.HC alone and then *)
(* for its sources; the second round is modelled, the runtime's names left *)
(* out of the tables.                                                      *)
(*                                                                         *)
(* Abstractions.  Source text is a model value; Mentions[t] is the set of  *)
(* global names among its tokens, and Printed[t] is what hashSource prints *)
(* of it (tokens follow each other with nothing between them, a float has  *)
(* six decimals: different texts may print the same).  A declaration is a  *)
(* pair <<name, value>> whose value is the type's string for a variable or *)
(* a function, and the source text for a class.  The architecture and the  *)
(* debug flag are part of every cache file's name: one pair is modelled.   *)
(* A file that is empty and one that is absent read the same where the     *)
(* types file is concerned.  A hash file cut short never compares equal,   *)
(* so its writing is one step; the writing of the others is two.           *)
(***************************************************************************)
EXTENDS Integers, Sequences, FiniteSets, SequencesExt

CONSTANTS
    Func, Class, Var,   \* the global names of the programs
    ClassOrder,         \* the classes in the order mapKeys sorts them
    Text,               \* source texts of functions and classes
    TypeStr,            \* what object2Str prints of a type
    Mentions,           \* [Text -> SUBSET Name]
    ClassesOf,          \* [TypeStr -> SUBSET Class]: the classes a type names
    Image,              \* what hashSource prints
    Printed,            \* [Text -> Image]
    Hash,               \* [Image -> HashVal], the 32-bit hash: may collide
    HashVal,
    File,               \* base names of source files
    Program,            \* what a source file may hold when it is compiled
    MaxSources,         \* bound: source files of one command
    Crashes,            \* whether the process may die half-way
    NoFile, Partial     \* a file that is absent, or truncated and unfinished

Name == Func \cup Class \cup Var
HashName == Name \X HashVal
Decl == (Class \X Text) \cup ((Func \cup Var) \X TypeStr)

ASSUME ConstantsOK ==
    /\ Func \cap Class = {} /\ Func \cap Var = {} /\ Class \cap Var = {}
    /\ ClassOrder \in Seq(Class)
    /\ Mentions \in [Text -> SUBSET Name]
    /\ ClassesOf \in [TypeStr -> SUBSET Class]
    /\ Printed \in [Text -> Image]
    /\ Hash \in [Image -> HashVal]
    /\ NoFile \notin Image
    /\ NoFile # Partial
    /\ {NoFile, Partial} \cap [text : Text, sees : SUBSET Decl] = {}
    /\ MaxSources \in Nat \ {0}
    /\ Crashes \in BOOLEAN

ASSUME ProgramsOK ==
    \A p \in Program :
        /\ p.file \in File
        /\ p.stmts \in Seq([name : Func, text : Text])
        /\ \A i, j \in 1..Len(p.stmts) :
              p.stmts[i].name = p.stmts[j].name => i = j
        /\ \A i \in 1..Len(p.stmts) : \E d \in p.decl : d[1] = p.stmts[i].name
        /\ p.decl \subseteq Decl
        /\ \A d, e \in p.decl : d[1] = e[1] => d = e

VARIABLES
    hashFile,   \* [HashName -> Image \cup {NoFile}]: "<name>.<arch>.<hash>"
    asmFile,    \* [HashName -> code]: the same name with ".s"
    initFile,   \* "__init$$$.s", the start code of the last file compiled
    gVarTypes,  \* [File -> SUBSET line]: "<file>.gVarTypes"
    pc,         \* where the process is
    src,        \* the programs of the command still to compile
    table,      \* the global symbol table
    prev,       \* the lines read from the types file
    changed,    \* changedGVars
    stmts,      \* the function statements of the file being compiled
    k,          \* the loop index over classes or statements
    funcFiles,  \* the files to %include, one HashName per function
    asmOut,     \* what X86EmitAsm2File wrote, one record per source
    objs        \* the object files assembled, one record per source

disk == <<hashFile, asmFile, initFile, gVarTypes>>
proc == <<src, table, prev, changed, stmts, k, funcFiles>>
out  == <<asmOut, objs>>
vars == <<disk, pc, proc, out>>

PCs == {"idle", "file", "scan", "diff", "remove", "write", "lookup",
        "initWrite", "leave", "leaveWrite",
        "linked"}

-----------------------------------------------------------------------------
(* What the code generator makes of a function: it sees the text, and the  *)
(* declaration of every name the text mentions and of every class the type *)
(* of a mentioned name names (an access to a member looks its class up).   *)

Names(decls) == {d[1] : d \in decls}

Reaches(decls, t) ==
    Mentions[t] \cup UNION {ClassesOf[d[2]] : d \in
        {e \in decls : e[1] \in Mentions[t] \ Class}}

Compiled(decls, t) ==
    [text |-> t, sees |-> {d \in decls : d[1] \in Reaches(decls, t)}]

Code == [text : Text, sees : SUBSET Decl] \cup {NoFile, Partial}

(* hashSource: the file is named by the hash of the text.  The text is     *)
(* found when the file holds it and it mentions no changed name; whether   *)
(* found or not, the file holds the text afterwards.                       *)
HashNameOf(nm, t) == <<nm, Hash[Printed[t]]>>
BugHashOnly(nm, t) ==           \* mutant: the contents are not compared
    /\ hashFile[HashNameOf(nm, t)] # NoFile
    /\ Mentions[t] \cap changed = {}
BugTypeBlind(nm, t) ==          \* mutant: changed names are not looked for
    hashFile[HashNameOf(nm, t)] = Printed[t]
HashFound(nm, t) ==
    /\ hashFile[HashNameOf(nm, t)] = Printed[t]
    /\ Mentions[t] \cap changed = {}
BugHashKept(nm, t) ==           \* mutant: a file that is there is left alone
    IF hashFile[HashNameOf(nm, t)] # NoFile THEN hashFile
    ELSE [hashFile EXCEPT ![HashNameOf(nm, t)] = Printed[t]]
HashStored(nm, t) == [hashFile EXCEPT ![HashNameOf(nm, t)] = Printed[t]]

(* The line a declaration has in the types file: a class is recorded by    *)
(* the name of its hash file, everything else by its type's string.        *)
LineOf(d) == IF d[1] \in Class THEN HashNameOf(d[1], d[2]) ELSE d
BugSourceLines(decls) == decls  \* mutant: a class is recorded by its source
Lines(decls) == {LineOf(d) : d \in decls}

(* funcTypeRefsChangedType: the functions whose type names a changed class *)
FuncsOfChangedTypes ==
    {d[1] : d \in {e \in table : e[1] \in Func
                               /\ ClassesOf[e[2]] \cap changed # {}}}

(* The getline loop: recorded names that are still declared, differently.  *)
DiffersFrom(lines) ==
    {l[1] : l \in {m \in lines : /\ m[1] \in Names(Lines(table))
                                 /\ m \notin Lines(table)}}

(* A class may be declared anew by a later source of the command.          *)
Declared(old, new) == new \cup {d \in old : d[1] \notin Names(new)}

(* The parser reports a variable or function that an earlier source        *)
(* defined (it is extern by then, yet still a definition to the parser),   *)
(* and names and types it does not know.                                   *)
Parses(old, p) ==
    LET decls == Declared(old, p.decl) IN
    /\ Names(old) \cap Names(p.decl) \subseteq Class
    /\ \A i \in 1..Len(p.stmts) : Mentions[p.stmts[i].text] \subseteq Names(decls)
    /\ \A d \in p.decl : d[1] \notin Class => ClassesOf[d[2]] \subseteq Names(decls)

-----------------------------------------------------------------------------

Init ==
    /\ hashFile = [h \in HashName |-> NoFile]
    /\ asmFile = [h \in HashName |-> NoFile]
    /\ initFile = NoFile
    /\ gVarTypes = [f \in File |-> {}]
    /\ pc = "idle"
    /\ src = <<>> /\ table = {} /\ prev = {} /\ changed = {} /\ stmts = <<>>
    /\ k = 0 /\ funcFiles = {} /\ asmOut = <<>> /\ objs = <<>>

(* nothing of a process outlives it but the files                          *)
Starts(ps) ==
    /\ src' = ps /\ table' = {} /\ prev' = {} /\ changed' = {} /\ stmts' = <<>>
    /\ k' = 0 /\ funcFiles' = {} /\ asmOut' = <<>> /\ objs' = <<>>

(* hcc is started on the sources ps                                        *)
Command(ps) ==
    /\ pc \in {"idle", "linked"}
    /\ pc' = "file"
    /\ Starts(ps)
    /\ UNCHANGED disk

(* compileFile resets what the file before left, and parses                *)
BeginFile ==
    /\ pc = "file" /\ src # <<>>
    /\ Parses(table, Head(src))
    /\ table' = Declared(table, Head(src).decl)
    /\ pc' = "scan"
    /\ changed' = {} /\ funcFiles' = {} /\ k' = 1
    /\ stmts' = Head(src).stmts
    /\ UNCHANGED <<disk, src, prev, out>>

Gone == Starts(<<>>) /\ pc' = "idle"

(* a diagnostic was reported while parsing                                 *)
ParseAborts ==
    /\ pc = "file" /\ src # <<>>
    /\ ~Parses(table, Head(src))
    /\ Gone
    /\ UNCHANGED disk

(* cacheCheckForTypeChanges: a class whose source is not in the cache, or  *)
(* mentions a class found to have changed before it, has changed.          *)
ScanClass ==
    /\ pc = "scan" /\ k <= Len(ClassOrder)
    /\ \E t \in Text :
          /\ <<ClassOrder[k], t>> \in table
          /\ changed' = IF HashFound(ClassOrder[k], t) THEN changed
                         ELSE changed \cup {ClassOrder[k]}
          /\ hashFile' = HashStored(ClassOrder[k], t)
    /\ k' = k + 1
    /\ UNCHANGED <<asmFile, initFile, gVarTypes, pc, src, table, prev, stmts,
                   funcFiles, out>>

SkipClass ==
    /\ pc = "scan" /\ k <= Len(ClassOrder)
    /\ ClassOrder[k] \notin Names(table)
    /\ k' = k + 1
    /\ UNCHANGED <<disk, pc, src, table, prev, changed, stmts, funcFiles, out>>

RefChangedTypes ==
    /\ pc = "scan" /\ k > Len(ClassOrder)
    /\ pc' = "diff"
    /\ changed' = changed \cup FuncsOfChangedTypes
    /\ UNCHANGED <<disk, src, table, prev, stmts, k, funcFiles, out>>

(* the getline loop over the types file.  At its end the module's own      *)
(* getline takes the length of a null string: the build in which that ends *)
(* the process is a Crash here, this step is the loop its caller expects.  *)
DiffTypes ==
    /\ pc = "diff"
    /\ prev' = gVarTypes[Head(src).file]
    /\ changed' = changed \cup DiffersFrom(gVarTypes[Head(src).file])
    /\ pc' = "remove"
    /\ UNCHANGED <<disk, src, table, stmts, k, funcFiles, out>>

RemoveTypes ==
    /\ pc = "remove"
    /\ pc' = "write"
    /\ gVarTypes' = [gVarTypes EXCEPT ![Head(src).file] = {}]
    /\ UNCHANGED <<hashFile, asmFile, initFile, proc, out>>

WriteTypes ==
    /\ pc = "write"
    /\ pc' = "lookup" /\ k' = 1
    /\ gVarTypes' = [gVarTypes EXCEPT ![Head(src).file] = Lines(table)]
    /\ UNCHANGED <<hashFile, asmFile, initFile, src, table, prev, changed, stmts,
                   funcFiles, out>>

(* compileFile looks every function up; what is reused leaves the          *)
(* statements, and the index stays where it is                             *)
BugNoAsmCheck(s) == HashFound(s.name, s.text)   \* mutant: no access(2)
Cached(s) == /\ HashFound(s.name, s.text)
             /\ asmFile[HashNameOf(s.name, s.text)] # NoFile

BugReuseStays ==                \* mutant: the statement is not taken out
    /\ pc = "lookup" /\ k <= Len(stmts)
    /\ Cached(stmts[k])
    /\ funcFiles' = funcFiles \cup {HashNameOf(stmts[k].name, stmts[k].text)}
    /\ UNCHANGED <<disk, pc, src, table, prev, changed, stmts, k, out>>

Reuse ==
    /\ pc = "lookup" /\ k <= Len(stmts)
    /\ Cached(stmts[k])
    /\ funcFiles' = funcFiles \cup {HashNameOf(stmts[k].name, stmts[k].text)}
    /\ stmts' = RemoveAt(stmts, k)
    /\ UNCHANGED <<disk, pc, src, table, prev, changed, k, out>>

Keep ==
    /\ pc = "lookup" /\ k <= Len(stmts)
    /\ ~Cached(stmts[k])
    /\ hashFile' = HashStored(stmts[k].name, stmts[k].text)
    /\ k' = k + 1
    /\ UNCHANGED <<asmFile, initFile, gVarTypes, pc, src, table, prev, changed,
                   stmts, funcFiles, out>>

(* IRCompile: the start code first, in a file every source shares          *)
OpenInit ==
    /\ pc = "lookup" /\ k > Len(stmts)
    /\ pc' = "initWrite"
    /\ initFile' = Partial
    /\ UNCHANGED <<hashFile, asmFile, gVarTypes, proc, out>>

WriteInit ==
    /\ pc = "initWrite"
    /\ pc' = "leave"
    /\ initFile' = Head(src)
    /\ UNCHANGED <<hashFile, asmFile, gVarTypes, proc, out>>

(* X86EmitAsmLeaveFunc, once per function that was not reused              *)
OpenAsm ==
    /\ pc = "leave" /\ stmts # <<>>
    /\ pc' = "leaveWrite"
    /\ LET s == Head(stmts) IN
          /\ hashFile' = HashStored(s.name, s.text)
          /\ asmFile' = [asmFile EXCEPT ![HashNameOf(s.name, s.text)] = Partial]
    /\ UNCHANGED <<initFile, gVarTypes, proc, out>>

WriteAsm ==
    /\ pc = "leaveWrite"
    /\ pc' = "leave"
    /\ LET s == Head(stmts) IN
          /\ asmFile' = [asmFile EXCEPT ![HashNameOf(s.name, s.text)] =
                           Compiled(table, s.text)]
          /\ funcFiles' = funcFiles \cup {HashNameOf(s.name, s.text)}
    /\ stmts' = Tail(stmts)
    /\ UNCHANGED <<hashFile, initFile, gVarTypes, src, table, prev, changed, k,
                   out>>

(* X86EmitAsm2File includes the cache files by name, contents are not read *)
Emit ==
    /\ pc = "leave" /\ stmts = <<>>
    /\ pc' = "file"
    /\ asmOut' = Append(asmOut, [prog |-> Head(src), decls |-> table,
                                 includes |-> funcFiles])
    /\ src' = Tail(src)
    /\ UNCHANGED <<disk, table, prev, changed, stmts, k, funcFiles, objs>>

(* after the last source: the assembler reads every file that is included  *)
Assemble ==
    /\ pc = "file" /\ src = <<>>
    /\ pc' = "linked"
    /\ objs' = [i \in 1..Len(asmOut) |->
                  [prog |-> asmOut[i].prog, decls |-> asmOut[i].decls,
                   code |-> [h \in asmOut[i].includes |-> asmFile[h]],
                   init |-> initFile]]
    /\ UNCHANGED <<disk, proc, asmOut>>

(* the process is killed; a types file being written keeps some lines      *)
Crash ==
    /\ Crashes /\ pc \notin {"idle", "linked"}
    /\ Gone
    /\ \E lines \in SUBSET Lines(table) :
          gVarTypes' = IF pc = "write"
                       THEN [gVarTypes EXCEPT ![Head(src).file] = lines]
                       ELSE gVarTypes
    /\ UNCHANGED <<hashFile, asmFile, initFile>>

CompilerStep ==
    \/ BeginFile \/ ParseAborts \/ ScanClass \/ SkipClass \/ RefChangedTypes
    \/ DiffTypes \/ RemoveTypes \/ WriteTypes \/ Reuse \/ Keep
    \/ OpenInit \/ WriteInit \/ OpenAsm \/ WriteAsm \/ Emit \/ Assemble

Sources == UNION {[1..n -> Program] : n \in 1..MaxSources}

Next ==
    \/ \E ps \in Sources : Command(ps)
    \/ CompilerStep
    \/ Crash

(* A process that is not killed goes on: nothing in it waits for anything. *)
Spec == Init /\ [][Next]_vars
FairSpec == Spec /\ WF_vars(CompilerStep)
-----------------------------------------------------------------------------
(* Properties                                                              *)

Line == ((Func \cup Var) \X TypeStr) \cup (Class \X HashVal)

(* Every file holds a value of its kind, and the process's variables too.  *)
TypeOK ==
    /\ hashFile \in [HashName -> Image \cup {NoFile}]
    /\ asmFile \in [HashName -> Code]
    /\ initFile \in Program \cup {NoFile, Partial}
    /\ gVarTypes \in [File -> SUBSET Line]
    /\ pc \in PCs
    /\ src \in Seq(Program)
    /\ table \subseteq Decl /\ prev \subseteq Line /\ changed \subseteq Name
    /\ stmts \in Seq([name : Func, text : Text])
    /\ k \in Nat
    /\ funcFiles \subseteq HashName
    /\ asmOut \in Seq([prog : Program, decls : SUBSET Decl,
                       includes : SUBSET HashName])

(* compile.c 117-141 and X86EmitAsm2File: a function of a source is never  *)
(* lost between the lookup that takes it out of the statements and the     *)
(* list of files to include, and the file included for it exists.          *)
AllFunctionsLinked ==
    \A i \in 1..Len(asmOut) : \A j \in 1..Len(asmOut[i].prog.stmts) :
        LET s == asmOut[i].prog.stmts[j]
            h == HashNameOf(s.name, s.text)
        IN  h \in asmOut[i].includes /\ asmFile[h] # NoFile

(* sourceHash.c 135-222, compile.c 128: code is taken from the cache only  *)
(* for a function that mentions no name whose recorded type is another     *)
(* one now, whatever happened between the reading of the types file and    *)
(* the lookup, and only if the source on record prints the same.           *)
ReuseSound ==
    [][Reuse => LET s == stmts[k] IN
          /\ hashFile[HashNameOf(s.name, s.text)] = Printed[s.text]
          /\ Mentions[s.text] \cap DiffersFrom(prev) = {}]_vars

(* A process that is not killed comes to an end: the lookup, whose index   *)
(* stands still while functions are taken out, does end.                   *)
CommandEnds == (pc = "file") ~> (pc \in {"linked", "idle"})

IsPending(h) ==
    CASE pc = "lookup" -> \E i \in 1..(k - 1) :
                             h = HashNameOf(stmts[i].name, stmts[i].text)
      [] pc \in {"initWrite", "leave", "leaveWrite"} ->
            \E i \in 1..Len(stmts) : h = HashNameOf(stmts[i].name, stmts[i].text)
      [] OTHER -> FALSE

(* hashSource and X86EmitAsmLeaveFunc: unless the process is killed, the   *)
(* code in "<hash>.s" is that of the source in "<hash>", though the two    *)
(* are written far apart; only a function still to be compiled has a new   *)
(* source beside old code.                                                 *)
CacheCoherent ==
    \A h \in HashName :
        \/ asmFile[h] = NoFile
        \/ IsPending(h)
        \/ asmFile[h] # Partial /\ hashFile[h] = Printed[asmFile[h].text]

(* What the commands of a history may declare when no type ever changes    *)
TypesFixed ==
    \A p, q \in Program : \A d \in p.decl, e \in q.decl : d[1] = e[1] => d = e
PrintsApart == \A t, u \in Text : Printed[t] = Printed[u] => t = u

(* Whatever came from the cache, the linked program is the one a compiler  *)
(* without a cache makes of the sources (README: "only recompiles the      *)
(* functions that change").  Holds when no type changes, texts that differ *)
(* print differently, and no process is killed; hashes may collide.        *)
CodeUpToDate ==
    \A i \in DOMAIN objs : \A j \in 1..Len(objs[i].prog.stmts) :
        LET s == objs[i].prog.stmts[j]
        IN  objs[i].code[HashNameOf(s.name, s.text)] =
              Compiled(objs[i].decls, s.text)

(* sourceHash.c:234, "If a type changes a recompile must occur": linked    *)
(* code of a text was compiled with the declarations its source has now.   *)
TypeChangeRecompiles ==
    \A i \in DOMAIN objs : \A h \in DOMAIN objs[i].code :
        objs[i].code[h] # Partial =>
            objs[i].code[h] = Compiled(objs[i].decls, objs[i].code[h].text)

(* README.md:20, "Each file linked into the program will have it's own     *)
(* init code".                                                             *)
OwnInitCode == \A i \in DOMAIN objs : objs[i].init = objs[i].prog
=============================================================================
