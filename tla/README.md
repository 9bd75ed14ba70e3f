# HolyCC2 in TLA+

HolyCC2 (`hcc`) compiles HolyC to 32-bit x86 for Linux. It is one sequential
process of some 27 000 lines of C with thread-local state, which writes
assembler files into a cache directory, calls `yasm` and `gcc`, and links the
program with a runtime written in HolyC (`HolyCRT/*.HC`). Paths below are
relative to the repository.

## 1. The system

| part | state | operations | code |
|---|---|---|---|
| Driver | options, libraries to link | compile the runtime, compile all sources, then assemble and link all | `main.c`, `commandLine.c`, `compile.c` |
| Lexer, preprocessor | token list, macro table, file mappings | scan, expand macros, include, map positions back | `lexer.c`, `preprocessor.c`, `textMapper.c`, `stringParser.c`, `escaper.c` |
| Parser | current function, loop and catch nesting | recursive descent, declarations, constant folding | `parserA.c`, `exprParser.c` |
| Symbol table and scopes | table of global symbols, stack of scopes | add a symbol, variable, function; enter and leave a scope; move globals to extern between sources | `parserB.c` |
| Types | interned types, layouts | sizes, offsets, assignability | `object.c` |
| IR | graph of nodes and edges | build from the parse tree, connect, replace, statements, type inference | `parse2IR.c`, `IR.c`, `IRTypeInference.c`, `graph.c` |
| Liveness | stack of live values, interference graph | walk of an expression in execution order | `IRLiveness.c`, `IRFilter.c` |
| Register allocation | colour and register per variable | colour, assign, resolve conflicts | `regAllocator.c`, `registers.c` |
| Graph colouring | buckets by saturation | colour a node, move its neighbours | `graphColoring.c` |
| Frame layout | slots with offset and size | merge by colour, pack | `frameLayout.c` |
| Calls | consumed registers | push, pass, pop | `abi.c`, `abiSysVx64.c` |
| Emission | temporary files per function, symbols, constants | emit, leave a function, include the cached ones | `IR2asm.c`, `asmEmitter.c`, `opcodesParser.c` |
| Cache of functions | files `<name>.<arch>.<hash>`, the same with `.s`, `<file>.gVarTypes`, `__init$$$.s` | detect changed types, hash, look up, reuse, write | `sourceHash.c`, `asmEmitter.c`, `compile.c` |
| Containers | hash maps, sorted vectors, linked lists, ropes | insert, remove, find, set operations | `hashTable.c`, `linkedList.c`, `str.c`, `ptrMap.c`, `rope.c` |
| Runtime: exceptions | list of saved frames, last saved state | enter and leave a try, throw | `HolyCRT/ExceptLin.HC` |
| Runtime: rest | hash table, breakpoints | debugger, printing, JSON, strings | `HolyCRT/*.HC` |

**How they interact.** `compileFile` moves the symbols of the source before to
extern, parses, and lets `sourceCacheInitAfterParse` compare the table's types
with the types file; every function is then looked up in the cache and taken
out of the statements when found. What is left goes through the IR, frame
layout and register allocation, and each function left by
`X86EmitAsmLeaveFunc` becomes a cache file. `X86EmitAsm2File` writes one file
per source that *includes* the cache files by name; the assembler reads them
only after the last source was compiled. Exception frames are pushed and popped
by calls that `parse2IR.c` generates around the blocks of a try.

**What is hard.** No threads, but long histories: an edit of a type in one
command and its effect two commands later; a kill between two file operations;
declarations of one name in every order, kind, linkage and source; graphs and
code whose order hangs on the addresses of nodes; registers and stack borrowed
while operands lie in them; positions taken through a history of edits; maps that
grow and shrink under their lists; exception frames against control that leaves
blocks in several ways; allocation phases that trust each other's graphs.
PROJECT.json lists these as hazards, each at the line where it bites.

**What makes each part correct.** Cache: linked code is that of a compiler
without a cache. Symbols: table and scopes agree, a definition arrives in the
table, repetitions are diagnosed. Hash map: a function from keys to items. Exceptions:
the frames are those of the open try statements, a throw is caught by the
innermost running body. Colouring: proper, few colours, every
node, ends. Storage: values needed at the same time share no byte of a register
or of the frame, calls keep what is read after them, the frame covers its slots.
The stages of the translation: each stage's result means what its input means
(text, expression, types, statements, node), for inputs small enough to
enumerate and in every order the code leaves open.

## 2. Modules

| module | code | extends or uses |
|---|---|---|
| `SourceCache` | `sourceHash.c`, `compile.c`, `asmEmitter.c`, `commandLine.c` | |
| `SourceCacheProofs` | six theorems | `SourceCache` |
| `SymbolTable` | `parserB.c`, its callers in `parserA.c` | |
| `SymbolTableProofs` | four theorems | `SymbolTable` |
| `HashMap` | `hashTable.c`, `linkedList.c` | |
| `KeyValueMap` | what a map promises | refined by `HashMap` |
| `HashMapProofs` | five theorems, the refinement among them | `HashMap`, `NumberFacts` |
| `Exceptions` | `HolyCRT/ExceptLin.HC`, `parse2IR.c` NODE_TRY, what `parserA.c` accepts in its blocks | |
| `GraphColoring` | `graphColoring.c` | |
| `GraphColoringProofs` | seven theorems | `GraphColoring`, `NumberFacts` |
| `NumberFacts` | lemmas on extremes, induction and remainders | the proofs |
| `Interference` | `IRLiveness.c` | |
| `Storage` | the passes of `IRCompile`: `regAllocator.c`, `registers.c`, `abi.c`, `frameLayout.c` | `Interference`, three times |
| `StorageProofs` | ten theorems: the walk, registers, calls and the frame | `Storage`, `NumberFacts`, `GraphColoring` (what it promises) |
| `ExceptionsProofs` | four theorems | `Exceptions`, `NumberFacts` |
| `TextEdits` | `insertMacroText` of `preprocessor.c`, `textMapper.c` | |
| `TranslationProofs` | four theorems on text edits, two on the code written out, two on conversions of types | `TextEdits`, `Emission`, `Casting`, `NumberFacts` |
| `Preprocessor` | `preprocessor.c`, positions of `diagMsg.c` | `TextEdits` |
| `Tokens` | the tokens all parsers take | |
| `Expressions` | the levels of precedence of `parserA.c` | `Tokens` |
| `Grammar` | how an expression is written with the fewest parentheses | `Expressions` |
| `Syntax` | statements of `parserA.c` | `Lowering` (its nodes), `Tokens` |
| `TypeObjects` | `object.c` | |
| `Declarations` | declarations of `parserA.c` | `TypeObjects`, `Tokens` |
| `Emission` | the flow graph, its labels, and the order `IR2asm.c` writes nodes in | |
| `Lowering` | statements of `parse2IR.c` | `Emission` |
| `Statements` | what statements mean, how they are written, and which are refused | `Syntax` |
| `FlowCode` | parser, lowering and emission composed, and the code runs | `Statements` |
| `Casting` | `IRTypeInference.c` | |
| `Typing` | `exprParser.c`, expressions of `parse2IR.c` | `Expressions`, `Casting` |
| `Evaluation` | what an expression, and what its graph, computes | `Typing` |
| `Machine` | the processor, external | |
| `Opcodes` | `opcodesParser.c`, `OpCodes.txt` | `Machine` |
| `Selection` | assignments, pushes, borrowed registers, assembling of `IR2asm.c` | `Opcodes` |
| `Operations` | the code of each node of `IR2asm.c` | `Selection` |
| `MCTranslation` | the stages side by side | `MCFlowCode`, and instances of the others |
| `MC...` | the instances TLC checks (of `Exceptions` the cfg says all) | the module of the same name |

Definitions named `Bug...` are mutants: each is put in the place of the
definition after it to see that a property notices. They are used by no
specification.

### SourceCache

The variables `hashFile`, `asmFile`, `initFile` and `gVarTypes` are the
directory, which outlives a process; the others are the process and are reset
by `Command`, `Crash` and a failed parse. `pc` is where the process is; one
action is one file operation or one turn of a loop:

| action | code |
|---|---|
| `Command`, `BeginFile`, `ParseAborts` | `compileFile` up to the parse, `parseFile` |
| `ScanClass`, `SkipClass` | the loop over symbols in `cacheCheckForTypeChanges`; `hashSource` on a class |
| `RefChangedTypes`, `DiffTypes`, `RemoveTypes`, `WriteTypes` | the rest of it |
| `Reuse`, `Keep` | the look-up loop of `compileFile` |
| `OpenInit`, `WriteInit`, `OpenAsm`, `WriteAsm` | `X86EmitAsmLeaveFunc` for the start code and for a function |
| `Emit`, `Assemble` | `X86EmitAsm2File`, `assembleSources` |
| `Crash` | the process is killed |

Texts are model values with the names they mention, what `hashSource` prints of
them and a hash that may collide. `Compiled` says what code generation can see:
the text, and the declarations it reaches; that is what "up to date" means. The
end of the types file is a null result of `fgets` that `getline`
(`sourceHash.c:122`) hands to `strlen`: the outcome that ends the process is a
`Crash` there.

### SymbolTable

`symbolTable`, `scopes` (the last is current), the functions `open`, and whether
a diagnostic was reported. `Added` and `AddErrs` are `__addGlobalSymbol`,
`FuncErrs` is `parserAddFunc`, `ScopeVar` and `Repeats` are `parserAddVar`.
A declaration is one action with everything it calls: `ForwardFunction` adds
twice as `parseFunction` does, and `LeaveFunction` follows a null pointer
(`crashed`) where the name was taken by something else meanwhile. `NextFile` is
`parserMoveGlobals2Extern`.

### HashMap and KeyValueMap

`buckets` are lists sorted by `strcmp` with the position of the pointer the map
keeps into each (`at`), `bucketSizes` the counts beside them. `Rehash` moves the
counted nodes to new buckets; `Inserted` and `Removed` do so when the load
crosses its bounds. `KeyValueMap` is the abstract specification, a function and
the result of the last call; `IsKeyValueMap` is the refinement.

### Exceptions

`control` is the calls and blocks that are open, each with a number of its own;
a frame saves the number of its try statement and the `control` to go back to.
`curExceptFrame` is the list, `tmpExcept` the state `throw` resumes from.

| action | code |
|---|---|
| `EnterFunction` | a call |
| `EnterTry`, `LeaveTry` | `HCRT_ExceptStoreState` and `HCRT_ExceptPop`, where `parse2IR.c` calls them: in front of the blocks and behind both |
| `Throw` | `throw`; it goes to the frame in `tmpExcept`, whatever is first on the list |
| `Return` | refused in a catch block only (`parserA.c:3135`) |
| `Break` | out of either block: `parseBreak` asks for a loop or a switch around it (`parserA.c:2129`), and `parseTry` puts none away |
| `GotoOut`, `GotoInto` | out of bodies and into one: labels are put away for the catch block alone (`parserA.c:4472`) |
| `SwitchInto` | a switch to a case that stands in a block (`parseCase`) |

The last five push and pop nothing. `strays` is a history that only properties
read: it notes that control went "out" of a try statement by one of them, or
"in", or that a "throw" went to something else than the first frame. A throw
past calls that are gone is the end of what can be said of a run (`fate` "lost").
What holds depends on `strays`. While it is empty the list has the frames of
the open try statements and no others (`FramesAreOpenTries`). After ways out it
has others too, but still all of these (`FramesKept`). The try statement entered
last catches what its body throws (`LastEnteredCatches`), even after throws that
went astray, which make blocks end whose frames are gone; in a program that nests
try statements the first of them is that of `exceptions_nested`. After a jump in,
the end of that block pops a frame of another statement, and nothing is claimed.
TLC finds a counterexample when any of these conditions is dropped.

### GraphColoring

The variables are `struct vertexInfo`, the array `Q` and `s`. `ColorNode` is a
turn of the outer loop with the whole inner one. Any node of the fullest bucket
may be taken, as their order depends on addresses.

### Interference and Storage

An expression is a function `first`: its nodes are numbered in the order the
recursive walk returns from them, and `first[n]..(n - 1)` is what lies below `n`.
`Visit` is that return: the stack loses what the operands left and gains the
variable of `n`. `size[k]`, the length of the stack after `k`, stands for the
`originalSize` each activation of the walk keeps.

`Storage` runs the walk three times, with the variables that each pass still
finds, and has the passes between them:

| action | code |
|---|---|
| `Begin`, `StartABI`, `StartFrame`, `Walk` | `IRInterferenceGraphFilter` as called by `IRRegisterAllocate`, `findRegisterLiveness`, `IRComputeFrameLayout` |
| `Choose` | `color2Reg` for each temporary |
| `Spill`, `Scan` | a turn of the conflict loop, and its passing on to the next node |
| `StartFrame` | what `IR_ABI_I386_SYSV_2Asm` pushes, from what is live at each call |
| `Layout` | colours, new colours, merged slots of `IRComputeFrameLayout` |
| `Pack` | one call of `pack`, which recurses on the regions `regions` |
| `Finish` | the size of the frame |

Choices of the code that hang on `rand()` or on addresses (the register of a
temporary, the order of nodes, which of two slots of one size) are any choice.
The colouring is any that has the properties proved in `GraphColoringProofs`,
`Proper` and `FewColors`. Only the component of the first node is coloured, as
in the code, where the jump that would take the others is missing.

### The stages of the translation

`MCTranslation` puts the stages beside each other: `stage` says which one a
behaviour is of, `given` (for types of nodes `converting`) is its input or what has
become of it. Each is checked
on inputs of its own, so that a fault of one does not hide in another, and each
has a reference said without its code.

*Text* (`Preprocessor`, `TextEdits`). A text is a sequence of atoms: words, strings, marks of
comments, newlines, whole directives. `CreatePreprocessedFileLine`,
`ExpandRecur`, `IncludeFile` and the searches are the functions of those names;
`edits` is `sourceMappings`, `files` is `allFileMappings`, `lineStart` the static
variable. What the code does in an endless loop or an error is the fate of the
text, "lost" or "stopped". `TextEdits` has the splice with its notes
(`InsertMacroText`) and the way back through them (`MapToSource`); `DiagLineCol` goes back from a position. `Meaning` is
the reference: one pass over the atoms, with what each stands for and its line.
The module was compared with the compiled functions on some thousands of
generated texts.

*Expressions* (`Expressions`, `Grammar`). One operator per level, from `PrecComma`
down to `Prec0`, each giving the tree and the place it ends at. `Grammar` writes a
tree with as few parentheses as the levels allow; reading must give it back.

*Statements* (`Syntax`, `Lowering`, `Emission`, `Statements`, `FlowCode`). `Syntax`
reads tokens into nodes with a context: the stack of switches, loop and catch
block around, labels and gotos. `Lowering` has an operator per statement that
adds nodes and edges to a graph; `Emission` has the graph (`Connect`,
`InsertBefore`, `InsertAfter`) and what is done to it then:
`RemoveNeedlessLabels`, `RemoveNeverFlows`, `LabelsForAsm` and `Emit`, which walks the
nodes in the order of their addresses: ascending or descending. `FlowGraph` says
what `Emission` relies on (a node that chooses has ways to choose, nothing goes
back to the start, a label goes on to what comes next); TLC evaluates that all
graphs the run lowers are such (`GraphsFlow`). `FlowCode` runs
the code that results next to the statements: the state is the line the code is
at (`at`, with `memory` for the variables of switches and tries) and what the
statements have left to do (`todo`); an action evaluates the expression both have
come to, with any value, or throws in it.

*Types* (`TypeObjects`, `Declarations`). The heap of type objects and the registry
that names them. A behaviour reads up to four declarations in any order; the
actions of `Declare` are the parser's calls of `object.c`.

*Typing* (`Casting`, `Typing`, `Evaluation`). `AssignTypeToOp` gives the types of
`exprParser.c`, `ParserNode2Expr` the graph of `parse2IR.c`; `Casting` gives its
nodes the types of `IRTypeInference.c`. `Convert` is a turn of the loop of
`IRInsertImplicitTypecasts`, on any node left, as the loop goes by address. `OfExpression` says what graphs the loop is for: edges come from nodes of
the graph, one of a kind but for arguments, where an operation needs them, and
not in a circle; TLC evaluates that every expression of the run gives one
(`GraphsOfExpressions`). `Evaluation` computes both, the expression by its types and
the graph by its.

*Nodes* (`Machine`, `Opcodes`, `Selection`, `Operations`). `Operations` has the code of
each kind of node; `Selection` what it calls: `AsmAssign`, `AsmTypecastAssign`,
`PushMode`, `PopReg`, the choice of a register that is free or borrowed, and
`Assemble`, which takes the first template of `Opcodes` the operands fit and else
brings an operand to a register. `Machine` runs the result. `MCSelection` says
what a node computes, and puts its operands in every kind of place.

## 3. Runs

| run | instance | result |
|---|---|---|
| `cache_types_change` | one source whose variable's type, class and function body are edited and edited back, kills at any step | types, `AllFunctionsLinked`, `ReuseSound`, `CommandEnds` hold |
| `cache_fixed_types` | commands of one or two sources out of four, two bodies of a function whose hashes collide | `CacheCoherent`, `CodeUpToDate` hold |
| `cache_type_edit` | the first instance without kills | **violated**: `TypeChangeRecompiles` |
| `cache_init_code` | the second instance | **violated**: `OwnInitCode` |
| `symbols` | two names, two types, four linkages, two variables, one open function | `GlobalVarsAgree`, `RedefinitionReported`, `DefinitionsReachTable` hold |
| `hash_map` | nine keys, one value | `SizesCounted`, `NeverFull`, `IsKeyValueMap` hold |
| `exceptions` | five calls and try statements, nested in any way, with every way out of and into their blocks | `FramesAreOpenTries`, `FramesKept`, `LastEnteredCatches` hold |
| `exceptions_nested` | the same with three | **violated**: `ThrowReachesInnermost` |
| `storage` | all expressions of four nodes (each an operation, a call, a temporary, a named variable), three mixes of types, six registers of three families | `LivePairsInterfere`, `NoRegisterClash`, `CallsKeepLive`, `PlacesApart` hold |
| `storage_frame` | the same with three nodes | **violated**: `FrameCovers` |
| `translation` | the stages, see below | `PreprocessesAsWritten`, `LinesMapBack`, `ReadsAsWritten`, `RefusesIllFormed`, `JumpsLand`, `RunsAsWritten`, `DeclaredAlikeEqual`, `ComputesAsTyped`, `OperandsAgree`, `OperationsCompute`, `OperationsPreserve` hold |
| `graph_coloring` | all 1024 graphs of five nodes | `Proper`, `BucketsRight`, `FewColors`, `AllColored`, `Ends` hold |

**Why the bounds suffice.** Cache: a type, a class and a body each with two
values, and a mention of one by another, give every pair of "changed" and
"unchanged" at a look-up; the number of commands is unbounded. Two bodies with
one hash are enough for a collision; two sources for the shared start code.
Symbols: an action touches one name and the interplay is between declarations
of the same one, so two names are one more than needed; a second variable is
the repeated one; nesting of functions is left to the proof. Hash map: seven
keys in different buckets force the map from 8 to 16 buckets and back, the
eighth collides in the small table only, the ninth always. Exceptions: five
openings allow three try statements in two calls, nested or in turn, so that one
ends or is left and another is entered while a third is open (208 000 states);
`exceptions_nested` needs two.
Colouring: five nodes have every saturation level up to four, and odd cycles.
Storage: four nodes are a call with an argument and two values around it, or
three values of which each pair interferes and one that interferes with none;
ECX, CX, CL and CH give every way two registers of a family overlap, EBX the
preserved ones; sizes 1, 4, 8 and 10 give slots with and without padding, and
slots merged of different sizes. `LONG_MAX` is 1000, as no frame of four
variables comes near it. Larger expressions are left to the proofs.

Translation, stage by stage (180 000 states). *Text*: three lines, each one of
some twenty (a macro defined, redefined, used, empty; comments; strings; an
#include alone or with text), and a file that may include another: enough for a
macro to be used before, after and in an included file, and for an edit of each
kind to lie before, in and behind a position. `Deepest` cuts expansions within
each other at six, more than two macros give. *Expressions*: every operator and
suffix over every other, which is every pair of levels in both places.
*Statements*: every compound statement in every other, around a break, a return,
or a statement, in up to 63 tokens (`MaxText`); sub-switches, gotos and try statements in hand-picked
places; values 0 to 5, as many as there are cases. *Types*: four declarations
out of sixteen, so that a forward declaration, its completion and uses before,
between and after may all be there. *Typing*: expressions of up to two
operators, widths scaled down (2, 3, 5 and 7 bits) with all conversions between
them still losing values, three memories. *Nodes*: all kinds with operands in
registers, memory and literals, destinations that are or overlap an operand, and
both answers to whether liveness is known. A byte of the machine has four values,
a register four bytes: that every addition wraps and every extension of signs
shows is kept.

**Left out as known.** Inputs on which the code does something else than the
reference, and no text of the repository says which is right, are named one by
one, so that the property holds for all others:

| stage | name | what the code does |
|---|---|---|
| text | `MacroInMacro` | a macro whose text mentions another: loops for ever (`preprocessor.c:460`) |
| text | `SecondComment` | a second `/* */` on a line: the search for its end starts at the line's start (`preprocessor.c:90`) |
| text | `OpenComment` | directives and macros within a comment of several lines are looked at |
| text | `SecondWord` | behind an #include only the first word is expanded |
| text | `Unmapped`, `IncludedAgain` | text behind an #include is not counted in `lineStart`; a file included twice has the positions of its first inclusion |
| typing | `Negated`, `BothRetyped`, `NamesItsType` | literals above I32i, characters and comparisons have other types as nodes (`IRTypeInference.c:148`, `:168`) |
| typing | `SuffixUnwrapped` | `u8++` has the value of an I32i, not wrapped (`parse2IR.c:890`) |
| typing | `Unranked` | no type for a Bool, nor for an array right of a number (`IRTypeInference.c:57`) |
| typing | `ArrayDifference`, `NestedMember` | array less pointer is typed as a pointer; `p->q->m` adds to the node of `p->q` (`IR.c:1680`) |
| typing | `TargetTwice`, `AssignmentLost` | the target of `+=` and `++` is computed twice; in `c = (*pc = d)` the inner assignment is dropped |
| node | `BytePushed` | `popMode` does not undo `pushMode` for a byte in memory (`IR2asm.c:150`) |
| node | `NegativeDividend` | IDIV with EDX zero |
| node | `OperandLost` | a destination in memory that is the second operand (`IR2asm.c:2153`) |
| node | `FlagsLost` | `popReg` between CMP and SETcc |
| node | `OddDistance` | pointers of items whose size is no power of two |
| node | `MemberAddressLost`, `OutOfRegisters` | the value or the class goes through the register that has the address, or three registers are not enough |
| node | `ToBoolUnchecked`, `SwitchUnsigned` | a Bool from a literal is not made 0 or 1; the bounds of a jump table are compared signed |

Not among the inputs of `FlowCode`, for the same reason: falling into `start:` of a sub-switch
(its code runs twice), `default` in a sub-switch, empty start code, a break or a
goto out of the body of a try, `f((x, y))` (read as `f(x, y)`), unions with a base.
`I64i a[]={1,2}; I64i b[]={1,2,3};` is among them, and refused
(`parserA.c:1393` writes the dimension into the type both share); the property is
about what is accepted.

**Fairness.** `CommandEnds` assumes weak fairness of the compiler's own steps
(`CompilerStep`, not `Command` or `Crash`): a process that is not killed goes on
executing. `Ends` assumes it of the loop. Nothing else is assumed to happen.
`HashMap`, `SymbolTable` and `Storage` state safety only.

**What the violations say.** `cache_type_edit`: `sourceHash.c:234` demands a
recompile when a type changes, but the fact is known only to the command that
overwrites the types file, and only for the texts among its sources. A text
edited away and back in a later one finds its old code. `cache_init_code`:
`getCurrFuncName` drops the number of the start code, so all sources share a
file, which `README.md:20` says they do not. `exceptions_nested`:
`HCRT_ExceptPop` copies the frame that ends over the state `throw` resumes
from: enter a try statement, enter another in its body, let that one end, throw,
and the catch block that runs is the second one's. `storage_frame`: a class of size 10 and alignment 8 (`object.c:409` makes
such sizes) has a hole of 2 bytes in front of it; a byte packed there last ends
the frame at 1, below the class (`frameLayout.c:250`). `CodeUpToDate` holds
without the first, and needs three conditions which the instance satisfies: no
type changes, texts that differ print differently (`hashSource` puts nothing
between tokens), and no kill.

## 4. Proofs

Checked by `tlapm`, for every value of the constants that satisfies the named
assumptions (`ConstantsOK`, `ProgramsOK`, `NoneIsApart`, `DeclaredOK`, `KeysOK`,
`GraphAssumption`, `NAssumption`, `ExprAssumption`, `RegAssumption`,
`FrameAssumption`, all evaluated by TLC on the instances). A theorem
that assumes more says so in its ASSUME.

* **SourceCacheProofs.** `TypeInvariant` proves `TypeOK` with `Shape`, which
  ties `pc` to what its variables hold. `FunctionsLinked` needs `Accounted`:
  while a source is compiled, each of its functions is either in the list of
  files to include, with a file that exists, or still in the statements; and
  files never disappear. `ReuseIsSound` needs `DiffKnown`: from the comparison
  to the look-up, every name that differs from the lines read is in `changed`.
  `CacheIsCoherent` assumes `~Crashes`; its invariant adds that the source of the
  function being written is already on record (`SourceFirst`) and that the
  index of the look-up stays in range. `CacheIsTransparent` proves
  `CodeUpToDate` from `~Crashes`, `TypesFixed` and `PrintsApart`: what a text
  sees is then the same in every table that knows its names (`CompiledFixed`),
  so that code found is as good as code made. Its invariant `UpInv` says that
  all code in the cache is what any such table makes (`Canonical`), that every
  function of the source is to be compiled or made (`Settled`), and that no
  later source of the command writes to the file of an earlier one's function
  (`InSource`, from the parser's refusal of a second definition). Each source is
  assumed to declare the functions it defines (`ProgramsOK`), as `parseFunction`
  does.
  `CommandsDescend` is the part of `CommandEnds` that can be proved: the rank
  (sources left, stage of the source, turns left of the loop it is in) goes down
  with every step, although `Reuse` moves the index of the loop back, since it
  takes a statement out as it does; and short of the end of the command some
  step is open. That a rank of naturals cannot go down for ever is the temporal
  half, which stays with TLC.
* **SymbolTableProofs.** `VariablesAgree` proves that a variable in the table is
  that of the global scope. Its invariant adds that a scope above the global
  one never writes the table, and that what the table lost between sources the
  scope lost too. `RedefinitionsAreReported` goes through what each declaration
  adds, twice for a forward one: only a variable or the end of a function puts a definition in the table, and where it replaces one of
  its kind the test that reports it (`Repeats`, `FuncErrs`) is true.
  `DefinitionsArrive` needs `ForwardsAreLow`, that a forward declaration has the
  forward precedence, for otherwise the definition could be the one dropped.
* **GraphColoringProofs.** One invariant gives all theorems. `Proper` alone
  is not inductive: it needs `ColorsKnown` (the list of a node without a colour
  has every colour its neighbours took) and that neighbourhood is symmetric;
  those need `BucketsRight`, as a node that was in two buckets would be coloured
  twice. That the first free colour exists is a pigeonhole argument
  (`FirstFreeFacts`), and that the indices of `Q` stay in range is `InsideQ`.
  `ListIsNeverEmpty` (from `SomeAtLevel`: the search for the next level stops at
  one that has a node) and `EachTurnColorsOne` are what `Ends` rests on: the loop
  can always take a turn, and takes as many as there are nodes.
* **StorageProofs.** The walk's invariant `WalkInv` says that the stack is
  exactly the values computed and still to be read (`Held`), which is not
  inductive alone: truncating the stack must forget the operands and nothing
  else. `Prefixes` adds, for every node still to be finished, that the first
  `size[k]` members of the stack are those from before its operands; it is kept
  because what is below a node below `n` is below `n` (`Trees`). From it follows
  `LivenessIsExact`. `RegistersApart` needs that a node once scanned stays free
  of conflicts (`ScannedClean`): a register is only taken away after that.
  `CallsPreserve` needs that a family has a smallest register holding any of its
  members and that preserved registers are whole families (`RegAssumption`).
  *The frame.* `TypeInvariant` is `TypeOK` for all three walks. `FramePlacesApart`
  has a chain of reasons, in the order of the passes: the pairs of the third walk
  are the values needed together (the walk's invariant); `Recolored` keeps
  neighbours of different colours apart, by induction along its sequence, as
  `NewColor` avoids the colours in use by neighbours (`RecolorFacts`); so a slot,
  which is the values of one colour, has no two in conflict (`SlotsInv`); and
  `pack` puts a slot into a region, inside it and clear of all places given
  (`RegionsInv`: regions are ordered and no place is in one), splitting the
  region around it. `Kept` says that no value is lost on the way.
  `NothingIsLeft` shows that the recursion of `pack` is never stuck: with `Room(K)`,
  that K bytes hold any value and its padding and the last region has K for each
  node, the last region always takes the largest slot. `AlignedFrameCovers` says
  where the finding of `storage_frame` cannot happen: under `Unpadded`, which
  integers and pointers satisfy, no region but the last has room (`TightInv`), so
  the slot placed last is the one that ends last. `ColoringsArePromised` ties the
  two components together: the colourings `Layout` chooses from are those that
  satisfy what is proved of `GraphColoring`, and the interference graph of a
  component is one that `GraphColoring` may start with.
* **HashMapProofs.** One invariant, `SoundMap`, gives the type, `SizesCounted` and
  `NeverFull`: each bucket is sorted by key, has the nodes hashed to it and
  points at one of them, and two buckets are empty, not one, for otherwise the
  next insertion could fill the map before it is balanced. That balancing leaves
  two is arithmetic on hashes and the load: a map that grew has two empty buckets
  for each that was empty before (`GrowthFacts`), and one that shrinks fills no more
  buckets than it did (`ShrinkFacts`). A list stays sorted because the place
  `LLInsert` finds is the right one from wherever the cursor stands (`PlaceFacts`).
  Rehash and clone put nodes one after the other; what they
  end in is proved by induction on the number put (`RehashRun`, `CloneRun`).
  `ImplementsKeyValueMap` maps the nodes of all buckets to a function
  (`StoreOf`) and shows of every step that it is one of `KeyValueMap` or leaves
  it alone, and that the keys listed, each at the place its rank says (`Ranks`),
  are sorted and complete.
* **TranslationProofs.** Three stages, for inputs of any size.
  *Text edits.* A text is seen as the places its atoms had in the source,
  with `New` for what edits brought in. `MapsBack` says that a position maps
  between the source's atoms in front of it and those that are not. It is kept by
  an edit because undoing the last edit keeps what is in front of a position in
  front (`EditedFacts`) and `mapToSource` undoes the last edit first (`MapLast`).
  `InsertMacroMapsBack` adds that the notes describe the splice: it is made in
  the line, they are of the whole text, and it is they that `lineStart` places;
  its hypothesis, that the line starts there, is what fails behind an `#include`
  with text after it (`Unmapped` above). `IncludeMapsBack` is the same of a file
  opened, `FreshTextMapsBack` the start of it. `AtomsMapBack` draws the conclusion:
  an atom's place is exact unless what was in front of it is gone. That
  all this makes the lines of diagnostics right is `LinesMapBack`, by TLC.
  *Emission.* `EveryJumpLands` proves `JumpsLand` for every `FlowGraph` and all
  addresses, as long as nodes have different ones: what a jump or a choice goes
  to is written once and is a label, and a node is followed by the one it runs on
  to or by a jump to it; `NothingIsLost` adds that all that can be reached is
  written. The passes over labels keep the graph a flow graph, and leave a
  label where more than one edge comes in (`LabelsWhereJumped`, `OneWayIn`). The walk
  has one invariant (`VisitInv`): a node is written once; what comes after a node that
  is written is written or waits; a node that is no label waits once, since there
  is one way in to it (`WaitsOnce`); and what is to follow the last line is next
  (`Follows`). `VisitsLeft` goes down with every visit, so
  that the walk ends within the number of visits that `Emit` allows.
  *Conversions.* The types of a graph are defined by each other. As no nodes depend
  on each other in a circle, the equations have a solution (`TypesSolve`) and one only
  (`SolutionsAgree`); a conversion is shown to keep a solution, by giving that of
  the graph with the new node (`CastEdgeKeeps`). What must be shown of an operation
  is that its type stays what it is whichever of its operands have been converted
  (`Stands`, `Bears`): the higher of two types is again the higher of itself and
  either (`HigherStands`), and a number added to a pointer has no say (`CountedStands`).
  So `TypesStand`: no conversion changes the type of any node. Then a node that
  agrees goes on to (`AgreesStill`), each one taken agrees (`ConvertedNode`), and
  `ConvertedAgree` proves `OperandsAgree`, for nodes taken in any order. What is
  assigned to a member is exempt from it, as the loop passes members over
  (`IRTypeInference.c:332`). It needs no
  exception for graphs in which a type is an assertion (`Stopped`).
* **ExceptionsProofs.** For any nesting and every way in and out of blocks; no
  theorem has a hypothesis, and up to when a property speaks is in its statement,
  as `strays`. The invariant `IInv` has three layers. `Ordered`
  always holds: numbers rise along `control`, along the control each frame saved,
  and down the list. While control only strayed out, `Kept` says that every open
  try statement has its frame, and so has, for each frame on the list, every
  try statement open in what it saved, for a throw makes that the control again.
  While control has not strayed, `Matched` says that there are no other
  frames. The step that needs the order is the end of a block: the frame popped
  is the one with the greatest number, and no try statement that stays open has
  that (`LeaveTryIInv`); this is also why frames left behind do no harm, as they
  are popped in the place of older ones and what stays open is older still. The
  step of a throw needs that what it goes back to was saved in full
  (`ThrowIInv`). `ThrowIsCaught` needs less than that the list is whole: `Latest`
  says that the statement entered last, while its body runs, has its frame on the
  list and in `tmpExcept`. A pop would change that, but what ends within that
  body was entered after it, so that it would be the last itself, unless it was
  jumped into; and what a throw goes back to is older than its frame. That
  *every* running body has its throws caught is false (`exceptions_nested`).
* **NumberFacts.** Extremes of bounded sets, induction for sets (a set with 0 and
  each successor has every number, up to a bound or without) and remainders. The
  library's induction theorem takes an operator as parameter, which no prover
  here can instantiate; a set in its place does.

Only model-checked: liveness (`CommandEnds`, `Ends`), of which the descent is
proved; and what the parsers and `parse2IR.c` make of an input, as `FlowCode` and
`MCTranslation` say it (`PreprocessesAsWritten`, `LinesMapBack`, `ReadsAsWritten`,
`RefusesIllFormed`, `RunsAsWritten`, `DeclaredAlikeEqual`, `ComputesAsTyped`,
`OperationsCompute`, `OperationsPreserve`): these recur over texts and trees, by
RECURSIVE operators. For the same reason it is TLC that sees that lowering ends
in a `FlowGraph` and expressions in an `OfExpression`, on the inputs of the run; the
theorems are about all graphs that are such. Liveness under fairness, ENABLED,
induction over data and recursive operators are out of the prover's reach.

## 5. Not modelled

Concurrent `hcc` processes on one directory; the round that compiles the runtime;
failures of `yasm` and `gcc`, #link and the linker's command line; the scanning of
characters into tokens; calls and their arguments, floats, the x87 stack, inline
assembler and strings in code generation; `abiSysVx64.c` and all else that is for
64 bits, which `commandLine.c` cannot select; initialisers of aggregates and
assignability; constant folding; scopes of blocks within a function; reference
counts; the wording of diagnostics, debug information, the debugger, printing and
JSON; the runtime's own hash table, which the compiler does not use. `trash/`,
`tests/` and `HolyCTests/` are left aside. PROJECT.json gives the reason for each
component.

## 6. Plan

1. Calls: the order in which `abi.c` pushes, passes and pops, on `Machine`.
2. The x87 stack, empty at calls, on `Storage`.
3. Scopes of blocks in `SymbolTable`; a second process in `SourceCache`.
4. The runtime's hash table against `KeyValueMap`.
5. Proofs about `TypeObjects` and `Opcodes`, once their recursion is in functions,
   and that each operator of `Lowering` and `ParserNode2Expr` keeps `FlowGraph` and
   `OfExpression`.
