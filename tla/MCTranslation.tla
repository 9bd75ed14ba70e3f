--------------------------- MODULE MCTranslation ----------------------------
(***************************************************************************)
(* The stages of the compiler, each on inputs of its own: stage says which *)
(* one a behaviour is of, given is its input, of the typing of expressions *)
(* converting.  Another stage has the empty function for FlowCode to       *)
(* compile, and nothing to convert.                                        *)
(***************************************************************************)
EXTENDS MCFlowCode, Casting

CONSTANTS FuncNames, ClassNames   \* what lookups of parserA.c find

VARIABLES stage, given

G == INSTANCE MCGrammar
Y == INSTANCE MCTypes
C == INSTANCE MCSelection
T == INSTANCE MCTyping
Q == INSTANCE MCPreprocessor

(* A class with a pointer to another of its kind, a union based on an I16i *)
MCMembersOf == [
    C |-> <<[name |-> "m", ty |-> [t |-> "U8i"], off |-> 0],
            [name |-> "next", ty |-> [t |-> "ptr", of |-> [t |-> "forward", name |-> "C"]], off |-> 1]>>,
    W |-> <<[name |-> "lo", ty |-> [t |-> "U8i"], off |-> 0]>> ]
MCBaseOf == [C |-> [t |-> "none"], W |-> [t |-> "I16i"]]

(* What parse2IR.c makes of expressions is as IRTypeInference.c takes it   *)
ASSUME GraphsOfExpressions ==
    \A e \in T!Typed : T!Accepted(e) => OfExpression(T!Translated(e).g)

TInit ==
    /\ \/ stage \in {"statements", "typing"} /\ given = <<>>
       \/ stage = "expression" /\ given \in G!Expressions2
       \/ stage = "types" /\ given = [c |-> Y!InitObjectRegistry, said |-> <<>>]
       \/ stage = "operator" /\ given \in C!Operators
       \/ stage = "text" /\ given \in Q!Sources
    /\ \E stmts \in IF stage = "statements" THEN Bodies ELSE {<<>>} : Begin(stmts)
    /\ converting \in IF stage = "typing" THEN {T!Translated(e) : e \in {x \in T!Typed : T!Accepted(x)}}
                     ELSE {[e |-> <<>>, g |-> <<>>, root |-> 0, left |-> {}]}

(* A declaration is read: of what it says, and the type of what it declares*)
Declare(d) ==
    /\ stage = "types" /\ Len(given.said) < Y!MaxDeclarations
    /\ given.c.errors = {} /\ ~given.c.stopped
    /\ \E c \in {Y!ParseDeclaration(d, given.c)} :
           LET var == IF Len(c.vars) > Len(given.c.vars) THEN Len(c.vars) ELSE 0
           IN  given' = [c |-> c, said |-> Append(given.said, [text |-> d, var |-> var])]
    /\ UNCHANGED <<vars, stage, converting>>

(* A node with the operator is given code, which runs                      *)
Select ==
    stage = "operator" /\ stage' = "node" /\ C!Chosen(given, given') /\ UNCHANGED <<vars, converting>>

Cast(n) == Convert(n) /\ UNCHANGED <<vars, stage, given>>

Compute == stage = "statements" /\ Next /\ UNCHANGED <<stage, given, converting>>

TNext == Compute \/ Select \/ (\E d \in Y!Declared : Declare(d))
         \/ \E n \in converting.left : Cast(n)

TSpec == TInit /\ [][TNext]_<<vars, stage, given, converting>>

-----------------------------------------------------------------------------
(* Properties: those of FlowCode and Casting, and of the other stages      *)

(* parserA.c, its table of precedences: an expression written with no more *)
(* parentheses than it needs is read as itself, to its end.                *)
ReadsAsWritten == stage = "expression" => G!ReadsAsWritten(given)

(* object.c, hashObject and objectEqual: what is declared with the same    *)
(* words has equal types, whatever was declared in between and whether the *)
(* class was a forward declaration, complete, or became complete.          *)
DeclaredAlikeEqual ==
    stage = "types" /\ given.c.errors = {} /\ ~given.c.stopped => Y!DeclaredAlikeEqual(given)

(* IR2asm.c, __IR2Asm and what it calls: the code of a node leaves in its  *)
(* destination what the node computes, wherever registers and memory have  *)
(* the operands and the destination, and whatever registers are free.      *)
OperationsCompute == stage = "node" => C!Deviates(given) \/ ~C!Defined(given) \/ C!Computes(given)

(* IR2asm.c, pushReg to popMode, deadRegsAtPoint: and it changes nothing   *)
(* else that is live: registers it borrows are given back, the stack is as *)
(* it was, other memory is untouched.                                      *)
OperationsPreserve == stage = "node" => C!Deviates(given) \/ ~C!Defined(given) \/ C!Preserves(given)

(* exprParser.c, parse2IR.c and IRTypeInference.c: the graph of an         *)
(* expression, once converted, computes the value and leaves the memory    *)
(* that the expression does with each operation in the type exprParser.c   *)
(* gave it, in whatever order its nodes were taken.                        *)
ComputesAsTyped == stage = "typing" /\ converting.left = {} => T!ComputesAsTyped(converting, T!Memories)

(* preprocessor.c, expandDefinesInRange, createPreprocessedFileLine and    *)
(* includeFile: the text compiled is the source's with every macro that is *)
(* not in a comment or a string replaced by its latest text and every      *)
(* #include by its file; a macro that stands for itself is an error.       *)
PreprocessesAsWritten == stage = "text" => Q!Deviates(given) \/ Q!PreprocessesAsWritten(given)

(* textMapper.c and diagMsg.c: the file and line that a message or a line  *)
(* of debug information names are those its text was written in, through   *)
(* the edits of all lines before it and of the files included.             *)
LinesMapBack ==
    stage = "text" => Q!Deviates(given) \/ Q!Unmapped(given) \/ Q!LinesMapBack(given)
=============================================================================
