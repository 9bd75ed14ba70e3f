----------------------------- MODULE Exceptions -----------------------------
(***************************************************************************)
(* try and catch: the code parse2IR.c makes of a try statement, over the   *)
(* exception frames of HolyCRT/ExceptLin.HC, which a program that was      *)
(* compiled and linked runs.                                               *)
(*                                                                         *)
(* HCRT_ExceptStoreState saves the registers in tmpExcept and pushes a     *)
(* copy of it on the list curExceptFrame; throw goes back to tmpExcept,    *)
(* HCRT_ExceptPop takes the first frame off the list and into tmpExcept.   *)
(* Registers are modelled by the control they go back to: the calls and    *)
(* try statements that were open when they were saved.                     *)
(*                                                                         *)
(* The blocks of a try statement may be left, and entered, in every way    *)
(* that the parser accepts; only the way in at the top pushes a frame and  *)
(* only the way out at the end of a block pops one.                        *)
(***************************************************************************)
EXTENDS Integers, Sequences, SequencesExt

CONSTANTS
    MaxOpened,      \* bound: calls and try statements in a run
    None            \* nothing was saved yet

VARIABLES
    control,        \* the calls and try statements that are open
    opened,         \* how many were opened: each has a number of its own
    entered,        \* the number of the try statement entered last at its top
    curExceptFrame, \* the list of frames, the first one first
    tmpExcept,      \* the frame control goes back to
    fate,           \* "runs", "aborted", "segfault" (a null frame was read),
                    \* "lost" (the stack it went back to is gone)
    strays          \* history: how control went other ways than the frames,
                    \* "out" of a try statement or "in" by a jump, or by a
                    \* "throw" to what is not the first frame

vars == <<control, opened, entered, curExceptFrame, tmpExcept, fate, strays>>

Open == [kind : {"call"}, id : Nat] \cup
        [kind : {"try"}, id : Nat, block : {"body", "catch"}]
Frame == [id : Nat, control : Seq(Open)]
Ways == {"out", "in", "throw"}

Call(n) == [kind |-> "call", id |-> n]
Try(n, block) == [kind |-> "try", id |-> n, block |-> block]
IsTry(o) == o.kind = "try"
IsBody(o) == IsTry(o) /\ o.block = "body"
Calls(s) == {s[i] : i \in {i \in DOMAIN s : s[i].kind = "call"}}
Up(n) == SubSeq(control, 1, n)

-----------------------------------------------------------------------------

Init ==
    /\ control = <<>>
    /\ opened = 0
    /\ entered = 0
    /\ curExceptFrame = <<>>
    /\ tmpExcept = None
    /\ fate = "runs"
    /\ strays = {}

Opens == fate = "runs" /\ opened < MaxOpened /\ opened' = opened + 1

EnterFunction ==
    /\ Opens
    /\ control' = Append(control, Call(opened'))
    /\ UNCHANGED <<entered, curExceptFrame, tmpExcept, fate, strays>>

(* CALL HCRT_ExceptStoreState, which goes on in the body as run is 1       *)
BugPush(frames, f) == Append(frames, f)     \* mutant: put behind the others
Pushed(frames, f) == <<f>> \o frames

EnterTry ==
    /\ Opens
    /\ entered' = opened'
    /\ tmpExcept' = [id |-> opened', control |-> control]
    /\ curExceptFrame' = Pushed(curExceptFrame, tmpExcept')
    /\ control' = Append(control, Try(opened', "body"))
    /\ UNCHANGED <<fate, strays>>

(* A block ends: CALL HCRT_ExceptPop                                       *)
BugPop(frames) == frames    \* mutant: the frame stays on the list
Popped(frames) == Tail(frames)

LeaveTry ==
    /\ fate = "runs" /\ control # <<>> /\ IsTry(Last(control))
    /\ IF curExceptFrame = <<>>
       THEN /\ fate' = "segfault"
            /\ UNCHANGED <<control, curExceptFrame, tmpExcept>>
       ELSE /\ control' = Front(control)
            /\ tmpExcept' = Head(curExceptFrame)
            /\ curExceptFrame' = Popped(curExceptFrame)
            /\ UNCHANGED fate
    /\ UNCHANGED <<opened, entered, strays>>

(* Control leaves what is open behind place n.                             *)
LeaveTo(n) ==
    /\ fate = "runs"
    /\ control' = Up(n)
    /\ strays' = IF \E i \in (n + 1)..Len(control) : IsTry(control[i])
                 THEN strays \cup {"out"} ELSE strays
    /\ UNCHANGED <<opened, entered, curExceptFrame, tmpExcept, fate>>

(* A return is refused in a catch block, not in the body of a try.         *)
Return ==
    \E i \in DOMAIN control :
        /\ control[i].kind = "call"
        /\ \A j \in (i + 1)..Len(control) : IsBody(control[j])
        /\ LeaveTo(i - 1)

(* A break goes to the end of a loop or a switch, which may be around try  *)
(* statements of the same function whose blocks, of either kind, it is in. *)
Break ==
    \E n \in 0..(Len(control) - 1) :
        /\ \A j \in (n + 1)..Len(control) : IsTry(control[j])
        /\ LeaveTo(n)

(* A goto out of bodies: labels are put away for a catch block only.       *)
GotoOut ==
    \E n \in 0..(Len(control) - 1) :
        /\ \A j \in (n + 1)..Len(control) : IsBody(control[j])
        /\ LeaveTo(n)

JumpInto(block) ==
    /\ Opens
    /\ control' = Append(control, Try(opened', block))
    /\ strays' = strays \cup {"in"}
    /\ UNCHANGED <<entered, curExceptFrame, tmpExcept, fate>>

(* A goto to a label in a body, which the function's other gotos see too   *)
GotoInto == JumpInto("body")

(* A switch goes to a case that stands in a block of a try.                *)
SwitchInto == \E block \in {"body", "catch"} : JumpInto(block)

(* The second time control comes back from HCRT_ExceptStoreState: run is a *)
(* variable of the function, set to 0 by the body.                         *)
BugSecondBlock == "body"    \* mutant: the body does not set run to 0
SecondBlock == "catch"

(* throw, called by the program or by the handler of SIGSEGV               *)
Throw ==
    /\ fate = "runs"
    /\ IF curExceptFrame = <<>>
       THEN fate' = "aborted" /\ UNCHANGED <<control, strays>>
       ELSE /\ IF Calls(tmpExcept.control) \subseteq Calls(control)
               THEN /\ control' = Append(tmpExcept.control,
                                         Try(tmpExcept.id, SecondBlock))
                    /\ UNCHANGED fate
               ELSE fate' = "lost" /\ UNCHANGED control
            /\ strays' = IF tmpExcept = Head(curExceptFrame) THEN strays
                         ELSE strays \cup {"throw"}
    /\ UNCHANGED <<opened, entered, curExceptFrame, tmpExcept>>

Next ==
    \/ EnterFunction \/ EnterTry \/ LeaveTry \/ Throw
    \/ Return \/ Break \/ GotoOut \/ GotoInto \/ SwitchInto

Spec == Init /\ [][Next]_vars

-----------------------------------------------------------------------------
(* Properties                                                              *)

(* What is open, and what is saved, is numbered in the order it was opened *)
(* in, the innermost of control last and of the frames first.              *)
TypeOK ==
    /\ control \in Seq(Open)
    /\ \A i, j \in DOMAIN control : i < j => control[i].id < control[j].id
    /\ opened \in Nat
    /\ entered \in 0..opened
    /\ curExceptFrame \in Seq(Frame)
    /\ \A i, j \in DOMAIN curExceptFrame :
           i < j => curExceptFrame[i].id > curExceptFrame[j].id
    /\ tmpExcept \in Frame \cup {None}
    /\ fate \in {"runs", "aborted", "segfault", "lost"}
    /\ strays \subseteq Ways

(* What the entry of the try statement at place i of s saved               *)
Saved(s, i) == [id |-> s[i].id, control |-> SubSeq(s, 1, i - 1)]
OpenTries == {i \in DOMAIN control : IsTry(control[i])}

(* parse2IR.c, NODE_TRY: the frames on the list are those of the try       *)
(* statements that are open, each as its entry saved it, through calls,    *)
(* nested statements and throws out of them, until control first strays:   *)
(* a block is left by a return, a break or a goto, or entered by a jump,   *)
(* none of which pushes or pops, or a throw does not go to the first frame.*)
FramesAreOpenTries ==
    strays = {} =>
        Range(curExceptFrame) = {Saved(control, i) : i \in OpenTries}

(* parserA.c, parseReturn, parseBreak and parseGoto, none of which pops:   *)
(* to leave blocks that way leaves frames behind but never costs an open   *)
(* try statement its own, whatever ends or is thrown afterwards, so that   *)
(* no end of a block reads a null frame and no throw within one aborts.    *)
FramesKept ==
    strays \subseteq {"out"} =>
        /\ {Saved(control, i) : i \in OpenTries} \subseteq Range(curExceptFrame)
        /\ fate # "segfault"
        /\ fate = "aborted" => OpenTries = {}

(* ExceptLin.HC, throw: a throw in the body of the try statement entered   *)
(* last, or in what the body calls, is caught by that statement, though    *)
(* frames be left on the list or be missing from it, and throws have gone  *)
(* astray before, unless a block was jumped into.                          *)
Bodies == {i \in DOMAIN control : IsBody(control[i])}
Innermost == Max(Bodies)
Caught == control' = Append(Up(Innermost - 1), Try(control[Innermost].id, "catch"))
LastEnteredCatches ==
    [][Throw /\ "in" \notin strays /\ Bodies # {}
         /\ control[Innermost].id = entered => Caught]_vars

(* ExceptLin.HC, throw, "No exception frame to jump to": what throw jumps  *)
(* to is the first frame, that of the innermost try statement whose body   *)
(* is running; the blocks within it are left and its catch block is next.  *)
ThrowReachesInnermost ==
    [][Throw /\ strays = {} /\ Bodies # {} => Caught]_vars
=============================================================================
