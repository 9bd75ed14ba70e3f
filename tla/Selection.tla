----------------------------- MODULE Selection ------------------------------
(***************************************************************************)
(* IR2asm.c, from an instruction with operands as the program has them to  *)
(* instructions the processor has: an operand that no template takes is    *)
(* brought to a register that is free, or that is saved meanwhile.         *)
(*                                                                         *)
(* A context says what is known where code is written: whether a node is   *)
(* given at all, whether it has liveness information, the registers live   *)
(* there, and the registers that are consumed.  Code is a sequence of      *)
(* instructions.                                                           *)
(***************************************************************************)
EXTENDS Opcodes

NoNode(cx) == [cx EXCEPT !.node = FALSE]

RegsFromMode(x) == {x.r, x.base, x.index} \ {""}
Consume(cx, modes) == [cx EXCEPT !.used = @ \cup UNION {RegsFromMode(x) : x \in modes}]

OneInst(op, args) == <<Inst(op, args)>>

(* The registers an integer or a pointer may be in, of one size            *)
RegGetForType(ty) ==
    CASE ty.k = "class" -> <<>>
      [] ty.k # "class" /\ ty.size = 1 -> <<"BL", "CL", "DL", "BH", "CH", "DH">>
      [] ty.k # "class" /\ ty.size = 2 -> <<"BX", "CX", "DX", "SI", "DI">>
      [] ty.k # "class" /\ ty.size = 4 -> <<"EBX", "ECX", "EDX", "ESI", "EDI">>

Clashes(r, regs) == \E q \in regs : Conflict(r, q)
FirstOf(regs, P(_)) ==
    LET ok == {i \in DOMAIN regs : P(regs[i])}
    IN  IF ok = {} THEN "" ELSE regs[CHOOSE i \in ok : \A j \in ok : i <= j]

RegForTypeExcludingConsumed(cx, ty) ==
    LET Free(r) == ~Clashes(r, cx.used) IN FirstOf(RegGetForType(ty), Free)

(* Mutant: only the same register is taken to be live, not its parts       *)
BugDeadRegAtPoint(cx, ty) ==
    LET Dead(r) == ~Clashes(r, cx.used) /\ r \notin cx.live
    IN  IF cx.node /\ cx.info THEN FirstOf(RegGetForType(ty), Dead) ELSE ""

(* The first register that is dead at the node: known only of a node that  *)
(* has liveness information                                                *)
DeadRegAtPoint(cx, ty) ==
    LET Dead(r) == ~Clashes(r, cx.used) /\ ~Clashes(r, cx.live)
    IN  IF cx.node /\ cx.info THEN FirstOf(RegGetForType(ty), Dead) ELSE ""

RegIsAliveAtNode(cx, r) == ~cx.info \/ Clashes(r, cx.live)

Dword == IntOf(4, TRUE)
TypeForSize(s) == IntOf(s, TRUE)
StackPointer == Reg("ESP", Dword)
OnStack(off, ty) == Mem("ESP", off, ty)

GetAccumulatorForType(ty) ==
    Reg(CASE ty.size = 1 -> "AL" [] ty.size = 2 -> "AX" [] ty.size = 4 -> "EAX", ty)

-----------------------------------------------------------------------------
(* What is asked for: an instruction with operands that may have to be     *)
(* brought to it, one that has to have a template, registers to be saved   *)
(* on the stack and restored, an assignment of one type, a conversion.     *)

Ask(how, cx, op, args) == <<[how |-> how, cx |-> cx, op |-> op, args |-> args, to |-> ""]>>
Nowhere == [node |-> FALSE, info |-> FALSE, live |-> {}, used |-> {}]

AssembleOpcode(cx, name, args) == Ask("opcode", cx, name, args)
AssembleInst(name, args) == Ask("inst", Nowhere, name, args)
PushReg(r) == Ask("save", Nowhere, "PUSH", <<r>>)
PopReg(r) == Ask("restore", Nowhere, "POP", <<r>>)
AsmAssign(cx, a, b) == Ask("assign", cx, "", <<a, b>>)
AsmTypecastAssign(cx, out, in) == Ask("typecast", cx, "", <<out, in>>)

PushIfAlive(cx, r) == IF RegIsAliveAtNode(cx, r) THEN PushReg(r) ELSE <<>>
PopIfAlive(cx, r) == IF RegIsAliveAtNode(cx, r) THEN PopReg(r) ELSE <<>>

Aborts == OneInst("ASSERT", <<>>)

-----------------------------------------------------------------------------
(* Assignments.  Move is asmAssign of what is not a class.                 *)

Move(cx, a, b) == AssembleOpcode(cx, "MOV", <<a, b>>)

SubReg(r, s) ==
    IF SizeOfReg(r) = s THEN r
    ELSE LET subs == {q \in Registers : Part[q] = <<Part[r][1], Part[r][2], s>>}
         IN  IF subs = {} THEN "" ELSE CHOOSE q \in subs : TRUE

(* The mode of a smaller type: a register may have no part of that size    *)
CanDemote(x, ty) == x.m # "reg" \/ SubReg(x.r, ty.size) # ""
DemoteAddrMode(x, ty) == IF x.m = "reg" THEN Reg(SubReg(x.r, ty.size), ty) ELSE [x EXCEPT !.ty = ty]

SetCond(cx, cond, o) ==
    IF CanDemote(o, IntOf(1, TRUE))
    THEN Move(cx, o, Imm(0)) \o AssembleOpcode(cx, "SET" \o cond, <<DemoteAddrMode(o, IntOf(1, TRUE))>>)
    ELSE <<Jump("J" \o cond, "set")>> \o Move(cx, o, Imm(0)) \o <<Jump("JMP", "was set"), Label("set")>>
         \o Move(cx, o, Imm(1)) \o <<Label("was set")>>

(* A class is copied byte by byte, through the index registers: one more   *)
(* register has to be free                                                 *)
Keep(cx, r) == IF cx.node THEN PushIfAlive(cx, r) ELSE PushReg(r)
Restore(cx, r) == IF cx.node THEN PopIfAlive(cx, r) ELSE PopReg(r)
AddressTo(cx, r, x) ==
    IF x.m = "mem" THEN AssembleOpcode(cx, "LEA", <<Reg(r, Dword), [x EXCEPT !.ty = PtrTo(0)]>>)
    ELSE Move(cx, Reg(r, Dword), x)
CopyClass(cx, a, b, tmp) ==
    IF tmp = "" THEN Aborts
    ELSE Keep(cx, "EDI") \o Keep(cx, "ESI") \o Keep(cx, tmp)
         \o AddressTo(cx, tmp, b) \o AddressTo(cx, "EDI", a) \o Move(cx, Reg("ESI", Dword), Reg(tmp, Dword))
         \o Keep(cx, "ECX") \o Move(cx, Reg("ECX", Dword), Imm(a.ty.size)) \o OneInst("REP MOVSB", <<>>)
         \o Restore(cx, "ECX") \o Restore(cx, tmp) \o Restore(cx, "ESI") \o Restore(cx, "EDI")
ClassAssign(cx, a, b) ==
    LET held == Consume(cx, {a, b, Reg("ESI", Dword), Reg("EDI", Dword)})
    IN  CopyClass(held, a, b, RegForTypeExcludingConsumed(held, Dword))

IsClass(x) == x.ty.k = "class"
Assigned(cx, a, b) == IF IsClass(a) \/ IsClass(b) THEN ClassAssign(cx, a, b) ELSE Move(cx, a, b)

Widen(cx, out, in) ==
    LET acc == GetAccumulatorForType(out.ty)
    IN  IF in.ty.signed THEN AssembleOpcode(NoNode(cx), "MOVSX", <<out, in>>)
        ELSE AssembleInst("MOVZX", <<acc, in>>) \o Move(Consume(cx, {acc}), out, acc)

Narrow(cx, out, in) ==
    LET acc == GetAccumulatorForType(in.ty)
        held == Consume(cx, {out, in})
    IN  IF CanDemote(in, out.ty) THEN Move(cx, out, DemoteAddrMode(in, out.ty))
        ELSE Move(held, acc, in) \o Move(held, out, DemoteAddrMode(acc, out.ty))

ToBool(cx, out, in) ==
    IF in.ty.k = "bool" THEN <<>>
    ELSE AssembleInst("CMP", <<in, Imm(0)>>) \o SetCond(NoNode(cx), "NE", out)

TypecastAssigned(cx, out, in) ==
    CASE in.m = "imm" -> Move(cx, out, in)
      [] in.m # "imm" /\ out.ty.k = "bool" -> ToBool(cx, out, in)
      [] in.m # "imm" /\ out.ty.k = "class" -> ClassAssign(cx, out, in)
      [] in.m # "imm" /\ out.ty.k \in {"int", "ptr"} ->
            IF out.ty.size > in.ty.size THEN Widen(cx, out, in)
            ELSE IF in.ty.size > out.ty.size THEN Narrow(cx, out, in)
            ELSE Move(cx, out, in)

(* The object that b points to, through the accumulator                    *)
AsmAssignFromPtr(cx, a, b) ==
    LET held == Consume(cx, {a, b})
        acc == GetAccumulatorForType(PtrTo(0))
    IN  Move(held, acc, b) \o AsmAssign(held, a, Mem(acc.r, 0, a.ty))

-----------------------------------------------------------------------------
(* Operands pushed and popped: pushMode and popMode                        *)

PushMode(cx, x) ==
    LET none == NoNode(cx)
        acc == GetAccumulatorForType(PtrTo(0))
    IN  CASE x.m = "reg" -> PushReg(x.r)
          [] x.m # "reg" /\ SizeOf(x) \in {2, 4} -> OneInst("PUSH", <<x>>)
          [] x.m # "reg" /\ SizeOf(x) = 1 ->
                OneInst("SUB", <<StackPointer, Imm(1)>>) \o Move(none, acc, StackPointer)
                \o Move(none, Mem(acc.r, 0, x.ty), x)

PopMode(cx, x) ==
    LET none == NoNode(cx)
        acc == GetAccumulatorForType(x.ty)
    IN  CASE x.m = "reg" -> PopReg(x.r)
          [] x.m # "reg" /\ SizeOf(x) \in {2, 4} -> OneInst("POP", <<x>>)
          [] x.m # "reg" /\ SizeOf(x) = 1 ->
                Move(none, acc, OnStack(0, x.ty)) \o Move(none, x, acc)
                \o OneInst("ADD", <<StackPointer, Imm(4)>>)

-----------------------------------------------------------------------------
(* Saving registers on the stack: a byte and a word make room first        *)

Saved(r) ==
    LET s == SizeOfReg(r)
    IN  IF s = 4 THEN OneInst("PUSH", <<Reg(r, Dword)>>)
        ELSE <<Inst("SUB", <<StackPointer, Imm(s)>>),
               Inst("MOV", <<OnStack(0, TypeForSize(s)), Reg(r, TypeForSize(s))>>)>>

Restored(r) ==
    LET s == SizeOfReg(r)
    IN  IF s = 4 THEN OneInst("POP", <<Reg(r, Dword)>>)
        ELSE <<Inst("MOV", <<Reg(r, TypeForSize(s)), OnStack(0, TypeForSize(s))>>),
               Inst("ADD", <<StackPointer, Imm(s)>>)>>

-----------------------------------------------------------------------------
(* assembleOpcode: when no template takes the operands, the cheapest of    *)
(* those they can be brought to, one unit for each operand that is loaded  *)

Invalid == 100
ArgCost(arg, x) ==
    CASE x.m = "imm" -> IF arg.a \in {"R", "RM"} /\ arg.s = SizeOf(x) THEN 1 ELSE Invalid
      [] x.m = "reg" -> IF arg.a \in {"R", "RM"} /\ arg.s = SizeOf(x) THEN 0 ELSE Invalid
      [] x.m = "mem" -> IF arg.a = "R" /\ arg.s = SizeOf(x) THEN 1
                        ELSE IF arg.a = "RM" /\ arg.s = SizeOf(x) THEN 0 ELSE Invalid

Cost(template, args) ==
    ArgCost(template[1], args[1]) + (IF Len(args) = 2 THEN ArgCost(template[2], args[2]) ELSE 0)

(* The first template of the lowest cost, <<>> when all are invalid        *)
CheapestOf(all, costs) ==
    LET least(i) == \A j \in DOMAIN costs : costs[i] < costs[j] \/ (costs[i] = costs[j] /\ i <= j)
        i == CHOOSE k \in DOMAIN costs : least(k)
    IN  IF costs[i] >= Invalid THEN <<>> ELSE all[i]
Cheapest(all, args) ==
    CheapestOf(all, [i \in DOMAIN all |-> IF Len(all[i]) = Len(args) THEN Cost(all[i], args) ELSE Invalid])

IsLoaded(arg, x) == x.m = "imm" \/ (x.m = "mem" /\ arg.a = "R")

(* What bringing one operand to a register takes: the register, and the    *)
(* code before and after the instruction                                   *)
Brought(ok, x, before, restore, after) ==
    [ok |-> ok, x |-> x, before |-> before, restore |-> restore, after |-> after]
BringTo(r, borrowed, arg, x) ==
    Brought(TRUE, Reg(r, x.ty),
            (IF borrowed THEN Saved(r) ELSE <<>>) \o OneInst("MOV", <<Reg(r, x.ty), x>>),
            IF x.m = "mem" /\ arg.changed THEN OneInst("MOV", <<x, Reg(r, x.ty)>>) ELSE <<>>,
            IF borrowed THEN Restored(r) ELSE <<>>)
Bring(cx, arg, x) ==
    IF ~IsLoaded(arg, x) THEN Brought(TRUE, x, <<>>, <<>>, <<>>)
    ELSE IF DeadRegAtPoint(cx, x.ty) # "" THEN BringTo(DeadRegAtPoint(cx, x.ty), FALSE, arg, x)
    ELSE IF RegForTypeExcludingConsumed(cx, x.ty) = "" THEN Brought(FALSE, x, <<>>, <<>>, <<>>)
    ELSE BringTo(RegForTypeExcludingConsumed(cx, x.ty), TRUE, arg, x)

(* The operands are brought one after the other, each register it takes    *)
(* being consumed; what the instruction changed goes back                  *)
Around(name, bs) ==
    IF \E i \in DOMAIN bs : ~bs[i].ok THEN Aborts
    ELSE IF Len(bs) = 1 THEN bs[1].before \o OneInst(name, <<bs[1].x>>) \o bs[1].restore \o bs[1].after
    ELSE bs[1].before \o bs[2].before \o OneInst(name, <<bs[1].x, bs[2].x>>)
         \o bs[1].restore \o bs[2].restore \o bs[2].after \o bs[1].after
RECURSIVE BringFrom(_, _, _, _)
BringFrom(cx, template, args, bs) ==
    IF Len(bs) = Len(args) THEN bs
    ELSE BringFrom(Consume(cx, {bs[i].x : i \in DOMAIN bs}), template, args,
                   Append(bs, Bring(Consume(cx, {bs[i].x : i \in DOMAIN bs}),
                                    template[Len(bs) + 1], args[Len(bs) + 1])))
Converted(cx, name, args, template) ==
    Around(name, BringFrom(Consume(cx, {args[i] : i \in DOMAIN args}), template, args, <<>>))

ConvertedBy(cx, name, args, template) ==
    IF template = <<>> THEN Aborts ELSE Converted(cx, name, args, template)
Selected(cx, name, args) ==
    IF X86OpcodeByArgs(name, args) THEN OneInst(name, args)
    ELSE ConvertedBy(cx, name, args, Cheapest(X86OpcodesByName[name], args))

Assembled(i) ==
    CASE i.how = "given" -> <<i>>
      [] i.how = "opcode" -> Selected(i.cx, i.op, i.args)
      [] i.how = "inst" -> IF X86OpcodeByArgs(i.op, i.args) THEN <<i>> ELSE Aborts
      [] i.how = "save" -> Saved(i.args[1])
      [] i.how = "restore" -> Restored(i.args[1])

(* The instructions of what was asked for                                  *)
RECURSIVE Assemble(_)
Assemble(code) ==
    IF code = <<>> THEN <<>>
    ELSE LET i == code[1]
             rest == SubSeq(code, 2, Len(code))
         IN  CASE i.how = "assign" -> Assemble(Assigned(i.cx, i.args[1], i.args[2]) \o rest)
               [] i.how = "typecast" -> Assemble(TypecastAssigned(i.cx, i.args[1], i.args[2]) \o rest)
               [] i.how \notin {"assign", "typecast"} -> Assembled(i) \o Assemble(rest)
=============================================================================
