----------------------------- MODULE Operations -----------------------------
(***************************************************************************)
(* IR2asm.c, the code of each node of the intermediate representation.  A  *)
(* node is a record: its kind, the modes of its operands a and b and of    *)
(* its destination out, and what some kinds say more of themselves.        *)
(***************************************************************************)
EXTENDS Selection

(* Mutant: only the same register, not one that overlaps it                *)
BugOutputModeAffectsInput(input, out) == out.m = "reg" /\ out.r \in RegsFromMode(input)

(* A register of the destination overlaps one the operand is made of       *)
OutputModeAffectsInput(input, out) == out.m = "reg" /\ Clashes(out.r, RegsFromMode(input))
UsesAccumulator(q) == OutputModeAffectsInput(q.a, q.out) \/ OutputModeAffectsInput(q.b, q.out)

(* An operation of two addresses: the destination is the first operand     *)
AssembleOpInt(cx, op, q) ==
    LET acc == GetAccumulatorForType(q.a.ty)
    IN  IF UsesAccumulator(q)
        THEN AsmAssign(cx, acc, q.a) \o AssembleOpcode(cx, op, <<acc, q.b>>) \o AsmAssign(cx, q.out, acc)
        ELSE AsmTypecastAssign(cx, q.out, q.a) \o AssembleOpcode(cx, op, <<q.out, q.b>>)

-----------------------------------------------------------------------------
(* Pointers: the distance between two of them, and steps of their items    *)

IsPtr(x) == x.ty.k = "ptr"
Shifted == {2, 4, 8}
ShiftOf(scale) == CASE scale = 2 -> 1 [] scale = 4 -> 2 [] scale = 8 -> 3

(* A distance in items that are not a power of two is divided by itself,   *)
(* with what happens to be in EDX, and stored over what is on the stack    *)
PtrDifference(cx, q) ==
    LET held == Consume(cx, {q.a, q.b, q.out})
        acc == GetAccumulatorForType(Dword)
        scale == q.a.ty.item
        Divided == PushReg("EDX") \o PushReg("EDX") \o Move(held, acc, acc) \o Move(held, acc, Imm(scale))
                   \o AssembleInst("IDIV", <<acc>>) \o Move(held, OnStack(8, PtrTo(0)), acc)
                   \o PopReg("EDX") \o PopMode(held, q.out)
    IN  Move(held, acc, q.a) \o AssembleInst("SUB", <<acc, q.b>>)
        \o CASE scale = 1 -> Move(held, q.out, acc)
             [] scale \in Shifted ->
                    AssembleOpcode(held, "SAR", <<acc, Imm(ShiftOf(scale))>>) \o Move(held, q.out, acc)
             [] scale \notin {1} \cup Shifted -> Divided

(* p, moved by i items that an index of an address can scale               *)
PtrIndexed(cx, p, i, q) ==
    LET isSub == q.op = "SUB"
        c1 == Consume(cx, {q.out, p, i})
        newBase == p.m # "reg"
        base == IF newBase THEN RegForTypeExcludingConsumed(c1, PtrTo(0)) ELSE p.r
        c2 == Consume(c1, {Reg(base, Dword)})
        newIndex == i.m # "reg" \/ isSub
        index == IF newIndex THEN RegForTypeExcludingConsumed(c2, PtrTo(0)) ELSE i.r
        c3 == Consume(c2, {Reg(index, Dword)})
        acc == GetAccumulatorForType(Dword)
    IN  (IF newBase THEN PushIfAlive(cx, base) \o Move(c1, Reg(base, Dword), p) ELSE <<>>)
        \o (IF newIndex THEN PushIfAlive(cx, index) \o Move(c2, Reg(index, Dword), i) ELSE <<>>)
        \o (IF isSub THEN AssembleOpcode(c2, "NEG", <<Reg(index, Dword)>>) ELSE <<>>)
        \o AssembleInst("LEA", <<acc, Indexed(base, index, p.ty.item, 0, Dword)>>)
        \o Move(c3, q.out, acc)
        \o (IF newIndex THEN PopIfAlive(cx, index) ELSE <<>>)
        \o (IF newBase THEN PopIfAlive(cx, base) ELSE <<>>)

PtrMultiplied(cx, p, i, q) ==
    LET acc == GetAccumulatorForType(q.out.ty)
    IN  AsmTypecastAssign(cx, acc, i)
        \o (IF q.op = "SUB" THEN AssembleOpcode(cx, "NEG", <<acc>>) ELSE <<>>)
        \o AssembleOpcode(cx, "IMUL2", <<acc, Imm(p.ty.item)>>) \o AssembleOpcode(cx, "ADD", <<acc, p>>)
        \o AsmTypecastAssign(cx, q.out, acc)

AssembleOpPtrArith(cx, q) ==
    LET p == IF IsPtr(q.a) THEN q.a ELSE q.b
        i == IF IsPtr(q.a) THEN q.b ELSE q.a
    IN  IF q.op = "SUB" /\ IsPtr(q.a) /\ IsPtr(q.b) THEN PtrDifference(cx, q)
        ELSE IF p.ty.item \in {1, 2, 4, 8} THEN PtrIndexed(cx, p, i, q)
        ELSE PtrMultiplied(cx, p, i, q)

AddOrSub(cx, q) ==
    IF IsPtr(q.a) \/ IsPtr(q.b) THEN AssembleOpPtrArith(cx, q) ELSE AssembleOpInt(cx, q.op, q)

-----------------------------------------------------------------------------
(* Shifts by what is not a constant go through CL, on the stack            *)

ShiftOp(q) ==
    IF q.op = "LSHIFT" THEN IF q.a.ty.signed THEN "SAL" ELSE "SHL"
    ELSE IF q.a.ty.signed THEN "SAR" ELSE "SHR"

AssembleOpIntShift(cx, q) ==
    LET cl == Reg("CL", IntOf(1, TRUE))
        held == Consume(cx, {q.b, q.out, cl})
        keep == ~OutputModeAffectsInput(cl, q.out)
    IN  IF q.b.m = "imm"
        THEN AsmTypecastAssign(cx, q.out, q.a) \o AssembleOpcode(cx, ShiftOp(q), <<q.out, q.b>>)
        ELSE (IF keep THEN PushReg("CL") ELSE <<>>) \o PushMode(held, q.a)
             \o AsmTypecastAssign(held, cl, q.b) \o AssembleOpcode(held, ShiftOp(q), <<OnStack(0, q.out.ty), cl>>)
             \o PopMode(held, q.out) \o (IF keep THEN PopReg("CL") ELSE <<>>)

-----------------------------------------------------------------------------
(* Products: of signed bytes on the stack, of unsigned integers through    *)
(* the accumulator, of other signed ones in the destination                *)

MultBytes(cx, q) ==
    LET al == Reg("AL", IntOf(1, TRUE))
    IN  PushReg("AL") \o PushMode(cx, q.a) \o PushMode(cx, q.b) \o AsmTypecastAssign(cx, al, q.a)
        \o AssembleOpcode(cx, "IMUL", <<OnStack(0, IntOf(1, TRUE))>>)
        \o AsmTypecastAssign(cx, OnStack(2, IntOf(1, TRUE)), al)
        \o PopMode(cx, q.b) \o PopMode(cx, q.a) \o PopMode(cx, q.out)

MultUnsigned(cx, q) ==
    LET s == q.a.ty.size
        high == IF s = 1 THEN "" ELSE HighHalf(s).r
    IN  Move(cx, GetAccumulatorForType(q.a.ty), q.a) \o (IF high = "" THEN <<>> ELSE PushReg(high))
        \o PushMode(cx, q.b) \o AssembleInst("MUL", <<OnStack(0, q.b.ty)>>)
        \o OneInst("ADD", <<StackPointer, Imm(q.b.ty.size)>>) \o (IF high = "" THEN <<>> ELSE PopReg(high))
        \o AsmAssign(cx, q.out, LowHalf(s))

Mult(cx, q) ==
    IF ~q.a.ty.signed THEN MultUnsigned(cx, q)
    ELSE IF q.a.ty.size = 1 THEN MultBytes(cx, q)
    ELSE AssembleOpInt(cx, "IMUL2", q)

(* Quotients and remainders: the high half of the dividend is made zero,   *)
(* of signed ones as well, unless they are bytes                           *)
DivideOp(q) == IF q.a.ty.signed THEN "IDIV" ELSE "DIV"

DivBytes(cx, q) ==
    LET held == Consume(cx, {q.out, q.a, q.b})
    IN  PushMode(held, q.b) \o AsmTypecastAssign(held, Reg("AX", IntOf(2, TRUE)), q.a)
        \o AssembleOpcode(held, DivideOp(q), <<OnStack(0, IntOf(1, TRUE))>>) \o PopMode(held, q.b)
        \o AsmAssign(held, q.out, Reg(IF q.op = "DIV" THEN "AL" ELSE "AH", IntOf(1, TRUE)))

DivWide(cx, q) ==
    LET s == q.a.ty.size
        high == HighHalf(s)
        keep == ~(q.out.m = "reg" /\ Conflict(high.r, q.out.r))
        held == Consume(cx, {q.out, q.a, q.b} \cup (IF keep THEN {high} ELSE {}))
        low == LowHalf(s)
    IN  (IF keep THEN PushReg(high.r) ELSE <<>>) \o PushMode(held, q.b) \o PushMode(held, q.a) \o PopReg(low.r)
        \o AssembleInst("XOR", <<high, high>>) \o AssembleOpcode(held, DivideOp(q), <<OnStack(0, TypeForSize(s))>>)
        \o OneInst("ADD", <<StackPointer, Imm(q.b.ty.size)>>)
        \o (IF q.op = "MOD" THEN AsmAssign(held, low, high) ELSE <<>>)
        \o (IF keep THEN PopReg(high.r) ELSE <<>>) \o AsmAssign(held, q.out, low)

DivOrMod(cx, q) == IF q.a.ty.size = 1 THEN DivBytes(cx, q) ELSE DivWide(cx, q)

-----------------------------------------------------------------------------
(* Truth: comparisons, and the operators that look at one operand at a     *)
(* time, with the accumulator when the destination is an operand           *)

CondName(q) ==
    LET signed == q.a.ty.signed \/ q.b.ty.signed
    IN  CASE q.op = "GT" -> IF signed THEN "G" ELSE "A"
          [] q.op = "LT" -> IF signed THEN "L" ELSE "B"
          [] q.op = "GE" -> IF signed THEN "GE" ELSE "AE"
          [] q.op = "LE" -> IF signed THEN "LE" ELSE "BE"
          [] q.op = "EQ" -> "E"
          [] q.op = "NE" -> "NE"

Compare(cx, q) == AssembleOpcode(cx, "CMP", <<q.a, q.b>>) \o SetCond(cx, CondName(q), q.out)

IsZero(cx, x) == AssembleOpcode(cx, "CMP", <<x, Imm(0)>>)
Target(q) == IF UsesAccumulator(q) THEN GetAccumulatorForType(q.out.ty) ELSE q.out
FromTarget(cx, q) == IF UsesAccumulator(q) THEN AsmTypecastAssign(cx, q.out, Target(q)) ELSE <<>>

LOr(cx, q) ==
    LET True == AsmAssign(cx, Target(q), Imm(1)) \o <<Jump("JMP", "end")>>
    IN  IsZero(cx, q.b) \o <<Jump("JE", "next1")>> \o True \o <<Label("next1")>>
        \o IsZero(cx, q.a) \o <<Jump("JE", "next2")>> \o True \o <<Label("next2")>>
        \o AsmAssign(cx, Target(q), Imm(0)) \o <<Label("end")>> \o FromTarget(cx, q)

LXor(cx, q) ==
    IsZero(cx, q.a) \o SetCond(cx, "NE", Target(q)) \o IsZero(cx, q.b) \o <<Jump("JE", "end")>>
    \o AssembleOpcode(cx, "XOR", <<Target(q), Imm(1)>>) \o <<Label("end")>> \o FromTarget(cx, q)

LAnd(cx, q) ==
    IsZero(cx, q.a) \o <<Jump("JE", "end")>> \o IsZero(cx, q.b) \o <<Jump("JE", "end")>>
    \o AsmAssign(cx, Target(q), Imm(1)) \o <<Jump("JMP", "final"), Label("end")>>
    \o AsmAssign(cx, Target(q), Imm(0)) \o <<Label("final")>> \o FromTarget(cx, q)

LNot(cx, q) == IsZero(cx, q.a) \o SetCond(cx, "E", q.out)

Unop(cx, op, q) == AsmAssign(cx, q.out, q.a) \o AssembleOpcode(cx, op, <<q.out>>)

-----------------------------------------------------------------------------
(* Memory: addresses, what is at them, and members                         *)

AddrOf(cx, q) == AssembleOpcode(Consume(cx, {q.a}), "LEA", <<q.out, [q.a EXCEPT !.ty = PtrTo(0)]>>)

(* A class at an address that is the value of q.a, to the destination      *)
Derref(cx, q) == AsmAssignFromPtr(cx, q.out, q.a)

(* What q.b is, or the class it points to, stored where q.a points to      *)
DerrefAssign(cx, q) ==
    LET held == Consume(cx, {q.a, q.b})
        tmp == RegForTypeExcludingConsumed(held, Dword)
        there == Mem(tmp, 0, q.out.ty)
    IN  PushIfAlive(cx, tmp) \o AsmTypecastAssign(held, Reg(tmp, Dword), q.a)
        \o (IF IsClass(q.out) THEN AsmAssignFromPtr(held, there, q.b) ELSE AsmTypecastAssign(held, there, q.b))
        \o PopIfAlive(cx, tmp)

(* The offsets that are added between two dereferences of the chain        *)
AddOffset(r, off) == OneInst("LEA", <<Reg(r, Dword), Mem(r, off, Dword)>>)
StoreMemberPtrInReg(cx, r, q) ==
    LET reg == Reg(r, Dword)
        first == q.members[1]
    IN  (IF IsPtr(q.a) THEN AsmTypecastAssign(cx, reg, q.a) ELSE OneInst("LEA", <<reg, q.a>>))
        \o (IF Len(q.members) = 1 THEN AddOffset(r, first.off)
            ELSE IF first.ptr
            THEN AddOffset(r, first.off) \o Move(cx, reg, Mem(r, 0, PtrTo(0))) \o AddOffset(r, q.members[2].off)
            ELSE AddOffset(r, first.off + q.members[2].off))

MembersAddrOf(cx, q) ==
    LET acc == GetAccumulatorForType(Dword)
        held == Consume(cx, {q.out})
    IN  IF q.out.m = "reg" THEN StoreMemberPtrInReg(cx, q.out.r, q)
        ELSE StoreMemberPtrInReg(held, acc.r, q) \o AsmTypecastAssign(held, q.out, Reg(acc.r, q.out.ty))

Members(cx, q) ==
    LET held == Consume(cx, {q.out})
    IN  StoreMemberPtrInReg(held, "EAX", q) \o AsmTypecastAssign(held, q.out, Mem("EAX", 0, q.ty))

MembersAssign(cx, q) ==
    LET held == IF IsClass(q.out) THEN cx ELSE Consume(cx, {q.b})
    IN  StoreMemberPtrInReg(held, "EAX", q)
        \o (IF IsClass(q.out) THEN AsmAssignFromPtr(held, Mem("EAX", 0, q.ty), q.b)
            ELSE AsmTypecastAssign(held, Mem("EAX", 0, q.ty), q.b))

(* Room on the stack for an array whose dimensions are values: the last    *)
(* one is what every multiplication takes                                  *)
PushDim(cx, q, i) ==
    AsmTypecastAssign(Consume(cx, {q.out, q.dims[i]}), Reg("EAX", Dword), q.dims[i])
    \o OneInst("PUSH", <<Reg("EAX", Dword)>>)
ArrayDecl(cx, q) ==
    LET acc == Reg("EAX", Dword)
        top == OnStack(0, Dword)
        Times == OneInst("IMUL2", <<acc, top>>)
        two == Len(q.dims) = 2
    IN  PushDim(cx, q, 1) \o (IF two THEN PushDim(cx, q, 2) ELSE <<>>)
        \o Move(cx, acc, Imm(q.ty.size)) \o Times \o (IF two THEN Times ELSE <<>>)
        \o OneInst("XCHG", <<acc, top>>) \o OneInst("SUB", <<StackPointer, top>>)
        \o Move(Consume(cx, {q.out}), q.out, StackPointer)

-----------------------------------------------------------------------------
(* Jumps: on a condition, and through a table of the labels of cases       *)

CondJump(cx, q) == IsZero(cx, q.a) \o <<Jump("JNE", q.to[1]), Jump("JE", q.to[2])>>

Smallest(q) == CHOOSE s \in {r.from : r \in q.ranges} : \A r \in q.ranges : s <= r.from
Largest(q) == LET last == CHOOSE r \in q.ranges : \A r2 \in q.ranges : r.from >= r2.from IN last.to
TableEntry(q, v) ==
    LET here == {r \in q.ranges : v \in r.from .. r.to}
    IN  IF here = {} THEN "dft" ELSE (CHOOSE r \in here : TRUE).label

JumpTab(cx, q) ==
    LET held == Consume(cx, {q.a})
        b == RegForTypeExcludingConsumed(held, Dword)
        held2 == Consume(held, {Reg(b, Dword)})
        index == RegForTypeExcludingConsumed(held2, Dword)
        B == Reg(b, Dword)
        I == Reg(index, Dword)
    IN  AssembleOpcode(NoNode(cx), "CMP", <<q.a, Imm(Smallest(q))>>) \o <<Jump("JL", "dft")>>
        \o AssembleInst("CMP", <<q.a, Imm(Largest(q))>>) \o <<Jump("JG", "dft")>>
        \o PushReg(b) \o OneInst("LEA", <<B, Mem("", q.table, Dword)>>)
        \o PushReg(index) \o AsmTypecastAssign(held2, I, q.a)
        \o AssembleOpcode(held2, "SUB", <<I, Imm(Smallest(q))>>)
        \o AssembleOpcode(held2, "LEA", <<B, Indexed(b, index, 4, 0, PtrTo(0))>>) \o PopReg(index)
        \o Move(held2, B, Mem(b, 0, Dword)) \o AssembleOpcode(held2, "XCHG", <<B, OnStack(0, PtrTo(0))>>)
        \o OneInst("RET", <<>>)

-----------------------------------------------------------------------------
IR2Asm(cx, q) ==
    CASE q.op \in {"ADD", "SUB"} -> AddOrSub(cx, q)
      [] q.op = "BAND" -> AssembleOpInt(cx, "AND", q)
      [] q.op = "BOR" -> AssembleOpInt(cx, "OR", q)
      [] q.op = "BXOR" -> AssembleOpInt(cx, "XOR", q)
      [] q.op \in {"LSHIFT", "RSHIFT"} -> AssembleOpIntShift(cx, q)
      [] q.op = "MULT" -> Mult(cx, q)
      [] q.op \in {"DIV", "MOD"} -> DivOrMod(cx, q)
      [] q.op \in {"GT", "LT", "GE", "LE", "EQ", "NE"} -> Compare(cx, q)
      [] q.op = "LOR" -> LOr(cx, q)
      [] q.op = "LXOR" -> LXor(cx, q)
      [] q.op = "LAND" -> LAnd(cx, q)
      [] q.op = "LNOT" -> LNot(cx, q)
      [] q.op = "NEG" -> Unop(cx, "NEG", q)
      [] q.op = "BNOT" -> Unop(cx, "NOT", q)
      [] q.op = "POS" -> AsmAssign(cx, q.out, q.a)
      [] q.op = "ASSIGN" -> AsmAssign(Consume(cx, {q.out}), q.out, q.a)
      [] q.op = "ASSIGN_FROM_PTR" -> AsmAssignFromPtr(Consume(cx, {q.out}), q.out, q.a)
      [] q.op = "TYPECAST" -> AsmTypecastAssign(cx, q.out, q.a)
      [] q.op = "SIZEOF" -> AsmTypecastAssign(cx, q.out, Imm(q.ty.size))
      [] q.op = "ADDR_OF" -> AddrOf(cx, q)
      [] q.op = "DERREF" -> Derref(cx, q)
      [] q.op = "DERREF=" -> DerrefAssign(cx, q)
      [] q.op = "MEMBERS" -> Members(cx, q)
      [] q.op = "MEMBERS=" -> MembersAssign(cx, q)
      [] q.op = "MEMBERS_ADDR_OF" -> MembersAddrOf(cx, q)
      [] q.op = "ARRAY_DECL" -> ArrayDecl(cx, q)
      [] q.op = "COND_JUMP" -> CondJump(cx, q)
      [] q.op = "JUMP_TAB" -> JumpTab(cx, q)
=============================================================================
