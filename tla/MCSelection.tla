---------------------------- MODULE MCSelection -----------------------------
(***************************************************************************)
(* Nodes for IR2asm.c, the machine each of them runs on, and what it is to *)
(* compute, said without its code.                                         *)
(***************************************************************************)
EXTENDS Operations

I8i == IntOf(1, TRUE)
U8i == IntOf(1, FALSE)
I16i == IntOf(2, TRUE)
U16i == IntOf(2, FALSE)
I32i == IntOf(4, TRUE)
U32i == IntOf(4, FALSE)

Frame == 200         \* EBP; variables are below it, and the stack below them
Stack == 160
Data == 40           \* where pointers point to
Table == 16          \* a table of labels
Object == -36        \* a local of a class, relative to EBP
Pointed == 72        \* where the pointer in the class points to

Regs(ty) ==
    CASE ty.size = 1 -> <<"BL", "CL", "DL">>
      [] ty.size = 2 -> <<"SI", "CX", "DX">>
      [] ty.size = 4 -> <<"ESI", "ECX", "EDX">>
Place(name, ty) ==
    CASE name = "r1" -> Reg(Regs(ty)[1], ty)
      [] name = "r2" -> Reg(Regs(ty)[2], ty)
      [] name = "r3" -> Reg(Regs(ty)[3], ty)
      [] name = "m1" -> Mem("EBP", -8, ty)
      [] name = "m2" -> Mem("EBP", -16, ty)
      [] name = "m3" -> Mem("EBP", -24, ty)
      [] name = "object" -> Mem("EBP", Object, ty)

Node(op, a, b, out, ty) ==
    [op |-> op, a |-> a, b |-> b, out |-> out, ty |-> ty, members |-> <<>>, dims |-> <<>>,
     to |-> <<"case1", "case2">>, ranges |-> {}, table |-> Table, va |-> 0, vb |-> 0, info |-> FALSE]

-----------------------------------------------------------------------------
(* The machine a node starts on                                            *)

Blank ==
    [reg |-> [EAX |-> 93, EBX |-> 37, ECX |-> 141, EDX |-> 250, ESI |-> 77, EDI |-> 202,
              EBP |-> Frame, ESP |-> Stack],
     mem |-> [c \in Addresses |-> (c * 7 + c \div 5) % ByteValues], flags |-> <<>>, fault |-> FALSE]

(* Both objects of the class have a pointer at their offset 4              *)
Given(m, x, v) ==
    IF x.m = "imm" \/ IsClass(x) THEN m ELSE Put(m, x, v % Top(x.ty.size))
Before(q) ==
    LET objects == Store(Store(Blank, Data + 4, 4, Pointed), Frame + Object + 4, 4, Pointed)
        m == Given(Given(objects, q.b, q.vb), q.a, q.va)
        Entry(m2, i) == Store(m2, Table + 4 * i, 4, Places[TableEntry(q, Smallest(q) + i)])
    IN  IF q.op # "JUMP_TAB" THEN m ELSE Entry(Entry(Entry(Entry(m, 0), 1), 2), 3)

(* Jumps come to labels that say in the destination which one it was       *)
Landing(q) ==
    <<Label("dft"), Inst("MOV", <<q.out, Imm(0)>>), Jump("JMP", "landed"),
      Label("case1"), Inst("MOV", <<q.out, Imm(1)>>), Jump("JMP", "landed"),
      Label("case2"), Inst("MOV", <<q.out, Imm(2)>>), Label("landed")>>

Operands(q) == {q.a, q.b, q.out} \cup {q.dims[i] : i \in DOMAIN q.dims}
Live(q) == {"EBX"} \cup UNION {RegsFromMode(x) : x \in Operands(q)}
Here(q) == [node |-> TRUE, info |-> q.info, live |-> IF q.info THEN Live(q) ELSE {}, used |-> {}]

Code(q) == IR2Asm(Here(q), q) \o (IF q.op \in {"COND_JUMP", "JUMP_TAB"} THEN Landing(q) ELSE <<>>)
After(q) == Run(Before(q), Assemble(Code(q)), 1)

-----------------------------------------------------------------------------
(* What a node computes                                                    *)

Meant(m, x) ==
    IF x.m = "imm" THEN x.v
    ELSE LET v == ValueOf(m, x, SizeOf(x)) IN IF x.ty.signed THEN Signed(v, SizeOf(x)) ELSE v
Truth(b) == IF b THEN 1 ELSE 0

Sum(q, x, y) ==
    IF IsPtr(q.a) /\ ~IsPtr(q.b) THEN x + (IF q.op = "ADD" THEN y ELSE -y) * q.a.ty.item
    ELSE IF IsPtr(q.b) /\ ~IsPtr(q.a) THEN y + x * q.b.ty.item
    ELSE IF IsPtr(q.a) THEN Signed((x - y) % Top(4), 4) \div q.a.ty.item
    ELSE IF q.op = "ADD" THEN x + y ELSE x - y

RECURSIVE MemberAt(_, _, _)
MemberAt(m, at, members) ==
    IF Len(members) = 1 THEN at + members[1].off
    ELSE MemberAt(m, IF members[1].ptr THEN Load(m, (at + members[1].off) % Top(4), 4) ELSE at + members[1].off,
                  Tail(members))
AddressOf(m, q) == MemberAt(m, IF IsPtr(q.a) THEN Meant(m, q.a) ELSE Address(m, q.a), q.members) % Top(4)

Computed(m, q, x, y) ==
    CASE q.op \in {"ADD", "SUB"} -> Sum(q, x, y)
      [] q.op = "BAND" -> (x % Top(4)) & (y % Top(4))
      [] q.op = "BOR" -> (x % Top(4)) | (y % Top(4))
      [] q.op = "BXOR" -> (x % Top(4)) ^^ (y % Top(4))
      [] q.op = "LSHIFT" -> x * 2 ^ y
      [] q.op = "RSHIFT" -> x \div 2 ^ y
      [] q.op = "MULT" -> x * y
      [] q.op = "DIV" -> Quotient(x, y)
      [] q.op = "MOD" -> x - y * Quotient(x, y)
      [] q.op = "GT" -> Truth(x > y)
      [] q.op = "LT" -> Truth(x < y)
      [] q.op = "GE" -> Truth(x >= y)
      [] q.op = "LE" -> Truth(x <= y)
      [] q.op = "EQ" -> Truth(x = y)
      [] q.op = "NE" -> Truth(x # y)
      [] q.op = "LOR" -> Truth(x # 0 \/ y # 0)
      [] q.op = "LXOR" -> Truth((x # 0) # (y # 0))
      [] q.op = "LAND" -> Truth(x # 0 /\ y # 0)
      [] q.op = "LNOT" -> Truth(x = 0)
      [] q.op = "NEG" -> -x
      [] q.op = "BNOT" -> -x - 1
      [] q.op \in {"POS", "ASSIGN"} -> x
      [] q.op = "TYPECAST" -> IF q.out.ty.k = "bool" THEN Truth(x # 0) ELSE x
      [] q.op = "SIZEOF" -> q.ty.size
      [] q.op = "ADDR_OF" -> Address(m, q.a)
      [] q.op \in {"DERREF", "ASSIGN_FROM_PTR"} -> Load(m, x, q.out.ty.size)
      [] q.op = "MEMBERS" -> Meant(m, Mem("", AddressOf(m, q), q.ty))
      [] q.op = "MEMBERS_ADDR_OF" -> AddressOf(m, q)
      [] q.op = "ARRAY_DECL" -> Stack - 4 * Len(q.dims) - q.ty.size * (IF Len(q.dims) = 2 THEN x * x ELSE x)
      [] q.op = "COND_JUMP" -> IF x # 0 THEN 1 ELSE 2
      [] q.op = "JUMP_TAB" -> Places[TableEntry(q, x)] - 1

(* What is stored is the value of b, or the class it points to             *)
Stores == {"DERREF=", "MEMBERS="}
Value(m, q) ==
    IF q.op \notin Stores THEN Computed(m, q, Meant(m, q.a), Meant(m, q.b))
    ELSE IF IsClass(q.out) THEN Load(m, Meant(m, q.b), q.out.ty.size)
    ELSE Meant(m, q.b)

(* Where it goes                                                           *)
Destination(m, q) ==
    CASE q.op = "DERREF=" -> Mem("", Meant(m, q.a), q.out.ty)
      [] q.op = "MEMBERS=" -> Mem("", AddressOf(m, q), q.ty)
      [] q.op \notin Stores -> IF q.out.m = "mem" THEN Mem("", Address(m, q.out), q.out.ty) ELSE q.out

-----------------------------------------------------------------------------
(* The nodes.  Operands are of one type unless something else is said: an  *)
(* implicit conversion is a node of its own.                               *)

Ints == {I8i, U8i, I16i, U16i, I32i, U32i}
Pairs == {<<1, 1>>, <<-1, 1>>, <<2, 3>>, <<0, -1>>}
With(q, v, info) == [q EXCEPT !.va = v[1], !.vb = v[2], !.info = info]
None == Imm(0)

Layouts ==
    {"r1", "r3", "m1"} \X {"r2", "m2"} \X {"r1", "r2", "r3", "m1", "m2", "m3"}
    \cup {"r1"} \X {"r3"} \X {"r1", "r3", "m3"}
Binops == {"ADD", "SUB", "BAND", "BOR", "BXOR", "MULT", "DIV", "MOD", "LSHIFT", "RSHIFT"}
Comparisons == {"GT", "LT", "GE", "LE", "EQ", "NE"}
Truths == Comparisons \cup {"LOR", "LXOR", "LAND"}
OutOf(op, ty) == IF op \in Truths \cup {"LNOT"} THEN U8i ELSE ty

OfTwo(op, q) == op \in Binops \cup Truths /\
    \E ty \in Ints, l \in Layouts, v \in Pairs, info \in BOOLEAN :
        q = With(Node(op, Place(l[1], ty), Place(l[2], ty), Place(l[3], OutOf(op, ty)), ty), v, info)
WithLiteral(op, q) == op \in Binops \cup Truths /\
    \E a \in {"r1", "m1"}, out \in {"r1", "r3", "m3"},
       v \in Pairs, info \in BOOLEAN :
        q = With(Node(op, Place(a, I32i), Imm(v[2]), Place(out, OutOf(op, I32i)), I32i), v, info)
OfOne(op, q) == op \in {"NEG", "BNOT", "POS", "ASSIGN", "LNOT"} /\
    \E ty \in Ints, a \in {"r1", "m1"},
       out \in {"r1", "r2", "m1", "m3"}, v \in Pairs, info \in BOOLEAN :
        q = With(Node(op, Place(a, ty), None, Place(out, OutOf(op, ty)), ty), v, info)

Sizeof(op, q) == op = "SIZEOF" /\
    \E ty \in {U8i, U16i, I32i}, out \in {"r1", "m3"}, info \in BOOLEAN :
        q = With(Node(op, None, None, Place(out, ty), Class(3)), <<0, 0>>, info)

Items == {1, 2, 4, 8, 3}
PointerAndInteger(op, q) == op \in {"ADD", "SUB"} /\
    \E item \in Items, l \in Layouts, v \in {<<40, 2>>, <<80, -1>>},
       swapped \in BOOLEAN, info \in BOOLEAN :
        LET p == Place(l[1], PtrTo(item))
            i == Place(l[2], I32i)
            out == Place(l[3], PtrTo(item))
        IN  IF swapped /\ op = "ADD" THEN q = With(Node(op, i, p, out, p.ty), <<v[2], v[1]>>, info)
            ELSE q = With(Node(op, p, i, out, p.ty), v, info)
Distance(op, q) == op = "SUB" /\
    \E item \in Items, l \in Layouts, v \in {<<56, 40>>, <<40, 64>>}, info \in BOOLEAN :
        q = With(Node(op, Place(l[1], PtrTo(item)), Place(l[2], PtrTo(item)), Place(l[3], I32i), I32i),
                 v, info)

Scalars == Ints \cup {Bool, PtrTo(1)}
Cast(op, q) == op = "TYPECAST" /\
    \E from \in Scalars, to \in Scalars, a \in {"r1", "r2", "m1"}, out \in {"r1", "r2", "r3", "m1", "m3"},
       v \in {0, 1, -1, 6}, info \in BOOLEAN :
        q = With(Node(op, Place(a, from), None, Place(out, to), to), <<v, 0>>, info)
CastLiteral(op, q) == op = "TYPECAST" /\
    \E to \in Scalars, out \in {"r1", "m3"}, v \in {0, 1, -1, 6}, info \in BOOLEAN :
        q = With(Node(op, Imm(v), None, Place(out, to), to), <<v, 0>>, info)

(* Objects at an address, and those of a class                             *)
Objects == Ints \cup {PtrTo(1), Class(3)}
OutsOf(ty) == IF ty.k = "class" THEN {"m2", "m3"} ELSE {"r1", "r2", "m3"}
ThroughPointer(op, q) == op \in {"DERREF", "ASSIGN_FROM_PTR"} /\
    \E ty \in Objects, a \in {"r1", "r3", "m1"}, info \in BOOLEAN : \E out \in OutsOf(ty) :
        /\ op = "DERREF" \/ ty.k = "class"
        /\ q = With(Node(op, Place(a, PtrTo(ty.size)), None, Place(out, ty), ty), <<Data, 0>>, info)
ToPointer(op, q) == op = "DERREF=" /\
    \E ty \in Objects, a \in {"r1", "r3", "m1"}, b \in {"r1", "r2", "m2"}, info \in BOOLEAN :
        /\ a # b
        /\ q = With(Node(op, Place(a, PtrTo(ty.size)),
                         Place(b, IF ty.k = "class" THEN PtrTo(3) ELSE ty), Mem("", 0, ty), ty),
                    <<Data, IF ty.k = "class" THEN Pointed ELSE 5>>, info)
AddressTaken(op, q) == op = "ADDR_OF" /\
    \E a \in {"m1", "object"}, out \in {"r1", "m3"}, info \in BOOLEAN :
        q = With(Node(op, Place(a, Class(8)), None, Place(out, PtrTo(8)), PtrTo(8)), <<0, 0>>, info)

Chains == {<<[off |-> 4, ptr |-> FALSE]>>,
           <<[off |-> 2, ptr |-> FALSE], [off |-> 3, ptr |-> FALSE]>>,
           <<[off |-> 4, ptr |-> TRUE], [off |-> 2, ptr |-> FALSE]>>}
Containers == {Place("r1", PtrTo(8)), Place("r3", PtrTo(8)), Place("m1", PtrTo(8)), Place("object", Class(8))}
OfMember(op, q) == op = "MEMBERS" /\
    \E ty \in Objects, a \in Containers, chain \in Chains, info \in BOOLEAN : \E out \in OutsOf(ty) :
        q = [With(Node(op, a, None, Place(out, ty), ty), <<Data, 0>>, info) EXCEPT !.members = chain]
ToMember(op, q) == op = "MEMBERS=" /\
    \E ty \in Objects, from \in Objects, a \in Containers, b \in {"r2", "m2"}, chain \in Chains,
       info \in BOOLEAN :
        /\ (ty.k = "class") = (from.k = "class")
        /\ q = [With(Node(op, a, Place(b, IF ty.k = "class" THEN PtrTo(3) ELSE from), Mem("", 0, ty), ty),
                     <<Data, IF ty.k = "class" THEN Pointed ELSE 5>>, info) EXCEPT !.members = chain]
AddressOfMember(op, q) == op = "MEMBERS_ADDR_OF" /\
    \E a \in Containers, chain \in Chains, out \in {"r1", "r2", "m3"}, info \in BOOLEAN :
        q = [With(Node(op, a, None, Place(out, PtrTo(1)), PtrTo(1)), <<Data, 0>>, info)
                EXCEPT !.members = chain]

OnTheStack(op, q) == op = "ARRAY_DECL" /\
    \E size \in {1, 2, 3, 4}, a \in {"r1", "r2", "m1"}, out \in {"r1", "r3", "m3"}, two \in BOOLEAN,
       info \in BOOLEAN :
        LET dim == Place(a, I32i)
        IN  q = [With(Node(op, dim, None, Place(out, PtrTo(size)), IntOf(size, TRUE)), <<3, 0>>, info)
                    EXCEPT !.dims = IF two THEN <<dim, dim>> ELSE <<dim>>]

Case(from, to, label) == [from |-> from, to |-> to, label |-> label]
Branch(op, q) == op = "COND_JUMP" /\
    \E ty \in Ints, a \in {"r1", "m1"}, v \in {0, 1, -1}, info \in BOOLEAN :
        q = With(Node(op, Place(a, ty), None, Place("m3", I32i), ty), <<v, 0>>, info)
Switch(op, q) == op = "JUMP_TAB" /\
    \E ty \in Ints, a \in {"r1", "r3", "m1"}, v \in -2 .. 4, info \in BOOLEAN,
       ranges \in {{Case(-1, 0, "case1"), Case(1, 1, "case2")}, {Case(0, 0, "case2"), Case(1, 1, "case1")},
                   {Case(1, 2, "case1"), Case(4, 4, "case2")}} :
        q = [With(Node(op, Place(a, ty), None, Place("m3", I32i), ty), <<v, 0>>, info)
                EXCEPT !.ranges = ranges]

Operators == Binops \cup Truths \cup
    {"NEG", "BNOT", "POS", "ASSIGN", "LNOT", "SIZEOF", "TYPECAST", "DERREF", "ASSIGN_FROM_PTR", "DERREF=",
     "ADDR_OF", "MEMBERS", "MEMBERS=", "MEMBERS_ADDR_OF", "ARRAY_DECL", "COND_JUMP", "JUMP_TAB"}
Chosen(op, q) ==
    \/ OfTwo(op, q)
    \/ WithLiteral(op, q)
    \/ OfOne(op, q)
    \/ Sizeof(op, q)
    \/ PointerAndInteger(op, q)
    \/ Distance(op, q)
    \/ Cast(op, q)
    \/ CastLiteral(op, q)
    \/ ThroughPointer(op, q)
    \/ ToPointer(op, q)
    \/ AddressTaken(op, q)
    \/ OfMember(op, q)
    \/ ToMember(op, q)
    \/ AddressOfMember(op, q)
    \/ OnTheStack(op, q)
    \/ Branch(op, q)
    \/ Switch(op, q)

-----------------------------------------------------------------------------
(* Where a node's meaning is not defined                                   *)
DefinedFor(q, x, y) ==
    CASE q.op \in {"DIV", "MOD"} ->
            IF y = 0 THEN FALSE ELSE q.a.ty.signed => SignedFits(Quotient(x, y), SizeOf(q.a))
      [] q.op \in {"LSHIFT", "RSHIFT"} -> y \in 0 .. 5
      [] q.op \notin {"DIV", "MOD", "LSHIFT", "RSHIFT"} -> TRUE
Defined(q) == DefinedFor(q, Meant(Before(q), q.a), Meant(Before(q), q.b))

(* Where IR2asm.c computes something else than what is meant.              *)
InMemory(q) == {x \in {q.a, q.b, q.out} : x.m = "mem"}
BytePushed(q) ==      \* popMode does not undo pushMode for a byte in memory
    /\ q.op \in {"MULT", "DIV", "MOD", "LSHIFT", "RSHIFT"} /\ q.a.ty.size = 1
    /\ InMemory(q) # {} /\ q.b.m # "imm"
NegativeDividend(q) == \* extended with zeros
    q.op \in {"DIV", "MOD"} /\ q.a.ty.size > 1 /\ q.a.ty.signed /\ Meant(Before(q), q.a) < 0
OperandLost(q) ==     \* written with the first operand before the second, in memory, is read
    /\ q.op \in {"ADD", "SUB", "BAND", "BOR", "BXOR", "MULT", "LXOR"}
    /\ q.out.m = "mem" /\ q.out.base = q.b.base /\ q.out.v = q.b.v
FlagsLost(q) ==       \* by popReg of the register a comparison borrowed
    q.op \in Comparisons /\ q.a.m = "mem" /\ q.b.m = "mem" /\ q.a.ty.size < 4 /\ ~q.info
OddDistance(q) == q.op = "SUB" /\ IsPtr(q.a) /\ IsPtr(q.b) /\ q.a.ty.item \notin {1, 2, 4, 8}
MemberAddressLost(q) == \* EAX has it when the value goes through EAX
    q.op = "MEMBERS=" /\ (IsClass(q.out) \/ q.b.ty.size < q.ty.size)
OutOfRegisters(q) ==  \* for the copy of a class between two pointers in registers
    q.op = "DERREF=" /\ IsClass(q.out) /\ {q.a.r, q.b.r} \subseteq {"EBX", "ECX", "EDX"}
ToBoolUnchecked(q) ==
    q.op = "TYPECAST" /\ q.out.ty.k = "bool" /\ (q.a.ty.k = "bool" \/ (q.a.m = "imm" /\ q.va \notin {0, 1}))
SwitchUnsigned(q) ==  \* the bounds are compared as signed integers
    /\ q.op = "JUMP_TAB"
    /\ \/ ~SignedFits(Largest(q), q.a.ty.size)
       \/ ~q.a.ty.signed /\ (Smallest(q) < 0 \/ ~SignedFits(Meant(Before(q), q.a), q.a.ty.size))
Deviates(q) ==
    \/ BytePushed(q)
    \/ NegativeDividend(q)
    \/ OperandLost(q)
    \/ FlagsLost(q)
    \/ OddDistance(q)
    \/ MemberAddressLost(q)
    \/ OutOfRegisters(q)
    \/ ToBoolUnchecked(q)
    \/ SwitchUnsigned(q)

LeftIn(there, q, before, after) ==
    /\ ~after.fault
    /\ ValueOf(after, there, SizeOf(there)) = Value(before, q) % Top(SizeOf(there))
Computes(q) == LeftIn(Destination(Before(q), q), q, Before(q), After(q))

(* What stays: the bytes of live registers that are not the destination,   *)
(* the stack's and the frame's pointer, and memory but for the destination *)
(* and what is below the stack                                             *)
KeptBytes(q) ==
    UNION {BytesOf(r) : r \in IF q.info THEN Live(q) ELSE Masters \ {"EAX"}}
        \ (IF q.out.m = "reg" THEN BytesOf(q.out.r) ELSE {})
ByteOf(m, b) == (m.reg[b[1]] \div Top(b[2])) % ByteValues
Written(m, there) ==
    IF there.m = "mem" THEN {(Address(m, there) + i) % Top(4) : i \in 0 .. there.ty.size - 1} ELSE {}
KeptButFor(written, q, before, after) ==
    after.fault
    \/ /\ \A b \in KeptBytes(q) : b[1] # "ESP" => ByteOf(after, b) = ByteOf(before, b)
       /\ after.reg["EBP"] = Frame
       /\ after.reg["ESP"] = IF q.op = "ARRAY_DECL" THEN Value(before, q) ELSE Stack
       /\ \A c \in Addresses \ ((Stack - 60) .. (Stack - 1)) :
              c \in written \/ after.mem[c] = before.mem[c]
Preserves(q) == KeptButFor(Written(Before(q), Destination(Before(q), q)), q, Before(q), After(q))
=============================================================================
