------------------------------ MODULE Machine -------------------------------
(***************************************************************************)
(* The part of a 32-bit x86 that IR2asm.c writes instructions for, scaled  *)
(* down so that every value can be looked at: a byte holds ByteValues      *)
(* values, and a register, like a pointer, has four bytes.  The registers, *)
(* which of them are part of which, and the instructions as the manual of  *)
(* the processor gives them.                                               *)
(***************************************************************************)
EXTENDS Integers, Sequences, Bitwise

ByteValues == 4
Top(s) == ByteValues ^ s          \* the values of s bytes are 0..Top(s)-1
Addresses == 0 .. Top(4) - 1

(* Each register: the one it is a part of, its first byte there, its size  *)
Part == [
    EAX |-> <<"EAX", 0, 4>>, AX |-> <<"EAX", 0, 2>>, AL |-> <<"EAX", 0, 1>>, AH |-> <<"EAX", 1, 1>>,
    EBX |-> <<"EBX", 0, 4>>, BX |-> <<"EBX", 0, 2>>, BL |-> <<"EBX", 0, 1>>, BH |-> <<"EBX", 1, 1>>,
    ECX |-> <<"ECX", 0, 4>>, CX |-> <<"ECX", 0, 2>>, CL |-> <<"ECX", 0, 1>>, CH |-> <<"ECX", 1, 1>>,
    EDX |-> <<"EDX", 0, 4>>, DX |-> <<"EDX", 0, 2>>, DL |-> <<"EDX", 0, 1>>, DH |-> <<"EDX", 1, 1>>,
    ESI |-> <<"ESI", 0, 4>>, SI |-> <<"ESI", 0, 2>>, EDI |-> <<"EDI", 0, 4>>, DI |-> <<"EDI", 0, 2>>,
    EBP |-> <<"EBP", 0, 4>>, BP |-> <<"EBP", 0, 2>>, ESP |-> <<"ESP", 0, 4>>, SP |-> <<"ESP", 0, 2>> ]
Registers == DOMAIN Part
Masters == {Part[r][1] : r \in Registers}
SizeOfReg(r) == Part[r][3]
BytesAt(p) == {<<p[1], p[2] + i>> : i \in 0 .. p[3] - 1}
BytesOf(r) == BytesAt(Part[r])
Overlapping == {p \in Registers \X Registers : BytesOf(p[1]) \cap BytesOf(p[2]) # {}}
Conflict(a, b) == <<a, b>> \in Overlapping

-----------------------------------------------------------------------------
(* Types of objects, of which the size, the sign and what is pointed to    *)
(* matter; and the addressing modes of operands.                           *)

IntOf(size, signed) == [k |-> "int", size |-> size, signed |-> signed, item |-> 0]
PtrTo(item) == [k |-> "ptr", size |-> 4, signed |-> FALSE, item |-> item]
Class(size) == [k |-> "class", size |-> size, signed |-> FALSE, item |-> 0]
Bool == [k |-> "bool", size |-> 1, signed |-> FALSE, item |-> 0]

Reg(r, ty) == [m |-> "reg", r |-> r, v |-> 0, base |-> "", index |-> "", scale |-> 1, ty |-> ty]
Imm(v) == [m |-> "imm", r |-> "", v |-> v, base |-> "", index |-> "", scale |-> 1, ty |-> IntOf(4, TRUE)]
Indexed(base, index, scale, off, ty) ==
    [m |-> "mem", r |-> "", v |-> off, base |-> base, index |-> index, scale |-> scale, ty |-> ty]
Mem(base, off, ty) == Indexed(base, "", 1, off, ty)

SizeOf(x) == IF x.m = "reg" THEN SizeOfReg(x.r) ELSE x.ty.size

-----------------------------------------------------------------------------
(* A machine: registers, memory, what the last comparison compared (<<>>   *)
(* when other results are in the flags), and whether it has faulted.       *)

RegOf(m, r) == (m.reg[Part[r][1]] \div Top(Part[r][2])) % Top(Part[r][3])

Address(m, x) ==
    ((IF x.base = "" THEN 0 ELSE m.reg[x.base])
     + (IF x.index = "" THEN 0 ELSE m.reg[x.index] * x.scale) + x.v) % Top(4)

Cell(m, a, i) == m.mem[(a + i) % Top(4)]
Load(m, a, s) ==
    CASE s = 1 -> Cell(m, a, 0)
      [] s = 2 -> Cell(m, a, 0) + ByteValues * Cell(m, a, 1)
      [] s = 3 -> Cell(m, a, 0) + ByteValues * Cell(m, a, 1) + Top(2) * Cell(m, a, 2)
      [] s = 4 -> Cell(m, a, 0) + ByteValues * Cell(m, a, 1)
                  + Top(2) * Cell(m, a, 2) + Top(3) * Cell(m, a, 3)

(* The value of an operand in s bytes                                      *)
ValueOf(m, x, s) ==
    CASE x.m = "reg" -> RegOf(m, x.r) % Top(s)
      [] x.m = "imm" -> x.v % Top(s)
      [] x.m = "mem" -> Load(m, Address(m, x), s)

Byte(v, i) == (v \div Top(i)) % ByteValues
Store(m, a, s, v) ==
    CASE s = 1 -> [m EXCEPT !.mem[a] = Byte(v, 0)]
      [] s = 2 -> [m EXCEPT !.mem[a] = Byte(v, 0), !.mem[(a + 1) % Top(4)] = Byte(v, 1)]
      [] s = 4 -> [m EXCEPT !.mem[a] = Byte(v, 0), !.mem[(a + 1) % Top(4)] = Byte(v, 1),
                            !.mem[(a + 2) % Top(4)] = Byte(v, 2), !.mem[(a + 3) % Top(4)] = Byte(v, 3)]

Put(m, x, v) ==
    IF x.m = "mem" THEN Store(m, Address(m, x), x.ty.size, v)
    ELSE [m EXCEPT !.reg[Part[x.r][1]] =
            @ + ((v % Top(SizeOfReg(x.r))) - RegOf(m, x.r)) * Top(Part[x.r][2])]

Signed(v, s) == IF v < Top(s) \div 2 THEN v ELSE v - Top(s)
Abs(v) == IF v < 0 THEN -v ELSE v
Quotient(a, b) == IF (a < 0) = (b < 0) THEN Abs(a) \div Abs(b) ELSE -(Abs(a) \div Abs(b))
SignedFits(v, s) == v \in -(Top(s) \div 2) .. (Top(s) \div 2) - 1

-----------------------------------------------------------------------------
(* Instructions                                                            *)

Inst(op, args) == [how |-> "given", op |-> op, args |-> args, to |-> ""]
Jump(op, l) == [how |-> "given", op |-> op, args |-> <<>>, to |-> l]
Label(l) == [how |-> "given", op |-> "LABEL", args |-> <<>>, to |-> l]

Arith(op, x, y, s) ==
    CASE op = "ADD" -> x + y
      [] op = "SUB" -> x - y
      [] op = "AND" -> x & y
      [] op = "OR" -> x | y
      [] op = "XOR" -> x ^^ y
      [] op = "IMUL2" -> Signed(x, s) * Signed(y, s)
      [] op \in {"SAL", "SHL"} -> x * 2 ^ y
      [] op = "SHR" -> x \div 2 ^ y
      [] op = "SAR" -> Signed(x, s) \div 2 ^ y

Holds(cond, f) ==
    CASE cond = "E" -> f.x = f.y
      [] cond = "NE" -> f.x # f.y
      [] cond = "A" -> f.x > f.y
      [] cond = "AE" -> f.x >= f.y
      [] cond = "B" -> f.x < f.y
      [] cond = "BE" -> f.x <= f.y
      [] cond = "G" -> Signed(f.x, f.s) > Signed(f.y, f.s)
      [] cond = "GE" -> Signed(f.x, f.s) >= Signed(f.y, f.s)
      [] cond = "L" -> Signed(f.x, f.s) < Signed(f.y, f.s)
      [] cond = "LE" -> Signed(f.x, f.s) <= Signed(f.y, f.s)

CondOf(op) ==
    CASE op \in {"JE", "SETE"} -> "E"
      [] op \in {"JNE", "SETNE"} -> "NE"
      [] op \in {"JA", "SETA"} -> "A"
      [] op \in {"JAE", "SETAE"} -> "AE"
      [] op \in {"JB", "SETB"} -> "B"
      [] op \in {"JBE", "SETBE"} -> "BE"
      [] op \in {"JG", "SETG"} -> "G"
      [] op \in {"JGE", "SETGE"} -> "GE"
      [] op \in {"JL", "SETL"} -> "L"
      [] op \in {"JLE", "SETLE"} -> "LE"

Sets == {"SETE", "SETNE", "SETA", "SETAE", "SETB", "SETBE", "SETG", "SETGE", "SETL", "SETLE"}
Jumps == {"JE", "JNE", "JA", "JAE", "JB", "JBE", "JG", "JGE", "JL", "JLE"}

Spoil(m) == [m EXCEPT !.flags = <<>>]
Fault(m) == [m EXCEPT !.fault = TRUE]

(* The low and the high half of the products and dividends of s bytes      *)
LowHalf(s) == Reg(CASE s = 1 -> "AL" [] s = 2 -> "AX" [] s = 4 -> "EAX", IntOf(s, FALSE))
HighHalf(s) == Reg(CASE s = 1 -> "AH" [] s = 2 -> "DX" [] s = 4 -> "EDX", IntOf(s, FALSE))
PutWide(m, s, v) == Put(Put(m, LowHalf(s), v % Top(s)), HighHalf(s), (v \div Top(s)) % Top(s))
Wide(m, s) == ValueOf(m, LowHalf(s), s) + Top(s) * ValueOf(m, HighHalf(s), s)

Multiply(m, op, x, s) ==
    LET a == ValueOf(m, LowHalf(s), s)
        b == ValueOf(m, x, s)
        p == IF op = "MUL" THEN a * b ELSE Signed(a, s) * Signed(b, s)
    IN  Spoil(PutWide(m, s, p % Top(2 * s)))

Halves(m, s, q, r, fits) ==
    IF fits THEN Spoil(Put(Put(m, LowHalf(s), q % Top(s)), HighHalf(s), r % Top(s))) ELSE Fault(m)
DivideSigned(m, s, d, b) == Halves(m, s, Quotient(d, b), d - b * Quotient(d, b), SignedFits(Quotient(d, b), s))
DivideBy(m, op, s, d, b) ==
    IF b = 0 THEN Fault(m)
    ELSE IF op = "DIV" THEN Halves(m, s, d \div b, d % b, d \div b < Top(s))
    ELSE DivideSigned(m, s, Signed(d, 2 * s), Signed(b, s))
Divide(m, op, x, s) == DivideBy(m, op, s, Wide(m, s), ValueOf(m, x, s))

Push(m, x) ==
    LET s == IF x.m = "imm" THEN 4 ELSE SizeOf(x)
        v == ValueOf(m, x, s)
        esp == (m.reg["ESP"] - s) % Top(4)
    IN  Store([m EXCEPT !.reg["ESP"] = esp], esp, s, v)

Pop(m, x) ==
    LET esp == m.reg["ESP"]
    IN  Put([m EXCEPT !.reg["ESP"] = (esp + SizeOf(x)) % Top(4)], x, Load(m, esp, SizeOf(x)))

CopyBytes(m) ==
    [m EXCEPT !.mem = [c \in Addresses |->
                IF (c - m.reg["EDI"]) % Top(4) < m.reg["ECX"]
                THEN m.mem[(m.reg["ESI"] + (c - m.reg["EDI"])) % Top(4)] ELSE m.mem[c]],
              !.reg["ESI"] = (@ + m.reg["ECX"]) % Top(4),
              !.reg["EDI"] = (@ + m.reg["ECX"]) % Top(4),
              !.reg["ECX"] = 0]

Execute(m, i) ==
    LET x == i.args[1]
        y == i.args[2]
        s == SizeOf(x)
    IN  CASE i.op = "MOV" -> Put(m, x, ValueOf(m, y, s))
          [] i.op \in {"ADD", "SUB", "AND", "OR", "XOR", "IMUL2"} ->
                Spoil(Put(m, x, Arith(i.op, ValueOf(m, x, s), ValueOf(m, y, s), s) % Top(s)))
          [] i.op \in {"SAL", "SHL", "SHR", "SAR"} ->
                Spoil(Put(m, x, Arith(i.op, ValueOf(m, x, s), ValueOf(m, y, 1), s) % Top(s)))
          [] i.op = "NEG" -> Spoil(Put(m, x, (0 - ValueOf(m, x, s)) % Top(s)))
          [] i.op = "NOT" -> Put(m, x, Top(s) - 1 - ValueOf(m, x, s))
          [] i.op = "CMP" ->
                [m EXCEPT !.flags = <<[x |-> ValueOf(m, x, s), y |-> ValueOf(m, y, s), s |-> s]>>]
          [] i.op \in Sets ->
                IF m.flags = <<>> THEN Fault(m)
                ELSE Put(m, x, IF Holds(CondOf(i.op), m.flags[1]) THEN 1 ELSE 0)
          [] i.op = "MOVSX" -> Put(m, x, Signed(ValueOf(m, y, SizeOf(y)), SizeOf(y)) % Top(s))
          [] i.op = "MOVZX" -> Put(m, x, ValueOf(m, y, SizeOf(y)))
          [] i.op = "LEA" -> Put(m, x, Address(m, y))
          [] i.op \in {"MUL", "IMUL"} -> Multiply(m, i.op, x, s)
          [] i.op \in {"DIV", "IDIV"} -> Divide(m, i.op, x, s)
          [] i.op = "PUSH" -> Push(m, x)
          [] i.op = "POP" -> Pop(m, x)
          [] i.op = "XCHG" -> Put(Put(m, x, ValueOf(m, y, s)), y, ValueOf(m, x, s))
          [] i.op = "REP MOVSB" -> CopyBytes(m)
          [] i.op = "LABEL" -> m
          [] i.op = "ASSERT" -> Fault(m)

(* Where labels are, for addresses of code kept in memory                  *)
Places == [dft |-> 1, case1 |-> 2, case2 |-> 3]

LineOf(code, l) == CHOOSE i \in DOMAIN code : code[i].op = "LABEL" /\ code[i].to = l

Taken(m, i) == IF i.op \in Jumps THEN Holds(CondOf(i.op), m.flags[1]) ELSE TRUE
Popped(m) == [m EXCEPT !.reg["ESP"] = (@ + 4) % Top(4)]

RECURSIVE Run(_, _, _)
Run(m, code, pc) ==
    IF m.fault \/ pc > Len(code) THEN m
    ELSE LET i == code[pc]
         IN  CASE i.op \in Jumps /\ m.flags = <<>> -> Fault(m)
               [] i.op \in Jumps \cup {"JMP"} /\ (m.flags # <<>> \/ i.op = "JMP") ->
                    Run(m, code, IF Taken(m, i) THEN LineOf(code, i.to) ELSE pc + 1)
               [] i.op = "RET" ->
                    LET there == {l \in DOMAIN Places : Places[l] = Load(m, m.reg["ESP"], 4)}
                    IN  IF there = {} THEN Fault(m)
                        ELSE Run(Popped(m), code, LineOf(code, CHOOSE l \in there : TRUE))
               [] i.op \notin Jumps \cup {"JMP", "RET"} -> Run(Execute(m, i), code, pc + 1)
=============================================================================
