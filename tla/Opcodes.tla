------------------------------ MODULE Opcodes -------------------------------
(***************************************************************************)
(* opcodesParser.c and OpCodes.txt: the templates of each instruction, in  *)
(* the order of the file, and which operands a template takes.  Templates  *)
(* of 8-byte operands, which take none in 32-bit mode, are left out, and   *)
(* so are those of segment registers and of absolute addresses.            *)
(***************************************************************************)
EXTENDS Machine

(* An argument: its kind, its size and whether the instruction changes it  *)
R(s, changed) == [a |-> "R", s |-> s, r |-> "", changed |-> changed]
RM(s, changed) == [a |-> "RM", s |-> s, r |-> "", changed |-> changed]
IMM(s) == [a |-> "IMM", s |-> s, r |-> "", changed |-> FALSE]
The(r, changed) == [a |-> "REG", s |-> SizeOfReg(r), r |-> r, changed |-> changed]

Arithmetic(changed) ==
    << <<The("AL", changed), IMM(1)>>, <<The("AX", changed), IMM(2)>>, <<The("EAX", changed), IMM(4)>>,
       <<RM(1, changed), IMM(1)>>, <<RM(2, changed), IMM(1)>>, <<RM(4, changed), IMM(1)>>,
       <<RM(2, changed), IMM(2)>>, <<RM(4, changed), IMM(4)>>,
       <<R(1, changed), RM(1, FALSE)>>, <<R(2, changed), RM(2, FALSE)>>, <<R(4, changed), RM(4, FALSE)>>,
       <<RM(1, changed), R(1, FALSE)>>, <<RM(2, changed), R(2, FALSE)>>, <<RM(4, changed), R(4, FALSE)>> >>

Moves ==
    << <<R(1, TRUE), RM(1, FALSE)>>, <<R(2, TRUE), RM(2, FALSE)>>, <<R(4, TRUE), RM(4, FALSE)>>,
       <<RM(1, TRUE), R(1, FALSE)>>, <<RM(2, TRUE), R(2, FALSE)>>, <<RM(4, TRUE), R(4, FALSE)>>,
       <<R(1, TRUE), IMM(1)>>, <<R(2, TRUE), IMM(2)>>, <<R(4, TRUE), IMM(4)>>,
       <<RM(1, TRUE), IMM(1)>>, <<RM(2, TRUE), IMM(2)>>, <<RM(4, TRUE), IMM(4)>> >>

Shifts ==
    << <<RM(1, TRUE), The("CL", FALSE)>>, <<RM(2, TRUE), The("CL", FALSE)>>, <<RM(4, TRUE), The("CL", FALSE)>>,
       <<RM(1, TRUE), IMM(1)>>, <<RM(2, TRUE), IMM(1)>>, <<RM(4, TRUE), IMM(1)>> >>

Unary == << <<RM(1, TRUE)>>, <<RM(2, TRUE)>>, <<RM(4, TRUE)>> >>
Addressed == << <<R(2, TRUE), RM(2, FALSE)>>, <<R(4, TRUE), RM(4, FALSE)>> >>
Widening == << <<R(2, TRUE), RM(1, FALSE)>>, <<R(4, TRUE), RM(1, FALSE)>>, <<R(4, TRUE), RM(2, FALSE)>> >>

Named == {"ADD", "SUB", "AND", "OR", "XOR", "CMP", "MOV", "SAL", "SHL", "SAR", "SHR", "NEG", "NOT",
          "MUL", "IMUL", "DIV", "IDIV", "IMUL2", "LEA", "MOVSX", "MOVZX", "PUSH", "POP", "XCHG", "JMP"} \cup Sets

X86OpcodesByName == [name \in Named |->
    CASE name \in {"ADD", "SUB", "AND", "OR", "XOR"} -> Arithmetic(TRUE)
      [] name = "CMP" -> Arithmetic(FALSE)
      [] name = "MOV" -> Moves
      [] name \in {"SAL", "SHL", "SAR", "SHR"} -> Shifts
      [] name \in {"NEG", "NOT", "MUL", "IMUL", "DIV", "IDIV"} -> Unary
      [] name \in {"IMUL2", "LEA"} -> Addressed
      [] name \in {"MOVSX", "MOVZX"} -> Widening
      [] name \in Sets -> << <<RM(1, TRUE)>> >>
      [] name = "PUSH" -> << <<IMM(1)>>, <<R(2, FALSE)>>, <<R(4, FALSE)>>, <<RM(2, FALSE)>>, <<RM(4, FALSE)>> >>
      [] name = "POP" -> << <<R(2, FALSE)>>, <<R(4, FALSE)>>, <<RM(2, FALSE)>>, <<RM(4, FALSE)>> >>
      [] name = "XCHG" -> << <<R(4, TRUE), The("EAX", TRUE)>>, <<R(4, TRUE), RM(4, TRUE)>>,
                             <<RM(4, TRUE), R(4, TRUE)>> >>
      [] name = "JMP" -> << <<RM(4, FALSE)>> >>]

(* Every immediate fits every size: sizeMatchSigned says so of each        *)
sizeMatch(x, s) == x.m = "imm" \/ SizeOf(x) = s

opcodeTemplateArgAcceptsAddrMode(arg, x) ==
    /\ CASE arg.a = "R" -> x.m = "reg"
         [] arg.a = "RM" -> x.m \in {"reg", "mem"}
         [] arg.a = "REG" -> x.m = "reg" /\ x.r = arg.r
         [] arg.a = "IMM" -> x.m = "imm"
    /\ sizeMatch(x, arg.s)

Takes(template, args) ==
    /\ Len(template) = Len(args)
    /\ \A i \in DOMAIN args : opcodeTemplateArgAcceptsAddrMode(template[i], args[i])

X86OpcodeByArgs(name, args) ==
    \E i \in DOMAIN X86OpcodesByName[name] : Takes(X86OpcodesByName[name][i], args)
=============================================================================
