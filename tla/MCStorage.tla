----------------------------- MODULE MCStorage -----------------------------
(* Every expression of N nodes, with a type by the kind of its variable    *)
(* and three ways to vary it; registers of two families of i386.           *)
EXTENDS Storage

R(w, b) == [whole |-> w, bytes |-> b]
EAX == R("A", 0..3)
ECX == R("C", 0..3)
CX == R("C", 0..1)
CL == R("C", {0})
CH == R("C", {1})
EBX == R("B", 0..3)

MCRegFile == {EAX, ECX, CX, CL, CH, EBX}
MCReserved == {EAX}
MCPreserved == {EBX}

T(s, a, i) == [size |-> s, align |-> a, int |-> i]
Byte == T(1, 1, TRUE)
Word == T(4, 4, TRUE)
Flt == T(8, 8, FALSE)
Class == T(10, 8, FALSE)    \* class { F64 a; U8 b; }, object.c 409

(* a node without operands has a variable or is a call                     *)
Kinds(f) == {k \in [Node -> Kind] : \A n \in Node : f[n] = n => k[n] # "op"}

(* which integers are bytes: none, all, every other one                    *)
Mixes == {{}, Node, {n \in Node : n % 2 = 1}}
TypeOf(k, n, bytes) ==
    IF k[n] = "once" /\ n \notin bytes THEN Flt
    ELSE IF k[n] = "name" /\ n \notin bytes THEN Class
    ELSE IF n \in bytes THEN Byte ELSE Word

MCExprs ==
    {[first |-> f, kind |-> k, type |-> [n \in Node |-> TypeOf(k, n, b)]] :
        f \in Trees, k \in [Node -> Kind], b \in Mixes}
AllExprs == {e \in MCExprs : e.kind \in Kinds(e.first)}
=============================================================================
