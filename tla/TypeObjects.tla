---------------------------- MODULE TypeObjects -----------------------------
(***************************************************************************)
(* The type objects of object.c and the registry that names them.  A type  *)
(* is its place in the heap c.heap; a name in c.reg is the type it stands  *)
(* for now.  A forward declaration gives way to what is created under its  *)
(* name, and so do the pointers and arrays of it; types that were handed   *)
(* out before go on meaning the old objects.                               *)
(***************************************************************************)
EXTENDS Integers, Sequences, SequencesExt, FiniteSets

PtrSize == 4
Widths == [U0 |-> 0, Bool |-> 1, U8i |-> 1, U16i |-> 2, U32i |-> 4, U64i |-> 8,
           I8i |-> 1, I16i |-> 2, I32i |-> 4, I64i |-> 8, F64 |-> 8]
Primitives == <<"Bool", "U0", "U8i", "U16i", "U32i", "U64i", "I8i", "I16i", "I32i", "I64i", "F64">>

(* The dimension of an array that has none, and one that is no literal     *)
Open == -1
Variable == -2

Obj(type) == [type |-> type, key |-> <<>>, name |-> "", kind |-> "", of |-> 0, dim |-> Open,
              members |-> <<>>, size |-> 0, align |-> 0, args |-> <<>>]
NamedKey(x) == <<"name", x>>

InitObjectRegistry ==
    [heap |-> [i \in DOMAIN Primitives |-> [Obj(Primitives[i]) EXCEPT !.key = NamedKey(Primitives[i])]],
     reg |-> [k \in {NamedKey(x) : x \in Range(Primitives)} |->
                 CHOOSE i \in DOMAIN Primitives : NamedKey(Primitives[i]) = k],
     errors |-> {}, stopped |-> FALSE, vars |-> <<>>]

Stop(c) == [c EXCEPT !.stopped = TRUE]     \* a division by zero, a null pointer, an assert
ErrorIf(bad, c, what) == IF bad THEN [c EXCEPT !.errors = @ \cup {what}] ELSE c

ObjectByName(c, x) == IF NamedKey(x) \in DOMAIN c.reg THEN c.reg[NamedKey(x)] ELSE 0

RECURSIVE ObjectIsReplacable(_, _), ObjectBaseType(_, _), ObjectAlign(_, _), ObjectSize(_, _),
          ObjectEqual(_, _, _)

ObjectIsReplacable(c, id) ==
    LET o == c.heap[id] IN
    \/ o.type = "FORWARD"
    \/ o.type \in {"ARRAY", "PTR"} /\ ObjectIsReplacable(c, o.of)

BugObjectBaseType(c, id) == \* mutant: a forward declaration stays one
    IF c.heap[id].of # 0 /\ c.heap[id].type = "UNION" THEN c.heap[id].of ELSE id
ObjectBaseType(c, id) ==
    LET o == c.heap[id] IN
    CASE o.type \in {"CLASS", "UNION"} /\ o.of # 0 -> ObjectBaseType(c, o.of)
      [] o.type = "FORWARD" /\ c.heap[ObjectByName(c, o.name)].type # "FORWARD" ->
             ObjectByName(c, o.name)
      [] OTHER -> id

(* All arrays of a type with no dimension have one name                    *)
KeyOf(c, id) ==
    LET o == c.heap[id] IN
    CASE o.type = "PTR" -> <<"ptr", c.heap[o.of].key>>
      [] o.type = "ARRAY" /\ o.dim # Variable -> <<"arr", c.heap[o.of].key, o.dim>>
      [] o.type \in {"FORWARD", "CLASS", "UNION"} /\ o.name # "" -> NamedKey(o.name)
      [] OTHER -> <<"id", id>>

With(f, k, v) == [x \in DOMAIN f \cup {k} |-> IF x = k THEN v ELSE f[x]]

(* hashObject of a new object: what is replaced gets a name of its own     *)
HashObject(c, id) ==
    LET Renamed(key, found, kept) ==
            [c |-> [c EXCEPT !.heap[id].key = key,
                             !.reg = IF kept THEN @
                                     ELSE With(IF found THEN With(@, <<"$_", @[key]>>, @[key]) ELSE @,
                                               key, id)],
             exists |-> kept]
        Found(key, found) == Renamed(key, found, found /\ ~ObjectIsReplacable(c, c.reg[key]))
        Of(key) == Found(key, key \in DOMAIN c.reg)
    IN  Of(KeyOf(c, id))

(* A new object; what its name then stands for                             *)
Create(c, o) ==
    LET id == Len(c.heap) + 1
        Hashed(h) ==
            [c |-> h.c, type |-> h.c.reg[h.c.heap[id].key], own |-> id, exists |-> h.exists]
    IN  Hashed(HashObject([c EXCEPT !.heap = Append(@, o)], id))

ObjectPtrCreate(c, base) == Create(c, [Obj("PTR") EXCEPT !.of = base])
ObjectArrayCreate(c, base, dim) == Create(c, [Obj("ARRAY") EXCEPT !.of = base, !.dim = dim])
ObjectFuncCreate(c, ret, args) == Create(c, [Obj("FUNCTION") EXCEPT !.of = ret, !.args = args])
ObjectForwardDeclarationCreate(c, name, kind) ==
    Create(c, [Obj("FORWARD") EXCEPT !.name = name, !.kind = kind])

ObjectAlign(c, id) ==
    LET o == c.heap[id] IN
    CASE o.type = "ARRAY" -> ObjectAlign(c, o.of)
      [] o.type \in {"PTR", "FUNCTION"} -> PtrSize
      [] o.type = "FORWARD" -> 0
      [] o.type \in {"CLASS", "UNION"} -> o.size
      [] OTHER -> Widths[o.type]

(* The size of a member: only there are arrays more than a pointer         *)
ObjectSize(c, id) ==
    LET o == c.heap[id] IN
    CASE o.type = "ARRAY" -> o.dim * ObjectSize(c, o.of)
      [] o.type \in {"PTR", "FUNCTION"} -> PtrSize
      [] o.type = "FORWARD" -> 0
      [] o.type \in {"CLASS", "UNION"} -> o.size
      [] OTHER -> Widths[o.type]

RECURSIVE Sized(_, _)
Sized(c, id) == \* objectSize returns: no forward declaration, no open array
    LET o == c.heap[id] IN
    o.type # "FORWARD" /\ (o.type = "ARRAY" => o.dim >= 0 /\ Sized(c, o.of))

Largest(S) == IF S = {} THEN 0 ELSE CHOOSE x \in S : \A y \in S : y <= x

(* The padding is the remainder itself, not what is missing to a multiple  *)
Pad(n, align) == n + (n % align)

(* members: a sequence of [name, type]                                     *)
ObjectClassCreate(c, name, members) ==
    LET Align(m) == ObjectAlign(c, m.type)
        align == Largest({Align(m) : m \in Range(members)})
        ok == members # <<>> /\ \A m \in Range(members) : Align(m) # 0 /\ Sized(c, m.type)
        At(a, m, at) ==
            [end |-> at + ObjectSize(c, m.type),
             placed |-> Append(a.placed, [name |-> m.name, type |-> m.type, offset |-> at])]
        Place(a, m) == At(a, m, Pad(a.end, Align(m)))
        New(new) == [c |-> ErrorIf(new.exists, new.c, "exists"), type |-> new.own]
        Of(all) ==
            New(Create(c, [Obj("CLASS") EXCEPT !.name = name, !.align = align, !.members = all.placed,
                                               !.size = Pad(all.end, align)]))
    IN  IF ok THEN Of(FoldLeft(Place, [end |-> 0, placed |-> <<>>], members))
        ELSE [c |-> Stop(c), type |-> 0]

ObjectUnionCreate(c, name, members, base) ==
    LET Align(m) == ObjectAlign(c, m.type)
        align == IF base # 0 THEN ObjectAlign(c, base) ELSE Largest({Align(m) : m \in Range(members)})
        ok == IF base # 0 THEN Sized(c, base)
              ELSE align # 0 /\ \A m \in Range(members) : Sized(c, m.type)
        size == IF base # 0 THEN ObjectSize(c, base)
                ELSE Pad(Largest({ObjectSize(c, m.type) : m \in Range(members)}), align)
        placed == [i \in DOMAIN members |->
                      [name |-> members[i].name, type |-> members[i].type, offset |-> 0]]
        New(new) == [c |-> ErrorIf(new.exists, new.c, "exists"), type |-> new.own]
    IN  IF ok THEN New(Create(c, [Obj("UNION") EXCEPT !.name = name, !.align = align, !.of = base,
                                                      !.members = placed, !.size = size]))
        ELSE [c |-> Stop(c), type |-> 0]

(* Functions are told apart by their first argument and how many they have,*)
(* arrays by their own dimension                                           *)
ObjectEqual(c, a, b) ==
    LET Seen(id) == IF c.heap[id].type = "FORWARD" THEN ObjectBaseType(c, id) ELSE id
        x == c.heap[Seen(a)]
        y == c.heap[Seen(b)]
    IN  \/ a = b
        \/ /\ x.type = y.type
           /\ CASE x.type = "PTR" -> ObjectEqual(c, ObjectBaseType(c, x.of), ObjectBaseType(c, y.of))
                [] x.type \in {"CLASS", "UNION"} -> Seen(a) = Seen(b)
                [] x.type = "FUNCTION" ->
                       /\ Len(x.args) = Len(y.args)
                       /\ x.args # <<>> => ObjectEqual(c, x.args[1], y.args[1])
                [] x.type = "ARRAY" -> x.dim >= 0 /\ x.dim = y.dim
                [] OTHER -> TRUE
=============================================================================
