------------------------------ MODULE Storage ------------------------------
(***************************************************************************)
(* Where the values of an expression are kept (IRCompile, IR2asm.c         *)
(* 1696-1801): IRRegisterAllocate gives temporaries registers,             *)
(* findRegisterLiveness and the i386 calling sequence choose which of them *)
(* a call saves, and IRComputeFrameLayout gives the rest places in the     *)
(* frame.  Each of the three walks the expression (Interference) first.    *)
(*                                                                         *)
(* Abstractions.  `rand()` and the addresses lists are sorted by are any   *)
(* choice.  color2Reg puts the free registers beside all that are there,   *)
(* so the one it picks is any.  Named variables, globals, and those whose  *)
(* address is taken lose their register before conflicts are looked for,   *)
(* so they are given none.  F64 on the x87 stack is left out: such a       *)
(* temporary is one that lives in the frame.  The colouring is any that    *)
(* keeps what GraphColoring promises.                                      *)
(***************************************************************************)
EXTENDS Interference, FiniteSetsExt

CONSTANTS
    Exprs,      \* [first, kind, type] records
    RegFile,    \* registers, [whole, bytes]
    Scratch,    \* EAX
    Reserved,   \* registers never given to a variable
    Preserved,  \* registers a function gives back as they were
    LONG_MAX    \* where the frame ends

Kind == {"op", "call", "temp", "once", "name"}
(* op: no variable; call: a function is called; temp: a temporary; once,   *)
(* name: a named variable that occurs once, and more than once             *)

(* the registers that hold all of S                                        *)
Holding(S) ==
    {r \in RegFile : \A q \in S : q.whole = r.whole /\ q.bytes \subseteq r.bytes}

ASSUME ExprAssumption ==
    \A e \in Exprs :
        /\ e.first \in Trees
        /\ e.kind \in [Node -> Kind]
        /\ \A n \in Node :
              /\ e.type[n].size \in Nat /\ e.type[n].align \in Nat \ {0}
              /\ e.type[n].int \in BOOLEAN

(* Registers of one family have a smallest that holds them all, and one    *)
(* that is preserved is the whole of its family (registers.c 225-253).     *)
ASSUME RegAssumption ==
    /\ \A r \in RegFile : r.bytes \in SUBSET Nat /\ r.bytes # {}
    /\ \A S \in SUBSET RegFile :
          S # {} /\ (\A q, r \in S : q.whole = r.whole) =>
              \E r \in Holding(S) : \A q \in Holding(S) : r.bytes \subseteq q.bytes
    /\ Scratch \in RegFile
    /\ Reserved \subseteq RegFile /\ Preserved \subseteq RegFile
    /\ \A p \in Preserved, r \in RegFile :
          r.whole = p.whole => r.bytes \subseteq p.bytes

ASSUME FrameAssumption == LONG_MAX \in Nat

VARIABLES
    kind, type, \* of the nodes
    phase,      \* the pass that runs
    reg,        \* the register of a node's variable, NoReg for none
    scanned,    \* nodes whose conflicts have been removed
    saved,      \* the registers a call pushes and pops
    slots,      \* places to be: [vars, size, align]
    regions,    \* the calls of pack that are open, innermost first
    order,      \* places, in the order they were given an offset
    frameSize

expression == <<first, kind, type>>
frame == <<slots, regions, order, frameSize>>
vars == <<expression, walk, phase, reg, scanned, saved, frame>>

NoReg == [whole |-> "none", bytes |-> {}]

Values == {n \in Node : kind[n] \in {"temp", "once"}}
Temps == {n \in Node : kind[n] = "temp" /\ type[n].int}
InReg == {n \in Node : reg[n] # NoReg}

Init ==
    /\ \E e \in Exprs : first = e.first /\ kind = e.kind /\ type = e.type
    /\ InitWalk
    /\ phase = "start"
    /\ reg = [n \in Node |-> NoReg]
    /\ scanned = {}
    /\ saved = [n \in Node |-> {}]
    /\ slots = {} /\ regions = <<>> /\ order = <<>> /\ frameSize = 0

Begin ==
    /\ phase = "start"
    /\ phase' = "regs"
    /\ StartWalk(Values)
    /\ UNCHANGED <<expression, reg, scanned, saved, frame>>

Walk ==
    /\ Visit
    /\ UNCHANGED <<kind, type, phase, reg, scanned, saved, frame>>
-----------------------------------------------------------------------------
(* Registers                                                               *)

BugOverlap(a, b) == a = b       \* mutant: CL is not part of ECX
Overlap(a, b) == a.whole = b.whole /\ a.bytes \cap b.bytes # {}

RegsFor(t) == {r \in RegFile \ Reserved : Cardinality(r.bytes) = t.size}

Choose ==
    /\ phase = "regs" /\ at > N
    /\ \E r \in [Temps -> RegFile] :
          /\ \A n \in Temps : r[n] \in RegsFor(type[n])
          /\ reg' = [n \in Node |-> IF n \in Temps THEN r[n] ELSE NoReg]
    /\ phase' = "spill"
    /\ UNCHANGED <<expression, walk, scanned, saved, frame>>

Adj(n) == {m \in Node : m # n /\ {n, m} \in edges}

(* the one that interferes with more loses its register, else the other    *)
Spilled(n, m) == IF Cardinality(Adj(n)) > Cardinality(Adj(m)) THEN n ELSE m

Spill ==
    /\ phase = "spill"
    /\ \E n \in tracked \ scanned : \E m \in Adj(n) :
          /\ Overlap(reg[n], reg[m])
          /\ reg' = [reg EXCEPT ![Spilled(n, m)] = NoReg]
    /\ UNCHANGED <<expression, walk, phase, scanned, saved, frame>>

Clean(n) == \A m \in Adj(n) : ~Overlap(reg[n], reg[m])

Scan ==
    /\ phase = "spill"
    /\ \E n \in tracked \ scanned : Clean(n) /\ scanned' = scanned \cup {n}
    /\ UNCHANGED <<expression, walk, phase, reg, saved, frame>>

(* the second walk: a register is a variable of its own for it             *)
StartABI ==
    /\ phase = "spill" /\ tracked \subseteq scanned
    /\ phase' = "abi"
    /\ StartWalk(Values)
    /\ UNCHANGED <<expression, reg, scanned, saved, frame>>

(* the smallest register that holds all of S                               *)
Containing(S) ==
    CHOOSE r \in Holding(S) : \A q \in Holding(S) : r.bytes \subseteq q.bytes

Merged(S) == {Containing({r \in S : r.whole = q.whole}) : q \in S}

BugPushed(live) ==              \* mutant: EAX and what it overlaps, no more
    {r \in Merged(live \cup {Scratch}) : Overlap(r, Scratch)}
Pushed(live) ==
    {r \in Merged(live \cup {Scratch}) : \A p \in Preserved : ~Overlap(r, p)}

(* what each call pushes; the third walk sees the variables left in memory *)
StartFrame ==
    /\ phase = "abi" /\ at > N
    /\ saved' = [c \in Node |->
          IF kind[c] = "call" THEN Pushed({reg[v] : v \in liveIn[c] \cap InReg})
          ELSE {}]
    /\ phase' = "frame"
    /\ StartWalk(Values \ InReg)
    /\ UNCHANGED <<expression, reg, scanned, frame>>
-----------------------------------------------------------------------------
(* The frame                                                               *)

InMemory == {n \in Node : kind[n] \in {"temp", "once", "name"}} \ InReg

(* graphs[0] and all that is reached from it                               *)
Component(n) ==
    CHOOSE S \in SUBSET tracked :
        /\ n \in S /\ \A m \in S : Adj(m) \subseteq S
        /\ \A R \in SUBSET S :
              n \in R /\ (\A m \in R : Adj(m) \subseteq R) => R = S

Colorings(C) ==
    {col \in [C -> 1..Cardinality(C)] :
        \A n \in C : /\ col[n] <= Cardinality(Adj(n)) + 1
                     /\ \A m \in Adj(n) : col[n] # col[m]}

(* recolorSoNoConflict: the first colour below the highest of the          *)
(* neighbours that none of them has, else the one above it                 *)
BugNewColor(col, n) ==          \* mutant: the highest itself
    LET used == {col[m] : m \in Adj(n)}
    IN  IF used = {} THEN 0 ELSE Min((0..Max(used)) \ (used \ {Max(used)}))
NewColor(col, n) ==
    LET used == {col[m] : m \in Adj(n)}
    IN  IF used = {} THEN 0 ELSE Min((0..(Max(used) + 1)) \ used)

(* nodes are given new colours one after the other, s in turn              *)
Recolored(col, s) ==
    LET step[i \in 0..Len(s)] ==
            IF i = 0 THEN col
            ELSE [step[i - 1] EXCEPT ![s[i]] = NewColor(step[i - 1], s[i])]
    IN  step[Len(s)]

Slot(S) ==
    [vars |-> S, size |-> Max({type[n].size : n \in S}),
     align |-> Max({type[n].align : n \in S})]

(* the variables of one colour share a slot                                *)
SlotsOf(C, col) ==
    {Slot({n \in C : col[n] = c}) : c \in Range(col)}
      \cup {Slot({n}) : n \in InMemory \ C}

Open(base, end) == [base |-> base, end |-> end]

Layout ==
    /\ phase = "frame" /\ at > N
    /\ \/ tracked = {} /\ slots' = {Slot({n}) : n \in InMemory}
       \/ \E n \in tracked : \E col \in Colorings(Component(n)) :
             \E s \in [1..Cardinality(Component(n)) -> Component(n)] :
                /\ Range(s) = Component(n)
                /\ slots' = SlotsOf(Component(n), Recolored(col, s))
    /\ regions' = <<Open(0, LONG_MAX)>>
    /\ phase' = "pack"
    /\ UNCHANGED <<expression, walk, reg, scanned, saved, order, frameSize>>

Pad(s) == s.size % s.align

(* one call of pack: the largest slot goes after its padding, then what is *)
(* in front of it is filled, then what is behind; one that does not fit    *)
(* closes the region                                                       *)
Pack ==
    /\ phase = "pack" /\ slots # {} /\ regions # <<>>
    /\ LET r == Head(regions)
       IN  \E s \in slots :
             LET begin == r.base + Pad(s)
                 end == begin + s.size
             IN  /\ \A t \in slots : t.size <= s.size
                 /\ IF end <= r.end
                    THEN /\ order' = Append(order,
                              [vars |-> s.vars, size |-> s.size, offset |-> begin])
                         /\ slots' = slots \ {s}
                         /\ regions' = <<Open(r.base, begin), Open(end, r.end)>>
                                         \o Tail(regions)
                    ELSE regions' = Tail(regions) /\ UNCHANGED <<slots, order>>
    /\ UNCHANGED <<expression, walk, phase, reg, scanned, saved, frameSize>>

End(o) == o.offset + o.size

SizeOf == IF order = <<>> THEN 0 ELSE End(order[Len(order)])

Finish ==
    /\ phase = "pack" /\ slots = {}
    /\ frameSize' = SizeOf
    /\ phase' = "done"
    /\ UNCHANGED <<expression, walk, reg, scanned, saved, slots, regions, order>>

Next ==
    \/ Begin \/ Walk \/ Choose \/ Spill \/ Scan
    \/ StartABI \/ StartFrame \/ Layout \/ Pack \/ Finish

Spec == Init /\ [][Next]_vars
-----------------------------------------------------------------------------
(* Properties                                                              *)

(* Every variable holds a value of its kind; a stack is never longer than  *)
(* the nodes finished, and only a temporary has a register, one of its     *)
(* size that may be given away.                                            *)
TypeOK ==
    /\ tracked \subseteq Node /\ at \in 1..(N + 1)
    /\ stack \in Seq(tracked)
    /\ size \in [0..N -> Nat] /\ \A k \in 0..N : size[k] <= k
    /\ edges \subseteq PairsOf(Node)
    /\ liveIn \in [Node -> SUBSET Node]
    /\ phase \in {"start", "regs", "spill", "abi", "frame", "pack", "done"}
    /\ \A n \in Node : reg[n] # NoReg => n \in Temps /\ reg[n] \in RegsFor(type[n])
    /\ scanned \subseteq Values
    /\ saved \in [Node -> SUBSET RegFile]
    /\ frameSize \in Nat

(* regAllocator.c 530-545: once the conflicts are removed, two values that *)
(* interfere share no byte of a register.                                  *)
NoRegisterClash ==
    phase \notin {"start", "regs", "spill"} =>
        \A v, w \in Values :
            v # w /\ (\E k \in Node : {v, w} \subseteq Held(first, Values, k)) =>
                reg[v].whole # reg[w].whole \/ reg[v].bytes \cap reg[w].bytes = {}

Place(n) == CHOOSE o \in Range(order) : n \in o.vars

(* frameLayout.c 72-96, 147-213: two values that are both still to be read *)
(* at some node have no byte of the frame in common, however the registers *)
(* fell and the colours were merged, and a variable that occurs more than  *)
(* once shares its bytes with none.                                        *)
PlacesApart ==
    phase = "done" =>
        \A v, w \in InMemory :
            /\ v # w
            /\ \/ kind[v] = "name"
               \/ \E k \in Node : {v, w} \subseteq Held(first, Values, k)
            => \/ Place(v).offset + Place(v).size <= Place(w).offset
               \/ Place(w).offset + Place(w).size <= Place(v).offset

(* abi.c 134-184, 248-263: a value in a register that was computed before  *)
(* a call's arguments, and is read after it, is pushed or is in one the    *)
(* function called preserves.                                              *)
CallsKeepLive ==
    phase \in {"frame", "pack", "done"} =>
        \A c, v \in Node :
            /\ kind[c] = "call" /\ reg[v] # NoReg
            /\ v < first[c] /\ v \in Held(first, Values, c)
            => \E r \in saved[c] \cup Preserved :
                  r.whole = reg[v].whole /\ reg[v].bytes \subseteq r.bytes

(* "all names variables exist on the stack frame" (HolyCC developers'       *)
(* manual 436-438): every variable of the frame lies within the size       *)
(* reserved for it (frameLayout.c 246-252, abi.c 629-640).                 *)
FrameCovers == phase = "done" => \A o \in Range(order) : End(o) <= frameSize
=============================================================================
