-------------------------- MODULE ExceptionsProofs --------------------------
(***************************************************************************)
(* For every number of calls and try statements, nested or not, and every  *)
(* way in and out of their blocks: frames and control are numbered in the  *)
(* order they were opened in (TypeOK); the frames are those of the open    *)
(* try statements until control strays (FramesAreOpenTries); leaving       *)
(* blocks costs no open one its frame (FramesKept); and the one entered    *)
(* last catches what is thrown in its body (LastEnteredCatches).           *)
(***************************************************************************)
EXTENDS Exceptions, NumberFacts, SequenceTheorems

Frames == Range(curExceptFrame)

Rising(s) == \A i, j \in 1..Len(s) : i < j => s[i].id < s[j].id
Below(s, n) == \A i \in 1..Len(s) : s[i].id < n
Falling(l) == \A i, j \in DOMAIN l : i < j => l[i].id > l[j].id

(* A frame has the number of a try statement, up to n, and what it goes    *)
(* back to was opened before, in order.                                    *)
WellMade(f, n) ==
    /\ f \in Frame /\ f.id <= n
    /\ Rising(f.control) /\ Below(f.control, f.id)

Ordered ==
    /\ control \in Seq(Open) /\ Rising(control) /\ Below(control, opened + 1)
    /\ opened \in Nat /\ entered \in 0..opened
    /\ curExceptFrame \in Seq(Frame) /\ Falling(curExceptFrame)
    /\ \A f \in Frames : WellMade(f, entered)
    /\ tmpExcept \in Frame \cup {None}
    /\ curExceptFrame # <<>> => WellMade(tmpExcept, entered)
    /\ fate \in {"runs", "aborted", "segfault", "lost"}
    /\ strays \subseteq Ways

(* Each try statement of s has its frame on the list.                      *)
AllSaved(s) == \A i \in 1..Len(s) : IsTry(s[i]) => Saved(s, i) \in Frames

Kept ==
    /\ AllSaved(control)
    /\ \A f \in Frames : AllSaved(f.control)
    /\ fate # "segfault"
    /\ fate = "aborted" => \A i \in 1..Len(control) : ~IsTry(control[i])

(* Each frame on the list is that of an open try statement.                *)
Matched == \A f \in Frames : \E i \in 1..Len(control) :
              IsTry(control[i]) /\ f = Saved(control, i)

IInv ==
    /\ Ordered
    /\ strays \subseteq {"out"} => Kept
    /\ strays = {} => Matched

-----------------------------------------------------------------------------
(* Sequences of what is open, and of frames                                *)

(* What is open has a kind and a number.                                   *)
LEMMA OpenFacts ==
    ASSUME NEW o \in Open
    PROVE  o.kind \in {"call", "try"} /\ o.id \in Nat
BY DEF Open

(* A call is none of a try statement, and each is something open.          *)
LEMMA Kinds ==
    ASSUME NEW n \in Nat, NEW b \in {"body", "catch"}
    PROVE  /\ Call(n) \in Open /\ ~IsTry(Call(n)) /\ Call(n).id = n
           /\ Try(n, b) \in Open /\ IsTry(Try(n, b)) /\ Try(n, b).id = n
BY DEF Call, Try, Open, IsTry

(* A frame has a number and a control to go back to.                       *)
LEMMA FrameFacts ==
    ASSUME NEW f \in Frame
    PROVE  /\ f.id \in Nat /\ f.control \in Seq(Open)
           /\ f = [id |-> f.id, control |-> f.control]
BY DEF Frame

(* What is saved is a frame.                                               *)
LEMMA SavedFrame ==
    ASSUME NEW s \in Seq(Open), NEW i \in 1..Len(s)
    PROVE  /\ Saved(s, i) \in Frame
           /\ Saved(s, i).id = s[i].id /\ Saved(s, i).control = SubSeq(s, 1, i - 1)
<1>1. s[i] \in Open /\ s[i].id \in Nat
  BY OpenFacts
<1>2. SubSeq(s, 1, i - 1) \in Seq(Open)
  OBVIOUS
<1> QED BY <1>1, <1>2 DEF Saved, Frame

(* The first n members of a sequence, and what they saved.                 *)
LEMMA Cut ==
    ASSUME NEW s \in Seq(Open), NEW n \in 0..Len(s)
    PROVE  /\ SubSeq(s, 1, n) \in Seq(Open)
           /\ Len(SubSeq(s, 1, n)) = n
           /\ \A i \in 1..n : SubSeq(s, 1, n)[i] = s[i]
           /\ \A i \in 1..n : Saved(SubSeq(s, 1, n), i) = Saved(s, i)
<1>1. /\ SubSeq(s, 1, n) \in Seq(Open) /\ Len(SubSeq(s, 1, n)) = n
      /\ \A i \in 1..n : SubSeq(s, 1, n)[i] = s[i]
  OBVIOUS
<1>2. ASSUME NEW i \in 1..n
      PROVE  SubSeq(SubSeq(s, 1, n), 1, i - 1) = SubSeq(s, 1, i - 1)
  <2> DEFINE c == SubSeq(s, 1, n)
             a == SubSeq(c, 1, i - 1)
             b == SubSeq(s, 1, i - 1)
  <2>1. i \in Nat /\ i - 1 \in 0..Len(s) /\ i - 1 \in 0..n
    OBVIOUS
  <2>2. b \in Seq(Open) /\ Len(b) = i - 1 /\ \A j \in 1..(i - 1) : b[j] = s[j]
    BY <2>1
  <2>3. c \in Seq(Open) /\ Len(c) = n /\ \A j \in 1..(i - 1) : c[j] = s[j]
    BY <1>1, <2>1
  <2> HIDE DEF c
  <2>4. a \in Seq(Open) /\ Len(a) = i - 1 /\ \A j \in 1..(i - 1) : a[j] = c[j]
    BY <2>1, <2>3
  <2> HIDE DEF a, b
  <2>5. a = b
    BY <2>1, <2>2, <2>3, <2>4, SeqEqual
  <2> QED BY <2>5 DEF a, b, c
<1> QED BY <1>1, <1>2 DEF Saved

(* One more that is open, and what they saved.                             *)
LEMMA Add ==
    ASSUME NEW s \in Seq(Open), NEW o \in Open
    PROVE  /\ Append(s, o) \in Seq(Open)
           /\ Len(Append(s, o)) = Len(s) + 1
           /\ Append(s, o)[Len(s) + 1] = o
           /\ \A i \in 1..Len(s) : Append(s, o)[i] = s[i]
           /\ \A i \in 1..Len(s) : Saved(Append(s, o), i) = Saved(s, i)
           /\ Saved(Append(s, o), Len(s) + 1) = [id |-> o.id, control |-> s]
<1> DEFINE t == Append(s, o)
<1>1. /\ t \in Seq(Open) /\ Len(t) = Len(s) + 1 /\ t[Len(s) + 1] = o
      /\ \A i \in 1..Len(s) : t[i] = s[i]
  OBVIOUS
<1> HIDE DEF t
<1>2. SubSeq(t, 1, Len(s)) = s
  <2>1. /\ SubSeq(t, 1, Len(s)) \in Seq(Open) /\ Len(SubSeq(t, 1, Len(s))) = Len(s)
        /\ \A i \in 1..Len(s) : SubSeq(t, 1, Len(s))[i] = s[i]
    BY <1>1, Cut
  <2> QED BY <2>1, SeqEqual
<1>3. \A i \in 1..Len(s) : Saved(t, i) = Saved(s, i)
  <2>1. Len(s) \in 0..Len(t)
    BY <1>1
  <2> QED BY <1>1, <1>2, <2>1, Cut
<1>4. Saved(t, Len(s) + 1) = [id |-> o.id, control |-> s]
  BY <1>1, <1>2 DEF Saved
<1> QED BY <1>1, <1>3, <1>4 DEF t

(* Range and order of a list of frames, by its places.                     *)
LEMMA ListFacts ==
    ASSUME NEW l \in Seq(Frame)
    PROVE  /\ \A i \in 1..Len(l) : l[i] \in Range(l) /\ l[i].id \in Nat
           /\ \A g \in Range(l) : g \in Frame /\ \E i \in 1..Len(l) : g = l[i]
           /\ Falling(l) <=> \A i, j \in 1..Len(l) : i < j => l[j].id < l[i].id
<1>1. DOMAIN l = 1..Len(l) /\ \A i \in 1..Len(l) : l[i] \in Frame
  OBVIOUS
<1>2. \A i \in 1..Len(l) : l[i] \in Range(l) /\ l[i].id \in Nat
  BY <1>1, FrameFacts DEF Range
<1>3. \A g \in Range(l) : g \in Frame /\ \E i \in 1..Len(l) : g = l[i]
  BY <1>1, Zenon DEF Range
<1>4. Falling(l) <=> \A i, j \in 1..Len(l) : i < j => l[i].id > l[j].id
  BY <1>1 DEF Falling
<1>5. \A i, j \in 1..Len(l) : l[i].id > l[j].id <=> l[j].id < l[i].id
  BY <1>2
<1> QED BY <1>2, <1>3, <1>4, <1>5

(* A frame put on the list, and the first one taken off.                   *)
LEMMA PushFacts ==
    ASSUME NEW l \in Seq(Frame), NEW f \in Frame, Falling(l),
           \A g \in Range(l) : g.id < f.id
    PROVE  /\ Pushed(l, f) \in Seq(Frame) /\ Pushed(l, f) # <<>>
           /\ Range(Pushed(l, f)) = Range(l) \cup {f}
           /\ Falling(Pushed(l, f))
<1> DEFINE p == Pushed(l, f)
<1>1. /\ p \in Seq(Frame) /\ Len(p) = Len(l) + 1 /\ p[1] = f
      /\ \A i \in 2..Len(p) : i - 1 \in 1..Len(l) /\ p[i] = l[i - 1]
      /\ \A i \in 1..Len(l) : i + 1 \in 1..Len(p) /\ p[i + 1] = l[i]
      /\ 1 \in 1..Len(p) /\ p # <<>>
  BY DEF Pushed
<1> HIDE DEF p
<1>2. Range(p) = Range(l) \cup {f}
  <2>1. ASSUME NEW g \in Range(p) PROVE g \in Range(l) \cup {f}
    <3>1. PICK i \in 1..Len(p) : g = p[i]
      BY <1>1, ListFacts
    <3>2. i = 1 \/ i \in 2..Len(p)
      OBVIOUS
    <3> QED BY <1>1, <3>1, <3>2, ListFacts
  <2>2. ASSUME NEW g \in Range(l) PROVE g \in Range(p)
    <3>1. PICK i \in 1..Len(l) : g = l[i]
      BY ListFacts
    <3> QED BY <1>1, <3>1, ListFacts
  <2>3. f \in Range(p)
    BY <1>1, ListFacts
  <2> QED BY <2>1, <2>2, <2>3
<1>3. ASSUME NEW i \in 1..Len(p), NEW j \in 1..Len(p), i < j PROVE p[j].id < p[i].id
  <2>1. j - 1 \in 1..Len(l) /\ p[j] = l[j - 1]
    <3>1. j \in 2..Len(p)
      BY <1>3
    <3> QED BY <1>1, <3>1
  <2>2. CASE i = 1
    BY <1>1, <2>1, <2>2, ListFacts
  <2>3. CASE i # 1
    <3>1. i \in 2..Len(p) /\ i - 1 < j - 1
      BY <1>3, <2>3
    <3>2. i - 1 \in 1..Len(l) /\ p[i] = l[i - 1]
      BY <1>1, <3>1
    <3> QED BY <2>1, <3>1, <3>2, ListFacts
  <2> QED BY <2>2, <2>3
<1>4. Falling(p)
  BY <1>1, <1>3, ListFacts
<1> QED BY <1>1, <1>2, <1>4 DEF p

(* The frame taken off is the one with the greatest number.                *)
LEMMA PopFacts ==
    ASSUME NEW l \in Seq(Frame), l # <<>>, Falling(l)
    PROVE  /\ Popped(l) \in Seq(Frame) /\ Head(l) \in Range(l) /\ Head(l) \in Frame
           /\ Range(Popped(l)) \subseteq Range(l)
           /\ \A g \in Range(l) : g.id <= Head(l).id
           /\ \A g \in Range(l) : g \in Range(Popped(l)) <=> g.id # Head(l).id
           /\ Falling(Popped(l))
<1> DEFINE p == Popped(l)
<1>1. /\ p \in Seq(Frame) /\ Len(p) = Len(l) - 1 /\ Len(l) \in Nat \ {0}
      /\ \A i \in 1..Len(p) : i + 1 \in 2..Len(l) /\ p[i] = l[i + 1]
      /\ \A i \in 2..Len(l) : i - 1 \in 1..Len(p) /\ l[i] = p[i - 1]
      /\ Head(l) = l[1] /\ l[1] \in Frame /\ 1 \in 1..Len(l)
  BY DEF Popped
<1> HIDE DEF p
<1>2. \A i \in 1..Len(l) : l[i].id \in Nat /\ l[i] \in Range(l)
  BY ListFacts
<1>3. ASSUME NEW i \in 2..Len(l) PROVE i \in 1..Len(l) /\ l[i].id < l[1].id
  <2>1. i \in 1..Len(l) /\ 1 < i
    OBVIOUS
  <2> QED BY <1>1, <2>1, ListFacts
<1>4. ASSUME NEW g \in Range(p) PROVE \E i \in 2..Len(l) : g = l[i]
  <2>1. PICK i \in 1..Len(p) : g = p[i]
    BY <1>1, ListFacts
  <2> QED BY <1>1, <2>1
<1>5. ASSUME NEW g \in Range(l)
      PROVE  g.id <= Head(l).id /\ (g \in Range(p) <=> g.id # Head(l).id)
  <2>1. PICK i \in 1..Len(l) : g = l[i]
    BY ListFacts
  <2>2. CASE i = 1
    <3>1. \A j \in 2..Len(l) : g # l[j]
      BY <1>2, <1>3, <2>1, <2>2
    <3>2. g \notin Range(p)
      BY <1>4, <3>1
    <3> QED BY <1>1, <1>2, <2>1, <2>2, <3>2
  <2>3. CASE i # 1
    <3>1. i \in 2..Len(l)
      BY <2>3
    <3>2. g \in Range(p)
      BY <1>1, <2>1, <3>1, ListFacts
    <3>3. l[i].id < l[1].id /\ l[i].id \in Nat /\ l[1].id \in Nat
      BY <1>1, <1>2, <1>3, <3>1
    <3> QED BY <1>1, <2>1, <3>2, <3>3
  <2> QED BY <2>2, <2>3
<1>6. ASSUME NEW i \in 1..Len(p), NEW j \in 1..Len(p), i < j PROVE p[j].id < p[i].id
  <2>1. i + 1 \in 1..Len(l) /\ j + 1 \in 1..Len(l) /\ i + 1 < j + 1
    BY <1>1, <1>6
  <2>2. l[j + 1].id < l[i + 1].id
    BY <2>1, ListFacts
  <2> QED BY <1>1, <2>2
<1>7. Falling(p)
  BY <1>1, <1>6, ListFacts
<1>8. Head(l) \in Range(l) /\ Range(p) \subseteq Range(l)
  BY <1>1, <1>2, <1>3, <1>4
<1> QED BY <1>1, <1>5, <1>7, <1>8 DEF p

(* What is opened later has a greater number, and what is cut is ordered.  *)
LEMMA AddOrder ==
    ASSUME NEW s \in Seq(Open), NEW o \in Open, NEW n \in Nat,
           Rising(s), Below(s, o.id), o.id < n
    PROVE  Rising(Append(s, o)) /\ Below(Append(s, o), n)
<1> DEFINE t == Append(s, o)
<1>1. /\ Len(t) = Len(s) + 1 /\ t[Len(s) + 1] = o
      /\ \A i \in 1..Len(s) : t[i] = s[i]
  BY Add
<1>2. \A i \in 1..Len(s) : s[i].id \in Nat
  BY OpenFacts
<1> HIDE DEF t
<1>3. \A i \in 1..Len(t) : i \in 1..Len(s) \/ i = Len(s) + 1
  BY <1>1
<1>4. Below(t, n)
  BY <1>1, <1>2, <1>3, OpenFacts DEF Below
<1>5. ASSUME NEW i \in 1..Len(t), NEW j \in 1..Len(t), i < j PROVE t[i].id < t[j].id
  <2>1. i \in 1..Len(s)
    BY <1>1, <1>5
  <2> QED BY <1>1, <1>3, <1>5, <2>1 DEF Rising, Below
<1> QED BY <1>4, <1>5 DEF t, Rising

(* The first n members are ordered as the whole is.                        *)
LEMMA CutOrder ==
    ASSUME NEW s \in Seq(Open), NEW n \in 0..Len(s), NEW m, Rising(s), Below(s, m)
    PROVE  Rising(SubSeq(s, 1, n)) /\ Below(SubSeq(s, 1, n), m)
<1> DEFINE t == SubSeq(s, 1, n)
<1>1. Len(t) = n /\ \A i \in 1..n : i \in 1..Len(s) /\ t[i] = s[i]
  BY Cut
<1> HIDE DEF t
<1> QED BY <1>1 DEF t, Rising, Below

-----------------------------------------------------------------------------
(* One step                                                                *)

(* At first nothing is open and no frame is saved.                         *)
LEMMA InitIInv == Init => IInv
<1> SUFFICES ASSUME Init PROVE IInv
  OBVIOUS
<1>1. control = <<>> /\ curExceptFrame = <<>> /\ Len(control) = 0 /\ Frames = {}
  BY DEF Init, Frames, Range
<1>2. control \in Seq(Open) /\ curExceptFrame \in Seq(Frame) /\ 1..0 = {}
  BY <1>1
<1>3. Falling(curExceptFrame)
  BY <1>1 DEF Falling
<1>4. Rising(control) /\ Below(control, opened + 1) /\ AllSaved(control)
  BY <1>1, <1>2 DEF Rising, Below, AllSaved
<1>5. Ordered
  BY <1>1, <1>2, <1>3, <1>4 DEF Init, Ordered
<1>6. Kept /\ Matched
  BY <1>1, <1>2, <1>4 DEF Init, Kept, Matched
<1> QED BY <1>5, <1>6 DEF IInv

(* A call leaves the try statements as they are.                           *)
LEMMA EnterFunctionIInv == IInv /\ EnterFunction => IInv'
<1> SUFFICES ASSUME IInv, EnterFunction PROVE IInv'
  OBVIOUS
<1>1. Ordered
  BY DEF IInv
<1>2. /\ opened' = opened + 1 /\ opened' \in Nat /\ control' = Append(control, Call(opened'))
      /\ UNCHANGED <<entered, curExceptFrame, tmpExcept, fate, strays>>
      /\ fate = "runs"
  BY <1>1 DEF EnterFunction, Opens, Ordered
<1>3. PICK o \in Open : control' = Append(control, o) /\ ~IsTry(o) /\ o.id = opened'
  BY <1>2, Kinds
<1>4. /\ control' \in Seq(Open) /\ Len(control') = Len(control) + 1
      /\ \A i \in 1..Len(control) : control'[i] = control[i]
      /\ \A i \in 1..Len(control) : Saved(control', i) = Saved(control, i)
      /\ control'[Len(control) + 1] = o
  <2>1. control \in Seq(Open)
    BY <1>1 DEF Ordered
  <2> QED BY <1>3, <2>1, Add
<1>5. \A i \in 1..Len(control') : IsTry(control'[i]) => i \in 1..Len(control) /\ IsTry(control[i])
  BY <1>3, <1>4
<1>6. Rising(control') /\ Below(control', opened' + 1)
  BY <1>1, <1>2, <1>3, AddOrder DEF Ordered
<1>7. Frames' = Frames
  BY <1>2 DEF Frames
<1>8. Ordered'
  BY <1>1, <1>2, <1>4, <1>6, <1>7 DEF Ordered, WellMade
<1>9. ASSUME Kept PROVE Kept'
  BY <1>2, <1>4, <1>5, <1>7, <1>9 DEF Kept, AllSaved
<1>10. ASSUME Matched PROVE Matched'
  <2>1. \A i \in 1..Len(control) : i \in 1..Len(control')
    BY <1>4
  <2> QED BY <1>4, <1>7, <1>10, <2>1 DEF Matched
<1> QED BY <1>2, <1>8, <1>9, <1>10 DEF IInv

(* The entry of a try statement saves its frame.                           *)
LEMMA EnterTryIInv == IInv /\ EnterTry => IInv'
<1> SUFFICES ASSUME IInv, EnterTry PROVE IInv'
  OBVIOUS
<1> DEFINE o == Try(opened', "body")
<1>0. PICK f : f = tmpExcept'
  OBVIOUS
<1>1. Ordered
  BY DEF IInv
<1>2. /\ opened' = opened + 1 /\ opened' \in Nat /\ entered' = opened'
      /\ control' = Append(control, o) /\ UNCHANGED <<fate, strays>>
      /\ f = [id |-> opened', control |-> control]
      /\ curExceptFrame' = Pushed(curExceptFrame, f) /\ fate = "runs"
  BY <1>0, <1>1 DEF EnterTry, Opens, Ordered
<1>3. o \in Open /\ IsTry(o) /\ o.id = opened'
  BY <1>2, Kinds
<1>4. f \in Frame /\ f.id = opened' /\ f.control = control
  BY <1>1, <1>2 DEF Frame, Ordered
<1> HIDE DEF o
<1>5. /\ control' \in Seq(Open) /\ Len(control') = Len(control) + 1
      /\ \A i \in 1..Len(control) : control'[i] = control[i]
      /\ \A i \in 1..Len(control) : Saved(control', i) = Saved(control, i)
      /\ control'[Len(control) + 1] = o
      /\ Saved(control', Len(control) + 1) = f
  BY <1>1, <1>2, <1>3, Add DEF Ordered
<1>6. Rising(control') /\ Below(control', opened' + 1) /\ Rising(control) /\ Below(control, opened')
  BY <1>1, <1>2, <1>3, AddOrder DEF Ordered
<1>7. \A g \in Frames : g \in Frame /\ g.id \in Nat /\ g.id < f.id /\ g.id <= entered'
  BY <1>1, <1>2, <1>4, FrameFacts DEF Ordered, WellMade
<1>8. /\ curExceptFrame' \in Seq(Frame) /\ curExceptFrame' # <<>>
      /\ Frames' = Frames \cup {f} /\ Falling(curExceptFrame')
  <2>1. curExceptFrame \in Seq(Frame) /\ Falling(curExceptFrame)
        /\ \A g \in Range(curExceptFrame) : g.id < f.id
    BY <1>1, <1>7 DEF Ordered, Frames
  <2> QED BY <1>2, <1>4, <2>1, PushFacts DEF Frames
<1>9. WellMade(f, entered') /\ \A g \in Frames : WellMade(g, entered')
  <2>1. WellMade(f, entered')
    BY <1>2, <1>4, <1>6 DEF WellMade
  <2>2. \A g \in Frames : WellMade(g, entered')
    BY <1>1, <1>7 DEF Ordered, WellMade
  <2> QED BY <2>1, <2>2
<1>10. Ordered'
  <2>1. \A g \in Frames' : WellMade(g, entered')
    BY <1>8, <1>9
  <2>2. entered' \in 0..opened' /\ tmpExcept' \in Frame \cup {None} /\ WellMade(tmpExcept', entered')
    BY <1>0, <1>1, <1>2, <1>4, <1>9 DEF Ordered
  <2> QED BY <1>1, <1>2, <1>5, <1>6, <1>8, <2>1, <2>2 DEF Ordered
<1>11. \A i \in 1..Len(control') : i \in 1..Len(control) \/ i = Len(control) + 1
  BY <1>5
<1>12. ASSUME Kept PROVE Kept'
  <2>1. AllSaved(control)'
    BY <1>5, <1>8, <1>11, <1>12 DEF Kept, AllSaved
  <2>2. \A g \in Frames' : AllSaved(g.control)'
    BY <1>4, <1>8, <1>12 DEF Kept, AllSaved
  <2> QED BY <1>2, <2>1, <2>2 DEF Kept
<1>13. ASSUME Matched PROVE Matched'
  <2>1. \A i \in 1..Len(control) : i \in 1..Len(control')
    BY <1>5
  <2>2. Len(control) + 1 \in 1..Len(control')
    BY <1>1, <1>5 DEF Ordered
  <2> QED BY <1>3, <1>5, <1>8, <1>13, <2>1, <2>2 DEF Matched
<1> QED BY <1>2, <1>10, <1>12, <1>13 DEF IInv

(* The end of a block drops the first frame, which is that of its try      *)
(* statement as long as open ones have theirs.                             *)
LEMMA LeaveTryIInv == IInv /\ LeaveTry => IInv'
<1> SUFFICES ASSUME IInv, LeaveTry PROVE IInv'
  OBVIOUS
<1>1. Ordered
  BY DEF IInv
<1>0. PICK n \in Nat : n = Len(control)
  BY <1>1 DEF Ordered
<1>00. PICK h : h = Head(curExceptFrame)
  OBVIOUS
<1>2. n \in 1..n /\ IsTry(control[n]) /\ UNCHANGED <<opened, entered, strays>> /\ fate = "runs"
  BY <1>0, <1>1 DEF LeaveTry, Last, Ordered
<1>3. ASSUME Kept PROVE curExceptFrame # <<>>
  BY <1>0, <1>2, <1>3 DEF Kept, AllSaved, Frames, Range
<1>4. CASE curExceptFrame = <<>>
  <2>1. UNCHANGED <<control, opened, entered, curExceptFrame, tmpExcept, strays>>
        /\ fate' = "segfault"
    BY <1>4 DEF LeaveTry
  <2>2. Ordered'
    BY <1>1, <2>1 DEF Ordered, WellMade, Frames
  <2> QED BY <1>3, <1>4, <2>1, <2>2 DEF IInv
<1>5. CASE curExceptFrame # <<>>
  <2>1. /\ control' = SubSeq(control, 1, n - 1) /\ tmpExcept' = h
        /\ curExceptFrame' = Popped(curExceptFrame) /\ fate' = fate
    BY <1>0, <1>00, <1>5 DEF LeaveTry, Front
  <2>2. n - 1 \in 0..n /\ n \in Nat
    BY <1>2
  <2>3. /\ control' \in Seq(Open) /\ Len(control') = n - 1
        /\ \A i \in 1..(n - 1) : control'[i] = control[i]
        /\ \A i \in 1..(n - 1) : Saved(control', i) = Saved(control, i)
        /\ Rising(control') /\ Below(control', opened + 1)
    BY <1>0, <1>1, <2>1, <2>2, Cut, CutOrder DEF Ordered
  <2>4. /\ curExceptFrame' \in Seq(Frame) /\ Falling(curExceptFrame')
        /\ h \in Frames /\ Frames' \subseteq Frames
        /\ \A g \in Frames : g.id <= h.id
        /\ \A g \in Frames : g \in Frames' <=> g.id # h.id
    BY <1>00, <1>1, <1>5, <2>1, PopFacts DEF Ordered, Frames
  <2>5. \A g \in Frames : /\ g \in Frame /\ g.id \in Nat /\ g.id <= entered
                          /\ g.control \in Seq(Open) /\ Below(g.control, g.id)
    BY <1>1, FrameFacts DEF Ordered, WellMade
  <2>6. /\ \A i \in 1..n : control[i].id \in Nat
        /\ \A i \in 1..n : Saved(control, i).id = control[i].id
        /\ \A i \in 1..(n - 1) : i \in 1..n /\ control[i].id < control[n].id
    <3>1. \A i \in 1..n : control[i].id \in Nat
      BY <1>0, <1>1, OpenFacts DEF Ordered
    <3>2. \A i \in 1..n : Saved(control, i).id = control[i].id
      BY <1>0, <1>1, SavedFrame DEF Ordered
    <3>3. \A i \in 1..(n - 1) : i \in 1..n /\ i < n
      BY <1>2
    <3>4. \A i \in 1..(n - 1) : control[i].id < control[n].id
      BY <1>0, <1>1, <1>2, <3>3 DEF Ordered, Rising
    <3> QED BY <3>1, <3>2, <3>3, <3>4
  <2>7. Ordered'
    <3>1. \A g \in Frames' : WellMade(g, entered')
      BY <1>1, <1>2, <2>4 DEF Ordered
    <3>2. tmpExcept' \in Frame /\ WellMade(tmpExcept', entered')
      BY <1>1, <1>2, <2>1, <2>4, <2>5 DEF Ordered
    <3> QED BY <1>1, <1>2, <2>1, <2>3, <2>4, <3>1, <3>2 DEF Ordered
  <2>8. ASSUME Kept PROVE Kept'
    <3>1. Saved(control, n) \in Frames /\ control[n].id <= h.id
      <4>1. Saved(control, n) \in Frames
        BY <1>0, <1>2, <2>8 DEF Kept, AllSaved
      <4>2. Saved(control, n).id <= h.id
        BY <2>4, <4>1
      <4>3. Saved(control, n).id = control[n].id
        BY <1>2, <2>6
      <4> QED BY <4>1, <4>2, <4>3
    <3>2. ASSUME NEW i \in 1..(n - 1), IsTry(control[i]) PROVE Saved(control, i) \in Frames'
      <4>1. i \in 1..n /\ i # n
        BY <2>2
      <4>2. Saved(control, i) \in Frames
        BY <1>0, <2>8, <3>2, <4>1 DEF Kept, AllSaved
      <4>3. Saved(control, i).id = control[i].id /\ control[i].id < control[n].id
        BY <2>6, <4>1
      <4>4. control[i].id \in Nat /\ control[n].id \in Nat /\ h.id \in Nat
        BY <1>2, <2>4, <2>5, <2>6, <4>1
      <4>5. Saved(control, i).id # h.id
        BY <3>1, <4>3, <4>4
      <4> QED BY <2>4, <4>2, <4>5
    <3>3. AllSaved(control)'
      BY <2>3, <3>2 DEF AllSaved
    <3>4. ASSUME NEW g \in Frames' PROVE AllSaved(g.control)'
      <4> SUFFICES ASSUME NEW i \in 1..Len(g.control), IsTry(g.control[i])
                   PROVE  Saved(g.control, i) \in Frames'
        BY DEF AllSaved
      <4>1. g \in Frames
        BY <2>4
      <4>2. Saved(g.control, i) \in Frames
        BY <2>8, <4>1 DEF Kept, AllSaved
      <4>3. Saved(g.control, i).id = g.control[i].id
        BY <2>5, <4>1, SavedFrame
      <4>4. Saved(g.control, i).id < g.id /\ g.id <= h.id
        BY <2>4, <2>5, <4>1, <4>3 DEF Below
      <4> QED BY <2>4, <2>5, <4>1, <4>2, <4>4
    <3> QED BY <1>2, <2>1, <3>3, <3>4 DEF Kept
  <2>9. ASSUME Matched PROVE Matched'
    <3> SUFFICES ASSUME NEW g \in Frames'
                 PROVE  \E i \in 1..Len(control') : IsTry(control'[i]) /\ g = Saved(control', i)
      BY DEF Matched
    <3>1. g \in Frames /\ g.id < h.id
      BY <2>4, <2>5
    <3>2. PICK i \in 1..n : IsTry(control[i]) /\ g = Saved(control, i)
      BY <1>0, <2>9, <3>1 DEF Matched
    <3>3. PICK j \in 1..n : h = Saved(control, j)
      BY <1>0, <2>4, <2>9 DEF Matched
    <3>4. i \in 1..(n - 1)
      <4>1. control[i].id < control[j].id /\ control[j].id \in Nat /\ control[i].id \in Nat
        BY <2>6, <3>1, <3>2, <3>3
      <4>2. j # n => control[j].id < control[n].id
        <5>1. j # n => j \in 1..(n - 1)
          BY <2>2
        <5> QED BY <2>6, <5>1
      <4>3. i # n
        BY <1>2, <2>6, <4>1, <4>2
      <4> QED BY <2>2, <4>3
    <3> QED BY <2>3, <3>2, <3>4
  <2> QED BY <1>2, <2>7, <2>8, <2>9 DEF IInv
<1> QED BY <1>4, <1>5

(* A return, a break or a goto takes no frame off: those of the try        *)
(* statements it does not leave are all still there.                       *)
LEMMA LeaveToIInv == ASSUME NEW n \in 0..Len(control), IInv, LeaveTo(n) PROVE IInv'
<1>1. Ordered
  BY DEF IInv
<1>2. /\ control' = SubSeq(control, 1, n)
      /\ UNCHANGED <<opened, entered, curExceptFrame, tmpExcept, fate>> /\ fate = "runs"
      /\ strays' = IF \E i \in (n + 1)..Len(control) : IsTry(control[i])
                   THEN strays \cup {"out"} ELSE strays
  BY DEF LeaveTo, Up
<1>3. /\ control' \in Seq(Open) /\ Len(control') = n
      /\ \A i \in 1..n : i \in 1..Len(control)
      /\ \A i \in 1..n : control'[i] = control[i]
      /\ \A i \in 1..n : Saved(control', i) = Saved(control, i)
      /\ Rising(control') /\ Below(control', opened + 1)
  BY <1>1, <1>2, Cut, CutOrder DEF Ordered
<1>4. Frames' = Frames
  BY <1>2 DEF Frames
<1>5. Ordered'
  <2>1. strays' \subseteq Ways
    BY <1>1, <1>2 DEF Ordered, Ways
  <2> QED BY <1>1, <1>2, <1>3, <1>4, <2>1 DEF Ordered
<1>6. ASSUME Kept PROVE Kept'
  BY <1>2, <1>3, <1>4, <1>6 DEF Kept, AllSaved
<1>7. ASSUME Matched, strays' = {} PROVE Matched'
  <2> SUFFICES ASSUME NEW g \in Frames
               PROVE  \E i \in 1..n : IsTry(control'[i]) /\ g = Saved(control', i)
    BY <1>3, <1>4 DEF Matched
  <2>1. PICK i \in 1..Len(control) : IsTry(control[i]) /\ g = Saved(control, i)
    BY <1>7 DEF Matched
  <2>2. i \notin (n + 1)..Len(control)
    BY <1>2, <1>7, <2>1
  <2>3. i \in 1..n
    BY <1>1, <2>2 DEF Ordered
  <2> QED BY <1>3, <2>1, <2>3
<1>8. strays \subseteq strays'
  BY <1>2
<1> QED BY <1>5, <1>6, <1>7, <1>8 DEF IInv

(* A jump into a block opens it without a frame: all that is left is order.*)
LEMMA JumpIntoIInv ==
    ASSUME NEW block \in {"body", "catch"}, IInv, JumpInto(block)
    PROVE  IInv'
<1>1. Ordered
  BY DEF IInv
<1>2. /\ opened' = opened + 1 /\ opened' \in Nat /\ control' = Append(control, Try(opened', block))
      /\ strays' = strays \cup {"in"}
      /\ UNCHANGED <<entered, curExceptFrame, tmpExcept, fate>>
  BY <1>1 DEF JumpInto, Opens, Ordered
<1>3. PICK o \in Open : control' = Append(control, o) /\ o.id = opened'
  BY <1>2, Kinds
<1>4. control' \in Seq(Open) /\ Rising(control') /\ Below(control', opened' + 1)
  <2>1. control \in Seq(Open) /\ Rising(control) /\ Below(control, o.id)
    BY <1>1, <1>2, <1>3 DEF Ordered
  <2>2. opened' + 1 \in Nat /\ o.id < opened' + 1
    BY <1>2, <1>3
  <2> QED BY <1>3, <2>1, <2>2, Add, AddOrder
<1>5. Frames' = Frames /\ entered' \in 0..opened' /\ strays' \subseteq Ways
  BY <1>1, <1>2 DEF Frames, Ordered, Ways
<1>6. Ordered'
  BY <1>1, <1>2, <1>4, <1>5 DEF Ordered
<1> QED BY <1>2, <1>6 DEF IInv

(* A throw to the first frame goes to what its try statement was entered   *)
(* in, and all that saved the frames behind it is open there.              *)
LEMMA ThrowIInv == IInv /\ Throw => IInv'
<1> SUFFICES ASSUME IInv, Throw PROVE IInv'
  OBVIOUS
<1>1. Ordered
  BY DEF IInv
<1>2. UNCHANGED <<opened, entered, curExceptFrame, tmpExcept>> /\ fate = "runs"
  BY DEF Throw
<1>3. Frames' = Frames
  BY <1>2 DEF Frames
<1>4. CASE curExceptFrame = <<>>
  <2>1. fate' = "aborted" /\ UNCHANGED <<control, strays>>
    BY <1>4 DEF Throw
  <2>2. Frames = {}
    BY <1>4 DEF Frames, Range
  <2>3. Ordered'
    BY <1>1, <1>2, <1>3, <2>1 DEF Ordered
  <2>4. ASSUME Kept PROVE Kept'
    BY <1>2, <1>3, <2>1, <2>2, <2>4 DEF Kept, AllSaved
  <2>5. Matched'
    BY <1>3, <2>2 DEF Matched
  <2> QED BY <2>1, <2>3, <2>4, <2>5 DEF IInv
<1>5. CASE curExceptFrame # <<>> /\ fate' = "lost" /\ UNCHANGED control
  <2>1. strays \subseteq strays' /\ strays' \subseteq Ways
    BY <1>1, <1>5 DEF Throw, Ordered, Ways
  <2>2. Ordered'
    BY <1>1, <1>2, <1>3, <1>5, <2>1 DEF Ordered
  <2>3. ASSUME Kept PROVE Kept'
    BY <1>2, <1>3, <1>5, <2>3 DEF Kept, AllSaved
  <2>4. ASSUME Matched PROVE Matched'
    BY <1>3, <1>5, <2>4 DEF Matched
  <2> QED BY <2>1, <2>2, <2>3, <2>4 DEF IInv
<1>6. CASE /\ curExceptFrame # <<>> /\ fate' = fate
           /\ control' = Append(tmpExcept.control, Try(tmpExcept.id, "catch"))
  <2>0. PICK f : f = tmpExcept
    OBVIOUS
  <2>1. /\ f \in Frame /\ f.id \in Nat /\ f.id <= entered /\ f.control \in Seq(Open)
        /\ f = [id |-> f.id, control |-> f.control]
        /\ Rising(f.control) /\ Below(f.control, f.id)
    BY <1>1, <1>6, <2>0, FrameFacts DEF Ordered, WellMade
  <2>2. PICK o \in Open : control' = Append(f.control, o) /\ IsTry(o) /\ o.id = f.id
    BY <1>6, <2>0, <2>1, Kinds
  <2>3. PICK n \in Nat : n = Len(f.control)
    BY <2>1
  <2>4. /\ control' \in Seq(Open) /\ Len(control') = n + 1 /\ control'[n + 1] = o
        /\ \A i \in 1..n : control'[i] = f.control[i]
        /\ \A i \in 1..n : Saved(control', i) = Saved(f.control, i)
        /\ Saved(control', n + 1) = f
    BY <2>1, <2>2, <2>3, Add
  <2>5. \A i \in 1..(n + 1) : i \in 1..n \/ i = n + 1
    OBVIOUS
  <2>6. Rising(control') /\ Below(control', opened + 1)
    <3>1. opened + 1 \in Nat /\ o.id < opened + 1
      BY <1>1, <2>1, <2>2 DEF Ordered
    <3> QED BY <2>1, <2>2, <3>1, AddOrder
  <2>7. strays \subseteq strays' /\ strays' \subseteq Ways
    BY <1>1, <1>6 DEF Throw, Ordered, Ways
  <2>8. Ordered'
    BY <1>1, <1>2, <1>3, <1>6, <2>4, <2>6, <2>7 DEF Ordered
  <2>9. strays' \subseteq {"out"} => f = Head(curExceptFrame)
    BY <1>6, <2>0 DEF Throw
  <2>10. ASSUME strays' \subseteq {"out"}, Kept PROVE Kept'
    <3>1. f \in Frames
      BY <1>1, <1>6, <2>9, <2>10, PopFacts DEF Ordered, Frames
    <3>2. AllSaved(f.control)
      BY <2>10, <3>1 DEF Kept
    <3>3. AllSaved(control)'
      <4>1. \A i \in 1..(n + 1) : IsTry(control'[i]) => Saved(control', i) \in Frames
        BY <2>3, <2>4, <2>5, <3>1, <3>2 DEF AllSaved
      <4> QED BY <1>3, <2>4, <4>1 DEF AllSaved
    <3>4. \A g \in Frames' : AllSaved(g.control)'
      BY <1>3, <2>10 DEF Kept, AllSaved
    <3> QED BY <1>2, <1>6, <2>2, <2>4, <3>3, <3>4 DEF Kept
  <2>11. ASSUME strays' = {}, Matched PROVE Matched'
    <3>1. f = Head(curExceptFrame) /\ f \in Frames /\ \A g \in Frames : g.id <= f.id
      BY <1>1, <1>6, <2>9, <2>11, PopFacts DEF Ordered, Frames
    <3>2. PICK k \in 1..Len(control) : IsTry(control[k]) /\ f = Saved(control, k)
      BY <2>11, <3>1 DEF Matched
    <3>3. k - 1 \in 0..Len(control) /\ k \in Nat /\ Len(control) \in Nat
      BY <1>1 DEF Ordered
    <3>4. f.id = control[k].id /\ f.control = SubSeq(control, 1, k - 1)
      BY <1>1, <3>2, SavedFrame DEF Ordered
    <3>5. /\ n = k - 1
          /\ \A i \in 1..(k - 1) : f.control[i] = control[i] /\ Saved(f.control, i) = Saved(control, i)
      BY <1>1, <2>3, <3>3, <3>4, Cut DEF Ordered
    <3> SUFFICES ASSUME NEW g \in Frames
                 PROVE  \E i \in 1..(n + 1) : IsTry(control'[i]) /\ g = Saved(control', i)
      BY <1>3, <2>4 DEF Matched
    <3>6. PICK j \in 1..Len(control) : IsTry(control[j]) /\ g = Saved(control, j)
      BY <2>11 DEF Matched
    <3>7. j \in 1..(k - 1) \/ j = k
      <4>1. control[j].id <= control[k].id /\ control[j].id \in Nat /\ control[k].id \in Nat
        BY <1>1, <3>1, <3>4, <3>6, SavedFrame, OpenFacts DEF Ordered
      <4>2. ~(k < j)
        BY <1>1, <4>1 DEF Ordered, Rising
      <4> QED BY <3>3, <4>2
    <3>8. CASE j = k
      BY <2>2, <2>3, <2>4, <3>2, <3>6, <3>8
    <3>9. CASE j \in 1..(k - 1)
      <4>1. j \in 1..n /\ j \in 1..(n + 1)
        BY <3>5, <3>9
      <4> QED BY <2>4, <3>5, <3>6, <3>9, <4>1
    <3> QED BY <3>7, <3>8, <3>9
  <2> QED BY <2>7, <2>8, <2>10, <2>11 DEF IInv
<1>7. \/ curExceptFrame = <<>>
      \/ curExceptFrame # <<>> /\ fate' = "lost" /\ UNCHANGED control
      \/ /\ curExceptFrame # <<>> /\ fate' = fate
         /\ control' = Append(tmpExcept.control, Try(tmpExcept.id, "catch"))
  BY DEF Throw, SecondBlock
<1> QED BY <1>4, <1>5, <1>6, <1>7

(* A step that changes nothing keeps the invariant.                        *)
LEMMA Stutter == IInv /\ UNCHANGED vars => IInv'
<1> SUFFICES ASSUME IInv, UNCHANGED vars PROVE IInv'
  OBVIOUS
<1>1. UNCHANGED <<control, opened, entered, curExceptFrame, tmpExcept, fate, strays, Frames>>
  BY DEF vars, Frames
<1> QED BY <1>1 DEF IInv, Ordered, Kept, AllSaved, Matched

(* The ways out of blocks differ in what they may leave.                   *)
LEMMA Leaving ==
    ASSUME IInv, Return \/ Break \/ GotoOut
    PROVE  \E n \in 0..Len(control) : LeaveTo(n)
<1>1. Len(control) \in Nat /\ DOMAIN control = 1..Len(control)
  BY DEF IInv, Ordered
<1>2. \A i \in 1..Len(control) : i - 1 \in 0..Len(control)
  BY <1>1
<1>3. \A i \in 0..(Len(control) - 1) : i \in 0..Len(control)
  BY <1>1
<1> QED BY <1>1, <1>2, <1>3 DEF Return, Break, GotoOut

(* Every step keeps the invariant.                                         *)
LEMMA NextIInv == IInv /\ [Next]_vars => IInv'
<1>1. IInv /\ (Return \/ Break \/ GotoOut) => IInv'
  BY Leaving, LeaveToIInv
<1>2. IInv /\ (GotoInto \/ SwitchInto) => IInv'
  BY JumpIntoIInv DEF GotoInto, SwitchInto
<1> QED BY <1>1, <1>2, EnterFunctionIInv, EnterTryIInv, LeaveTryIInv, ThrowIInv, Stutter DEF Next

-----------------------------------------------------------------------------
(* The theorems                                                            *)

(* The invariant holds in every state.                                     *)
LEMMA Always == Spec => []IInv
BY InitIInv, NextIInv, PTL DEF Spec

(* The order of the invariant, by places.                                  *)
LEMMA OrderedTypes == Ordered => TypeOK
<1> SUFFICES ASSUME Ordered PROVE TypeOK
  OBVIOUS
<1>1. DOMAIN control = 1..Len(control)
  BY DEF Ordered
<1>2. \A i, j \in DOMAIN control : i < j => control[i].id < control[j].id
  BY <1>1 DEF Ordered, Rising
<1> QED BY <1>2 DEF Ordered, Falling, TypeOK

(* What is open and what is saved is numbered in the order it was opened,  *)
(* through every way in and out of the blocks of try statements.           *)
THEOREM TypeInvariant == Spec => []TypeOK
<1>1. IInv => TypeOK
  BY OrderedTypes DEF IInv
<1> QED BY <1>1, Always, PTL

(* The frames of open try statements, and the open try statements of       *)
(* frames, as sets.                                                        *)
LEMMA KeptSets ==
    ASSUME Ordered, Kept
    PROVE  /\ {Saved(control, i) : i \in OpenTries} \subseteq Range(curExceptFrame)
           /\ fate # "segfault" /\ (fate = "aborted" => OpenTries = {})
<1>1. \A i \in OpenTries : i \in 1..Len(control) /\ IsTry(control[i])
  BY DEF Ordered, OpenTries
<1> QED BY <1>1 DEF Kept, AllSaved, Frames

(* The other way round: no frame on the list is another one's.             *)
LEMMA MatchedSets ==
    ASSUME Ordered, Matched
    PROVE  Range(curExceptFrame) \subseteq {Saved(control, i) : i \in OpenTries}
<1>1. \A i \in 1..Len(control) : IsTry(control[i]) => i \in OpenTries
  BY DEF Ordered, OpenTries
<1> QED BY <1>1 DEF Matched, Frames

(* parse2IR.c, NODE_TRY: until control first strays, the frames on the     *)
(* list are those of the try statements that are open, nested or not.      *)
THEOREM FramesMatch == Spec => []FramesAreOpenTries
<1>1. IInv => FramesAreOpenTries
  BY KeptSets, MatchedSets DEF IInv, FramesAreOpenTries
<1> QED BY <1>1, Always, PTL

(* parserA.c: leaving blocks by return, break and goto leaves frames       *)
(* behind, but an open try statement never loses its own by it.            *)
THEOREM NoFrameIsLost == Spec => []FramesKept
<1>1. IInv => FramesKept
  BY KeptSets DEF IInv, FramesKept
<1> QED BY <1>1, Always, PTL

(* The calls open when a try statement was entered are open while it is.   *)
LEMMA CallsStay ==
    ASSUME NEW s \in Seq(Open), NEW k \in 1..Len(s)
    PROVE  Calls(SubSeq(s, 1, k - 1)) \subseteq Calls(s)
<1> DEFINE t == SubSeq(s, 1, k - 1)
<1>1. k - 1 \in 0..Len(s)
  OBVIOUS
<1>2. t \in Seq(Open) /\ Len(t) = k - 1 /\ \A i \in 1..(k - 1) : i \in 1..Len(s) /\ t[i] = s[i]
  BY <1>1, Cut
<1> HIDE DEF t
<1>3. \A i \in DOMAIN t : i \in DOMAIN s /\ t[i] = s[i]
  BY <1>2
<1> QED BY <1>3 DEF Calls, t

(* The statement entered last, while its body runs, has its frame on the   *)
(* list and in tmpExcept, as long as no block was jumped into: what stands *)
(* above it and ends was entered at its top, and so after it.              *)
LatestAt(i) ==
    IsTry(control[i]) =>
        /\ control[i].id <= entered
        /\ IsBody(control[i]) /\ control[i].id = entered =>
               tmpExcept = Saved(control, i) /\ tmpExcept \in Frames
Latest == "in" \notin strays => \A i \in 1..Len(control) : LatestAt(i)

(* What is cut keeps this, if what saves the frames is not changed.        *)
LEMMA LatestBelow ==
    ASSUME IInv, Latest, NEW n \in 0..Len(control), control' = SubSeq(control, 1, n),
           UNCHANGED <<entered, curExceptFrame, tmpExcept>>, strays \subseteq strays'
    PROVE  Latest'
<1>1. Len(control') = n /\ \A i \in 1..n : /\ i \in 1..Len(control) /\ control'[i] = control[i]
                                           /\ Saved(control', i) = Saved(control, i)
  BY Cut DEF IInv, Ordered
<1>2. Frames' = Frames
  BY DEF Frames
<1> QED BY <1>1, <1>2 DEF Latest, LatestAt

(* A statement entered at its top is later than all that are open.         *)
LEMMA LatestEntered == IInv /\ EnterTry => Latest'
<1> SUFFICES ASSUME IInv, EnterTry PROVE Latest'
  OBVIOUS
<1> DEFINE o == Try(opened', "body")
           n == Len(control)
<1>1. /\ opened' = opened + 1 /\ opened' \in Nat /\ entered' = opened'
      /\ control' = Append(control, o) /\ control \in Seq(Open) /\ Below(control, opened')
      /\ tmpExcept' = [id |-> opened', control |-> control]
      /\ curExceptFrame' = Pushed(curExceptFrame, tmpExcept') /\ curExceptFrame \in Seq(Frame)
  BY DEF EnterTry, Opens, IInv, Ordered
<1>2. o \in Open /\ o.id = opened'
  BY <1>1, Kinds
<1>3. /\ Len(control') = n + 1 /\ control'[n + 1] = o /\ n \in Nat
      /\ \A i \in 1..n : control'[i] = control[i]
      /\ Saved(control', n + 1) = tmpExcept'
  <2> HIDE DEF o
  <2> QED BY <1>1, <1>2, Add
<1>4. tmpExcept' \in Frames'
  <2>1. curExceptFrame' = <<tmpExcept'>> \o curExceptFrame
    BY <1>1 DEF Pushed
  <2>2. 1 \in DOMAIN curExceptFrame' /\ curExceptFrame'[1] = tmpExcept'
    BY <1>1, <2>1
  <2> QED BY <2>2 DEF Frames, Range
<1>5. ASSUME NEW i \in 1..n PROVE control'[i].id < entered' /\ control'[i].id \in Nat
  BY <1>1, <1>3, OpenFacts DEF Below
<1> HIDE DEF o, n
<1>6. \A i \in 1..(n + 1) : i \in 1..n \/ i = n + 1
  BY <1>3
<1>7. ASSUME NEW i \in 1..(n + 1) PROVE LatestAt(i)'
  <2>1. CASE i = n + 1
    BY <1>1, <1>2, <1>3, <1>4, <2>1 DEF LatestAt
  <2>2. CASE i \in 1..n
    <3>1. control'[i].id < entered' /\ control'[i].id \in Nat /\ entered' \in Nat
      BY <1>1, <1>5, <2>2
    <3> QED BY <3>1 DEF LatestAt
  <2> QED BY <1>6, <2>1, <2>2
<1> QED BY <1>3, <1>7 DEF Latest

(* What stays open when a block ends is earlier than that one, which is    *)
(* not later than the last.                                                *)
LEMMA LatestLeft == IInv /\ Latest /\ LeaveTry => Latest'
<1> SUFFICES ASSUME IInv, Latest, LeaveTry, "in" \notin strays
             PROVE  \A i \in 1..Len(control') : LatestAt(i)'
  BY DEF LeaveTry, Latest
<1>0. PICK n \in Nat : n = Len(control)
  BY DEF IInv, Ordered
<1>1. n \in 1..n /\ IsTry(control[n]) /\ UNCHANGED <<entered, strays>> /\ entered \in Nat
  BY <1>0 DEF LeaveTry, Last, IInv, Ordered
<1>2. CASE curExceptFrame = <<>>
  <2>1. UNCHANGED <<control, curExceptFrame, tmpExcept, Frames>>
    BY <1>2 DEF LeaveTry, Frames
  <2> QED BY <1>1, <2>1 DEF Latest, LatestAt
<1>3. CASE curExceptFrame # <<>>
  <2>1. control' = SubSeq(control, 1, n - 1) /\ n - 1 \in 0..n
    BY <1>0, <1>1, <1>3 DEF LeaveTry, Front
  <2>2. Len(control') = n - 1 /\ \A i \in 1..(n - 1) : control'[i] = control[i]
    BY <1>0, <2>1, Cut DEF IInv, Ordered
  <2>3. control[n].id <= entered /\ control[n].id \in Nat
    BY <1>0, <1>1, OpenFacts DEF Latest, LatestAt, IInv, Ordered
  <2>4. ASSUME NEW i \in 1..(n - 1) PROVE control'[i].id < entered' /\ control'[i].id \in Nat
    <3>1. i \in 1..n /\ i < n
      BY <1>0
    <3>2. control[i].id < control[n].id /\ control[i].id \in Nat
      BY <1>0, <1>1, <3>1, OpenFacts DEF IInv, Ordered, Rising
    <3> QED BY <1>1, <2>2, <2>3, <3>2
  <2> QED BY <1>1, <2>2, <2>4 DEF LatestAt
<1> QED BY <1>2, <1>3

(* What a throw goes back to is earlier than the frame it goes back by.    *)
LEMMA LatestThrown == IInv /\ Latest /\ Throw => Latest'
<1> SUFFICES ASSUME IInv, Latest, Throw, "in" \notin strays'
             PROVE  \A i \in 1..Len(control') : LatestAt(i)'
  BY DEF Latest
<1>1. /\ UNCHANGED <<entered, curExceptFrame, tmpExcept, Frames>>
      /\ "in" \notin strays /\ entered \in Nat
  BY DEF Throw, Frames, IInv, Ordered
<1>2. CASE UNCHANGED control
  BY <1>1, <1>2 DEF Latest, LatestAt
<1>3. CASE curExceptFrame # <<>> /\ control' = Append(tmpExcept.control, Try(tmpExcept.id, "catch"))
  <2>0. PICK f : f = tmpExcept
    OBVIOUS
  <2>1. /\ f \in Frame /\ f.id \in Nat /\ f.id <= entered /\ f.control \in Seq(Open)
        /\ Below(f.control, f.id)
    BY <1>3, <2>0, FrameFacts DEF IInv, Ordered, WellMade
  <2>2. PICK o \in Open : control' = Append(f.control, o) /\ o.id = f.id /\ ~IsBody(o)
    <3>1. Try(f.id, "catch") \in Open /\ Try(f.id, "catch").id = f.id
      BY <2>1, Kinds
    <3>2. ~IsBody(Try(f.id, "catch"))
      BY DEF IsBody, Try
    <3> QED BY <1>3, <2>0, <3>1, <3>2
  <2>3. PICK n \in Nat : n = Len(f.control)
    BY <2>1
  <2>4. /\ Len(control') = n + 1 /\ control'[n + 1] = o
        /\ \A i \in 1..n : control'[i] = f.control[i]
        /\ \A i \in 1..(n + 1) : i \in 1..n \/ i = n + 1
    BY <2>1, <2>2, <2>3, Add
  <2>5. ASSUME NEW i \in 1..n PROVE control'[i].id < entered' /\ control'[i].id \in Nat
    <3>1. f.control[i].id \in Nat /\ f.control[i].id < f.id
      BY <2>1, <2>3, OpenFacts DEF Below
    <3> QED BY <1>1, <2>1, <2>4, <3>1
  <2>6. ASSUME NEW i \in 1..(n + 1) PROVE LatestAt(i)'
    <3>1. CASE i = n + 1
      BY <1>1, <2>1, <2>2, <2>4, <3>1 DEF LatestAt
    <3>2. CASE i \in 1..n
      BY <1>1, <2>5, <3>2 DEF LatestAt
    <3> QED BY <2>4, <3>1, <3>2
  <2> QED BY <2>4, <2>6
<1> QED BY <1>2, <1>3 DEF Throw, SecondBlock

(* A call opens no try statement.                                          *)
LEMMA LatestCalled == IInv /\ Latest /\ EnterFunction => Latest'
<1> SUFFICES ASSUME IInv, Latest, EnterFunction PROVE Latest'
  OBVIOUS
<1>1. /\ opened' \in Nat /\ control' = Append(control, Call(opened')) /\ control \in Seq(Open)
      /\ UNCHANGED <<entered, curExceptFrame, tmpExcept, strays, Frames>>
  BY DEF EnterFunction, Opens, IInv, Ordered, Frames
<1>2. PICK o \in Open : control' = Append(control, o) /\ ~IsTry(o)
  BY <1>1, Kinds
<1>3. /\ Len(control') = Len(control) + 1 /\ control'[Len(control) + 1] = o
      /\ \A i \in 1..Len(control) : control'[i] = control[i]
      /\ \A i \in 1..Len(control) : Saved(control', i) = Saved(control, i)
  <2>1. control \in Seq(Open)
    BY <1>1
  <2> QED BY <1>2, <2>1, Add
<1>4. \A i \in 1..Len(control') : IsTry(control'[i]) => i \in 1..Len(control)
  <2>1. \A i \in 1..(Len(control) + 1) : i \in 1..Len(control) \/ i = Len(control) + 1
    BY <1>1
  <2> QED BY <1>2, <1>3, <2>1
<1> QED BY <1>1, <1>3, <1>4 DEF Latest, LatestAt

(* At first nothing is open, and each step keeps what is said of the last. *)
LEMMA AlwaysLatest == Spec => []Latest
<1>1. Init => Latest
  BY DEF Init, Latest
<1>2. ASSUME IInv, Latest, [Next]_vars PROVE Latest'
  <2>1. CASE Return \/ Break \/ GotoOut
    <3>1. PICK n \in 0..Len(control) : LeaveTo(n)
      BY <1>2, <2>1, Leaving
    <3>2. strays \subseteq strays' /\ control' = SubSeq(control, 1, n)
          /\ UNCHANGED <<entered, curExceptFrame, tmpExcept>>
      BY <3>1 DEF LeaveTo, Up
    <3> QED BY <1>2, <3>2, LatestBelow
  <2>2. CASE GotoInto \/ SwitchInto
    BY <2>2 DEF GotoInto, SwitchInto, JumpInto, Latest
  <2>3. CASE UNCHANGED vars
    BY <1>2, <2>3 DEF vars, Latest, LatestAt, Frames
  <2> QED BY <1>2, <2>1, <2>2, <2>3, LatestEntered, LatestLeft, LatestThrown, LatestCalled DEF Next
<1> QED BY <1>1, <1>2, Always, PTL DEF Spec

(* So a throw in that body goes to its frame, and its call is still open.  *)
LEMMA ThrowStep ==
    ASSUME IInv, Latest, Throw, "in" \notin strays, Bodies # {},
           control[Innermost].id = entered
    PROVE  Caught
<1>1. Ordered
  BY DEF IInv
<1>2. PICK k \in 1..Len(control) : k = Innermost /\ IsTry(control[k]) /\ IsBody(control[k])
  <2>1. Len(control) \in Nat /\ Bodies \subseteq 0..Len(control) /\ Bodies \subseteq 1..Len(control)
    BY <1>1 DEF Ordered, Bodies
  <2>2. Innermost \in Bodies
    BY <2>1, MaxFacts DEF Innermost
  <2> QED BY <2>1, <2>2 DEF Bodies, IsBody
<1>3. tmpExcept = Saved(control, k) /\ tmpExcept \in Frames
  BY <1>2 DEF Latest, LatestAt
<1>4. tmpExcept.id = control[k].id /\ tmpExcept.control = Up(k - 1)
  BY <1>1, <1>2, <1>3, SavedFrame DEF Ordered, Up
<1>5. Calls(tmpExcept.control) \subseteq Calls(control)
  BY <1>1, <1>4, CallsStay DEF Ordered, Up
<1>6. curExceptFrame # <<>>
  BY <1>3 DEF Frames, Range
<1> QED BY <1>2, <1>4, <1>5, <1>6 DEF Throw, SecondBlock, Caught

(* ExceptLin.HC, throw: what is thrown in the body of the try statement    *)
(* entered last is caught by it, whatever frames returns, breaks and gotos *)
(* left on the list and throws that went astray took from it.              *)
THEOREM ThrowIsCaught == Spec => LastEnteredCatches
<1>1. IInv /\ Latest /\ [Next]_vars =>
        [Throw /\ "in" \notin strays /\ Bodies # {}
           /\ control[Innermost].id = entered => Caught]_vars
  BY ThrowStep
<1> QED BY <1>1, Always, AlwaysLatest, PTL DEF Spec, LastEnteredCatches
=============================================================================
