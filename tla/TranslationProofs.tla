------------------------- MODULE TranslationProofs -------------------------
(* Proofs about three steps of a translation.  TextEdits: the notes        *)
(* describe the edits, and through any number of them a position of the    *)
(* result maps to the place it has in the text that was read.  Emission:   *)
(* for every flow graph, what is written out has each node that can be     *)
(* reached once, and every jump goes to one label.  Casting: for every     *)
(* graph of an expression, the conversions leave each operation with       *)
(* operands of the types it takes, and every node with its own.            *)
EXTENDS TextEdits, Emission, Casting, NumberFacts, FiniteSetTheorems, FunctionTheorems, TLAPS

(***************************************************************************)
(* A text is seen here as where its atoms were in the source, a text of    *)
(* n atoms, with New for what edits brought in.                            *)
(***************************************************************************)
New == -1
Texts == Seq(Int)
Brought == Seq({New})
Source(n) == [i \in 1..n |-> i - 1]

EditSet == [type : {"insert", "remove"}, where : Nat, len : Nat]

(* What an edit makes of a text                                            *)
Edited(t, edit, body) ==
    IF edit.type = "insert" THEN Spliced(t, edit.where, body, 0)
    ELSE Spliced(t, edit.where, <<>>, edit.len)

(* An edit that t allows, with what it brings in                           *)
Allowed(t, edit, body) ==
    /\ edit.where <= Len(t)
    /\ edit.type = "insert" => Len(body) = edit.len
    /\ edit.type = "remove" => edit.where + edit.len <= Len(t)

(* A position of t maps between the atoms of the source that are in front  *)
(* of it in t and those that are not.                                      *)
MapsBack(t, edits, startEdit, n) ==
    \A q \in 0..Len(t) :
        /\ MapToSource(q, edits, startEdit) \in 0..n
        /\ \A p \in 0..(Len(t) - 1) : t[p + 1] # New =>
              (p < q <=> t[p + 1] < MapToSource(q, edits, startEdit))

-----------------------------------------------------------------------------
LEMMA ConcatFacts ==
    ASSUME NEW S, NEW u \in Seq(S), NEW v \in Seq(S)
    PROVE  /\ u \o v \in Seq(S) /\ Len(u \o v) = Len(u) + Len(v)
           /\ \A i \in 1..(Len(u) + Len(v)) :
                 (u \o v)[i] = IF i <= Len(u) THEN u[i] ELSE v[i - Len(u)]
OBVIOUS

(* u is t with body in the place of the n atoms from p, atom by atom.      *)
HasIn(u, t, p, body, n) ==
    /\ Len(u) = Len(t) + Len(body) - n
    /\ \A i \in 1..(Len(t) + Len(body) - n) :
          u[i] = IF i <= p THEN t[i]
                 ELSE IF i <= p + Len(body) THEN body[i - p]
                 ELSE t[i - Len(body) + n]

LEMMA SplicedFacts ==
    ASSUME NEW S, NEW t \in Seq(S), NEW body \in Seq(S),
           NEW p \in Nat, NEW n \in Nat, p + n <= Len(t)
    PROVE  Spliced(t, p, body, n) \in Seq(S) /\ HasIn(Spliced(t, p, body, n), t, p, body, n)
<1> DEFINE a == SubSeq(t, 1, p)
           b == SubSeq(t, p + n + 1, Len(t))
<1>1. a \in Seq(S) /\ Len(a) = p /\ \A i \in 1..p : a[i] = t[i]
  OBVIOUS
<1>2. b \in Seq(S) /\ Len(b) = Len(t) - p - n /\ \A i \in 1..(Len(t) - p - n) : b[i] = t[i + p + n]
  OBVIOUS
<1>3. Spliced(t, p, body, n) = (a \o body) \o b
  BY DEF Spliced
<1> HIDE DEF a, b
<1>4. /\ a \o body \in Seq(S) /\ Len(a \o body) = p + Len(body)
      /\ \A i \in 1..(p + Len(body)) : (a \o body)[i] = IF i <= p THEN a[i] ELSE body[i - p]
  <2>1. a \in Seq(S) /\ Len(a) = p
    BY <1>1
  <2> QED BY <2>1, ConcatFacts
<1> DEFINE c == a \o body
<1>8. /\ c \in Seq(S) /\ Len(c) = p + Len(body)
       /\ \A i \in 1..(p + Len(body)) : c[i] = IF i <= p THEN a[i] ELSE body[i - p]
  BY <1>4
<1> HIDE DEF c
<1>5. /\ c \o b \in Seq(S) /\ Len(c \o b) = Len(c) + Len(b)
      /\ \A i \in 1..(Len(c) + Len(b)) : (c \o b)[i] = IF i <= Len(c) THEN c[i] ELSE b[i - Len(c)]
  <2>1. b \in Seq(S) /\ c \in Seq(S)
    BY <1>2, <1>8
  <2> QED BY <2>1, ConcatFacts
<1>6. Len(c) = p + Len(body) /\ Len(c) + Len(b) = Len(t) + Len(body) - n
  BY <1>2, <1>8
<1>7. \A i \in 1..(Len(t) + Len(body) - n) :
         (c \o b)[i] = IF i <= p THEN t[i]
                       ELSE IF i <= p + Len(body) THEN body[i - p]
                       ELSE t[i - Len(body) + n]
  <2> TAKE i \in 1..(Len(t) + Len(body) - n)
  <2>1. CASE i <= p + Len(body)
    <3>1. (c \o b)[i] = c[i]
      BY <1>5, <1>6, <2>1
    <3> QED BY <1>1, <1>8, <2>1, <3>1
  <2>2. CASE ~ (i <= p + Len(body))
    <3>1. (c \o b)[i] = b[i - (p + Len(body))]
      BY <1>5, <1>6, <2>2
    <3>2. i - (p + Len(body)) \in 1..(Len(t) - p - n)
      BY <2>2
    <3>3. (i - (p + Len(body))) + p + n = i - Len(body) + n
      OBVIOUS
    <3>4. b[i - (p + Len(body))] = t[i - Len(body) + n]
      BY <1>2, <3>2, <3>3
    <3>5. ~ (i <= p)
      BY <2>2
    <3> QED BY <2>2, <3>1, <3>4, <3>5
  <2> QED BY <2>1, <2>2
<1> QED BY <1>3, <1>5, <1>6, <1>7 DEF c, HasIn

-----------------------------------------------------------------------------
(***************************************************************************)
(* One edit: what is in front of a position stays in front of where the    *)
(* position was, and what is behind behind.                                *)
(***************************************************************************)
LEMMA EditedFacts ==
    ASSUME NEW t \in Texts, NEW edit \in EditSet, NEW body \in Brought,
           Allowed(t, edit, body)
    PROVE  /\ Edited(t, edit, body) \in Texts
           /\ \A q \in 0..Len(Edited(t, edit, body)) : Undone(q, edit) \in 0..Len(t)
           /\ \A p \in 0..(Len(Edited(t, edit, body)) - 1) :
                 Edited(t, edit, body)[p + 1] # New =>
                    \E r \in 0..(Len(t) - 1) :
                       /\ t[r + 1] = Edited(t, edit, body)[p + 1]
                       /\ \A q \in 0..Len(Edited(t, edit, body)) :
                             p < q <=> r < Undone(q, edit)
<1> DEFINE w == edit.where
           n == edit.len
           u == Edited(t, edit, body)
<1>0. /\ w \in Nat /\ n \in Nat /\ edit.type \in {"insert", "remove"}
      /\ t \in Seq(Int) /\ Len(t) \in Nat /\ body \in Seq(Int) /\ <<>> \in Seq(Int)
      /\ \A i \in 1..Len(body) : body[i] = New
  BY DEF EditSet, Texts, Brought, New
<1>1. CASE edit.type = "insert"
  <2>1. /\ u \in Seq(Int) /\ Len(u) = Len(t) + n
        /\ \A i \in 1..(Len(t) + n) :
              u[i] = IF i <= w THEN t[i] ELSE IF i <= w + n THEN body[i - w] ELSE t[i - n]
    <3>1. u = Spliced(t, w, body, 0) /\ Len(body) = n /\ w <= Len(t)
      BY <1>1 DEF Edited, Allowed
    <3> HIDE DEF u, w, n
    <3>2. w + 0 <= Len(t) /\ 0 \in Nat
      BY <1>0, <3>1
    <3>3. u \in Seq(Int) /\ HasIn(u, t, w, body, 0)
      BY <1>0, <3>1, <3>2, SplicedFacts
    <3>4. Len(t) + Len(body) - 0 = Len(t) + n
      BY <1>0, <3>1
    <3>5. \A i \in 1..(Len(t) + n) : i - Len(body) + 0 = i - n
      BY <1>0, <3>1
    <3> QED BY <3>1, <3>3, <3>4, <3>5 DEF HasIn
  <2>2. w <= Len(t)
    BY DEF Allowed
  <2>3. \A q \in 0..Len(u) :
           Undone(q, edit) = IF q < w THEN q ELSE IF w + n >= q THEN w ELSE q - n
    BY <1>1 DEF Undone
  <2> HIDE DEF u, w, n
  <2>4. ASSUME NEW q \in 0..Len(u)
        PROVE  Undone(q, edit) \in 0..Len(t)
    <3>1. q \in Int /\ 0 <= q /\ q <= Len(t) + n
      BY <1>0, <2>1
    <3>2. CASE q < w
      BY <1>0, <2>2, <2>3, <3>1, <3>2
    <3>3. CASE w <= q /\ q <= w + n
      BY <1>0, <2>2, <2>3, <3>1, <3>3
    <3>4. CASE w + n < q
      <4>1. Undone(q, edit) = q - n
        BY <1>0, <2>3, <3>1, <3>4
      <4> QED BY <1>0, <3>1, <3>4, <4>1
    <3> QED BY <1>0, <3>1, <3>2, <3>3, <3>4
  <2>5. ASSUME NEW p \in 0..(Len(u) - 1), u[p + 1] # New
        PROVE  \E r \in 0..(Len(t) - 1) :
                  t[r + 1] = u[p + 1] /\ \A q \in 0..Len(u) : p < q <=> r < Undone(q, edit)
    <3>1. CASE p < w
      <4>1. u[p + 1] = t[p + 1] /\ p \in 0..(Len(t) - 1)
        BY <1>0, <2>1, <2>2, <3>1
      <4>2. ASSUME NEW q \in 0..Len(u)
            PROVE  p < q <=> p < Undone(q, edit)
        <5>1. q \in Int /\ p \in Int
          BY <1>0, <2>1
        <5>2. CASE q < w
          BY <1>0, <2>3, <3>1, <5>1, <5>2
        <5>3. CASE w <= q /\ q <= w + n
          BY <1>0, <2>3, <3>1, <5>1, <5>3
        <5>4. CASE w + n < q
          <6>1. Undone(q, edit) = q - n
            BY <1>0, <2>3, <5>1, <5>4
          <6> QED BY <1>0, <3>1, <5>1, <5>4, <6>1
        <5> QED BY <1>0, <5>1, <5>2, <5>3, <5>4
      <4> QED BY <4>1, <4>2
    <3>2. CASE p >= w
      <4>1. p >= w + n
        <5> SUFFICES ASSUME p < w + n PROVE FALSE
          BY <1>0
        <5>1. u[p + 1] = body[p + 1 - w]
          BY <1>0, <2>1, <3>2
        <5>2. p + 1 - w \in 1..n
          BY <1>0, <3>2
        <5>3. Len(body) = n
          BY <1>1 DEF Allowed, n
        <5> QED BY <1>0, <2>5, <5>1, <5>2, <5>3
      <4>2. u[p + 1] = t[p - n + 1] /\ p - n \in 0..(Len(t) - 1)
        <5>1. PICK i : i = p + 1
          OBVIOUS
        <5>2. /\ i - n = p - n + 1 /\ i \in 1..(Len(t) + n)
              /\ ~(i <= w) /\ ~(i <= w + n) /\ p - n \in 0..(Len(t) - 1)
          BY <1>0, <2>1, <4>1, <5>1
        <5>3. u[i] = t[i - n]
          BY <2>1, <5>2
        <5> QED BY <5>1, <5>2, <5>3
      <4>3. ASSUME NEW q \in 0..Len(u)
            PROVE  p < q <=> p - n < Undone(q, edit)
        <5>1. q \in Int /\ p \in Int
          BY <1>0, <2>1
        <5> QED BY <1>0, <2>3, <4>1, <5>1
      <4> QED BY <4>2, <4>3
    <3> QED BY <1>0, <3>1, <3>2
  <2> QED BY <2>1, <2>4, <2>5 DEF u, Texts
<1>2. CASE edit.type = "remove"
  <2>1. /\ u \in Seq(Int) /\ Len(u) = Len(t) - n
        /\ \A i \in 1..(Len(t) - n) : u[i] = IF i <= w THEN t[i] ELSE t[i + n]
    <3>1. u = Spliced(t, w, <<>>, n) /\ w + n <= Len(t)
      BY <1>2 DEF Edited, Allowed
    <3>2. Len(<<>>) = 0
      OBVIOUS
    <3> HIDE DEF u, w, n
    <3>3. u \in Seq(Int) /\ HasIn(u, t, w, <<>>, n)
      BY <1>0, <3>1, <3>2, SplicedFacts
    <3>4. Len(t) + 0 - n = Len(t) - n /\ w + 0 = w
      BY <1>0
    <3>5. \A i \in 1..(Len(t) - n) : i - 0 + n = i + n
      BY <1>0
    <3> QED BY <3>2, <3>3, <3>4, <3>5 DEF HasIn
  <2>2. w + n <= Len(t)
    BY <1>2 DEF Allowed
  <2>3. \A q \in 0..Len(u) : Undone(q, edit) = IF q <= w THEN q ELSE q + n
    <3> SUFFICES ASSUME NEW q \in 0..Len(u)
                 PROVE  Undone(q, edit) = IF q <= w THEN q ELSE q + n
      OBVIOUS
    <3>1. q \in Int
      BY <2>1
    <3> HIDE DEF u
    <3> QED BY <1>0, <1>2, <3>1 DEF Undone
  <2> HIDE DEF u, w, n
  <2>4. ASSUME NEW q \in 0..Len(u)
        PROVE  Undone(q, edit) \in 0..Len(t)
    <3>1. q \in Int /\ 0 <= q /\ q <= Len(t) - n /\ n \in Nat /\ w \in Nat /\ Len(t) \in Nat
      BY <1>0, <2>1
    <3>2. Undone(q, edit) = IF q <= w THEN q ELSE q + n
      BY <2>3
    <3>3. CASE q <= w
      BY <2>2, <3>1, <3>2, <3>3
    <3>4. CASE ~ (q <= w)
      BY <3>1, <3>2, <3>4
    <3> QED BY <3>3, <3>4
  <2>5. ASSUME NEW p \in 0..(Len(u) - 1)
        PROVE  \E r \in 0..(Len(t) - 1) :
                  t[r + 1] = u[p + 1] /\ \A q \in 0..Len(u) : p < q <=> r < Undone(q, edit)
    <3>1. CASE p < w
      <4>1. u[p + 1] = t[p + 1] /\ p \in 0..(Len(t) - 1)
        BY <1>0, <2>1, <2>2, <3>1
      <4>2. ASSUME NEW q \in 0..Len(u)
            PROVE  p < q <=> p < Undone(q, edit)
        <5>1. q \in Int /\ p \in Int
          BY <1>0, <2>1
        <5> QED BY <1>0, <2>3, <3>1, <5>1
      <4> QED BY <4>1, <4>2
    <3>2. CASE p >= w
      <4>1. u[p + 1] = t[p + n + 1] /\ p + n \in 0..(Len(t) - 1)
        <5>1. p + 1 + n = p + n + 1
          BY <1>0
        <5> QED BY <1>0, <2>1, <2>2, <3>2, <5>1
      <4>2. ASSUME NEW q \in 0..Len(u)
            PROVE  p < q <=> p + n < Undone(q, edit)
        <5>1. q \in Int /\ p \in Int
          BY <1>0, <2>1
        <5>2. Undone(q, edit) = IF q <= w THEN q ELSE q + n
          BY <2>3
        <5>3. w \in Nat /\ n \in Nat
          BY <1>0
        <5>4. CASE q <= w
          <6>1. Undone(q, edit) = q /\ ~ (p < q)
            BY <3>2, <5>1, <5>2, <5>3, <5>4
          <6> QED BY <5>1, <5>3, <6>1
        <5>5. CASE ~ (q <= w)
          <6>1. Undone(q, edit) = q + n
            BY <5>2, <5>5
          <6> QED BY <5>1, <5>3, <6>1
        <5> QED BY <5>4, <5>5
      <4> QED BY <4>1, <4>2
    <3> QED BY <1>0, <3>1, <3>2
  <2> QED BY <2>1, <2>4, <2>5 DEF u, Texts
<1> QED BY <1>0, <1>1, <1>2

-----------------------------------------------------------------------------
(* f has the positions pos had before the last i edits.                    *)
Backs(f, pos, edits, L) ==
    /\ f[0] = pos
    /\ \A i \in 1..L : f[i] = Undone(f[i - 1], edits[Len(edits) + 1 - i])

LEMMA MapRun ==
    ASSUME NEW pos, NEW edits, NEW startEdit, Len(edits) - startEdit \in Nat
    PROVE  \E f : /\ Backs(f, pos, edits, Len(edits) - startEdit)
                  /\ MapToSource(pos, edits, startEdit) = f[Len(edits) - startEdit]
<1> DEFINE Back(x, i) == Undone(x, edits[Len(edits) + 1 - i])
           Runs(f, n) == f = [i \in 0..n |-> IF i = 0 THEN pos ELSE Back(f[i - 1], i)]
           S == {n \in Nat : \E f : Runs(f, n)}
           L == Len(edits) - startEdit
           back[i \in 0..L] == IF i = 0 THEN pos ELSE Back(back[i - 1], i)
<1>1. MapToSource(pos, edits, startEdit) = back[L]
  BY Zenon DEF MapToSource
<1>2. (\E f : Runs(f, L)) => back = [i \in 0..L |-> IF i = 0 THEN pos ELSE Back(back[i - 1], i)]
  BY Zenon
<1>3. \A x, i : Back(x, i) = Undone(x, edits[Len(edits) + 1 - i])
  OBVIOUS
<1> HIDE DEF Back, back
<1>4. 0 \in S
  <2> DEFINE g == [i \in 0..0 |-> pos]
  <2>1. Runs(g, 0)
    OBVIOUS
  <2> QED BY <2>1, Zenon
<1>5. ASSUME NEW n \in Nat, n \in S
      PROVE  n + 1 \in S
  <2>1. PICK f : Runs(f, n)
    BY <1>5
  <2> DEFINE g == [i \in 0..(n + 1) |-> IF i = n + 1 THEN Back(f[n], n + 1) ELSE f[i]]
  <2>2. /\ g = [i \in 0..(n + 1) |-> g[i]]
        /\ \A i \in 0..n : g[i] = f[i]
        /\ g[n + 1] = Back(f[n], n + 1)
    OBVIOUS
  <2>3. \A i \in 0..n : i # 0 => f[i] = Back(f[i - 1], i) /\ i - 1 \in 0..n
    BY <2>1
  <2>4. f[0] = pos
    BY <2>1
  <2> HIDE DEF g
  <2>5. \A i \in 0..(n + 1) : g[i] = IF i = 0 THEN pos ELSE Back(g[i - 1], i)
    <3> TAKE i \in 0..(n + 1)
    <3>1. CASE i = n + 1
      <4>1. i - 1 = n /\ i # 0 /\ n \in 0..n
        BY <3>1
      <4> QED BY <2>2, <3>1, <4>1
    <3>2. CASE i # n + 1
      <4>1. i \in 0..n
        BY <3>2
      <4> QED BY <2>2, <2>3, <2>4, <4>1
    <3> QED BY <3>1, <3>2
  <2>6. Runs(g, n + 1)
    BY <2>2, <2>5, Zenon
  <2>7. n + 1 \in Nat
    OBVIOUS
  <2> HIDE DEF Runs
  <2> QED BY <2>6, <2>7, Zenon
<1>6. \E f : Runs(f, L)
  <2> HIDE DEF Runs
  <2>1. Nat \subseteq S
    <3> HIDE DEF S
    <3> QED BY <1>4, <1>5, AllNumbers
  <2> QED BY <2>1
<1>7. back = [i \in 0..L |-> IF i = 0 THEN pos ELSE Back(back[i - 1], i)]
  BY <1>2, <1>6
<1>8. back[0] = pos
  BY <1>7
<1>9. \A i \in 1..L : back[i] = Back(back[i - 1], i)
  BY <1>7
<1>10. Backs(back, pos, edits, L)
  BY <1>3, <1>8, <1>9 DEF Backs
<1> QED BY <1>1, <1>10, Zenon

(* No edits leave a position where it is.                                  *)
LEMMA MapNone ==
    ASSUME NEW pos, NEW edits \in Seq(EditSet)
    PROVE  MapToSource(pos, edits, Len(edits)) = pos
<1>1. Len(edits) - Len(edits) = 0 /\ 0 \in Nat
  OBVIOUS
<1>2. PICK f : /\ Backs(f, pos, edits, Len(edits) - Len(edits))
               /\ MapToSource(pos, edits, Len(edits)) = f[Len(edits) - Len(edits)]
  BY <1>1, MapRun, Zenon
<1> QED BY <1>1, <1>2 DEF Backs

(* The last edit is the first that is undone.                              *)
LEMMA MapLast ==
    ASSUME NEW pos, NEW edits \in Seq(EditSet), NEW startEdit \in 0..Len(edits),
           NEW edit \in EditSet
    PROVE  MapToSource(pos, Append(edits, edit), startEdit)
              = MapToSource(Undone(pos, edit), edits, startEdit)
<1> DEFINE more == Append(edits, edit)
           L == Len(edits) - startEdit
<1>1. /\ Len(more) = Len(edits) + 1 /\ more[Len(edits) + 1] = edit
      /\ \A i \in 1..Len(edits) : more[i] = edits[i]
      /\ L \in Nat /\ Len(more) - startEdit = L + 1 /\ L <= Len(edits)
  OBVIOUS
<1> HIDE DEF more
<1>2. PICK f : /\ Backs(f, pos, more, L + 1)
               /\ MapToSource(pos, more, startEdit) = f[L + 1]
  <2>1. Len(more) - startEdit \in Nat
    BY <1>1
  <2>2. \E f : /\ Backs(f, pos, more, Len(more) - startEdit)
               /\ MapToSource(pos, more, startEdit) = f[Len(more) - startEdit]
    BY <2>1, MapRun, Zenon
  <2> QED BY <1>1, <2>2
<1>3. PICK g : /\ Backs(g, Undone(pos, edit), edits, L)
               /\ MapToSource(Undone(pos, edit), edits, startEdit) = g[L]
  BY <1>1, MapRun, Zenon
<1> DEFINE S == {i \in 0..L : f[i + 1] = g[i]}
<1>4. 0 \in S
  <2>1. f[1] = Undone(f[0], more[Len(more)])
    <3>1. 1 \in 1..(L + 1) /\ 1 - 1 = 0 /\ Len(more) + 1 - 1 = Len(more)
      BY <1>1
    <3> QED BY <1>2, <3>1 DEF Backs
  <2>2. f[0] = pos /\ g[0] = Undone(pos, edit)
    BY <1>2, <1>3 DEF Backs
  <2>3. f[0 + 1] = g[0] /\ 0 \in 0..L
    BY <1>1, <2>1, <2>2
  <2> QED BY <2>3
<1>5. \A i \in 0..(L - 1) : i \in S => i + 1 \in S
  <2> SUFFICES ASSUME NEW i \in 0..(L - 1), f[i + 1] = g[i]
               PROVE  f[i + 1 + 1] = g[i + 1] /\ i + 1 \in 0..L
    OBVIOUS
  <2>1. /\ i + 2 \in 1..(L + 1) /\ i + 2 - 1 = i + 1 /\ Len(more) + 1 - (i + 2) = Len(edits) - i
        /\ i + 1 \in 1..L /\ i + 1 - 1 = i /\ Len(edits) + 1 - (i + 1) = Len(edits) - i
        /\ i + 1 + 1 = i + 2 /\ Len(edits) - i \in 1..Len(edits)
    BY <1>1
  <2>2. f[i + 2] = Undone(f[i + 1], more[Len(edits) - i])
    <3>1. \A x \in 1..(L + 1) : f[x] = Undone(f[x - 1], more[Len(more) + 1 - x])
      BY <1>2 DEF Backs
    <3>2. PICK x : x = i + 2
      OBVIOUS
    <3>3. x \in 1..(L + 1) /\ x - 1 = i + 1 /\ Len(more) + 1 - x = Len(edits) - i
      BY <2>1, <3>2
    <3> QED BY <3>1, <3>2, <3>3, Zenon
  <2>3. g[i + 1] = Undone(g[i], edits[Len(edits) - i])
    <3>1. \A x \in 1..L : g[x] = Undone(g[x - 1], edits[Len(edits) + 1 - x])
      BY <1>3 DEF Backs
    <3>2. PICK x : x = i + 1
      OBVIOUS
    <3>3. x \in 1..L /\ x - 1 = i /\ Len(edits) + 1 - x = Len(edits) - i
      BY <2>1, <3>2
    <3> QED BY <3>1, <3>2, <3>3, Zenon
  <2>4. more[Len(edits) - i] = edits[Len(edits) - i]
    BY <1>1, <2>1
  <2>5. i + 1 \in 0..L
    OBVIOUS
  <2> QED BY <2>1, <2>2, <2>3, <2>4, <2>5
<1>6. L \in S
  <2>1. 0..L \subseteq S
    <3> HIDE DEF S
    <3> QED BY <1>1, <1>4, <1>5, AllUpTo
  <2> QED BY <1>1, <2>1
<1> QED BY <1>2, <1>3, <1>6 DEF more


-----------------------------------------------------------------------------
(***************************************************************************)
(* A text stays mapped through its edits.                                  *)
(***************************************************************************)
LEMMA EditKeeps ==
    ASSUME NEW t \in Texts, NEW edits \in Seq(EditSet), NEW startEdit \in 0..Len(edits),
           NEW n \in Nat, MapsBack(t, edits, startEdit, n),
           NEW edit \in EditSet, NEW body \in Brought, Allowed(t, edit, body)
    PROVE  /\ Edited(t, edit, body) \in Texts
           /\ MapsBack(Edited(t, edit, body), Append(edits, edit), startEdit, n)
           /\ Append(edits, edit) \in Seq(EditSet)
           /\ startEdit \in 0..Len(Append(edits, edit))
<1> DEFINE u == Edited(t, edit, body)
<1>1. /\ u \in Texts
      /\ \A q \in 0..Len(u) : Undone(q, edit) \in 0..Len(t)
      /\ \A p \in 0..(Len(u) - 1) : u[p + 1] # New =>
            \E r \in 0..(Len(t) - 1) :
               t[r + 1] = u[p + 1] /\ \A q \in 0..Len(u) : p < q <=> r < Undone(q, edit)
  BY EditedFacts
<1> HIDE DEF u
<1>2. ASSUME NEW q \in 0..Len(u)
      PROVE  /\ MapToSource(q, Append(edits, edit), startEdit) \in 0..n
             /\ \A p \in 0..(Len(u) - 1) : u[p + 1] # New =>
                   (p < q <=> u[p + 1] < MapToSource(q, Append(edits, edit), startEdit))
  <2> DEFINE m == MapToSource(Undone(q, edit), edits, startEdit)
  <2>1. MapToSource(q, Append(edits, edit), startEdit) = m
    BY MapLast, Zenon
  <2>2. Undone(q, edit) \in 0..Len(t)
    BY <1>1
  <2>3. /\ m \in 0..n
        /\ \A r \in 0..(Len(t) - 1) : t[r + 1] # New => (r < Undone(q, edit) <=> t[r + 1] < m)
    BY <2>2, Zenon DEF MapsBack
  <2> HIDE DEF m
  <2>4. ASSUME NEW p \in 0..(Len(u) - 1), u[p + 1] # New
        PROVE  p < q <=> u[p + 1] < m
    <3>1. PICK r \in 0..(Len(t) - 1) :
             t[r + 1] = u[p + 1] /\ \A x \in 0..Len(u) : p < x <=> r < Undone(x, edit)
      BY <1>1, <2>4, Zenon
    <3>2. p < q <=> r < Undone(q, edit)
      BY <3>1
    <3>3. r < Undone(q, edit) <=> t[r + 1] < m
      BY <2>3, <2>4, <3>1
    <3> QED BY <3>1, <3>2, <3>3
  <2> QED BY <2>1, <2>3, <2>4
<1>3. MapsBack(u, Append(edits, edit), startEdit, n)
  BY <1>2, Zenon DEF MapsBack
<1>4. Append(edits, edit) \in Seq(EditSet) /\ startEdit \in 0..Len(Append(edits, edit))
  OBVIOUS
<1> QED BY <1>1, <1>3, <1>4 DEF u

(* A file just read maps to itself: only edits from then on count          *)
(* (preprocessor.c 649-662, textMapper.c 3).                               *)
THEOREM FreshTextMapsBack ==
    ASSUME NEW n \in Nat, NEW edits \in Seq(EditSet)
    PROVE  Source(n) \in Texts /\ MapsBack(Source(n), edits, Len(edits), n)
<1>1. Source(n) \in Seq(Int) /\ Len(Source(n)) = n
  BY DEF Source
<1>2. ASSUME NEW p \in 0..(n - 1)
      PROVE  Source(n)[p + 1] = p
  BY DEF Source
<1> QED BY <1>1, <1>2, MapNone DEF MapsBack, Texts

-----------------------------------------------------------------------------
(***************************************************************************)
(* The notes.  A line is spliced in place while the edits say where in the *)
(* whole text, of which it is a part.                                      *)
(***************************************************************************)
LEMMA SameAtoms ==
    ASSUME NEW S, NEW u \in Seq(S), NEW v \in Seq(S), Len(u) = Len(v),
           \A i \in 1..Len(u) : u[i] = v[i]
    PROVE  u = v
OBVIOUS

Whole(before, t, rest) == before \o t \o rest

LEMMA WholeFacts ==
    ASSUME NEW S, NEW before \in Seq(S), NEW t \in Seq(S), NEW rest \in Seq(S)
    PROVE  /\ Whole(before, t, rest) \in Seq(S)
           /\ Len(Whole(before, t, rest)) = Len(before) + Len(t) + Len(rest)
           /\ \A i \in 1..(Len(before) + Len(t) + Len(rest)) :
                 Whole(before, t, rest)[i] =
                    IF i <= Len(before) THEN before[i]
                    ELSE IF i <= Len(before) + Len(t) THEN t[i - Len(before)]
                    ELSE rest[i - (Len(before) + Len(t))]
<1> DEFINE a == before \o t
<1>1. /\ a \in Seq(S) /\ Len(a) = Len(before) + Len(t)
      /\ \A i \in 1..(Len(before) + Len(t)) :
            a[i] = IF i <= Len(before) THEN before[i] ELSE t[i - Len(before)]
  BY ConcatFacts
<1>2. Whole(before, t, rest) = a \o rest
  BY DEF Whole
<1> HIDE DEF a
<1>3. /\ a \o rest \in Seq(S) /\ Len(a \o rest) = Len(a) + Len(rest)
      /\ \A i \in 1..(Len(a) + Len(rest)) :
            (a \o rest)[i] = IF i <= Len(a) THEN a[i] ELSE rest[i - Len(a)]
  <2>1. a \in Seq(S)
    BY <1>1
  <2> QED BY <2>1, ConcatFacts
<1>4. ASSUME NEW i \in 1..(Len(before) + Len(t) + Len(rest))
      PROVE  (a \o rest)[i] = IF i <= Len(before) THEN before[i]
                    ELSE IF i <= Len(before) + Len(t) THEN t[i - Len(before)]
                    ELSE rest[i - (Len(before) + Len(t))]
  <2>1. CASE i <= Len(before) + Len(t)
    BY <1>1, <1>3, <2>1
  <2>2. CASE ~ (i <= Len(before) + Len(t))
    <3>1. ~ (i <= Len(before))
      BY <2>2
    <3> QED BY <1>1, <1>3, <2>2, <3>1
  <2> QED BY <2>1, <2>2
<1> QED BY <1>1, <1>2, <1>3, <1>4

(* Splicing a line splices the whole, further behind.                      *)
LEMMA WholeSpliced ==
    ASSUME NEW S, NEW before \in Seq(S), NEW t \in Seq(S), NEW rest \in Seq(S),
           NEW body \in Seq(S), NEW p \in Nat, NEW n \in Nat, p + n <= Len(t)
    PROVE  Whole(before, Spliced(t, p, body, n), rest)
              = Spliced(Whole(before, t, rest), p + Len(before), body, n)
<1> DEFINE u == Spliced(t, p, body, n)
           w == Whole(before, t, rest)
           l == Whole(before, u, rest)
           r == Spliced(w, p + Len(before), body, n)
<1>1. u \in Seq(S) /\ HasIn(u, t, p, body, n)
  BY SplicedFacts
<1> HIDE DEF u
<1>2. /\ w \in Seq(S) /\ Len(w) = Len(before) + Len(t) + Len(rest)
      /\ \A i \in 1..(Len(before) + Len(t) + Len(rest)) :
            w[i] = IF i <= Len(before) THEN before[i]
                   ELSE IF i <= Len(before) + Len(t) THEN t[i - Len(before)]
                   ELSE rest[i - (Len(before) + Len(t))]
  BY WholeFacts
<1>3. /\ l \in Seq(S) /\ Len(l) = Len(before) + Len(u) + Len(rest)
      /\ \A i \in 1..(Len(before) + Len(u) + Len(rest)) :
            l[i] = IF i <= Len(before) THEN before[i]
                   ELSE IF i <= Len(before) + Len(u) THEN u[i - Len(before)]
                   ELSE rest[i - (Len(before) + Len(u))]
  BY <1>1, WholeFacts
<1> HIDE DEF w, l
<1>4. r \in Seq(S) /\ HasIn(r, w, p + Len(before), body, n)
  <2>1. p + Len(before) \in Nat /\ p + Len(before) + n <= Len(w)
    BY <1>2
  <2> QED BY <1>2, <2>1, SplicedFacts
<1> HIDE DEF r
<1>5. Len(u) = Len(t) + Len(body) - n /\ Len(l) = Len(r)
  BY <1>1, <1>2, <1>3, <1>4 DEF HasIn
<1>6. ASSUME NEW i \in 1..Len(l)
      PROVE  l[i] = r[i]
  <2>1. /\ i \in 1..(Len(before) + Len(u) + Len(rest))
        /\ i \in 1..(Len(w) + Len(body) - n)
    BY <1>2, <1>3, <1>5
  <2>2. r[i] = IF i <= p + Len(before) THEN w[i]
               ELSE IF i <= p + Len(before) + Len(body) THEN body[i - (p + Len(before))]
               ELSE w[i - Len(body) + n]
    BY <1>4, <2>1 DEF HasIn
  <2>3. CASE i <= Len(before)
    <3>1. i <= p + Len(before) /\ i \in 1..(Len(before) + Len(t) + Len(rest))
      BY <2>1, <2>3
    <3>2. l[i] = before[i]
      BY <1>3, <2>1, <2>3
    <3>3. w[i] = before[i]
      BY <1>2, <2>3, <3>1
    <3> QED BY <2>2, <3>1, <3>2, <3>3
  <2>4. CASE Len(before) < i /\ i <= Len(before) + Len(u)
    <3> DEFINE j == i - Len(before)
    <3>1. j \in 1..Len(u) /\ l[i] = u[j]
      <4>1. ~ (i <= Len(before))
        BY <2>4
      <4> QED BY <1>3, <2>1, <2>4, <4>1
    <3>2. u[j] = IF j <= p THEN t[j] ELSE IF j <= p + Len(body) THEN body[j - p]
                 ELSE t[j - Len(body) + n]
      BY <1>1, <1>5, <3>1 DEF HasIn
    <3>3. CASE j <= p
      <4>1. i <= p + Len(before) /\ i \in 1..(Len(before) + Len(t) + Len(rest))
            /\ i <= Len(before) + Len(t) /\ ~ (i <= Len(before))
        BY <2>4, <3>3
      <4>2. w[i] = t[j]
        BY <1>2, <4>1
      <4> QED BY <2>2, <3>1, <3>2, <3>3, <4>1, <4>2
    <3>4. CASE p < j /\ j <= p + Len(body)
      <4>1. ~ (i <= p + Len(before)) /\ i <= p + Len(before) + Len(body)
            /\ i - (p + Len(before)) = j - p /\ ~ (j <= p)
        BY <3>4
      <4> QED BY <2>2, <3>1, <3>2, <3>4, <4>1
    <3>5. CASE p + Len(body) < j
      <4> DEFINE k == i - Len(body) + n
      <4>1. /\ ~ (i <= p + Len(before)) /\ ~ (i <= p + Len(before) + Len(body))
            /\ ~ (j <= p) /\ ~ (j <= p + Len(body))
            /\ k \in 1..(Len(before) + Len(t) + Len(rest))
            /\ ~ (k <= Len(before)) /\ k <= Len(before) + Len(t)
            /\ k - Len(before) = j - Len(body) + n
        BY <1>5, <2>4, <3>5
      <4>2. w[k] = t[k - Len(before)]
        BY <1>2, <4>1
      <4> QED BY <2>2, <3>1, <3>2, <4>1, <4>2
    <3> HIDE DEF j
    <3> QED BY <3>1, <3>3, <3>4, <3>5
  <2>5. CASE Len(before) + Len(u) < i
    <3> DEFINE k == i - Len(body) + n
    <3>1. /\ ~ (i <= p + Len(before)) /\ ~ (i <= p + Len(before) + Len(body))
          /\ ~ (i <= Len(before)) /\ ~ (i <= Len(before) + Len(u))
          /\ k \in 1..(Len(before) + Len(t) + Len(rest))
          /\ ~ (k <= Len(before)) /\ ~ (k <= Len(before) + Len(t))
          /\ k - (Len(before) + Len(t)) = i - (Len(before) + Len(u))
      BY <1>5, <2>1, <2>5
    <3>2. w[k] = rest[k - (Len(before) + Len(t))]
      BY <1>2, <3>1
    <3>3. l[i] = rest[i - (Len(before) + Len(u))]
      BY <1>3, <2>1, <3>1
    <3> QED BY <2>2, <3>1, <3>2, <3>3
  <2> QED BY <1>1, <2>1, <2>3, <2>4, <2>5
<1>7. l = r
  BY <1>3, <1>4, <1>5, <1>6, SameAtoms
<1> QED BY <1>7 DEF l, r, u, w


LEMMA TextSpliced ==
    \A before, t, rest, body \in Texts : \A p, n \in Nat :
        p + n <= Len(t) =>
            Whole(before, Spliced(t, p, body, n), rest)
               = Spliced(Whole(before, t, rest), p + Len(before), body, n)
<1> SUFFICES ASSUME NEW before \in Texts, NEW t \in Texts, NEW rest \in Texts,
                    NEW body \in Texts, NEW p \in Nat, NEW n \in Nat, p + n <= Len(t)
             PROVE  Whole(before, Spliced(t, p, body, n), rest)
                       = Spliced(Whole(before, t, rest), p + Len(before), body, n)
  OBVIOUS
<1>1. before \in Seq(Int) /\ t \in Seq(Int) /\ rest \in Seq(Int) /\ body \in Seq(Int)
  BY DEF Texts
<1> QED BY <1>1, WholeSpliced

(* Replacing is removing, then inserting.                                  *)
LEMMA SplicedTwice ==
    ASSUME NEW S, NEW t \in Seq(S), NEW body \in Seq(S),
           NEW p \in Nat, NEW n \in Nat, p + n <= Len(t)
    PROVE  /\ Spliced(t, p, <<>>, n) \in Seq(S)
           /\ p <= Len(Spliced(t, p, <<>>, n))
           /\ Spliced(Spliced(t, p, <<>>, n), p, body, 0) = Spliced(t, p, body, n)
<1> DEFINE v == Spliced(t, p, <<>>, n)
           l == Spliced(v, p, body, 0)
           r == Spliced(t, p, body, n)
<1>0. <<>> \in Seq(S) /\ Len(<<>>) = 0 /\ 0 \in Nat
  OBVIOUS
<1>1. v \in Seq(S) /\ HasIn(v, t, p, <<>>, n)
  BY <1>0, SplicedFacts
<1>2. r \in Seq(S) /\ HasIn(r, t, p, body, n)
  BY SplicedFacts
<1> HIDE DEF v, r
<1>3. /\ Len(v) = Len(t) - n
      /\ \A i \in 1..(Len(t) - n) : v[i] = IF i <= p THEN t[i] ELSE t[i + n]
  <2>1. Len(t) + 0 - n = Len(t) - n /\ p + 0 = p
    OBVIOUS
  <2>2. \A i \in 1..(Len(t) - n) : i - 0 + n = i + n
    OBVIOUS
  <2> QED BY <1>0, <1>1, <2>1, <2>2 DEF HasIn
<1>4. l \in Seq(S) /\ HasIn(l, v, p, body, 0)
  <2>1. p + 0 <= Len(v)
    BY <1>3
  <2> QED BY <1>0, <1>1, <2>1, SplicedFacts
<1> HIDE DEF l
<1>5. Len(l) = Len(t) + Len(body) - n /\ Len(r) = Len(l)
  BY <1>2, <1>3, <1>4 DEF HasIn
<1>6. ASSUME NEW i \in 1..Len(l)
      PROVE  l[i] = r[i]
  <2>1. i \in 1..(Len(v) + Len(body) - 0) /\ i \in 1..(Len(t) + Len(body) - n)
    BY <1>3, <1>5
  <2>2. l[i] = IF i <= p THEN v[i] ELSE IF i <= p + Len(body) THEN body[i - p]
               ELSE v[i - Len(body) + 0]
    BY <1>4, <2>1 DEF HasIn
  <2>3. r[i] = IF i <= p THEN t[i] ELSE IF i <= p + Len(body) THEN body[i - p]
               ELSE t[i - Len(body) + n]
    BY <1>2, <2>1 DEF HasIn
  <2>4. CASE i <= p
    <3>1. i \in 1..(Len(t) - n)
      BY <2>4
    <3> QED BY <1>3, <2>2, <2>3, <2>4, <3>1
  <2>5. CASE p + Len(body) < i
    <3>1. /\ i - Len(body) + 0 = i - Len(body) /\ i - Len(body) \in 1..(Len(t) - n)
          /\ ~ (i - Len(body) <= p) /\ ~ (i <= p) /\ ~ (i <= p + Len(body))
      BY <1>5, <2>5
    <3>2. v[i - Len(body)] = t[i - Len(body) + n]
      BY <1>3, <3>1
    <3> QED BY <2>2, <2>3, <3>1, <3>2
  <2> QED BY <2>2, <2>3, <2>4, <2>5
<1>7. l = r
  BY <1>2, <1>4, <1>5, <1>6, SameAtoms
<1> QED BY <1>1, <1>3, <1>7 DEF l, r, v

(* Nothing is noted of what changes nothing.                               *)
LEMMA SplicedNone ==
    ASSUME NEW S, NEW t \in Seq(S), NEW p \in Nat, p <= Len(t)
    PROVE  Spliced(t, p, <<>>, 0) = t
<1>1. /\ <<>> \in Seq(S) /\ Len(<<>>) = 0 /\ 0 \in Nat /\ p + 0 <= Len(t)
      /\ Len(t) + 0 - 0 = Len(t) /\ p + 0 = p
  OBVIOUS
<1>2. Spliced(t, p, <<>>, 0) \in Seq(S) /\ HasIn(Spliced(t, p, <<>>, 0), t, p, <<>>, 0)
  BY <1>1, SplicedFacts
<1>3. \A i \in 1..Len(t) : i - 0 + 0 = i
  OBVIOUS
<1>4. /\ Len(Spliced(t, p, <<>>, 0)) = Len(t)
      /\ \A i \in 1..Len(t) : Spliced(t, p, <<>>, 0)[i] = t[i]
  BY <1>1, <1>2, <1>3 DEF HasIn
<1> QED BY <1>2, <1>4, SameAtoms

-----------------------------------------------------------------------------
LEMMA NoteKeeps ==
    ASSUME NEW w \in Texts, NEW edits \in Seq(EditSet), NEW startEdit \in 0..Len(edits),
           NEW n \in Nat, MapsBack(w, edits, startEdit, n),
           NEW type \in {"insert", "remove"}, NEW where \in Nat, NEW len \in Nat,
           NEW body \in Brought, Allowed(w, Edit(type, where, len), body)
    PROVE  LET u == Edited(w, Edit(type, where, len), body)
               more == edits \o EditOf(type, where, len)
           IN  /\ u \in Texts
               /\ MapsBack(u, more, startEdit, n)
               /\ more \in Seq(EditSet)
               /\ startEdit \in 0..Len(more)
<1> DEFINE edit == Edit(type, where, len)
           u == Edited(w, edit, body)
           more == edits \o EditOf(type, where, len)
<1>0. edit \in EditSet /\ edit.type = type /\ edit.where = where /\ edit.len = len
  BY DEF Edit, EditSet
<1>1. CASE len = 0
  <2>1. w \in Seq(Int) /\ where <= Len(w)
    BY <1>0 DEF Texts, Allowed
  <2>2. u = Spliced(w, where, <<>>, 0)
    <3>1. CASE type = "insert"
      <4>1. Len(body) = 0
        BY <1>0, <1>1, <3>1 DEF Allowed
      <4>2. body = <<>>
        BY <4>1 DEF Brought
      <4> QED BY <1>0, <3>1, <4>2 DEF Edited
    <3>2. CASE type = "remove"
      BY <1>0, <1>1, <3>2 DEF Edited
    <3> QED BY <3>1, <3>2
  <2>3. u = w
    BY <2>1, <2>2, SplicedNone
  <2>4. more = edits
    <3>1. EditOf(type, where, len) = <<>>
      BY <1>1 DEF EditOf
    <3> QED BY <3>1
  <2> QED BY <2>3, <2>4
<1>2. CASE len # 0
  <2>1. more = Append(edits, edit)
    <3>1. EditOf(type, where, len) = <<edit>>
      BY <1>2 DEF EditOf
    <3> HIDE DEF edit
    <3>2. edits \o <<edit>> = Append(edits, edit)
      BY <1>0
    <3> QED BY <3>1, <3>2
  <2> HIDE DEF edit, more
  <2>2. /\ u \in Texts
        /\ MapsBack(u, Append(edits, edit), startEdit, n)
        /\ Append(edits, edit) \in Seq(EditSet)
        /\ startEdit \in 0..Len(Append(edits, edit))
    <3>1. Allowed(w, edit, body)
      BY DEF edit
    <3> QED BY <1>0, <3>1, EditKeeps
  <2> QED BY <2>1, <2>2 DEF edit, more
<1> QED BY <1>1, <1>2

(* Replacing part of a line keeps every file that is open mapped: the two  *)
(* notes of insertMacroText, placed by lineStart, say what it did to the   *)
(* whole text (preprocessor.c 320-349).                                    *)
THEOREM InsertMacroMapsBack ==
    ASSUME NEW Used, NEW Fates,
           NEW e \in [t : Texts, at : Nat, edits : Seq(EditSet),
                      used : Used, expanded : BOOLEAN, fate : Fates],
           NEW before \in Texts, NEW rest \in Texts, e.at = Len(before),
           NEW p \in Nat, NEW n \in Nat, p + n <= Len(e.t), NEW body \in Brought,
           NEW size \in Nat, NEW startEdit \in 0..Len(e.edits),
           MapsBack(Whole(before, e.t, rest), e.edits, startEdit, size)
    PROVE  LET f == InsertMacroText(e, body, p, n)
           IN  /\ f \in [t : Texts, at : {e.at}, edits : Seq(EditSet),
                         used : Used, expanded : BOOLEAN, fate : Fates]
               /\ startEdit \in 0..Len(f.edits)
               /\ MapsBack(Whole(before, f.t, rest), f.edits, startEdit, size)
<1> DEFINE f == InsertMacroText(e, body, p, n)
           at == p + e.at
           w0 == Whole(before, e.t, rest)
           w1 == Whole(before, Spliced(e.t, p, <<>>, n), rest)
           w2 == Whole(before, Spliced(e.t, p, body, n), rest)
           edits1 == e.edits \o EditOf("remove", at, n)
           edits2 == edits1 \o EditOf("insert", at, Len(body))
<1>0. /\ e.t \in Seq(Int) /\ e.at \in Nat /\ e.edits \in Seq(EditSet) /\ at \in Nat
      /\ before \in Seq(Int) /\ rest \in Seq(Int) /\ body \in Seq(Int) /\ <<>> \in Seq(Int)
      /\ Len(body) \in Nat /\ <<>> \in Brought /\ Len(<<>>) = 0
      /\ e.t \in Texts /\ body \in Texts /\ <<>> \in Texts
  BY DEF Texts, Brought, New
<1>1. /\ f.t = Spliced(e.t, p, body, n) /\ f.edits = edits2
      /\ Spliced(e.t, p, body, n) \in Texts
      /\ edits2 \in Seq(EditSet) =>
            f \in [t : Texts, at : {e.at}, edits : Seq(EditSet),
                   used : Used, expanded : BOOLEAN, fate : Fates]
  <2>1. Spliced(e.t, p, body, n) \in Texts
    BY <1>0, SplicedFacts DEF Texts
  <2> DEFINE s == Spliced(e.t, p, body, n)
  <2>2. f = [e EXCEPT !.t = s, !.edits = edits2]
    BY DEF InsertMacroText
  <2> HIDE DEF s, edits2
  <2> QED BY <2>1, <2>2 DEF s
<1>2. /\ w1 \in Texts /\ MapsBack(w1, edits1, startEdit, size)
      /\ edits1 \in Seq(EditSet) /\ startEdit \in 0..Len(edits1)
  <2>1. w1 = Spliced(w0, at, <<>>, n)
    <3>1. Whole(before, Spliced(e.t, p, <<>>, n), rest)
             = Spliced(Whole(before, e.t, rest), p + Len(before), <<>>, n)
      <4>1. /\ before \in Texts /\ e.t \in Texts /\ rest \in Texts /\ <<>> \in Texts
            /\ p \in Nat /\ n \in Nat /\ p + n <= Len(e.t)
        BY <1>0
      <4> DEFINE line == e.t
                 none == <<>>
      <4> HIDE DEF line, none
      <4>2. Whole(before, Spliced(line, p, none, n), rest)
               = Spliced(Whole(before, line, rest), p + Len(before), none, n)
        BY <4>1, TextSpliced DEF line, none
      <4> QED BY <4>2 DEF line, none
    <3> QED BY <3>1
  <2>2. w0 \in Texts /\ at + n <= Len(w0)
    <3>1. w0 \in Seq(Int) /\ Len(w0) = Len(before) + Len(e.t) + Len(rest)
      BY <1>0, WholeFacts
    <3> QED BY <1>0, <3>1 DEF Texts
  <2>3. Edited(w0, Edit("remove", at, n), <<>>) = Spliced(w0, at, <<>>, n)
    BY DEF Edited, Edit
  <2>4. Allowed(w0, Edit("remove", at, n), <<>>)
    <3>1. w0 \in Seq(Int) /\ Len(w0) \in Nat
      BY <2>2 DEF Texts
    <3> HIDE DEF w0, at
    <3> QED BY <1>0, <2>2, <3>1 DEF Allowed, Edit
  <2> HIDE DEF w0, w1, at
  <2>5. MapsBack(w0, e.edits, startEdit, size)
    BY DEF w0
  <2> QED BY <1>0, <2>1, <2>2, <2>3, <2>4, <2>5, NoteKeeps
<1>3. /\ MapsBack(w2, edits2, startEdit, size)
      /\ edits2 \in Seq(EditSet) /\ startEdit \in 0..Len(edits2)
  <2> DEFINE v == Spliced(e.t, p, <<>>, n)
  <2>1. /\ v \in Seq(Int) /\ p <= Len(v)
        /\ Spliced(v, p, body, 0) = Spliced(e.t, p, body, n)
    BY <1>0, SplicedTwice
  <2>2. w2 = Spliced(w1, at, body, 0)
    <3> HIDE DEF v
    <3>1. 0 \in Nat /\ p + 0 <= Len(v)
      BY <2>1
    <3>2. Whole(before, Spliced(v, p, body, 0), rest)
             = Spliced(Whole(before, v, rest), p + Len(before), body, 0)
      <4>1. v \in Texts
        BY <2>1 DEF Texts
      <4>2. body \in Texts
        BY <1>0
      <4> QED BY <3>1, <4>1, <4>2, TextSpliced
    <3> QED BY <2>1, <3>2 DEF v
  <2>3. at <= Len(w1)
    <3> HIDE DEF v
    <3>1. Len(Whole(before, v, rest)) = Len(before) + Len(v) + Len(rest)
      BY <1>0, <2>1, WholeFacts
    <3>2. w1 = Whole(before, v, rest)
      BY DEF v
    <3> QED BY <1>0, <2>1, <3>1, <3>2
  <2>4. Edited(w1, Edit("insert", at, Len(body)), body) = Spliced(w1, at, body, 0)
    BY DEF Edited, Edit
  <2>5. Allowed(w1, Edit("insert", at, Len(body)), body)
    BY <2>3 DEF Allowed, Edit
  <2> HIDE DEF w1, w2, at, edits1
  <2> QED BY <1>0, <1>2, <2>2, <2>4, <2>5, NoteKeeps
<1> HIDE DEF f, w2, edits2
<1> QED BY <1>1, <1>3 DEF f, w2

(* Opening a file puts its text where the line starts, and keeps the files *)
(* mapped that include it (preprocessor.c 649-662).                        *)
THEOREM IncludeMapsBack ==
    ASSUME NEW out \in Texts, NEW rest \in Texts, NEW text \in Brought,
           NEW edits \in Seq(EditSet), NEW startEdit \in 0..Len(edits), NEW size \in Nat,
           MapsBack(out \o rest, edits, startEdit, size)
    PROVE  MapsBack(out \o text \o rest, Append(edits, Edit("insert", Len(out), Len(text))),
                    startEdit, size)
<1> DEFINE t == out \o rest
           edit == Edit("insert", Len(out), Len(text))
<1>0. /\ out \in Seq(Int) /\ rest \in Seq(Int) /\ text \in Seq(Int)
      /\ <<>> \in Seq(Int) /\ Len(<<>>) = 0 /\ 0 \in Nat
  BY DEF Texts, Brought, New
<1>1. t \in Texts /\ Len(t) = Len(out) + Len(rest)
  BY <1>0 DEF Texts
<1>2. edit \in EditSet /\ Allowed(t, edit, text)
  BY <1>0, <1>1 DEF Edit, EditSet, Allowed
<1>3. Edited(t, edit, text) = Spliced(t, Len(out), text, 0)
  BY DEF Edited, Edit
<1>4. Spliced(t, Len(out), text, 0) = out \o text \o rest
  <2> DEFINE none == <<>>
  <2>1. none \in Seq(Int) /\ Len(none) = 0 /\ \A u \in Seq(Int) : u \o none = u
    OBVIOUS
  <2> HIDE DEF none
  <2>2. Spliced(none, 0, text, 0) = text
    <3>1. 0 + 0 <= Len(none)
      BY <2>1
    <3>2. Spliced(none, 0, text, 0) \in Seq(Int) /\ HasIn(Spliced(none, 0, text, 0), none, 0, text, 0)
      BY <1>0, <2>1, <3>1, SplicedFacts
    <3>3. 0 + Len(text) - 0 = Len(text) /\ 0 + Len(text) = Len(text) /\ \A i \in 1..Len(text) : i - 0 = i
      BY <1>0
    <3>4. PICK s : s = Spliced(none, 0, text, 0)
      OBVIOUS
    <3>5. s \in Seq(Int) /\ HasIn(s, none, 0, text, 0)
      BY <3>2, <3>4
    <3>6. Len(s) = Len(text)
      BY <1>0, <2>1, <3>5 DEF HasIn
    <3>7. ASSUME NEW i \in 1..Len(text)
          PROVE  s[i] = text[i]
      BY <1>0, <2>1, <3>3, <3>5, <3>7 DEF HasIn
    <3> QED BY <1>0, <3>4, <3>5, <3>6, <3>7, SameAtoms
  <2>3. Whole(out, Spliced(none, 0, text, 0), rest)
           = Spliced(Whole(out, none, rest), 0 + Len(out), text, 0)
    <3> DEFINE zero == 0
    <3>1. zero \in Nat /\ zero + zero <= Len(none)
      BY <2>1
    <3> HIDE DEF zero
    <3>2. Whole(out, Spliced(none, zero, text, zero), rest)
             = Spliced(Whole(out, none, rest), zero + Len(out), text, zero)
      <4>1. none \in Texts /\ text \in Texts
        BY <1>0, <2>1 DEF Texts
      <4> QED BY <3>1, <4>1, TextSpliced
    <3> QED BY <3>2 DEF zero
  <2>4. Whole(out, none, rest) = t /\ 0 + Len(out) = Len(out)
    BY <1>0, <2>1 DEF Whole
  <2> QED BY <2>2, <2>3, <2>4 DEF Whole
<1> HIDE DEF edit
<1>5. MapsBack(Edited(t, edit, text), Append(edits, edit), startEdit, size)
  <2> HIDE DEF t
  <2>1. MapsBack(t, edits, startEdit, size)
    BY DEF t
  <2> QED BY <1>1, <1>2, <2>1, EditKeeps
<1> QED BY <1>3, <1>4, <1>5 DEF edit

-----------------------------------------------------------------------------
(* Where the source of an atom is looked for: at its place, or before it   *)
(* where all between was edited away; exactly there when the atom in front *)
(* of it is left, too (textMapper.c 2-21, diagMsg.c 213-221).              *)
THEOREM AtomsMapBack ==
    ASSUME NEW t \in Texts, NEW edits \in Seq(EditSet), NEW startEdit \in 0..Len(edits),
           NEW n \in Nat, MapsBack(t, edits, startEdit, n),
           NEW q \in 0..(Len(t) - 1), t[q + 1] # New
    PROVE  LET place == t[q + 1]
               m == MapToSource(q, edits, startEdit)
               Left(x) == \E p \in 0..(Len(t) - 1) : t[p + 1] = x
           IN  /\ m <= place
               /\ \A x \in m..(place - 1) : ~ Left(x)
               /\ place = 0 \/ (place > 0 /\ Left(place - 1)) => m = place
<1> DEFINE place == t[q + 1]
           m == MapToSource(q, edits, startEdit)
           Left(x) == \E p \in 0..(Len(t) - 1) : t[p + 1] = x
<1>0. t \in Seq(Int) /\ Len(t) \in Nat /\ place \in Int
  BY DEF Texts
<1>1. ASSUME NEW p \in 0..(Len(t) - 1)
      PROVE  MapToSource(p, edits, startEdit) \in 0..n
  <2>1. p \in 0..Len(t)
    BY <1>0
  <2> QED BY <2>1 DEF MapsBack
<1>2. ASSUME NEW p \in 0..(Len(t) - 1), NEW r \in 0..(Len(t) - 1), t[r + 1] # New
      PROVE  r < p <=> t[r + 1] < MapToSource(p, edits, startEdit)
  <2>1. p \in 0..Len(t)
    BY <1>0
  <2> QED BY <1>2, <2>1 DEF MapsBack
<1>3. m \in 0..n /\ m <= place
  <2>1. ~ (q < q)
    BY <1>0
  <2>2. m \in 0..n /\ (q < q <=> place < m)
    BY <1>1, <1>2
  <2> HIDE DEF m, place
  <2> QED BY <1>0, <2>1, <2>2
<1>4. ASSUME NEW x \in m..(place - 1), Left(x)
      PROVE  FALSE
  <2>1. PICK p \in 0..(Len(t) - 1) : t[p + 1] = x
    BY <1>4
  <2> DEFINE k == MapToSource(p, edits, startEdit)
  <2>2. x # New
    BY <1>3 DEF New
  <2>3. (p < q <=> x < m) /\ (p < p <=> x < k) /\ (q < p <=> place < k) /\ k \in 0..n
    BY <1>1, <1>2, <2>1, <2>2
  <2>4. p # q
    BY <1>0, <2>1
  <2>5. x \in Int /\ m <= x /\ x < place
    BY <1>0, <1>3
  <2> HIDE DEF k, m, place
  <2>6. ~ (p < q) /\ q < p
    BY <1>3, <2>3, <2>4, <2>5
  <2> QED BY <1>0, <2>3, <2>5, <2>6
<1>5. ASSUME place = 0 \/ (place > 0 /\ Left(place - 1))
      PROVE  m = place
  <2>1. CASE place = 0
    BY <1>3, <2>1
  <2>2. CASE place > 0 /\ Left(place - 1)
    <3>1. ~ (place - 1 \in m..(place - 1))
      BY <1>4, <2>2
    <3> HIDE DEF m, place, Left
    <3> QED BY <1>0, <1>3, <3>1
  <2> QED BY <1>5, <2>1, <2>2
<1> QED BY <1>3, <1>4, <1>5

-----------------------------------------------------------------------------
(***************************************************************************)
(* Emission: a loop over the nodes is a run, one graph after the other     *)
(***************************************************************************)
(* f[n] is g when its labels up to n have been looked at.                   *)
Unlabels(f, g, N) ==
    /\ f[0] = g
    /\ \A i \in 1..N :
          f[i] = IF IsLabel(g, i) THEN WithoutNeedless(f[i - 1], i) ELSE f[i - 1]

LEMMA UnlabelRun ==
    ASSUME NEW g, Top(g) \in Nat
    PROVE  \E f : /\ Unlabels(f, g, Top(g))
                  /\ RemoveNeedlessLabels(g) = f[Top(g)]
<1> DEFINE Step(x, i) == IF IsLabel(g, i) THEN WithoutNeedless(x, i) ELSE x
           Base == g
           Runs(f, n) == f = [i \in 0..n |-> IF i = 0 THEN Base ELSE Step(f[i - 1], i)]
           S == {n \in Nat : \E f : Runs(f, n)}
           L == Top(g)
           run[i \in 0..L] == IF i = 0 THEN Base ELSE Step(run[i - 1], i)
<1>1. RemoveNeedlessLabels(g) = run[L]
  BY Zenon DEF RemoveNeedlessLabels
<1>2. (\E f : Runs(f, L)) => run = [i \in 0..L |-> IF i = 0 THEN Base ELSE Step(run[i - 1], i)]
  BY Zenon
<1>3. \A x, i : Step(x, i) = IF IsLabel(g, i) THEN WithoutNeedless(x, i) ELSE x
  OBVIOUS
<1>0. Base = g
  OBVIOUS
<1> HIDE DEF Step, run, Base, L
<1>4. 0 \in S
  <2> DEFINE h == [i \in 0..0 |-> Base]
  <2>1. Runs(h, 0)
    OBVIOUS
  <2> QED BY <2>1, Zenon
<1>5. ASSUME NEW n \in Nat, n \in S
      PROVE  n + 1 \in S
  <2>1. PICK f : Runs(f, n)
    BY <1>5
  <2> DEFINE h == [i \in 0..(n + 1) |-> IF i = n + 1 THEN Step(f[n], n + 1) ELSE f[i]]
  <2>2. /\ h = [i \in 0..(n + 1) |-> h[i]]
        /\ \A i \in 0..n : h[i] = f[i]
        /\ h[n + 1] = Step(f[n], n + 1)
    OBVIOUS
  <2>3. \A i \in 0..n : i # 0 => f[i] = Step(f[i - 1], i) /\ i - 1 \in 0..n
    BY <2>1
  <2>4. f[0] = Base
    BY <2>1
  <2> HIDE DEF h
  <2>5. \A i \in 0..(n + 1) : h[i] = IF i = 0 THEN Base ELSE Step(h[i - 1], i)
    <3> TAKE i \in 0..(n + 1)
    <3>1. CASE i = n + 1
      <4>1. i - 1 = n /\ i # 0 /\ n \in 0..n
        BY <3>1
      <4> QED BY <2>2, <3>1, <4>1
    <3>2. CASE i # n + 1
      <4>1. i \in 0..n
        BY <3>2
      <4> QED BY <2>2, <2>3, <2>4, <4>1
    <3> QED BY <3>1, <3>2
  <2>6. Runs(h, n + 1)
    BY <2>2, <2>5, Zenon
  <2>7. n + 1 \in Nat
    OBVIOUS
  <2> HIDE DEF Runs
  <2> QED BY <2>6, <2>7, Zenon
<1>6. \E f : Runs(f, L)
  <2> HIDE DEF Runs
  <2>1. Nat \subseteq S
    <3> HIDE DEF S
    <3> QED BY <1>4, <1>5, AllNumbers
  <2>2. L \in Nat
    BY DEF L
  <2> QED BY <2>1, <2>2
<1>7. run = [i \in 0..L |-> IF i = 0 THEN Base ELSE Step(run[i - 1], i)]
  BY <1>2, <1>6
<1>8. L \in Nat
  BY DEF L
<1>9. run[0] = Base /\ \A i \in 1..L : run[i] = Step(run[i - 1], i)
  BY <1>7, <1>8
<1>10. Unlabels(run, g, L)
  BY <1>3, <1>9, <1>0 DEF Unlabels
<1> HIDE DEF Runs
<1> QED BY <1>1, <1>10, Zenon DEF L

(* f[i] is g when its last i nodes have got their labels.                   *)
Labels(f, g, N) ==
    /\ f[0] = g
    /\ \A i \in 1..N :
          f[i] = IF NeedsLabel(g, Top(g) + 1 - i) THEN WithLabel(f[i - 1], Top(g) + 1 - i)
                 ELSE f[i - 1]

LEMMA LabelRun ==
    ASSUME NEW g, Top(g) \in Nat
    PROVE  \E f : /\ Labels(f, g, Top(g))
                  /\ LabelsForAsm(g) = f[Top(g)]
<1> DEFINE Step(x, i) == IF NeedsLabel(g, Top(g) + 1 - i) THEN WithLabel(x, Top(g) + 1 - i) ELSE x
           Base == g
           Runs(f, n) == f = [i \in 0..n |-> IF i = 0 THEN Base ELSE Step(f[i - 1], i)]
           S == {n \in Nat : \E f : Runs(f, n)}
           L == Top(g)
           run[i \in 0..L] == IF i = 0 THEN Base ELSE Step(run[i - 1], i)
<1>1. LabelsForAsm(g) = run[L]
  BY Zenon DEF LabelsForAsm
<1>2. (\E f : Runs(f, L)) => run = [i \in 0..L |-> IF i = 0 THEN Base ELSE Step(run[i - 1], i)]
  BY Zenon
<1>3. \A x, i : Step(x, i) = IF NeedsLabel(g, Top(g) + 1 - i) THEN WithLabel(x, Top(g) + 1 - i) ELSE x
  OBVIOUS
<1>0. Base = g
  OBVIOUS
<1> HIDE DEF Step, run, Base, L
<1>4. 0 \in S
  <2> DEFINE h == [i \in 0..0 |-> Base]
  <2>1. Runs(h, 0)
    OBVIOUS
  <2> QED BY <2>1, Zenon
<1>5. ASSUME NEW n \in Nat, n \in S
      PROVE  n + 1 \in S
  <2>1. PICK f : Runs(f, n)
    BY <1>5
  <2> DEFINE h == [i \in 0..(n + 1) |-> IF i = n + 1 THEN Step(f[n], n + 1) ELSE f[i]]
  <2>2. /\ h = [i \in 0..(n + 1) |-> h[i]]
        /\ \A i \in 0..n : h[i] = f[i]
        /\ h[n + 1] = Step(f[n], n + 1)
    OBVIOUS
  <2>3. \A i \in 0..n : i # 0 => f[i] = Step(f[i - 1], i) /\ i - 1 \in 0..n
    BY <2>1
  <2>4. f[0] = Base
    BY <2>1
  <2> HIDE DEF h
  <2>5. \A i \in 0..(n + 1) : h[i] = IF i = 0 THEN Base ELSE Step(h[i - 1], i)
    <3> TAKE i \in 0..(n + 1)
    <3>1. CASE i = n + 1
      <4>1. i - 1 = n /\ i # 0 /\ n \in 0..n
        BY <3>1
      <4> QED BY <2>2, <3>1, <4>1
    <3>2. CASE i # n + 1
      <4>1. i \in 0..n
        BY <3>2
      <4> QED BY <2>2, <2>3, <2>4, <4>1
    <3> QED BY <3>1, <3>2
  <2>6. Runs(h, n + 1)
    BY <2>2, <2>5, Zenon
  <2>7. n + 1 \in Nat
    OBVIOUS
  <2> HIDE DEF Runs
  <2> QED BY <2>6, <2>7, Zenon
<1>6. \E f : Runs(f, L)
  <2> HIDE DEF Runs
  <2>1. Nat \subseteq S
    <3> HIDE DEF S
    <3> QED BY <1>4, <1>5, AllNumbers
  <2>2. L \in Nat
    BY DEF L
  <2> QED BY <2>1, <2>2
<1>7. run = [i \in 0..L |-> IF i = 0 THEN Base ELSE Step(run[i - 1], i)]
  BY <1>2, <1>6
<1>8. L \in Nat
  BY DEF L
<1>9. run[0] = Base /\ \A i \in 1..L : run[i] = Step(run[i - 1], i)
  BY <1>7, <1>8
<1>10. Labels(run, g, L)
  BY <1>3, <1>9, <1>0 DEF Labels
<1> HIDE DEF Runs
<1> QED BY <1>1, <1>10, Zenon DEF L

(* f[i] is what is written and to be visited after i visits.               *)
Visits(f, g, addr, N) ==
    /\ f[0] = [text |-> <<>>, todo |-> <<1>>]
    /\ \A i \in 1..N : f[i] = Visit(g, addr, f[i - 1])

LEMMA VisitRun ==
    ASSUME NEW g, NEW addr, Cardinality(g.edge) + 1 \in Nat
    PROVE  \E f : /\ Visits(f, g, addr, Cardinality(g.edge) + 1)
                  /\ Emit(g, addr) = f[Cardinality(g.edge) + 1].text
<1> DEFINE Step(x, i) == Visit(g, addr, x)
           Base == [text |-> <<>>, todo |-> <<1>>]
           Runs(f, n) == f = [i \in 0..n |-> IF i = 0 THEN Base ELSE Step(f[i - 1], i)]
           S == {n \in Nat : \E f : Runs(f, n)}
           L == Cardinality(g.edge) + 1
           run[i \in 0..L] == IF i = 0 THEN Base ELSE Step(run[i - 1], i)
<1>1. Emit(g, addr) = run[L].text
  BY Zenon DEF Emit
<1>2. (\E f : Runs(f, L)) => run = [i \in 0..L |-> IF i = 0 THEN Base ELSE Step(run[i - 1], i)]
  BY Zenon
<1>3. \A x, i : Step(x, i) = Visit(g, addr, x)
  OBVIOUS
<1>0. Base = [text |-> <<>>, todo |-> <<1>>]
  OBVIOUS
<1> HIDE DEF Step, run, Base, L
<1>4. 0 \in S
  <2> DEFINE h == [i \in 0..0 |-> Base]
  <2>1. Runs(h, 0)
    OBVIOUS
  <2> QED BY <2>1, Zenon
<1>5. ASSUME NEW n \in Nat, n \in S
      PROVE  n + 1 \in S
  <2>1. PICK f : Runs(f, n)
    BY <1>5
  <2> DEFINE h == [i \in 0..(n + 1) |-> IF i = n + 1 THEN Step(f[n], n + 1) ELSE f[i]]
  <2>2. /\ h = [i \in 0..(n + 1) |-> h[i]]
        /\ \A i \in 0..n : h[i] = f[i]
        /\ h[n + 1] = Step(f[n], n + 1)
    OBVIOUS
  <2>3. \A i \in 0..n : i # 0 => f[i] = Step(f[i - 1], i) /\ i - 1 \in 0..n
    BY <2>1
  <2>4. f[0] = Base
    BY <2>1
  <2> HIDE DEF h
  <2>5. \A i \in 0..(n + 1) : h[i] = IF i = 0 THEN Base ELSE Step(h[i - 1], i)
    <3> TAKE i \in 0..(n + 1)
    <3>1. CASE i = n + 1
      <4>1. i - 1 = n /\ i # 0 /\ n \in 0..n
        BY <3>1
      <4> QED BY <2>2, <3>1, <4>1
    <3>2. CASE i # n + 1
      <4>1. i \in 0..n
        BY <3>2
      <4> QED BY <2>2, <2>3, <2>4, <4>1
    <3> QED BY <3>1, <3>2
  <2>6. Runs(h, n + 1)
    BY <2>2, <2>5, Zenon
  <2>7. n + 1 \in Nat
    OBVIOUS
  <2> HIDE DEF Runs
  <2> QED BY <2>6, <2>7, Zenon
<1>6. \E f : Runs(f, L)
  <2> HIDE DEF Runs
  <2>1. Nat \subseteq S
    <3> HIDE DEF S
    <3> QED BY <1>4, <1>5, AllNumbers
  <2>2. L \in Nat
    BY DEF L
  <2> QED BY <2>1, <2>2
<1>7. run = [i \in 0..L |-> IF i = 0 THEN Base ELSE Step(run[i - 1], i)]
  BY <1>2, <1>6
<1>8. L \in Nat
  BY DEF L
<1>9. run[0] = Base /\ \A i \in 1..L : run[i] = Step(run[i - 1], i)
  BY <1>7, <1>8
<1>10. Visits(run, g, addr, L)
  BY <1>3, <1>9, <1>0 DEF Visits
<1> HIDE DEF Runs
<1> QED BY <1>1, <1>10, Zenon DEF L

-----------------------------------------------------------------------------
(***************************************************************************)
(* IRCompile: removing labels and what cannot be reached                   *)
(***************************************************************************)
LEMMA NewEdges ==
    ASSUME NEW g, FlowGraph(g), NEW X, NEW h, h = [g EXCEPT !.edge = X]
    PROVE  /\ h.node = g.node /\ h.edge = X /\ h.labs = g.labs /\ h.swit = g.swit
           /\ h = [node |-> h.node, edge |-> h.edge, labs |-> h.labs, swit |-> h.swit]
<1>1. g = [node |-> g.node, edge |-> g.edge, labs |-> g.labs, swit |-> g.swit]
  BY DEF FlowGraph
<1>2. h = [node |-> g.node, edge |-> X, labs |-> g.labs, swit |-> g.swit]
  BY <1>1
<1> QED BY <1>2

(* The two parts of FlowGraph that are about edges                         *)
Lead(g, edge) == IsFiniteSet(edge) /\ edge \subseteq [f : Nodes(g), k : Ways, t : Nodes(g)]
LeadWell(g, edge) ==
    \A e \in edge :
          /\ e.t # 1
          /\ e.k = "dft" => g.node[e.t].k = "label"
          /\ g.node[e.f].k \in {"cjmp", "tab"} => e.k \in {"true", "false", "case", "dft", "never"}
          /\ g.node[e.f].k = "label" => e.k \in {"flow", "never"}
          /\ e.k \in {"src", "dest"} => {d \in edge : d.t = e.t} = {e}

LEMMA WithEdges ==
    ASSUME NEW g, FlowGraph(g), NEW X, Lead(g, X), LeadWell(g, X),
           NEW h, h = [g EXCEPT !.edge = X]
    PROVE  FlowGraph(h)
<1>1. /\ h.node = g.node /\ h.edge = X
      /\ h = [node |-> h.node, edge |-> h.edge, labs |-> h.labs, swit |-> h.swit]
  BY NewEdges
<1>2. h.node = g.node /\ h.edge = X
  BY <1>1
<1>3. g.node \in Seq([k : Kinds, x : Int]) /\ g.node # <<>>
  BY DEF FlowGraph
<1>4. Nodes(h) = Nodes(g) /\ \A n : EdgesTo(h, n) = {d \in X : d.t = n}
  BY <1>2 DEF Nodes, EdgesTo
<1>5. LeadWell(h, X)
  BY <1>2 DEF LeadWell
<1>6. \A e \in h.edge : EdgesTo(h, e.t) = {d \in X : d.t = e.t}
  BY <1>4
<1>7. IsFiniteSet(h.edge) /\ h.edge \subseteq [f : Nodes(h), k : Ways, t : Nodes(h)]
  BY <1>2, <1>4, Zenon DEF Lead
<1>8. h.node \in Seq([k : Kinds, x : Int]) /\ h.node # <<>>
  BY <1>2, <1>3
<1>9. \A e \in h.edge :
          /\ e.t # 1
          /\ e.k = "dft" => h.node[e.t].k = "label"
          /\ h.node[e.f].k \in {"cjmp", "tab"} => e.k \in {"true", "false", "case", "dft", "never"}
          /\ h.node[e.f].k = "label" => e.k \in {"flow", "never"}
          /\ e.k \in {"src", "dest"} => EdgesTo(h, e.t) = {e}
  BY <1>2, <1>5, <1>6, Zenon DEF LeadWell
<1> QED BY <1>1, <1>7, <1>8, <1>9, Zenon DEF FlowGraph

LEMMA FlowGraphFacts ==
    ASSUME NEW g, FlowGraph(g)
    PROVE  /\ Lead(g, g.edge) /\ LeadWell(g, g.edge)
           /\ Top(g) \in Nat \ {0} /\ Nodes(g) = 1..Top(g) /\ 1 \in Nodes(g)
<1>1. g.node \in Seq([k : Kinds, x : Int]) /\ g.node # <<>>
  BY DEF FlowGraph
<1>2. Top(g) \in Nat \ {0} /\ Nodes(g) = 1..Top(g) /\ 1 \in Nodes(g)
  BY <1>1 DEF Top, Nodes
<1>3. Lead(g, g.edge) /\ LeadWell(g, g.edge)
  BY Zenon DEF FlowGraph, Lead, LeadWell, EdgesTo
<1> QED BY <1>2, <1>3

LEMMA One ==
    ASSUME NEW S, IsFiniteSet(S), Cardinality(S) = 1
    PROVE  \E x : S = {x}
<1>1. S # {}
  BY FS_EmptySet
<1>2. PICK x \in S : TRUE
  BY <1>1
<1>3. IsFiniteSet(S \ {x}) /\ Cardinality(S \ {x}) = Cardinality(S) - 1
  BY <1>2, FS_RemoveElement, Zenon
<1>4. S \ {x} = {}
  BY <1>3, FS_EmptySet
<1> QED BY <1>2, <1>4

LEMMA AtMostOne ==
    ASSUME NEW S, IsFiniteSet(S), Cardinality(S) <= 1
    PROVE  \A x, y \in S : x = y
<1>1. Cardinality(S) \in Nat
  BY FS_CardinalityType
<1>2. CASE Cardinality(S) = 1
  BY <1>2, One
<1>3. CASE Cardinality(S) = 0
  BY <1>3, FS_EmptySet
<1> QED BY <1>1, <1>2, <1>3

(* A flow that goes round a label is a flow.                               *)
LEMMA NeedlessGoes ==
    ASSUME NEW g, FlowGraph(g), NEW n \in Nodes(g)
    PROVE  FlowGraph(WithoutNeedless(g, n)) /\ WithoutNeedless(g, n).node = g.node
<1> DEFINE in == EdgesTo(g, n)
           out == EdgesFrom(g, n)
           new == {[f |-> i.f, k |-> i.k, t |-> o.t] : i \in in, o \in out}
           X == (g.edge \ (in \cup out)) \cup new
<1>1. CASE ~Needless(g, n)
  BY <1>1 DEF WithoutNeedless
<1>2. CASE Needless(g, n)
  <2>1. Lead(g, g.edge) /\ LeadWell(g, g.edge)
    BY FlowGraphFacts
  <2>2. in \in SUBSET g.edge /\ out \in SUBSET g.edge
    BY DEF EdgesTo, EdgesFrom
  <2>3. IsFiniteSet(in) /\ IsFiniteSet(out)
    BY <2>1, <2>2, FS_Subset, Zenon DEF Lead
  <2>4. PICK i : in = {i}
    BY <1>2, <2>3, One DEF Needless
  <2>5. i \in g.edge /\ i.k = "flow" /\ i.t = n
    BY <1>2, <2>4 DEF Needless, EdgesTo
  <2>6. \A o, p \in out : o = p
    BY <1>2, <2>3, AtMostOne, Zenon DEF Needless
  <2>7. \A e \in new : \E o \in out : e = [f |-> i.f, k |-> "flow", t |-> o.t]
    BY <2>4, <2>5
  <2>8. \A o \in out : o \in g.edge /\ o.f = n
    BY DEF EdgesFrom
  <2>9. IsFiniteSet(new)
    <3>1. CASE out = {}
      BY <3>1, <2>7, FS_EmptySet
    <3>2. CASE out # {}
      <4>1. PICK o \in out : TRUE
        BY <3>2
      <4>2. out = {o}
        BY <2>6, <4>1
      <4>3. new = {[f |-> i.f, k |-> i.k, t |-> o.t]}
        BY <2>4, <4>2
      <4>4. IsFiniteSet({[f |-> i.f, k |-> i.k, t |-> o.t]})
        BY FS_Singleton, Zenon
      <4> HIDE DEF new
      <4> QED BY <4>3, <4>4
    <3> QED BY <3>1, <3>2
  <2> HIDE DEF new
  <2>10. IsFiniteSet(X)
    BY <2>1, <2>9, FS_Difference, FS_Union, Zenon DEF Lead
  <2>11. \A e \in new : e \in [f : Nodes(g), k : Ways, t : Nodes(g)]
    BY <2>1, <2>5, <2>7, <2>8 DEF Lead, Ways
  <2>12. Lead(g, X)
    BY <2>1, <2>10, <2>11 DEF Lead
  <2>13. LeadWell(g, X)
    <3> SUFFICES ASSUME NEW e \in X
                 PROVE  /\ e.t # 1
                        /\ e.k = "dft" => g.node[e.t].k = "label"
                        /\ g.node[e.f].k \in {"cjmp", "tab"} => e.k \in {"true", "false", "case", "dft", "never"}
                        /\ g.node[e.f].k = "label" => e.k \in {"flow", "never"}
                        /\ e.k \in {"src", "dest"} => {d \in X : d.t = e.t} = {e}
      BY Zenon DEF LeadWell
    <3>1. CASE e \in new
      <4>1. PICK o \in out : e = [f |-> i.f, k |-> "flow", t |-> o.t]
        BY <2>7, <3>1
      <4>2. e.f = i.f /\ e.k = "flow" /\ e.t = o.t
        BY <4>1
      <4> QED BY <2>1, <2>5, <2>8, <4>2 DEF LeadWell
    <3>2. CASE e \in g.edge \ (in \cup out)
      <4>1. ASSUME e.k \in {"src", "dest"}
            PROVE  {d \in X : d.t = e.t} = {e}
        <5>1. {d \in g.edge : d.t = e.t} = {e}
          BY <2>1, <3>2, <4>1 DEF LeadWell
        <5>2. ASSUME NEW d \in new, d.t = e.t
              PROVE  FALSE
          <6>1. PICK o \in out : d = [f |-> i.f, k |-> "flow", t |-> o.t]
            BY <2>7
          <6>2. o.t = e.t /\ o \in g.edge
            BY <5>2, <6>1, <2>8
          <6>3. o = e
            BY <5>1, <6>2
          <6> QED BY <3>2, <6>3
        <5>3. e \in X
          BY <3>2
        <5> QED BY <5>1, <5>2, <5>3
      <4> QED BY <2>1, <3>2, <4>1 DEF LeadWell
    <3> QED BY <3>1, <3>2
  <2>14. WithoutNeedless(g, n) = [g EXCEPT !.edge = X]
    BY <1>2 DEF WithoutNeedless, WithoutLabel, new
  <2> HIDE DEF X
  <2>15. PICK h : h = [g EXCEPT !.edge = X]
    OBVIOUS
  <2>16. FlowGraph(h) /\ h.node = g.node
    BY <2>12, <2>13, <2>15, WithEdges, NewEdges
  <2> QED BY <2>14, <2>15, <2>16
<1> QED BY <1>1, <1>2

LEMMA NeedlessAreGone ==
    ASSUME NEW g, FlowGraph(g)
    PROVE  FlowGraph(RemoveNeedlessLabels(g)) /\ RemoveNeedlessLabels(g).node = g.node
<1>1. Top(g) \in Nat /\ Nodes(g) = 1..Top(g)
  BY FlowGraphFacts
<1>2. PICK f : Unlabels(f, g, Top(g)) /\ RemoveNeedlessLabels(g) = f[Top(g)]
  BY <1>1, UnlabelRun
<1> DEFINE S == {i \in Nat : FlowGraph(f[i]) /\ f[i].node = g.node}
<1>3. 0 \in S
  BY <1>2 DEF Unlabels
<1>4. ASSUME NEW i \in 0..(Top(g) - 1), i \in S
      PROVE  i + 1 \in S
  <2>1. i + 1 \in 1..Top(g) /\ (i + 1) - 1 = i
    BY <1>1
  <2>2. f[i + 1] = IF IsLabel(g, i + 1) THEN WithoutNeedless(f[i], i + 1) ELSE f[i]
    BY <1>2, <2>1 DEF Unlabels
  <2>3. FlowGraph(f[i]) /\ f[i].node = g.node /\ i + 1 \in Nodes(f[i])
    BY <1>1, <1>4, <2>1 DEF Nodes
  <2>4. FlowGraph(f[i + 1]) /\ f[i + 1].node = g.node
    BY <2>2, <2>3, NeedlessGoes
  <2> QED BY <2>4
<1>5. 0..Top(g) \subseteq S
  <2> HIDE DEF S
  <2> QED BY <1>1, <1>3, <1>4, AllUpTo
<1>6. Top(g) \in S
  BY <1>1, <1>5
<1> QED BY <1>2, <1>6

LEMMA NeverIsGone ==
    ASSUME NEW g, FlowGraph(g)
    PROVE  LET h == RemoveNeverFlows(g)
           IN  FlowGraph(h) /\ h.node = g.node /\ \A e \in h.edge : e.k # "never"
<1> DEFINE Y == {e \in g.edge : e.k # "never"}
<1>10. PICK flows : flows = [g EXCEPT !.edge = Y]
  OBVIOUS
<1>0. PICK live : live = ReachedFrom(flows, {1})
  OBVIOUS
<1> DEFINE X == {e \in Y : e.f \in live}
<1>1. Lead(g, g.edge) /\ LeadWell(g, g.edge)
  BY FlowGraphFacts
<1>2. \A Z \in SUBSET g.edge : Lead(g, Z) /\ LeadWell(g, Z)
  <2> SUFFICES ASSUME NEW Z \in SUBSET g.edge
               PROVE  Lead(g, Z) /\ LeadWell(g, Z)
    BY Zenon
  <2>1. IsFiniteSet(Z)
    BY <1>1, FS_Subset, Zenon DEF Lead
  <2>2. \A e \in Z : e \in g.edge
    OBVIOUS
  <2>3. \A e \in Z : {d \in g.edge : d.t = e.t} = {e} => {d \in Z : d.t = e.t} = {e}
    OBVIOUS
  <2>4. LeadWell(g, Z)
    BY <1>1, <2>2, <2>3, Zenon DEF LeadWell
  <2> QED BY <1>1, <2>1, <2>2, <2>4 DEF Lead
<1>3. flows.edge = Y /\ flows.node = g.node
  BY <1>10, NewEdges
<1>4. FlowGraph(flows)
  <2>1. Y \in SUBSET g.edge
    OBVIOUS
  <2> HIDE DEF Y
  <2> QED BY <1>2, <1>10, <2>1, WithEdges
<1>5. RemoveNeverFlows(g) = [flows EXCEPT !.edge = X]
  <2>1. RemoveNeverFlows(g) = [flows EXCEPT !.edge = {e \in flows.edge : e.f \in live}]
    BY <1>10, <1>0, Zenon DEF RemoveNeverFlows
  <2> QED BY <2>1, <1>3
<1>6. Lead(flows, X) /\ LeadWell(flows, X)
  <2>1. X \in SUBSET g.edge
    OBVIOUS
  <2>2. Lead(g, X) /\ LeadWell(g, X)
    BY <1>2, <2>1
  <2>3. Nodes(flows) = Nodes(g)
    BY <1>3 DEF Nodes
  <2> HIDE DEF X
  <2> QED BY <2>2, <2>3, <1>3, Zenon DEF Lead, LeadWell
<1>7. \A e \in X : e.k # "never"
  OBVIOUS
<1> HIDE DEF X
<1>8. PICK h : h = [flows EXCEPT !.edge = X]
  OBVIOUS
<1>9. FlowGraph(h) /\ h.edge = X /\ h.node = flows.node
  BY <1>4, <1>6, <1>8, WithEdges, NewEdges
<1> QED BY <1>3, <1>5, <1>7, <1>8, <1>9

-----------------------------------------------------------------------------
(***************************************************************************)
(* IRCompile: a label for what may be jumped to                            *)
(***************************************************************************)

(* What is flowed to once and jumped to never needs none.                  *)
LEMMA LabelledNode ==
    ASSUME NEW g, NEW n, NEW e, EdgesTo(g, n) = {e}, e.k \notin {"case", "true", "false"}
    PROVE  ~NeedsLabel(g, n)
<1>1. CASE e.k = "flow"
  <2>1. {d \in EdgesTo(g, n) : d.k = "flow"} = {e}
    BY <1>1
  <2>2. Cardinality({e}) = 1
    BY FS_Singleton, Zenon
  <2>3. ~(Cardinality({d \in EdgesTo(g, n) : d.k = "flow"}) > 1)
    BY <2>1, <2>2
  <2> QED BY <2>3 DEF NeedsLabel
<1>2. CASE e.k # "flow"
  <2>1. {d \in EdgesTo(g, n) : d.k = "flow"} = {}
    BY <1>2
  <2>2. Cardinality({}) = 0
    BY FS_EmptySet, Zenon
  <2>3. ~(Cardinality({d \in EdgesTo(g, n) : d.k = "flow"}) > 1)
    BY <2>1, <2>2
  <2> QED BY <2>3 DEF NeedsLabel
<1> QED BY <1>1, <1>2

(* The label that is put before n: what led to n leads to it.              *)
Moved(old, T) == {[f |-> e.f, k |-> e.k, t |-> T] : e \in old}

LEMMA LabelPut ==
    ASSUME NEW g, FlowGraph(g), NEW n \in Nodes(g), NeedsLabel(g, n),
           NEW h, h = WithLabel(g, n)
    PROVE  /\ h = [node |-> h.node, edge |-> h.edge, labs |-> h.labs, swit |-> h.swit]
           /\ h.node = Append(g.node, [k |-> "label", x |-> 0])
           /\ h.edge = ((g.edge \ EdgesTo(g, n)) \cup Moved(EdgesTo(g, n), Top(g) + 1))
                         \cup {[f |-> Top(g) + 1, k |-> "flow", t |-> n]}
<1>1. PICK l : l = Add(g, "label", 0)
  OBVIOUS
<1>2. g = [node |-> g.node, edge |-> g.edge, labs |-> g.labs, swit |-> g.swit]
  BY DEF FlowGraph
<1>3. g.node \in Seq([k : Kinds, x : Int]) /\ g.edge \subseteq [f : Nodes(g), k : Ways, t : Nodes(g)]
  BY DEF FlowGraph
<1>4. l = [node |-> Append(g.node, [k |-> "label", x |-> 0]), edge |-> g.edge,
           labs |-> g.labs, swit |-> g.swit]
  BY <1>1, <1>2 DEF Add
<1>5. l.node = Append(g.node, [k |-> "label", x |-> 0]) /\ l.edge = g.edge
  BY <1>4
<1>6. Top(l) = Top(g) + 1
  BY <1>3, <1>5 DEF Top
<1>7. EdgesTo(l, n) = EdgesTo(g, n)
  BY <1>5 DEF EdgesTo
<1>8. {[e EXCEPT !.t = Top(l)] : e \in EdgesTo(l, n)} = Moved(EdgesTo(g, n), Top(g) + 1)
  <2>1. \A e \in EdgesTo(g, n) : e \in [f : Nodes(g), k : Ways, t : Nodes(g)]
    BY <1>3 DEF EdgesTo
  <2>2. \A e \in [f : Nodes(g), k : Ways, t : Nodes(g)] :
           [e EXCEPT !.t = Top(l)] = [f |-> e.f, k |-> e.k, t |-> Top(l)]
    OBVIOUS
  <2> QED BY <1>6, <1>7, <2>1, <2>2 DEF Moved
<1>9. PICK X : X = (l.edge \ EdgesTo(l, n)) \cup {[e EXCEPT !.t = Top(l)] : e \in EdgesTo(l, n)}
  OBVIOUS
<1>10. PICK m : m = [l EXCEPT !.edge = X]
  OBVIOUS
<1>11. m = [node |-> l.node, edge |-> X, labs |-> g.labs, swit |-> g.swit]
  BY <1>4, <1>10
<1>12. m.edge = X
  BY <1>11
<1>13. h = Flow(m, Top(l), n)
  BY <1>1, <1>9, <1>10, Zenon DEF WithLabel, InsertBefore
<1>14. PICK Y : Y = X \cup {[f |-> Top(l), k |-> "flow", t |-> n]}
  OBVIOUS
<1>15. h = [m EXCEPT !.edge = Y]
  BY <1>12, <1>13, <1>14 DEF Flow, Connect
<1>16. h = [node |-> l.node, edge |-> Y, labs |-> g.labs, swit |-> g.swit]
  BY <1>11, <1>15
<1>17. h.node = l.node /\ h.edge = Y /\ h.labs = g.labs /\ h.swit = g.swit
  BY <1>16
<1>18. Y = ((g.edge \ EdgesTo(g, n)) \cup Moved(EdgesTo(g, n), Top(g) + 1))
             \cup {[f |-> Top(g) + 1, k |-> "flow", t |-> n]}
  BY <1>5, <1>6, <1>7, <1>8, <1>9, <1>14, Zenon
<1> QED BY <1>5, <1>16, <1>17, <1>18, Zenon

LEMMA MovedFinite ==
    ASSUME NEW old, IsFiniteSet(old), NEW T
    PROVE  IsFiniteSet(Moved(old, T))
<1> DEFINE s == [e \in old |-> [f |-> e.f, k |-> e.k, t |-> T]]
<1>1. s \in [old -> Moved(old, T)] /\ \A d \in Moved(old, T) : \E e \in old : s[e] = d
  BY DEF Moved
<1> HIDE DEF s
<1>2. s \in Surjection(old, Moved(old, T))
  BY <1>1, Fun_IsSurj
<1> QED BY <1>2, FS_Surjection

NoNever(g) == \A e \in g.edge : e.k # "never"

LEMMA AppendFacts ==
    ASSUME NEW S, NEW s \in Seq(S), NEW x \in S
    PROVE  /\ Append(s, x) \in Seq(S) /\ Append(s, x) # <<>>
           /\ Len(Append(s, x)) = Len(s) + 1 /\ DOMAIN Append(s, x) = 1..(Len(s) + 1)
           /\ DOMAIN s = 1..Len(s) /\ Append(s, x)[Len(s) + 1] = x
           /\ \A i \in 1..Len(s) : Append(s, x)[i] = s[i]
OBVIOUS

(* What a label for n leaves alone, and that n needs none then.            *)
LEMMA LabelFacts ==
    ASSUME NEW g, FlowGraph(g), NoNever(g), NEW n \in Nodes(g)
    PROVE  LET h == WithLabel(g, n) IN
           /\ FlowGraph(h) /\ NoNever(h) /\ ~NeedsLabel(h, n)
           /\ Top(h) \in Top(g)..(Top(g) + 1)
           /\ \A m \in Nodes(g) : h.node[m] = g.node[m]
           /\ \A m \in Nodes(h) \ Nodes(g) : IsLabel(h, m)
           /\ \A m \in Nodes(g) \ {n} : EdgesTo(h, m) = EdgesTo(g, m)
<1>0. Lead(g, g.edge) /\ LeadWell(g, g.edge) /\ Top(g) \in Nat \ {0} /\ Nodes(g) = 1..Top(g)
  BY FlowGraphFacts
<1>1. CASE ~NeedsLabel(g, n)
  <2>1. WithLabel(g, n) = g
    BY <1>1 DEF WithLabel
  <2> QED BY <1>0, <1>1, <2>1
<1>2. CASE NeedsLabel(g, n)
  <2>1. PICK h : h = WithLabel(g, n)
    OBVIOUS
  <2> DEFINE T == Top(g) + 1
             old == EdgesTo(g, n)
             new == [f |-> T, k |-> "flow", t |-> n]
  <2>2. /\ h = [node |-> h.node, edge |-> h.edge, labs |-> h.labs, swit |-> h.swit]
        /\ h.node = Append(g.node, [k |-> "label", x |-> 0])
        /\ h.edge = ((g.edge \ old) \cup Moved(old, T)) \cup {new}
    BY <1>2, <2>1, LabelPut
  <2>3. g.node \in Seq([k : Kinds, x : Int]) /\ Len(g.node) = Top(g)
    BY DEF FlowGraph, Top
  <2>4. /\ h.node \in Seq([k : Kinds, x : Int]) /\ h.node # <<>>
        /\ Top(h) = T /\ Nodes(h) = 1..T /\ h.node[T].k = "label"
        /\ \A m \in Nodes(g) : h.node[m] = g.node[m]
    <3> DEFINE node == [k : Kinds, x : Int]
               label == [k |-> "label", x |-> 0]
    <3>1. label \in node /\ label.k = "label"
      <4>1. "label" \in Kinds
        BY DEF Kinds
      <4> QED BY <4>1
    <3> HIDE DEF node, label
    <3>2. /\ Append(g.node, label) \in Seq(node) /\ Append(g.node, label) # <<>>
          /\ Len(Append(g.node, label)) = T /\ DOMAIN Append(g.node, label) = 1..T
          /\ Append(g.node, label)[T] = label
          /\ \A m \in 1..Top(g) : Append(g.node, label)[m] = g.node[m]
      BY <2>3, <3>1, AppendFacts DEF node
    <3>3. h.node = Append(g.node, label)
      BY <2>2 DEF label
    <3> QED BY <1>0, <3>1, <3>2, <3>3 DEF Top, Nodes, node
  <2>5. \A e \in g.edge : e \in [f : Nodes(g), k : Ways, t : Nodes(g)]
    BY <1>0 DEF Lead
  <2>6. \A e \in old : e \in g.edge /\ e.t = n
    BY DEF EdgesTo
  <2>7. \A e \in Moved(old, T) : \E d \in old : e.f = d.f /\ e.k = d.k /\ e.t = T
    BY DEF Moved
  <2>8. new.f = T /\ new.k = "flow" /\ new.t = n
    OBVIOUS
  <2>9. T \notin Nodes(g) /\ n # T /\ \A m \in Nodes(g) : m # T
    BY <1>0
  <2>10. old # {} /\ \A d \in old : d.k \notin {"src", "dest"}
    <3>1. old # {}
      <4>1. ASSUME old = {}
            PROVE  FALSE
        <5>1. {e \in EdgesTo(g, n) : e.k = "flow"} = {}
          BY <4>1
        <5>2. Cardinality({}) = 0
          BY FS_EmptySet, Zenon
        <5>3. ~(Cardinality({e \in EdgesTo(g, n) : e.k = "flow"}) > 1)
          BY <5>1, <5>2
        <5> QED BY <1>2, <4>1, <5>3 DEF NeedsLabel
      <4> QED BY <4>1
    <3>2. ASSUME NEW d \in old, d.k \in {"src", "dest"}
          PROVE  FALSE
      <4>1. {e \in g.edge : e.t = d.t} = {d}
        BY <1>0, <2>6, <3>2 DEF LeadWell
      <4>2. EdgesTo(g, n) = {d} /\ d.k \notin {"case", "true", "false"}
        BY <2>6, <3>2, <4>1 DEF EdgesTo
      <4> QED BY <1>2, <4>2, LabelledNode
    <3> QED BY <3>1, <3>2
  <2>11. n # 1
    BY <1>0, <2>6, <2>10 DEF LeadWell
  <2>12. IsFiniteSet(h.edge)
    <3>1. IsFiniteSet(old)
      <4>1. old \in SUBSET g.edge
        BY <2>6
      <4> QED BY <1>0, <4>1, FS_Subset, Zenon DEF Lead
    <3>2. IsFiniteSet(Moved(old, T))
      BY <3>1, MovedFinite
    <3>3. IsFiniteSet(g.edge \ old)
      BY <1>0, FS_Difference, Zenon DEF Lead
    <3>4. IsFiniteSet({new})
      BY FS_Singleton, Zenon
    <3> HIDE DEF new, old, T
    <3>5. IsFiniteSet((g.edge \ old) \cup Moved(old, T))
      BY <3>2, <3>3, FS_Union
    <3> QED BY <2>2, <3>4, <3>5, FS_Union
  <2>13. h.edge \subseteq [f : Nodes(h), k : Ways, t : Nodes(h)]
    <3> SUFFICES ASSUME NEW e \in h.edge
                 PROVE  e \in [f : Nodes(h), k : Ways, t : Nodes(h)]
      OBVIOUS
    <3>1. CASE e \in g.edge
      <4>1. e \in [f : 1..Top(g), k : Ways, t : 1..Top(g)]
        BY <1>0, <2>5, <3>1
      <4>2. 1..Top(g) \subseteq 1..T
        BY <1>0
      <4> QED BY <2>4, <4>1, <4>2
    <3>2. CASE e \in Moved(old, T)
      <4>1. PICK d \in old : e = [f |-> d.f, k |-> d.k, t |-> T]
        BY <3>2 DEF Moved
      <4>2. d.f \in Nodes(g) /\ d.k \in Ways
        BY <2>5, <2>6
      <4>3. d.f \in Nodes(h) /\ T \in Nodes(h)
        BY <1>0, <2>4, <4>2
      <4> QED BY <4>1, <4>2, <4>3
    <3>3. CASE e = new
      <4>1. T \in Nodes(h) /\ n \in Nodes(h) /\ "flow" \in Ways
        BY <1>0, <2>4 DEF Ways
      <4> QED BY <3>3, <4>1
    <3> QED BY <2>2, <3>1, <3>2, <3>3
  <2>14. \A m \in Nodes(g) \ {n} : EdgesTo(h, m) = EdgesTo(g, m)
    BY <2>2, <2>6, <2>7, <2>8, <2>9 DEF EdgesTo
  <2>15. EdgesTo(h, n) = {new}
    <3>1. \A e \in h.edge : e.t = n <=> e = new
      BY <2>2, <2>7, <2>8, <2>9 DEF EdgesTo
    <3>2. new \in h.edge
      BY <2>2
    <3> QED BY <3>1, <3>2 DEF EdgesTo
  <2> HIDE DEF T, new
  <2>16. \A e \in h.edge :
          /\ e.t # 1
          /\ e.k = "dft" => h.node[e.t].k = "label"
          /\ h.node[e.f].k \in {"cjmp", "tab"} => e.k \in {"true", "false", "case", "dft", "never"}
          /\ h.node[e.f].k = "label" => e.k \in {"flow", "never"}
          /\ e.k \in {"src", "dest"} => EdgesTo(h, e.t) = {e}
          /\ e.k # "never"
    <3> TAKE e \in h.edge
    <3>1. CASE e \in g.edge \ old
      <4>1. e.f \in Nodes(g) /\ e.t \in Nodes(g) \ {n}
        BY <2>5, <3>1 DEF EdgesTo
      <4>2. h.node[e.f] = g.node[e.f] /\ h.node[e.t] = g.node[e.t]
        BY <2>4, <4>1
      <4>3. EdgesTo(h, e.t) = EdgesTo(g, e.t) /\ EdgesTo(g, e.t) = {d \in g.edge : d.t = e.t}
        BY <2>14, <4>1 DEF EdgesTo
      <4> QED BY <1>0, <3>1, <4>2, <4>3 DEF LeadWell, NoNever
    <3>2. CASE e \in Moved(old, T)
      <4>1. PICK d \in old : e.f = d.f /\ e.k = d.k /\ e.t = T
        BY <2>7, <3>2
      <4>2. d \in g.edge /\ d.f \in Nodes(g)
        BY <2>5, <2>6
      <4>3. h.node[e.f] = g.node[d.f] /\ h.node[e.t].k = "label" /\ T # 1
        BY <1>0, <2>4, <4>1, <4>2 DEF T
      <4>4. d.k \notin {"src", "dest"}
        BY <2>10
      <4> QED BY <1>0, <4>1, <4>2, <4>3, <4>4 DEF LeadWell, NoNever
    <3>3. CASE e = new
      BY <2>4, <2>8, <2>11, <3>3
    <3> QED BY <2>2, <3>1, <3>2, <3>3
  <2>17. FlowGraph(h)
    BY <2>2, <2>4, <2>12, <2>13, <2>16, Zenon DEF FlowGraph
  <2>18. ~NeedsLabel(h, n)
    <3>1. new.k \notin {"case", "true", "false"}
      BY <2>8
    <3> QED BY <2>15, <3>1, LabelledNode
  <2>19. NoNever(h)
    BY <2>16 DEF NoNever
  <2>20. Top(h) \in Top(g)..(Top(g) + 1) /\ \A m \in Nodes(h) \ Nodes(g) : IsLabel(h, m)
    <3>1. Top(h) = Top(g) + 1 /\ Nodes(h) = 1..(Top(g) + 1) /\ h.node[Top(g) + 1].k = "label"
      BY <2>4 DEF T
    <3>2. \A m \in Nodes(h) \ Nodes(g) : m = Top(g) + 1
      BY <1>0, <3>1
    <3> QED BY <1>0, <3>1, <3>2 DEF IsLabel
  <2> QED BY <2>1, <2>4, <2>14, <2>17, <2>18, <2>19, <2>20
<1> QED BY <1>1, <1>2

(* Only labels have more than one way in, and labels are what is jumped    *)
(* to.                                                                     *)
OneWayIn(g) == \A d, e \in g.edge : d.t = e.t => d = e \/ IsLabel(g, e.t)
LabelsWhereJumped(g) ==
    \A e \in g.edge : e.k \in {"true", "false", "case", "dft"} => IsLabel(g, e.t)

LEMMA LabelsAreThere ==
    ASSUME NEW g, FlowGraph(g), NoNever(g)
    PROVE  LET h == LabelsForAsm(g) IN
           /\ FlowGraph(h) /\ NoNever(h) /\ OneWayIn(h) /\ LabelsWhereJumped(h)
           /\ Top(h) <= 2 * Top(g)
<1> DEFINE N == Top(g)
<1>1. N \in Nat /\ Nodes(g) = 1..N
  BY FlowGraphFacts
<1>2. PICK f : Labels(f, g, N) /\ LabelsForAsm(g) = f[N]
  BY <1>1, LabelRun
<1> DEFINE Good(i) ==
               /\ FlowGraph(f[i]) /\ NoNever(f[i])
               /\ Top(f[i]) \in N..(N + i)
               /\ \A m \in (N + 1 - i)..N : ~NeedsLabel(f[i], m)
               /\ \A m \in Nodes(f[i]) : m > N => IsLabel(f[i], m)
               /\ \A m \in 1..(N - i) : EdgesTo(f[i], m) = EdgesTo(g, m) /\ IsLabel(f[i], m) = IsLabel(g, m)
           S == {i \in Nat : Good(i)}
<1>3. 0 \in S
  <2>1. f[0] = g
    BY <1>2 DEF Labels
  <2>2. Top(g) \in N..(N + 0) /\ (\A m \in (N + 1 - 0)..N : FALSE) /\ \A m \in Nodes(g) : ~(m > N)
    BY <1>1
  <2>3. Good(0)
    BY <2>1, <2>2
  <2> QED BY <2>3
<1>4. ASSUME NEW i \in 0..(N - 1), i \in S
      PROVE  i + 1 \in S
  <2>1. i + 1 \in 1..N /\ (i + 1) - 1 = i /\ i \in Nat
    BY <1>1
  <2> DEFINE n == N + 1 - (i + 1)
  <2>2. f[i + 1] = IF NeedsLabel(g, n) THEN WithLabel(f[i], n) ELSE f[i]
    <3>1. f[i + 1] = IF NeedsLabel(g, n) THEN WithLabel(f[(i + 1) - 1], n) ELSE f[(i + 1) - 1]
      BY <1>2, <2>1 DEF Labels
    <3> QED BY <2>1, <3>1
  <2>3. PICK x : x = f[i]
    OBVIOUS
  <2>4. PICK h : h = f[i + 1]
    OBVIOUS
  <2>5. /\ FlowGraph(x) /\ NoNever(x) /\ Top(x) \in N..(N + i)
        /\ \A m \in (N + 1 - i)..N : ~NeedsLabel(x, m)
        /\ \A m \in Nodes(x) : m > N => IsLabel(x, m)
        /\ \A m \in 1..(N - i) : EdgesTo(x, m) = EdgesTo(g, m) /\ IsLabel(x, m) = IsLabel(g, m)
    BY <1>4, <2>3
  <2>6. Nodes(x) = 1..Top(x)
    BY <2>5, FlowGraphFacts
  <2>7. n \in Nodes(x) /\ n \in 1..N /\ Top(x) \in Nat
    BY <1>1, <2>1, <2>5, <2>6
  <2>8. h = WithLabel(x, n)
    <3>1. n \in 1..(N - i)
      BY <1>1, <2>1
    <3>2. NeedsLabel(x, n) = NeedsLabel(g, n)
      <4>1. EdgesTo(x, n) = EdgesTo(g, n) /\ IsLabel(x, n) = IsLabel(g, n)
        BY <2>5, <3>1
      <4> HIDE DEF n, S, N
      <4> QED BY <4>1, Zenon DEF NeedsLabel
    <3> QED BY <2>2, <2>3, <2>4, <3>2, Zenon DEF WithLabel
  <2>9. /\ FlowGraph(h) /\ NoNever(h) /\ ~NeedsLabel(h, n)
        /\ Top(h) \in Top(x)..(Top(x) + 1)
        /\ \A m \in Nodes(x) : h.node[m] = x.node[m]
        /\ \A m \in Nodes(h) \ Nodes(x) : IsLabel(h, m)
        /\ \A m \in Nodes(x) \ {n} : EdgesTo(h, m) = EdgesTo(x, m)
    <3> HIDE DEF n, S, N
    <3> QED BY <2>5, <2>7, <2>8, LabelFacts
  <2>10. Top(h) \in N..(N + (i + 1))
    BY <1>1, <2>1, <2>5, <2>9
  <2>11. ASSUME NEW m \in (N + 1 - (i + 1))..N
         PROVE  ~NeedsLabel(h, m)
    <3>1. CASE m = n
      BY <2>9, <3>1
    <3>2. CASE m # n
      <4>1. m \in (N + 1 - i)..N /\ m \in Nodes(x) \ {n}
        BY <1>1, <2>1, <2>5, <2>6, <2>7, <3>2
      <4>2. EdgesTo(h, m) = EdgesTo(x, m) /\ IsLabel(h, m) = IsLabel(x, m) /\ ~NeedsLabel(x, m)
        BY <2>5, <2>9, <4>1 DEF IsLabel
      <4> HIDE DEF n, S, N
      <4> QED BY <4>2, Zenon DEF NeedsLabel
    <3> QED BY <3>1, <3>2
  <2>12. ASSUME NEW m \in Nodes(h), m > N
         PROVE  IsLabel(h, m)
    <3>1. CASE m \in Nodes(x)
      <4>1. IsLabel(x, m) /\ h.node[m] = x.node[m]
        BY <2>5, <2>9, <2>12, <3>1
      <4> QED BY <4>1 DEF IsLabel
    <3>2. CASE m \notin Nodes(x)
      BY <2>9, <3>2
    <3> QED BY <3>1, <3>2
  <2>14. ASSUME NEW m \in 1..(N - (i + 1))
         PROVE  EdgesTo(h, m) = EdgesTo(g, m) /\ IsLabel(h, m) = IsLabel(g, m)
    <3>1. m \in 1..(N - i) /\ m \in Nodes(x) \ {n}
      BY <1>1, <2>1, <2>5, <2>6, <2>7
    <3>2. EdgesTo(h, m) = EdgesTo(x, m) /\ h.node[m] = x.node[m]
      BY <2>9, <3>1
    <3> QED BY <2>5, <3>1, <3>2 DEF IsLabel
  <2>13. Good(i + 1)
    BY <2>4, <2>9, <2>10, <2>11, <2>12, <2>14
  <2> QED BY <2>1, <2>13
<1>5. 0..N \subseteq S
  <2> HIDE DEF S
  <2> QED BY <1>1, <1>3, <1>4, AllUpTo
<1>6. PICK h : h = LabelsForAsm(g)
  OBVIOUS
<1>7. /\ FlowGraph(h) /\ NoNever(h) /\ Top(h) \in N..(N + N)
      /\ \A m \in (N + 1 - N)..N : ~NeedsLabel(h, m)
      /\ \A m \in Nodes(h) : m > N => IsLabel(h, m)
  <2>1. N \in S
    BY <1>1, <1>5
  <2>2. Good(N)
    BY <2>1
  <2> QED BY <1>2, <1>6, <2>2
<1> HIDE DEF S
<1>8. Lead(h, h.edge) /\ LeadWell(h, h.edge) /\ Nodes(h) = 1..Top(h)
  BY <1>7, FlowGraphFacts
<1>9. \A e \in h.edge : e.t \in Nodes(h) /\ e.k \in Ways
  BY <1>8 DEF Lead
<1>10. \A m \in Nodes(h) : ~NeedsLabel(h, m)
  <2> TAKE m \in Nodes(h)
  <2>1. CASE m > N
    BY <1>7, <2>1 DEF NeedsLabel
  <2>2. CASE ~(m > N)
    <3>1. m \in (N + 1 - N)..N
      BY <1>1, <1>7, <1>8, <2>2
    <3> QED BY <1>7, <3>1
  <2> QED BY <2>1, <2>2
<1>11. ASSUME NEW e \in h.edge, ~IsLabel(h, e.t)
       PROVE  /\ e.k \in {"flow", "src", "dest"}
              /\ Cardinality({d \in EdgesTo(h, e.t) : d.k = "flow"}) <= 1
  <2>1. ~NeedsLabel(h, e.t) /\ e \in EdgesTo(h, e.t)
    BY <1>9, <1>10 DEF EdgesTo
  <2>2. e.k \notin {"case", "true", "false"}
    BY <1>11, <2>1 DEF NeedsLabel
  <2>3. e.k \notin {"dft", "never"}
    BY <1>7, <1>8, <1>11 DEF LeadWell, NoNever, IsLabel
  <2>4. Cardinality({d \in EdgesTo(h, e.t) : d.k = "flow"}) \in Nat
    <3>1. {d \in EdgesTo(h, e.t) : d.k = "flow"} \in SUBSET h.edge
      BY DEF EdgesTo
    <3>2. IsFiniteSet({d \in EdgesTo(h, e.t) : d.k = "flow"})
      BY <1>8, <3>1, FS_Subset DEF Lead
    <3> QED BY <3>2, FS_CardinalityType
  <2>5. ~(Cardinality({d \in EdgesTo(h, e.t) : d.k = "flow"}) > 1)
    BY <1>11, <2>1 DEF NeedsLabel
  <2> QED BY <1>9, <2>2, <2>3, <2>4, <2>5 DEF Ways
<1>12. LabelsWhereJumped(h)
  BY <1>11 DEF LabelsWhereJumped
<1>13. OneWayIn(h)
  <2> SUFFICES ASSUME NEW d \in h.edge, NEW e \in h.edge, d.t = e.t, ~IsLabel(h, e.t)
               PROVE  d = e
    BY DEF OneWayIn
  <2>1. CASE d.k \in {"src", "dest"} \/ e.k \in {"src", "dest"}
    BY <1>8, <2>1 DEF LeadWell
  <2>2. CASE d.k = "flow" /\ e.k = "flow"
    <3> DEFINE F == {x \in EdgesTo(h, e.t) : x.k = "flow"}
    <3>1. d \in F /\ e \in F /\ F \in SUBSET h.edge /\ Cardinality(F) <= 1
      BY <1>11, <2>2 DEF EdgesTo
    <3>2. IsFiniteSet(F)
      BY <1>8, <3>1, FS_Subset DEF Lead
    <3> HIDE DEF F
    <3> QED BY <3>1, <3>2, AtMostOne
  <2> QED BY <1>11, <2>1, <2>2
<1>14. Top(h) <= 2 * N
  BY <1>1, <1>7
<1> QED BY <1>6, <1>7, <1>12, <1>13, <1>14

-----------------------------------------------------------------------------
(***************************************************************************)
(* IR2Asm: the nodes in the order of their addresses, each once            *)
(***************************************************************************)
Apart(ns, addr) ==
    (\A n \in ns : addr[n] \in Int) /\ \A m, n \in ns : addr[m] = addr[n] => m = n

Below(ns, addr, n) == {m \in ns : addr[m] < addr[n]}

LEMMA BelowFacts ==
    ASSUME NEW ns, IsFiniteSet(ns), NEW addr, Apart(ns, addr)
    PROVE  /\ \A n \in ns : Cardinality(Below(ns, addr, n)) \in Nat
           /\ \A i \in 1..Cardinality(ns) : \E n \in ns : Cardinality(Below(ns, addr, n)) + 1 = i
           /\ \A n \in ns : Cardinality(Below(ns, addr, n)) + 1 \in 1..Cardinality(ns)
           /\ \A m, n \in ns : Cardinality(Below(ns, addr, m)) = Cardinality(Below(ns, addr, n)) => m = n
<1> DEFINE B(n) == Below(ns, addr, n)
           C == Cardinality(ns)
           R == [n \in ns |-> Cardinality(B(n)) + 1]
<1>0. C \in Nat
  BY FS_CardinalityType
<1>1. \A n \in ns : addr[n] \in Int
  BY DEF Apart
<1>2. \A n \in ns : /\ IsFiniteSet(B(n)) /\ Cardinality(B(n)) \in Nat /\ Cardinality(B(n)) < C
                    /\ B(n) \subseteq ns
  <2> TAKE n \in ns
  <2>1. B(n) \in SUBSET ns /\ n \notin B(n) /\ B(n) # ns
    BY <1>1 DEF Below
  <2> HIDE DEF B
  <2>2. IsFiniteSet(B(n)) /\ Cardinality(B(n)) <= C /\ Cardinality(B(n)) # C
    BY <2>1, FS_Subset
  <2>3. Cardinality(B(n)) \in Nat
    BY <2>2, FS_CardinalityType
  <2> QED BY <1>0, <2>1, <2>2, <2>3
<1>3. \A m, n \in ns : addr[m] < addr[n] => Cardinality(B(m)) < Cardinality(B(n))
  <2> SUFFICES ASSUME NEW m \in ns, NEW n \in ns, addr[m] < addr[n]
               PROVE  Cardinality(B(m)) < Cardinality(B(n))
    BY Zenon
  <2>2. m \in B(n) /\ m \notin B(m) /\ B(m) \in SUBSET B(n)
    BY <1>1 DEF Below
  <2> HIDE DEF B
  <2>3. Cardinality(B(m)) <= Cardinality(B(n)) /\ Cardinality(B(m)) # Cardinality(B(n))
    BY <1>2, <2>2, FS_Subset
  <2> QED BY <1>2, <2>3
<1> HIDE DEF B
<1>4. \A n \in ns : Cardinality(B(n)) + 1 \in 1..C
  BY <1>0, <1>2
<1>5. \A m, n \in ns : Cardinality(B(m)) = Cardinality(B(n)) => m = n
  <2> SUFFICES ASSUME NEW m \in ns, NEW n \in ns, Cardinality(B(m)) = Cardinality(B(n))
               PROVE  m = n
    BY Zenon
  <2>1. ~(addr[m] < addr[n]) /\ ~(addr[n] < addr[m])
    BY <1>2, <1>3
  <2>2. addr[m] = addr[n]
    BY <1>1, <2>1
  <2> QED BY <2>2 DEF Apart
<1>6. R \in [ns -> 1..C] /\ \A m, n \in ns : R[m] = R[n] => m = n
  <2>1. \A m, n \in ns : R[m] = R[n] => Cardinality(B(m)) = Cardinality(B(n))
    BY <1>2
  <2> QED BY <1>4, <1>5, <2>1
<1> HIDE DEF R
<1>7. R \in Injection(ns, 1..C)
  BY <1>6, Fun_IsInj
<1>8. IsFiniteSet(1..C) /\ Cardinality(1..C) = C
  <2>1. C \in Int /\ 1 \in Int /\ (IF 1 > C THEN 0 ELSE C - 1 + 1) = C
    BY <1>0
  <2>2. IsFiniteSet(1..C) /\ Cardinality(1..C) = IF 1 > C THEN 0 ELSE C - 1 + 1
    BY <2>1, FS_Interval, Zenon
  <2> QED BY <2>1, <2>2
<1>9. R \in Surjection(ns, 1..C)
  BY <1>7, <1>8, FS_Injection
<1>10. \A i \in 1..C : \E n \in ns : R[n] = i
  BY <1>9 DEF Surjection
<1>11. \A i \in 1..C : \E n \in ns : Cardinality(B(n)) + 1 = i
  BY <1>10 DEF R
<1> QED BY <1>2, <1>4, <1>5, <1>11 DEF B

LEMMA ByAddressFacts ==
    ASSUME NEW ns, IsFiniteSet(ns), NEW addr, Apart(ns, addr)
    PROVE  /\ Cardinality(ns) \in Nat
           /\ ByAddress(ns, addr) \in Seq(ns) /\ Len(ByAddress(ns, addr)) = Cardinality(ns)
           /\ \A n \in ns : \E i \in 1..Cardinality(ns) : ByAddress(ns, addr)[i] = n
           /\ \A i, j \in 1..Cardinality(ns) :
                 ByAddress(ns, addr)[i] = ByAddress(ns, addr)[j] => i = j
<1> DEFINE B(n) == Cardinality(Below(ns, addr, n))
           C == Cardinality(ns)
           p(i) == CHOOSE n \in ns : B(n) + 1 = i
<1>0. C \in Nat
  BY FS_CardinalityType
<1>1. /\ \A n \in ns : B(n) \in Nat /\ B(n) + 1 \in 1..C
      /\ \A i \in 1..C : \E n \in ns : B(n) + 1 = i
      /\ \A m, n \in ns : B(m) = B(n) => m = n
  BY BelowFacts
<1>2. PICK s : s = ByAddress(ns, addr)
  OBVIOUS
<1>3. s = [i \in 1..C |-> p(i)]
  BY <1>2 DEF ByAddress, Below
<1> HIDE DEF B, C
<1>4. \A i \in 1..C : p(i) \in ns /\ B(p(i)) + 1 = i
  BY <1>1
<1>5. \A n \in ns : p(B(n) + 1) = n
  <2> TAKE n \in ns
  <2>1. p(B(n) + 1) \in ns /\ B(p(B(n) + 1)) + 1 = B(n) + 1
    BY <1>1, <1>4
  <2> HIDE DEF p
  <2>2. B(p(B(n) + 1)) = B(n)
    BY <1>1, <2>1
  <2> QED BY <1>1, <2>1, <2>2
<1> HIDE DEF p
<1>6. \A i \in 1..C : s[i] = p(i)
  BY <1>3
<1>7. s \in [1..C -> ns]
  BY <1>3, <1>4
<1>8. s \in Seq(ns) /\ Len(s) = C
  BY <1>0, <1>7
<1>9. \A n \in ns : \E i \in 1..C : s[i] = n
  BY <1>1, <1>5, <1>6
<1>10. \A i, j \in 1..C : s[i] = s[j] => i = j
  <2> SUFFICES ASSUME NEW i \in 1..C, NEW j \in 1..C, s[i] = s[j]
               PROVE  i = j
    BY Zenon
  <2>1. p(i) = p(j) /\ B(p(i)) + 1 = i /\ B(p(j)) + 1 = j
    BY <1>4, <1>6
  <2> QED BY <2>1
<1> QED BY <1>0, <1>2, <1>8, <1>9, <1>10 DEF C

(* The graph that is written out, and the addresses of its nodes           *)
Ready(h, addr) ==
    /\ FlowGraph(h) /\ NoNever(h) /\ OneWayIn(h) /\ LabelsWhereJumped(h)
    /\ Apart(Nodes(h), addr)

Wrote(r, n) == \E i \in DOMAIN r.text : r.text[i] = Line("node", n)
Waits(r, n) == \E i \in DOMAIN r.todo : r.todo[i] = n
LineSet == [op : {"node", "jmp", "ret"}, n : Nat]
Chooser(h, n) == h.node[n].k \in {"cjmp", "tab"}

VisitShape(h, r) ==
    /\ r = [text |-> r.text, todo |-> r.todo]
    /\ r.text \in Seq(LineSet) /\ r.todo \in Seq(Nodes(h))
    /\ \A i \in DOMAIN r.text : r.text[i].op = "node" => r.text[i].n \in Nodes(h)
WritesOnce(r) ==
    \A i, j \in DOMAIN r.text : r.text[i].op = "node" /\ r.text[i] = r.text[j] => i = j
(* A node that is no label waits once, and has not been written            *)
WaitsOnce(h, r) ==
    \A i \in DOMAIN r.todo : ~IsLabel(h, r.todo[i]) =>
        /\ ~Wrote(r, r.todo[i])
        /\ \A j \in DOMAIN r.todo : r.todo[j] = r.todo[i] => j = i
HasCome(h, r) ==
    \A n : Wrote(r, n) \/ Waits(r, n) =>
        n = 1 \/ \E p \in Nodes(h) : Wrote(r, p) /\ n \in Successors(h, p)
WillCome(h, r) ==
    /\ Wrote(r, 1) \/ Waits(r, 1)
    /\ \A n \in Nodes(h) : Wrote(r, n) =>
          \A m \in Successors(h, n) : Wrote(r, m) \/ Waits(r, m)
JumpsBack(h, r) ==
    \A i \in DOMAIN r.text : r.text[i].op = "jmp" =>
        IsLabel(h, r.text[i].n) /\ Wrote(r, r.text[i].n)
(* What is to follow a node is behind it, or about to be                   *)
Follows(h, r) ==
    \A i \in DOMAIN r.text :
        LET next == Successors(h, r.text[i].n) IN
        r.text[i].op = "node" /\ ~Chooser(h, r.text[i].n) /\ next # {} =>
            \/ i < Len(r.text) /\ r.text[i + 1].op \in {"node", "jmp"} /\ r.text[i + 1].n \in next
            \/ i = Len(r.text) /\ r.todo # <<>> /\ r.todo[1] \in next

VisitInv(h, r) ==
    /\ VisitShape(h, r) /\ WritesOnce(r) /\ WaitsOnce(h, r) /\ HasCome(h, r)
    /\ WillCome(h, r) /\ JumpsBack(h, r) /\ Follows(h, r)

-----------------------------------------------------------------------------
LEMMA LineFacts ==
    /\ \A n, m : Line("node", n) = Line("node", m) => n = m
    /\ \A op, n : Line(op, n).op = op /\ Line(op, n).n = n
    /\ \A n \in Nat : \A op \in {"node", "jmp", "ret"} : Line(op, n) \in LineSet
BY DEF Line, LineSet

LEMMA SuccessorFacts ==
    ASSUME NEW h, FlowGraph(h), NEW n
    PROVE  /\ Successors(h, n) \subseteq Nodes(h)
           /\ \A m \in Successors(h, n) :
                 m # 1 /\ \E e \in h.edge : e.f = n /\ e.t = m /\ e.k # "never"
           /\ IsFiniteSet(Successors(h, n)) /\ IsFiniteSet(EdgesFrom(h, n))
           /\ Cardinality(Successors(h, n)) <= Cardinality(EdgesFrom(h, n))
<1> DEFINE E == {e \in EdgesFrom(h, n) : e.k # "never"}
           T == {e.t : e \in E}
<1>1. Lead(h, h.edge) /\ LeadWell(h, h.edge)
  BY FlowGraphFacts
<1>2. EdgesFrom(h, n) \in SUBSET h.edge /\ E \in SUBSET EdgesFrom(h, n)
  BY DEF EdgesFrom
<1>3. IsFiniteSet(EdgesFrom(h, n)) /\ Cardinality(EdgesFrom(h, n)) \in Nat
  <2>1. IsFiniteSet(EdgesFrom(h, n))
    BY <1>1, <1>2, FS_Subset DEF Lead
  <2> QED BY <2>1, FS_CardinalityType
<1>4. IsFiniteSet(E) /\ Cardinality(E) <= Cardinality(EdgesFrom(h, n)) /\ Cardinality(E) \in Nat
  <2> HIDE DEF E
  <2>1. IsFiniteSet(E) /\ Cardinality(E) <= Cardinality(EdgesFrom(h, n))
    BY <1>2, <1>3, FS_Subset
  <2> QED BY <2>1, FS_CardinalityType
<1>5. IsFiniteSet(T) /\ Cardinality(T) <= Cardinality(E) /\ Cardinality(T) \in Nat
  <2> DEFINE s == [e \in E |-> e.t]
  <2>1. s \in [E -> T] /\ \A t \in T : \E e \in E : s[e] = t
    OBVIOUS
  <2> HIDE DEF s, T, E
  <2>2. s \in Surjection(E, T)
    BY <2>1, Fun_IsSurj
  <2>3. IsFiniteSet(T) /\ Cardinality(T) <= Cardinality(E)
    BY <1>4, <2>2, FS_Surjection
  <2> QED BY <2>3, FS_CardinalityType
<1>6. \A t \in T : t \in Nodes(h) /\ t # 1 /\ \E e \in h.edge : e.f = n /\ e.t = t /\ e.k # "never"
  <2> TAKE t \in T
  <2>1. PICK e \in E : t = e.t
    OBVIOUS
  <2>2. e \in h.edge /\ e.f = n /\ e.k # "never"
    BY DEF EdgesFrom
  <2>3. e.t \in Nodes(h) /\ e.t # 1
    BY <1>1, <2>2 DEF Lead, LeadWell
  <2> QED BY <2>1, <2>2, <2>3
<1>7. CASE Successors(h, n) = {}
  <2>1. IsFiniteSet({}) /\ Cardinality({}) = 0
    BY FS_EmptySet, Zenon
  <2> QED BY <1>3, <1>7, <2>1
<1>8. CASE Successors(h, n) # {}
  <2>1. Successors(h, n) = T
    BY <1>8 DEF Successors
  <2> HIDE DEF T, E
  <2> QED BY <1>3, <1>4, <1>5, <1>6, <2>1
<1> QED BY <1>7, <1>8

(* u is t, then x, then y or nothing more.                                 *)
Longer(t, x, y, none, u, S) ==
    /\ u \in Seq(S) /\ Len(u) \in (Len(t) + 1)..(Len(t) + 2) /\ DOMAIN u = 1..Len(u)
    /\ DOMAIN t = 1..Len(t) /\ Len(t) \in Nat
    /\ \A i \in 1..Len(t) : u[i] = t[i]
    /\ u[Len(t) + 1] = x
    /\ \A i \in 1..Len(u) : i > Len(t) + 1 => u[i] = y
    /\ none => Len(u) = Len(t) + 1

LEMMA TextFacts ==
    ASSUME NEW S, NEW t \in Seq(S), NEW x \in S, NEW y \in S, NEW ret \in {<<>>, <<y>>},
           NEW u, u = t \o <<x>> \o ret
    PROVE  Longer(t, x, y, ret = <<>>, u, S)
<1>1. CASE ret = <<>>
  <2>1. u = t \o <<x>>
    BY <1>1
  <2> QED BY <1>1, <2>1 DEF Longer
<1>2. CASE ret = <<y>>
  <2>1. u = t \o <<x>> \o <<y>>
    BY <1>2
  <2>2. u \in Seq(S) /\ Len(u) \in (Len(t) + 1)..(Len(t) + 2) /\ DOMAIN u = 1..Len(u)
    BY <2>1
  <2>3. DOMAIN t = 1..Len(t) /\ Len(t) \in Nat
    OBVIOUS
  <2>4. /\ \A i \in 1..Len(t) : u[i] = t[i]
        /\ u[Len(t) + 1] = x
        /\ \A i \in 1..Len(u) : i > Len(t) + 1 => u[i] = y
    BY <2>1
  <2>5. ~(ret = <<>>)
    BY <1>2
  <2> QED BY <2>2, <2>3, <2>4, <2>5 DEF Longer
<1> QED BY <1>1, <1>2

(* u is s, then the rest of t.                                             *)
PutBefore(s, t, u, S) ==
    /\ u \in Seq(S) /\ Len(u) = Len(s) + Len(t) - 1 /\ Len(t) \in Nat \ {0} /\ Len(s) \in Nat
    /\ DOMAIN u = 1..Len(u) /\ DOMAIN t = 1..Len(t)
    /\ \A i \in 1..Len(s) : i \in DOMAIN u /\ u[i] = s[i]
    /\ \A i \in DOMAIN t : i # 1 => Len(s) + i - 1 \in DOMAIN u /\ u[Len(s) + i - 1] = t[i]
    /\ \A i \in DOMAIN u : \/ i \in 1..Len(s)
                            \/ \E k \in DOMAIN t : k # 1 /\ i = Len(s) + k - 1

LEMMA TodoFacts ==
    ASSUME NEW S, NEW t \in Seq(S), t # <<>>, NEW s \in Seq(S), NEW u, u = s \o Tail(t)
    PROVE  PutBefore(s, t, u, S)
<1>1. /\ u \in Seq(S) /\ Len(u) = Len(s) + Len(t) - 1 /\ Len(t) \in Nat \ {0} /\ Len(s) \in Nat
      /\ DOMAIN u = 1..Len(u) /\ DOMAIN t = 1..Len(t)
  OBVIOUS
<1>2. /\ \A i \in 1..Len(s) : u[i] = s[i]
      /\ \A i \in 2..Len(t) : u[Len(s) + i - 1] = t[i]
  OBVIOUS
<1>3. \A i \in 1..Len(s) : i \in DOMAIN u
  BY <1>1
<1>4. \A i \in DOMAIN t : i # 1 => i \in 2..Len(t) /\ Len(s) + i - 1 \in DOMAIN u
  BY <1>1
<1>5. ASSUME NEW i \in DOMAIN u, i \notin 1..Len(s)
      PROVE  \E k \in DOMAIN t : k # 1 /\ i = Len(s) + k - 1
  <2>1. i - Len(s) + 1 \in DOMAIN t /\ i - Len(s) + 1 # 1 /\ i = Len(s) + (i - Len(s) + 1) - 1
    BY <1>1, <1>5
  <2> QED BY <2>1
<1> QED BY <1>1, <1>2, <1>3, <1>4, <1>5 DEF PutBefore

(* A visit of the first node n that waits: x is written, and next waits    *)
(* then before the others.                                                 *)
VisitsNode(h, r, v, n, x, next, s) ==
    /\ v = [text |-> v.text, todo |-> v.todo]
    /\ n \in Nodes(h) /\ n = r.todo[1]
    /\ \/ Wrote(r, n) /\ x = Line("jmp", n) /\ IsLabel(h, n) /\ next = {}
       \/ ~Wrote(r, n) /\ x = Line("node", n) /\ next = Successors(h, n)
    /\ Longer(r.text, x, Line("ret", 0), next # {}, v.text, LineSet)
    /\ PutBefore(s, r.todo, v.todo, Nodes(h))
    /\ Len(s) = Cardinality(next)
    /\ \A i \in 1..Len(s) : s[i] \in next
    /\ \A i, j \in 1..Len(s) : s[i] = s[j] => i = j
    /\ \A m \in next : \E i \in 1..Len(s) : s[i] = m

LEMMA ApartIn ==
    ASSUME NEW T, NEW addr, Apart(T, addr), NEW ns \in SUBSET T
    PROVE  Apart(ns, addr)
BY DEF Apart

LEMMA VisitIsOfNode ==
    ASSUME NEW h, NEW addr, Ready(h, addr), NEW r, VisitInv(h, r), r.todo # <<>>,
           NEW v, v = Visit(h, addr, r)
    PROVE  \E n, x, next, s : VisitsNode(h, r, v, n, x, next, s)
<1>1. PICK n : n = r.todo[1]
  OBVIOUS
<1>2. /\ r.text \in Seq(LineSet) /\ r.todo \in Seq(Nodes(h)) /\ FlowGraph(h)
      /\ Nodes(h) = 1..Top(h) /\ Top(h) \in Nat
  BY FlowGraphFacts DEF VisitInv, VisitShape, Ready
<1>3. Head(r.todo) = n /\ n \in Nodes(h) /\ DOMAIN r.todo = 1..Len(r.todo) /\ 1 \in DOMAIN r.todo
  BY <1>1, <1>2
<1>4. Wrote(r, n) <=> Line("node", n) \in Range(r.text)
  BY DEF Wrote, Range
<1>5. Wrote(r, n) => IsLabel(h, n)
  BY <1>1, <1>3 DEF VisitInv, WaitsOnce
<1>6. PICK next : next = IF Wrote(r, n) THEN {} ELSE Successors(h, n)
  OBVIOUS
<1>7. PICK x : x = IF ~Wrote(r, n) THEN Line("node", n) ELSE Line("jmp", n)
  OBVIOUS
<1>8. PICK ret : ret = IF next = {} /\ h.node[n].k # "ret" THEN <<Line("ret", 0)>> ELSE <<>>
  OBVIOUS
<1>9. PICK s : s = ByAddress(next, addr)
  OBVIOUS
<1>10. v = [text |-> r.text \o <<x>> \o ret, todo |-> s \o Tail(r.todo)]
  <2>1. CASE Wrote(r, n)
    <3>1. IsLabel(h, n) /\ next = {} /\ x = Line("jmp", n)
      BY <1>5, <1>6, <1>7, <2>1
    <3> QED BY <1>3, <1>4, <1>8, <1>9, <2>1, <3>1 DEF Visit, Visited
  <2>2. CASE ~Wrote(r, n)
    <3>1. next = Successors(h, n) /\ x = Line("node", n)
      BY <1>6, <1>7, <2>2
    <3> QED BY <1>3, <1>4, <1>8, <1>9, <2>2, <3>1 DEF Visit, Visited
  <2> QED BY <2>1, <2>2
<1>11. /\ v.text = r.text \o <<x>> \o ret /\ v.todo = s \o Tail(r.todo)
       /\ v = [text |-> v.text, todo |-> v.todo]
  BY <1>10
<1>12. x \in LineSet /\ Line("ret", 0) \in LineSet
  BY <1>2, <1>3, <1>7, LineFacts
<1>13. Longer(r.text, x, Line("ret", 0), ret = <<>>, v.text, LineSet)
  <2>1. ret \in {<<>>, <<Line("ret", 0)>>}
    BY <1>8
  <2> QED BY <1>2, <1>11, <1>12, <2>1, TextFacts
<1>14. /\ next \in SUBSET Nodes(h) /\ IsFiniteSet(next)
  <2>1. IsFiniteSet({})
    BY FS_EmptySet, Zenon
  <2>2. Successors(h, n) \subseteq Nodes(h) /\ IsFiniteSet(Successors(h, n))
    BY <1>2, SuccessorFacts
  <2> QED BY <1>6, <2>1, <2>2
<1>15. /\ Cardinality(next) \in Nat /\ s \in Seq(next) /\ Len(s) = Cardinality(next)
       /\ \A m \in next : \E i \in 1..Len(s) : s[i] = m
       /\ \A i, j \in 1..Len(s) : s[i] = s[j] => i = j
  <2>1. Apart(next, addr)
    BY <1>14, ApartIn DEF Ready
  <2> QED BY <1>9, <1>14, <2>1, ByAddressFacts
<1>16. s \in Seq(Nodes(h)) /\ \A i \in 1..Len(s) : s[i] \in next
  BY <1>14, <1>15
<1>17. PutBefore(s, r.todo, v.todo, Nodes(h))
  BY <1>2, <1>11, <1>16, TodoFacts
<1>18. Longer(r.text, x, Line("ret", 0), next # {}, v.text, LineSet)
  <2>1. next # {} => ret = <<>>
    BY <1>8
  <2> QED BY <1>13, <2>1 DEF Longer
<1>19. \/ Wrote(r, n) /\ x = Line("jmp", n) /\ IsLabel(h, n) /\ next = {}
       \/ ~Wrote(r, n) /\ x = Line("node", n) /\ next = Successors(h, n)
  BY <1>5, <1>6, <1>7
<1>20. VisitsNode(h, r, v, n, x, next, s)
  BY <1>1, <1>3, <1>11, <1>15, <1>16, <1>17, <1>18, <1>19 DEF VisitsNode
<1> QED BY <1>20

(* What has come to wait or is written cannot be led to anew.              *)
LEMMA ComesOnce ==
    ASSUME NEW h, NEW addr, Ready(h, addr), NEW r, HasCome(h, r),
           NEW n, ~Wrote(r, n), NEW m \in Successors(h, n), ~IsLabel(h, m)
    PROVE  ~Wrote(r, m) /\ ~Waits(r, m)
<1> SUFFICES ASSUME Wrote(r, m) \/ Waits(r, m)
             PROVE  FALSE
  OBVIOUS
<1>1. FlowGraph(h) /\ OneWayIn(h)
  BY DEF Ready
<1>2. m # 1 /\ \E e \in h.edge : e.f = n /\ e.t = m
  BY <1>1, SuccessorFacts
<1>3. PICK p \in Nodes(h) : Wrote(r, p) /\ m \in Successors(h, p)
  BY <1>2 DEF HasCome
<1>4. \E e \in h.edge : e.f = p /\ e.t = m
  BY <1>1, <1>3, SuccessorFacts
<1>5. p = n
  BY <1>1, <1>2, <1>4 DEF OneWayIn
<1> QED BY <1>3, <1>5

LEMMA VisitKeeps ==
    ASSUME NEW h, NEW addr, Ready(h, addr), NEW r, VisitInv(h, r),
           NEW v, NEW n, NEW x, NEW next, NEW s, VisitsNode(h, r, v, n, x, next, s)
    PROVE  VisitInv(h, v) /\ \A m : Wrote(v, m) <=> Wrote(r, m) \/ m = n
<1> DEFINE L == Len(r.text)
<1>1. /\ v = [text |-> v.text, todo |-> v.todo]
      /\ n \in Nodes(h) /\ n = r.todo[1] /\ 1 \in DOMAIN r.todo /\ Waits(r, n)
  BY DEF VisitsNode, PutBefore, Waits
<1>2. \/ Wrote(r, n) /\ x = Line("jmp", n) /\ IsLabel(h, n) /\ next = {}
      \/ ~Wrote(r, n) /\ x = Line("node", n) /\ next = Successors(h, n)
  BY DEF VisitsNode
<1>3. /\ v.text \in Seq(LineSet) /\ Len(v.text) \in (L + 1)..(L + 2) /\ L \in Nat
      /\ DOMAIN v.text = 1..Len(v.text) /\ DOMAIN r.text = 1..L
      /\ \A i \in 1..L : v.text[i] = r.text[i]
      /\ v.text[L + 1] = x
      /\ \A i \in 1..Len(v.text) : i > L + 1 => v.text[i] = Line("ret", 0)
      /\ next # {} => Len(v.text) = L + 1
  BY DEF VisitsNode, Longer
<1>4. /\ v.todo \in Seq(Nodes(h)) /\ Len(s) \in Nat
      /\ DOMAIN v.todo = 1..Len(v.todo) /\ DOMAIN r.todo = 1..Len(r.todo)
      /\ \A i \in 1..Len(s) : i \in DOMAIN v.todo /\ v.todo[i] = s[i] /\ s[i] \in next
      /\ \A i, j \in 1..Len(s) : s[i] = s[j] => i = j
      /\ \A m \in next : \E i \in 1..Len(s) : s[i] = m
      /\ \A k \in DOMAIN r.todo : k # 1 => \E i \in DOMAIN v.todo : v.todo[i] = r.todo[k]
      /\ \A i \in DOMAIN v.todo :
            \/ i \in 1..Len(s)
            \/ \E k \in DOMAIN r.todo : k # 1 /\ i = Len(s) + k - 1 /\ v.todo[i] = r.todo[k]
  BY DEF VisitsNode, PutBefore
<1>5. \A op : op # "node" => \A k, m : Line(op, k) # Line("node", m)
  BY LineFacts
<1>6. \A m : Wrote(v, m) <=> Wrote(r, m) \/ m = n
  <2> TAKE m
  <2>1. ASSUME Wrote(r, m)
        PROVE  Wrote(v, m)
    <3>1. PICK i \in DOMAIN r.text : r.text[i] = Line("node", m)
      BY <2>1 DEF Wrote
    <3>2. i \in DOMAIN v.text /\ v.text[i] = Line("node", m)
      BY <1>3, <3>1
    <3> QED BY <3>2 DEF Wrote
  <2>2. ASSUME m = n
        PROVE  Wrote(v, m)
    <3>1. CASE Wrote(r, n)
      BY <2>1, <2>2, <3>1
    <3>2. CASE ~Wrote(r, n)
      <4>1. L + 1 \in DOMAIN v.text /\ v.text[L + 1] = Line("node", m)
        BY <1>2, <1>3, <2>2, <3>2
      <4> QED BY <4>1 DEF Wrote
    <3> QED BY <3>1, <3>2
  <2>3. ASSUME Wrote(v, m)
        PROVE  Wrote(r, m) \/ m = n
    <3>1. PICK i \in DOMAIN v.text : v.text[i] = Line("node", m)
      BY <2>3 DEF Wrote
    <3>2. CASE i \in 1..L
      BY <1>3, <3>1, <3>2 DEF Wrote
    <3>3. CASE i = L + 1
      <4>1. x = Line("node", m)
        BY <1>3, <3>1, <3>3
      <4> QED BY <1>2, <1>5, <4>1, LineFacts
    <3>4. CASE i > L + 1
      <4>1. Line("ret", 0) = Line("node", m)
        BY <1>3, <3>1, <3>4
      <4> QED BY <1>5, <4>1
    <3> QED BY <1>3, <3>2, <3>3, <3>4
  <2> QED BY <2>1, <2>2, <2>3
<1>7. \A m : Waits(v, m) => m \in next \/ Waits(r, m)
  <2> SUFFICES ASSUME NEW m, NEW i \in DOMAIN v.todo, v.todo[i] = m
               PROVE  m \in next \/ Waits(r, m)
    BY DEF Waits
  <2> QED BY <1>4 DEF Waits
<1>8. \A m : m \in next \/ Wrote(r, m) \/ Waits(r, m) => Wrote(v, m) \/ Waits(v, m)
  <2> TAKE m
  <2>1. CASE m \in next
    <3>1. PICK i \in 1..Len(s) : s[i] = m
      BY <1>4, <2>1
    <3>2. i \in DOMAIN v.todo /\ v.todo[i] = m
      BY <1>4, <3>1
    <3> QED BY <3>2 DEF Waits
  <2>2. CASE Wrote(r, m)
    BY <1>6, <2>2
  <2>3. CASE Waits(r, m)
    <3>1. PICK i \in DOMAIN r.todo : r.todo[i] = m
      BY <2>3 DEF Waits
    <3>2. CASE i = 1
      BY <1>1, <1>6, <3>1, <3>2
    <3>3. CASE i # 1
      <4>1. \E j \in DOMAIN v.todo : v.todo[j] = m
        BY <1>4, <3>1, <3>3
      <4> QED BY <4>1 DEF Waits
    <3> QED BY <3>2, <3>3
  <2> QED BY <2>1, <2>2, <2>3
<1>9. VisitShape(h, v)
  <2>1. ASSUME NEW i \in DOMAIN v.text, v.text[i].op = "node"
        PROVE  v.text[i].n \in Nodes(h)
    <3>1. CASE i \in 1..L
      BY <1>3, <2>1, <3>1 DEF VisitInv, VisitShape
    <3>2. CASE i = L + 1
      BY <1>1, <1>2, <1>3, <3>2, LineFacts
    <3>3. CASE i > L + 1
      BY <1>3, <2>1, <3>3, LineFacts
    <3> QED BY <1>3, <3>1, <3>2, <3>3
  <2> QED BY <1>1, <1>3, <1>4, <2>1 DEF VisitShape
<1>10. WritesOnce(v)
  <2> SUFFICES ASSUME NEW i \in DOMAIN v.text, NEW j \in DOMAIN v.text,
                      v.text[i].op = "node", v.text[i] = v.text[j], i < j
               PROVE  FALSE
    BY <1>3 DEF WritesOnce
  <2>1. CASE j \in 1..L
    <3>1. i \in 1..L
      BY <1>3, <2>1
    <3> QED BY <1>3, <2>1, <3>1 DEF VisitInv, WritesOnce
  <2>2. CASE j = L + 1
    <3>1. i \in 1..L /\ r.text[i] = x /\ x.op = "node"
      BY <1>3, <2>2
    <3>2. ~Wrote(r, n) /\ x = Line("node", n)
      BY <1>2, <3>1, LineFacts
    <3> QED BY <1>3, <3>1, <3>2 DEF Wrote
  <2>3. CASE j > L + 1
    BY <1>3, <2>3, LineFacts
  <2> QED BY <1>3, <2>1, <2>2, <2>3
<1>11. WaitsOnce(h, v)
  <2> SUFFICES ASSUME NEW i \in DOMAIN v.todo, ~IsLabel(h, v.todo[i])
               PROVE  /\ ~Wrote(v, v.todo[i])
                      /\ \A j \in DOMAIN v.todo : v.todo[j] = v.todo[i] => j = i
    BY DEF WaitsOnce
  <2>1. PICK m : m = v.todo[i]
    OBVIOUS
  <2>2. \A k \in next : ~IsLabel(h, k) => ~Wrote(r, k) /\ ~Waits(r, k)
    <3> SUFFICES ASSUME NEW k \in next, ~IsLabel(h, k)
                 PROVE  ~Wrote(r, k) /\ ~Waits(r, k)
      OBVIOUS
    <3>1. ~Wrote(r, n) /\ k \in Successors(h, n) /\ HasCome(h, r)
      BY <1>2 DEF VisitInv
    <3> QED BY <3>1, ComesOnce
  <2>3. CASE \E k \in DOMAIN r.todo : k # 1 /\ i = Len(s) + k - 1 /\ v.todo[i] = r.todo[k]
    <3>1. PICK k \in DOMAIN r.todo : k # 1 /\ i = Len(s) + k - 1 /\ m = r.todo[k]
      BY <2>1, <2>3
    <3>2. ~Wrote(r, m) /\ \A l \in DOMAIN r.todo : r.todo[l] = m => l = k
      BY <2>1, <3>1 DEF VisitInv, WaitsOnce
    <3>3. m # n /\ Waits(r, m)
      BY <1>1, <3>1, <3>2 DEF Waits
    <3>4. ~Wrote(v, m)
      BY <1>6, <3>2, <3>3
    <3>5. ASSUME NEW j \in DOMAIN v.todo, v.todo[j] = m
          PROVE  j = i
      <4>1. ~(j \in 1..Len(s))
        BY <1>4, <2>1, <2>2, <3>3, <3>5
      <4>2. PICK l \in DOMAIN r.todo : j = Len(s) + l - 1 /\ r.todo[l] = m
        BY <1>4, <3>5, <4>1
      <4>3. l = k
        BY <3>2, <4>2
      <4> QED BY <3>1, <4>2, <4>3
    <3> QED BY <2>1, <3>4, <3>5
  <2>4. CASE i \in 1..Len(s)
    <3>1. m = s[i] /\ m \in next
      BY <1>4, <2>1, <2>4
    <3>2. ~Wrote(r, m) /\ ~Waits(r, m)
      BY <2>1, <2>2, <3>1
    <3>3. ~Wrote(v, m)
      BY <1>1, <1>6, <3>2
    <3>4. ASSUME NEW j \in DOMAIN v.todo, v.todo[j] = m
          PROVE  j = i
      <4>1. j \in 1..Len(s)
        BY <1>4, <3>2, <3>4 DEF Waits
      <4>2. s[j] = s[i]
        BY <1>4, <3>1, <3>4, <4>1
      <4> QED BY <1>4, <2>4, <4>1, <4>2
    <3> QED BY <2>1, <3>3, <3>4
  <2> QED BY <1>4, <2>3, <2>4
<1>12. HasCome(h, v)
  <2> SUFFICES ASSUME NEW m, Wrote(v, m) \/ Waits(v, m)
               PROVE  m = 1 \/ \E p \in Nodes(h) : Wrote(v, p) /\ m \in Successors(h, p)
    BY DEF HasCome
  <2>1. CASE m \in next
    BY <1>1, <1>2, <1>6, <2>1
  <2>2. CASE Wrote(r, m) \/ Waits(r, m)
    BY <1>6, <2>2 DEF VisitInv, HasCome
  <2> QED BY <1>1, <1>6, <1>7, <2>1, <2>2
<1>13. WillCome(h, v)
  <2>1. Wrote(v, 1) \/ Waits(v, 1)
    BY <1>8 DEF VisitInv, WillCome
  <2>2. ASSUME NEW k \in Nodes(h), Wrote(v, k), NEW m \in Successors(h, k)
        PROVE  Wrote(v, m) \/ Waits(v, m)
    <3>1. CASE Wrote(r, k)
      <4>1. Wrote(r, m) \/ Waits(r, m)
        BY <3>1 DEF VisitInv, WillCome
      <4> QED BY <1>8, <4>1
    <3>2. CASE ~Wrote(r, k)
      <4>1. m \in next
        BY <1>2, <1>6, <2>2, <3>2
      <4> QED BY <1>8, <4>1
    <3> QED BY <3>1, <3>2
  <2> QED BY <2>1, <2>2 DEF WillCome
<1>14. JumpsBack(h, v)
  <2> SUFFICES ASSUME NEW i \in DOMAIN v.text, v.text[i].op = "jmp"
               PROVE  IsLabel(h, v.text[i].n) /\ Wrote(v, v.text[i].n)
    BY DEF JumpsBack
  <2>1. CASE i \in 1..L
    BY <1>3, <1>6, <2>1 DEF VisitInv, JumpsBack
  <2>2. CASE i = L + 1
    BY <1>2, <1>3, <1>6, <2>2, LineFacts
  <2>3. CASE i > L + 1
    BY <1>3, <2>3, LineFacts
  <2> QED BY <1>3, <2>1, <2>2, <2>3
<1>15. Follows(h, v)
  <2> SUFFICES ASSUME NEW i \in DOMAIN v.text, v.text[i].op = "node",
                      ~Chooser(h, v.text[i].n), Successors(h, v.text[i].n) # {}
               PROVE  \/ /\ i < Len(v.text) /\ v.text[i + 1].op \in {"node", "jmp"}
                         /\ v.text[i + 1].n \in Successors(h, v.text[i].n)
                      \/ /\ i = Len(v.text) /\ v.todo # <<>>
                         /\ v.todo[1] \in Successors(h, v.text[i].n)
    BY Zenon DEF Follows
  <2>1. x.op \in {"node", "jmp"} /\ x.n = n
    BY <1>2, LineFacts
  <2>2. CASE i \in 1..L
    <3>1. v.text[i] = r.text[i] /\ i \in DOMAIN r.text
      BY <1>3, <2>2
    <3>2. \/ /\ i < L /\ r.text[i + 1].op \in {"node", "jmp"}
             /\ r.text[i + 1].n \in Successors(h, r.text[i].n)
          \/ i = L /\ r.todo[1] \in Successors(h, r.text[i].n)
      BY <3>1, Zenon DEF VisitInv, Follows
    <3>3. CASE i < L
      <4>1. i + 1 \in 1..L
        BY <1>3, <2>2, <3>3
      <4>2. v.text[i + 1] = r.text[i + 1] /\ i < Len(v.text)
        BY <1>3, <3>3, <4>1
      <4> QED BY <1>3, <3>1, <3>2, <3>3, <4>2
    <3>4. CASE i = L
      <4>1. v.text[i + 1] = x /\ i < Len(v.text)
        BY <1>3, <3>4
      <4>2. n \in Successors(h, v.text[i].n)
        BY <1>1, <1>3, <3>1, <3>2, <3>4
      <4> QED BY <2>1, <4>1, <4>2
    <3> QED BY <1>3, <2>2, <3>3, <3>4
  <2>3. CASE i = L + 1
    <3>1. v.text[i] = x /\ x = Line("node", n) /\ next = Successors(h, n)
      BY <1>2, <1>3, <2>3, LineFacts
    <3>2. v.text[i].n = n /\ next # {}
      BY <2>1, <3>1
    <3>3. i = Len(v.text)
      BY <1>3, <2>3, <3>2
    <3>4. 1 \in 1..Len(s)
      BY <1>4, <3>2
    <3>5. v.todo[1] \in next /\ 1 \in DOMAIN v.todo /\ v.todo # <<>>
      BY <1>4, <3>4
    <3> QED BY <3>1, <3>2, <3>3, <3>5
  <2>4. CASE i > L + 1
    BY <1>3, <2>4, LineFacts
  <2> QED BY <1>3, <2>2, <2>3, <2>4
<1> QED BY <1>6, <1>9, <1>10, <1>11, <1>12, <1>13, <1>14, <1>15 DEF VisitInv

(* How many visits there can still be                                      *)
NotYet(h, r) == {e \in h.edge : ~Wrote(r, e.f)}
VisitsLeft(h, r) == Len(r.todo) + Cardinality(NotYet(h, r))

LEMMA VisitsEnd ==
    ASSUME NEW h, NEW addr, Ready(h, addr), NEW r, VisitInv(h, r),
           NEW v, NEW n, NEW x, NEW next, NEW s, VisitsNode(h, r, v, n, x, next, s)
    PROVE  VisitsLeft(h, r) \in Nat /\ VisitsLeft(h, v) \in Nat /\ VisitsLeft(h, v) < VisitsLeft(h, r)
<1> DEFINE A == NotYet(h, r)
           B == NotYet(h, v)
           E == EdgesFrom(h, n)
<1>1. /\ Len(v.todo) = Cardinality(next) + Len(r.todo) - 1
      /\ Len(r.todo) \in Nat \ {0} /\ Cardinality(next) \in Nat /\ Len(v.todo) \in Nat
      /\ \/ Wrote(r, n) /\ next = {}
         \/ ~Wrote(r, n) /\ next = Successors(h, n)
  BY DEF VisitsNode, PutBefore
<1>2. \A m : Wrote(v, m) <=> Wrote(r, m) \/ m = n
  BY VisitKeeps
<1>3. FlowGraph(h) /\ IsFiniteSet(h.edge)
  BY DEF Ready, FlowGraph
<1>4. IsFiniteSet(A) /\ Cardinality(A) \in Nat
  <2>1. A \in SUBSET h.edge
    BY DEF NotYet
  <2> HIDE DEF A
  <2>2. IsFiniteSet(A)
    BY <1>3, <2>1, FS_Subset
  <2> QED BY <2>2, FS_CardinalityType
<1>5. CASE Wrote(r, n)
  <2>1. B = A
    BY <1>2, <1>5 DEF NotYet
  <2>2. Cardinality(next) = 0
    BY <1>1, <1>5, FS_EmptySet
  <2> HIDE DEF A, B
  <2> QED BY <1>1, <1>4, <2>1, <2>2 DEF VisitsLeft, A, B
<1>6. CASE ~Wrote(r, n)
  <2>1. B = A \ E /\ A \cap E = E
    BY <1>2, <1>6 DEF NotYet, EdgesFrom
  <2>2. IsFiniteSet(E) /\ Cardinality(next) <= Cardinality(E) /\ Cardinality(E) \in Nat
    <3>1. IsFiniteSet(E) /\ Cardinality(Successors(h, n)) <= Cardinality(E)
      BY <1>3, SuccessorFacts
    <3> QED BY <1>1, <1>6, <3>1, FS_CardinalityType
  <2> HIDE DEF A, B, E
  <2>3. IsFiniteSet(A \ E) /\ Cardinality(A \ E) = Cardinality(A) - Cardinality(A \cap E)
    BY <1>4, FS_Difference
  <2>4. IsFiniteSet(B) /\ Cardinality(B) = Cardinality(A) - Cardinality(E)
    BY <2>1, <2>3
  <2>5. Cardinality(B) \in Nat
    BY <2>4, FS_CardinalityType
  <2>6. /\ VisitsLeft(h, r) = Len(r.todo) + Cardinality(A)
        /\ VisitsLeft(h, v) = Len(v.todo) + Cardinality(B)
    BY DEF VisitsLeft, A, B
  <2>7. PICK a, b, c, d, t, u : /\ a = Cardinality(A) /\ b = Cardinality(B) /\ c = Cardinality(next)
                               /\ d = Cardinality(E) /\ t = Len(r.todo) /\ u = Len(v.todo)
    OBVIOUS
  <2>8. /\ a \in Nat /\ b \in Nat /\ c \in Nat /\ d \in Nat /\ t \in Nat /\ u \in Nat
        /\ u = c + t - 1 /\ b = a - d /\ c <= d
        /\ VisitsLeft(h, r) = t + a /\ VisitsLeft(h, v) = u + b
    BY <1>1, <1>4, <2>2, <2>4, <2>5, <2>6, <2>7
  <2> QED BY <2>8
<1> QED BY <1>5, <1>6

(* After all visits nothing waits.                                         *)
LEMMA AllVisited ==
    ASSUME NEW h, NEW addr, Ready(h, addr)
    PROVE  \E r : Emit(h, addr) = r.text /\ r.todo = <<>> /\ VisitInv(h, r)
<1> DEFINE C == Cardinality(h.edge)
<1>1. FlowGraph(h) /\ IsFiniteSet(h.edge) /\ C \in Nat /\ 1 \in Nodes(h)
  <2>1. FlowGraph(h) /\ IsFiniteSet(h.edge)
    BY DEF Ready, FlowGraph
  <2> QED BY <2>1, FS_CardinalityType, FlowGraphFacts
<1>2. PICK f : Visits(f, h, addr, C + 1) /\ Emit(h, addr) = f[C + 1].text
  BY <1>1, VisitRun
<1> DEFINE Good(i) == VisitInv(h, f[i]) /\ (f[i].todo # <<>> => VisitsLeft(h, f[i]) + i <= C + 1)
           S == {i \in Nat : Good(i)}
<1>3. 0 \in S
  <2>1. PICK r : r = f[0]
    OBVIOUS
  <2>2. r = [text |-> <<>>, todo |-> <<1>>]
    BY <1>2, <2>1 DEF Visits
  <2>3. r.text = <<>> /\ r.todo = <<1>> /\ r = [text |-> r.text, todo |-> r.todo]
    BY <2>2
  <2>4. /\ DOMAIN r.text = {} /\ DOMAIN r.todo = {1} /\ r.todo[1] = 1 /\ Len(r.todo) = 1
        /\ r.text \in Seq(LineSet) /\ r.todo \in Seq(Nodes(h))
    BY <1>1, <2>3
  <2>5. (\A n : ~Wrote(r, n)) /\ \A n : Waits(r, n) <=> n = 1
    BY <2>4 DEF Wrote, Waits
  <2>6. VisitShape(h, r)
    BY <2>3, <2>4 DEF VisitShape
  <2>7. WritesOnce(r) /\ WaitsOnce(h, r) /\ JumpsBack(h, r) /\ Follows(h, r)
    BY <2>4, <2>5 DEF WritesOnce, WaitsOnce, JumpsBack, Follows
  <2>8. HasCome(h, r) /\ WillCome(h, r)
    BY <2>5 DEF HasCome, WillCome
  <2>9. NotYet(h, r) = h.edge
    BY <2>5 DEF NotYet
  <2>10. VisitsLeft(h, r) + 0 <= C + 1
    BY <1>1, <2>4, <2>9 DEF VisitsLeft
  <2>11. Good(0)
    BY <2>1, <2>6, <2>7, <2>8, <2>10 DEF VisitInv
  <2> QED BY <2>11
<1>4. ASSUME NEW i \in 0..((C + 1) - 1), i \in S
      PROVE  i + 1 \in S
  <2>1. i + 1 \in 1..(C + 1) /\ (i + 1) - 1 = i /\ i \in Nat
    BY <1>1
  <2>2. PICK r : r = f[i]
    OBVIOUS
  <2>3. PICK v : v = f[i + 1]
    OBVIOUS
  <2>4. v = Visit(h, addr, r)
    BY <1>2, <2>1, <2>2, <2>3 DEF Visits
  <2>5. VisitInv(h, r) /\ (r.todo # <<>> => VisitsLeft(h, r) + i <= C + 1)
    BY <1>4, <2>2
  <2>6. VisitInv(h, v) /\ (v.todo # <<>> => VisitsLeft(h, v) + (i + 1) <= C + 1)
    <3>1. CASE r.todo = <<>>
      <4>1. v = r
        BY <2>4, <3>1 DEF Visit, Visited
      <4> QED BY <2>5, <3>1, <4>1
    <3>2. CASE r.todo # <<>>
      <4>1. PICK n, x, next, s : VisitsNode(h, r, v, n, x, next, s)
        BY <2>4, <2>5, <3>2, VisitIsOfNode
      <4>2. VisitInv(h, v)
        BY <2>5, <4>1, VisitKeeps
      <4>3. VisitsLeft(h, r) \in Nat /\ VisitsLeft(h, v) \in Nat /\ VisitsLeft(h, v) < VisitsLeft(h, r)
        BY <2>5, <4>1, VisitsEnd
      <4> QED BY <1>1, <2>1, <2>5, <3>2, <4>2, <4>3
    <3> QED BY <3>1, <3>2
  <2>7. Good(i + 1)
    BY <2>3, <2>6
  <2> QED BY <2>1, <2>7
<1>5. 0..(C + 1) \subseteq S
  <2>1. C + 1 \in Nat
    BY <1>1
  <2> HIDE DEF S, C
  <2> QED BY <1>3, <1>4, <2>1, AllUpTo
<1>6. PICK r : r = f[C + 1]
  OBVIOUS
<1>7. VisitInv(h, r) /\ (r.todo # <<>> => VisitsLeft(h, r) + (C + 1) <= C + 1)
  <2>1. C + 1 \in S
    BY <1>1, <1>5
  <2>2. Good(C + 1)
    BY <2>1
  <2> QED BY <1>6, <2>2
<1>8. r.todo = <<>>
  <2> SUFFICES ASSUME r.todo # <<>>
               PROVE  FALSE
    OBVIOUS
  <2>1. IsFiniteSet(NotYet(h, r))
    <3>1. NotYet(h, r) \in SUBSET h.edge
      BY DEF NotYet
    <3> QED BY <1>1, <3>1, FS_Subset
  <2>2. Cardinality(NotYet(h, r)) \in Nat
    BY <2>1, FS_CardinalityType
  <2>3. Len(r.todo) \in Nat \ {0}
    BY <1>7 DEF VisitInv, VisitShape
  <2> QED BY <1>1, <1>7, <2>2, <2>3 DEF VisitsLeft
<1> QED BY <1>2, <1>6, <1>7, <1>8

-----------------------------------------------------------------------------
(* What IRCompile makes of a graph is ready to be written out.             *)
Addressed(g, addr) == Apart(1..(2 * Top(g)), addr)

LEMMA CompileFacts ==
    ASSUME NEW g, FlowGraph(g), NEW addr, Addressed(g, addr)
    PROVE  \E h, r :
              /\ Compile(g, addr) = [g |-> h, text |-> r.text]
              /\ Ready(h, addr) /\ r.todo = <<>> /\ VisitInv(h, r)
<1>1. PICK a : a = RemoveNeedlessLabels(g)
  OBVIOUS
<1>2. PICK b : b = RemoveNeverFlows(a)
  OBVIOUS
<1>3. PICK h : h = LabelsForAsm(b)
  OBVIOUS
<1>4. FlowGraph(a) /\ a.node = g.node
  BY <1>1, NeedlessAreGone
<1>5. FlowGraph(b) /\ b.node = a.node /\ NoNever(b)
  BY <1>2, <1>4, NeverIsGone DEF NoNever
<1>6. FlowGraph(h) /\ NoNever(h) /\ OneWayIn(h) /\ LabelsWhereJumped(h) /\ Top(h) <= 2 * Top(b)
  BY <1>3, <1>5, LabelsAreThere
<1>7. Top(b) = Top(g)
  BY <1>4, <1>5 DEF Top
<1>8. Nodes(h) \in SUBSET (1..(2 * Top(g)))
  <2>1. Top(g) \in Nat /\ Top(h) \in Nat /\ Nodes(h) = 1..Top(h)
    BY <1>6, FlowGraphFacts
  <2> QED BY <1>6, <1>7, <2>1
<1>9. Apart(Nodes(h), addr)
  BY <1>8, ApartIn DEF Addressed
<1>10. Ready(h, addr)
  BY <1>6, <1>9 DEF Ready
<1>11. PICK r : Emit(h, addr) = r.text /\ r.todo = <<>> /\ VisitInv(h, r)
  BY <1>10, AllVisited
<1>12. Compile(g, addr) = [g |-> h, text |-> Emit(h, addr)]
  BY <1>1, <1>2, <1>3 DEF Compile
<1> QED BY <1>10, <1>11, <1>12

(* IRCompile and IR2Asm: for every flow graph and all addresses of its     *)
(* nodes, each jump goes to one label, and what follows a node, or may     *)
(* follow it, is written exactly once.                                     *)
THEOREM EveryJumpLands ==
    ASSUME NEW g, FlowGraph(g), NEW addr, Addressed(g, addr), code = Compile(g, addr)
    PROVE  JumpsLand
<1>1. PICK h, r : /\ Compile(g, addr) = [g |-> h, text |-> r.text]
                  /\ Ready(h, addr) /\ r.todo = <<>> /\ VisitInv(h, r)
  BY CompileFacts
<1>2. code.g = h /\ code.text = r.text
  BY <1>1
<1>3. \A n : ~Waits(r, n)
  BY <1>1 DEF Waits
<1>4. /\ VisitShape(h, r) /\ WritesOnce(r) /\ WillCome(h, r) /\ JumpsBack(h, r) /\ Follows(h, r)
      /\ FlowGraph(h) /\ LabelsWhereJumped(h) /\ NoNever(h)
  BY <1>1 DEF VisitInv, Ready
<1> DEFINE Once(n) == Cardinality({i \in DOMAIN r.text : r.text[i] = Line("node", n)}) = 1
<1>5. \A n : Wrote(r, n) => Once(n)
  <2> SUFFICES ASSUME NEW n, Wrote(r, n)
               PROVE  Once(n)
    OBVIOUS
  <2>1. PICK i \in DOMAIN r.text : r.text[i] = Line("node", n)
    BY DEF Wrote
  <2>2. \A j \in DOMAIN r.text : r.text[j] = Line("node", n) => i = j
    BY <1>4, <2>1, LineFacts DEF WritesOnce
  <2>3. {j \in DOMAIN r.text : r.text[j] = Line("node", n)} = {i}
    BY <2>1, <2>2
  <2>4. Cardinality({i}) = 1
    BY FS_Singleton, Zenon
  <2> QED BY <2>3, <2>4
<1> HIDE DEF Once
<1>6. ASSUME NEW i \in DOMAIN r.text
      PROVE  LET l == r.text[i] next == Successors(h, l.n) IN
             /\ l.op = "jmp" => IsLabel(h, l.n) /\ Once(l.n)
             /\ l.op = "node" => \A n \in next : Once(n) /\ (Chooser(h, l.n) => IsLabel(h, n))
             /\ l.op = "node" /\ ~Chooser(h, l.n) /\ next # {} =>
                   /\ i < Len(r.text)
                   /\ r.text[i + 1].op \in {"node", "jmp"} /\ r.text[i + 1].n \in next
  <2>1. PICK l : l = r.text[i]
    OBVIOUS
  <2>2. l.op = "jmp" => IsLabel(h, l.n) /\ Once(l.n)
    BY <1>4, <1>5, <2>1 DEF JumpsBack
  <2>3. ASSUME l.op = "node", NEW n \in Successors(h, l.n)
        PROVE  Once(n) /\ (Chooser(h, l.n) => IsLabel(h, n))
    <3>1. l.n \in Nodes(h)
      BY <1>4, <2>1, <2>3 DEF VisitShape
    <3>2. Wrote(r, l.n)
      <4>1. l \in LineSet
        BY <1>4, <2>1 DEF VisitShape
      <4>2. l = Line("node", l.n)
        BY <2>3, <4>1 DEF LineSet, Line
      <4> QED BY <2>1, <4>2 DEF Wrote
    <3>3. Wrote(r, n)
      BY <1>3, <1>4, <3>1, <3>2 DEF WillCome
    <3>4. ASSUME Chooser(h, l.n)
          PROVE  IsLabel(h, n)
      <4>1. PICK e \in h.edge : e.f = l.n /\ e.t = n
        BY <1>4, SuccessorFacts
      <4>2. LeadWell(h, h.edge)
        BY <1>4, FlowGraphFacts
      <4>3. e.k \in {"true", "false", "case", "dft"}
        BY <1>4, <3>4, <4>1, <4>2 DEF Chooser, LeadWell, NoNever
      <4> QED BY <1>4, <4>1, <4>3 DEF LabelsWhereJumped
    <3> QED BY <1>5, <3>3, <3>4
  <2>4. ASSUME l.op = "node", ~Chooser(h, l.n), Successors(h, l.n) # {}
        PROVE  /\ i < Len(r.text)
               /\ r.text[i + 1].op \in {"node", "jmp"} /\ r.text[i + 1].n \in Successors(h, l.n)
    BY <1>1, <1>4, <2>1, <2>4 DEF Follows
  <2> QED BY <2>1, <2>2, <2>3, <2>4
<1>7. \A i \in DOMAIN code.text :
         LET l == code.text[i] next == Successors(code.g, l.n) IN
         /\ l.op = "jmp" => IsLabel(code.g, l.n) /\ Once(l.n)
         /\ l.op = "node" => \A n \in next : Once(n) /\ (Chooser(code.g, l.n) => IsLabel(code.g, n))
         /\ l.op = "node" /\ ~Chooser(code.g, l.n) /\ next # {} =>
               /\ i < Len(code.text)
               /\ code.text[i + 1].op \in {"node", "jmp"} /\ code.text[i + 1].n \in next
  BY <1>2, <1>6
<1>8. \A n : Once(n) <=> Cardinality({i \in DOMAIN code.text : code.text[i] = Line("node", n)}) = 1
  BY <1>2 DEF Once
<1> QED BY <1>7, <1>8, Zenon DEF JumpsLand, Chooser

(* ... and the start is written, so that all that can be reached from it   *)
(* is: none of a function's code is lost.                                  *)
THEOREM NothingIsLost ==
    ASSUME NEW g, FlowGraph(g), NEW addr, Addressed(g, addr), code = Compile(g, addr)
    PROVE  LET written == {n \in Nodes(code.g) : Line("node", n) \in Range(code.text)}
           IN  /\ 1 \in written
               /\ \A n \in written : Successors(code.g, n) \subseteq written
<1>1. PICK h, r : /\ Compile(g, addr) = [g |-> h, text |-> r.text]
                  /\ Ready(h, addr) /\ r.todo = <<>> /\ VisitInv(h, r)
  BY CompileFacts
<1>2. code.g = h /\ code.text = r.text
  BY <1>1
<1>3. \A n : ~Waits(r, n)
  BY <1>1 DEF Waits
<1>4. WillCome(h, r) /\ FlowGraph(h)
  BY <1>1 DEF VisitInv, Ready
<1>5. \A n : Wrote(r, n) <=> Line("node", n) \in Range(r.text)
  BY DEF Wrote, Range
<1>6. 1 \in Nodes(h) /\ \A n : Successors(h, n) \subseteq Nodes(h)
  BY <1>4, FlowGraphFacts, SuccessorFacts
<1> QED BY <1>2, <1>3, <1>4, <1>5, <1>6 DEF WillCome

(***************************************************************************)
(* Conversions: the types of a graph are what solves their equations, and  *)
(* a conversion of an operand keeps a solution.                            *)
(***************************************************************************)
LEMMA EdgeFacts ==
    ASSUME NEW node, NEW ns, WellMade(node, ns)
    PROVE  /\ Len(node.in) \in Nat /\ DOMAIN node.in = 1..Len(node.in)
           /\ \A i \in DOMAIN node.in :
                 /\ node.in[i] = Edge(node.in[i].c, node.in[i].n)
                 /\ node.in[i].c \in AllEdges \cup {"FUNC", "ARG"} /\ node.in[i].n \in ns
<1> DEFINE cs == AllEdges \cup {"FUNC", "ARG"}
           es == [c : cs, n : ns]
<1>1. node.in \in Seq(es)
  BY DEF WellMade
<1>2. \A e \in es : e = Edge(e.c, e.n) /\ e.c \in cs /\ e.n \in ns
  BY DEF Edge
<1> HIDE DEF es, cs
<1>3. Len(node.in) \in Nat /\ DOMAIN node.in = 1..Len(node.in) /\ \A i \in DOMAIN node.in : node.in[i] \in es
  BY <1>1
<1>4. \A i \in DOMAIN node.in :
         /\ node.in[i] = Edge(node.in[i].c, node.in[i].n)
         /\ node.in[i].c \in cs /\ node.in[i].n \in ns
  BY <1>2, <1>3
<1> QED BY <1>3, <1>4 DEF cs

LEMMA FromIs ==
    ASSUME NEW node, NEW ns, WellMade(node, ns), NEW i \in DOMAIN node.in, node.in[i].c # "ARG"
    PROVE  /\ FromEdges(node, node.in[i].c) = {node.in[i].n}
           /\ Incoming(node, node.in[i].c) = node.in[i].n
<1>1. \A j \in DOMAIN node.in : node.in[j].c = node.in[i].c => j = i
  BY DEF WellMade
<1>2. FromEdges(node, node.in[i].c) = {node.in[i].n}
  BY <1>1 DEF FromEdges
<1> QED BY <1>2 DEF Incoming

LEMMA HasEdge ==
    ASSUME NEW node, NEW c, FromEdges(node, c) # {}
    PROVE  \E i \in DOMAIN node.in : node.in[i].c = c
BY DEF FromEdges

LEMMA NoEdge ==
    ASSUME NEW node, NEW c
    PROVE  FromEdges(node, c) = {} <=> \A i \in DOMAIN node.in : node.in[i].c # c
BY DEF FromEdges

(* The types a node's type is made of are those of what its edges are from.*)
LEMMA TypeOfSame ==
    ASSUME NEW node, NEW ns, WellMade(node, ns),
           NEW f, NEW a, NEW b, NEW f2, NEW a2, NEW b2,
           FromEdges(node, "FUNC") # {} => f = f2,
           FromEdges(node, "A") # {} => a = a2,
           FromEdges(node, "B") # {} => b = b2
    PROVE  TypeOf(node, f, a, b) = TypeOf(node, f2, a2, b2)
<1>1. CASE node.op \in {"VALUE", "TYPECAST", "SIZEOF"} \cup Logical \cup Compares
  BY <1>1 DEF TypeOf, Logical, Compares, IsBinop
<1>2. CASE node.op = "FUNC_CALL"
  <2>1. f = f2
    BY <1>2 DEF WellMade
  <2> QED BY <2>1, <1>2 DEF TypeOf, Logical, Compares, IsBinop
<1>3. CASE node.op \notin {"VALUE", "TYPECAST", "SIZEOF", "FUNC_CALL"} \cup Logical \cup Compares
  <2>1. a = a2
    BY <1>3 DEF WellMade
  <2>2. IsBinop(node) => b = b2
    BY DEF IsBinop
  <2> QED BY <2>1, <2>2, <1>3 DEF TypeOf
<1> QED BY <1>1, <1>2, <1>3

LEMMA TypeFromSame ==
    ASSUME NEW node, NEW ns, WellMade(node, ns), NEW s, NEW t,
           \A i \in DOMAIN node.in : s[node.in[i].n] = t[node.in[i].n]
    PROVE  TypeFrom(node, s) = TypeFrom(node, t)
<1>1. ASSUME NEW c, c # "ARG", FromEdges(node, c) # {}
      PROVE  s[Incoming(node, c)] = t[Incoming(node, c)]
  BY <1>1, HasEdge, FromIs
<1>2. /\ FromEdges(node, "FUNC") # {} => s[Incoming(node, "FUNC")] = t[Incoming(node, "FUNC")]
      /\ FromEdges(node, "A") # {} => s[Incoming(node, "A")] = t[Incoming(node, "A")]
      /\ FromEdges(node, "B") # {} => s[Incoming(node, "B")] = t[Incoming(node, "B")]
  BY <1>1
<1> QED BY <1>2, TypeOfSame DEF TypeFrom

(* A part of a graph that depends on nothing else, and types for it        *)
Solves(g, S, t) ==
    /\ S \subseteq DOMAIN g
    /\ \A n \in S : \A i \in DOMAIN g[n].in : g[n].in[i].n \in S
    /\ \A n \in S : t[n] = TypeFrom(g[n], t)

LEMMA SolutionsAgree ==
    ASSUME NEW g, OfExpression(g), NEW S, NEW s, Solves(g, S, s), NEW R, NEW r, Solves(g, R, r)
    PROVE  \A n \in S \cap R : s[n] = r[n]
<1> DEFINE D == {n \in S \cap R : s[n] # r[n]}
<1> SUFFICES ASSUME D # {}
             PROVE  FALSE
  OBVIOUS
<1>1. D \in SUBSET DOMAIN g
  BY DEF Solves
<1>2. PICK n \in D : \A i \in DOMAIN g[n].in : g[n].in[i].n \notin D
  <2> HIDE DEF D
  <2> QED BY <1>1 DEF OfExpression
<1>3. \A i \in DOMAIN g[n].in : s[g[n].in[i].n] = r[g[n].in[i].n]
  BY <1>2 DEF Solves
<1>4. n \in DOMAIN g /\ WellMade(g[n], DOMAIN g)
  BY <1>1, <1>2 DEF OfExpression
<1>5. TypeFrom(g[n], s) = TypeFrom(g[n], r)
  BY <1>3, <1>4, TypeFromSame
<1> QED BY <1>2, <1>5 DEF Solves

(* Every node has a type, for no nodes depend on each other.               *)
LEMMA TypesSolve ==
    ASSUME NEW g, OfExpression(g)
    PROVE  Solves(g, DOMAIN g, NodeTypes(g))
<1> DEFINE U == {n \in DOMAIN g : \E S, t : Solves(g, S, t) /\ n \in S}
           T == [n \in DOMAIN g |-> CHOOSE v : \E S, t : Solves(g, S, t) /\ n \in S /\ v = t[n]]
<1>1. ASSUME NEW S, NEW t, Solves(g, S, t), NEW n \in S
      PROVE  n \in U /\ T[n] = t[n]
  <2>1. n \in DOMAIN g
    BY <1>1 DEF Solves
  <2>2. PICK v : v = T[n]
    OBVIOUS
  <2>3. \E w : \E R, r : Solves(g, R, r) /\ n \in R /\ w = r[n]
    BY <1>1
  <2>4. \E R, r : Solves(g, R, r) /\ n \in R /\ v = r[n]
    BY <2>1, <2>2, <2>3
  <2>5. v = t[n]
    BY <1>1, <2>4, SolutionsAgree
  <2> QED BY <1>1, <2>1, <2>2, <2>5
<1>2. \A n \in U : \E S, t : Solves(g, S, t) /\ n \in S
  OBVIOUS
<1>3. U \subseteq DOMAIN g
  OBVIOUS
<1>4. DOMAIN T = DOMAIN g
  OBVIOUS
<1> HIDE DEF U, T
<1>5. ASSUME NEW n \in U
      PROVE  (\A i \in DOMAIN g[n].in : g[n].in[i].n \in U) /\ T[n] = TypeFrom(g[n], T)
  <2>1. PICK S, t : Solves(g, S, t) /\ n \in S
    BY <1>2
  <2>2. \A m \in S : m \in U /\ T[m] = t[m]
    BY <1>1, <2>1
  <2>3. \A i \in DOMAIN g[n].in : g[n].in[i].n \in U /\ t[g[n].in[i].n] = T[g[n].in[i].n]
    BY <2>1, <2>2 DEF Solves
  <2>4. WellMade(g[n], DOMAIN g)
    BY <1>3 DEF OfExpression
  <2>5. TypeFrom(g[n], t) = TypeFrom(g[n], T)
    BY <2>3, <2>4, TypeFromSame
  <2> QED BY <2>1, <2>2, <2>3, <2>5 DEF Solves
<1>6. U = DOMAIN g
  <2> SUFFICES ASSUME DOMAIN g \ U # {}
               PROVE  FALSE
    BY <1>3
  <2>1. PICK m \in DOMAIN g \ U : \A i \in DOMAIN g[m].in : g[m].in[i].n \notin DOMAIN g \ U
    BY DEF OfExpression
  <2>2. WellMade(g[m], DOMAIN g)
    BY <2>1 DEF OfExpression
  <2>3. \A i \in DOMAIN g[m].in : g[m].in[i].n \in U
    BY <2>1, <2>2, EdgeFacts
  <2>4. PICK t : t = [T EXCEPT ![m] = TypeFrom(g[m], T)]
    OBVIOUS
  <2>5. t[m] = TypeFrom(g[m], T) /\ \A n \in U : t[n] = T[n]
    BY <1>3, <1>4, <2>1, <2>4
  <2>6. TypeFrom(g[m], t) = TypeFrom(g[m], T)
    BY <2>2, <2>3, <2>5, TypeFromSame
  <2>7. ASSUME NEW n \in U
        PROVE  t[n] = TypeFrom(g[n], t)
    <3>1. \A i \in DOMAIN g[n].in : t[g[n].in[i].n] = T[g[n].in[i].n]
      BY <1>5, <2>5
    <3>2. WellMade(g[n], DOMAIN g)
      BY <1>3 DEF OfExpression
    <3>3. TypeFrom(g[n], t) = TypeFrom(g[n], T)
      BY <3>1, <3>2, TypeFromSame
    <3> QED BY <1>5, <2>5, <3>3
  <2>8. Solves(g, U \cup {m}, t)
    BY <1>3, <1>5, <2>1, <2>3, <2>5, <2>6, <2>7 DEF Solves
  <2> QED BY <1>1, <2>1, <2>8
<1>7. T = [n \in DOMAIN g |-> TypeFrom(g[n], T)]
  <2>1. T = [n \in DOMAIN g |-> T[n]]
    BY DEF T
  <2> QED BY <1>5, <1>6, <2>1
<1>8. NodeTypes(g) = [n \in DOMAIN g |-> TypeFrom(g[n], NodeTypes(g))]
  <2> DEFINE Is(type) == type = [n \in DOMAIN g |-> TypeFrom(g[n], type)]
  <2>1. NodeTypes(g) = CHOOSE type : Is(type)
    BY DEF NodeTypes
  <2>2. Is(T)
    BY <1>7
  <2> HIDE DEF Is
  <2>3. Is(NodeTypes(g))
    BY <2>1, <2>2, Zenon
  <2> QED BY <2>3 DEF Is
<1>9. \A n \in DOMAIN g : NodeTypes(g)[n] = TypeFrom(g[n], NodeTypes(g))
  <2> DEFINE F(n) == TypeFrom(g[n], NodeTypes(g))
  <2>1. NodeTypes(g) = [n \in DOMAIN g |-> F(n)]
    BY <1>8
  <2> HIDE DEF F
  <2>2. \A n \in DOMAIN g : NodeTypes(g)[n] = F(n)
    BY <2>1
  <2> QED BY <2>2 DEF F
<1> QED BY <1>5, <1>6, <1>9 DEF Solves

LEMMA TypesAre ==
    ASSUME NEW g, OfExpression(g), NEW t, \A n \in DOMAIN g : t[n] = TypeFrom(g[n], t)
    PROVE  \A n \in DOMAIN g : IRNodeType(g, n) = t[n]
<1>1. \A n \in DOMAIN g : \A i \in DOMAIN g[n].in : g[n].in[i].n \in DOMAIN g
  BY EdgeFacts DEF OfExpression
<1>2. Solves(g, DOMAIN g, t)
  BY <1>1 DEF Solves
<1> QED BY <1>2, TypesSolve, SolutionsAgree DEF IRNodeType

-----------------------------------------------------------------------------
(* A node whose edges come from where they did, but for one                *)
Recast(node, i, k) == Node(node.op, node.val, [node.in EXCEPT ![i] = Edge(node.in[i].c, k)])

(* h: a graph with a new conversion, to the type, at an edge of a node     *)
HasCast(g, h, n, i, ty) ==
    LET k == Len(g) + 1 IN
    /\ Len(h) = k /\ DOMAIN h = DOMAIN g \cup {k} /\ k \notin DOMAIN g
    /\ h = [m \in 1..Len(h) |-> h[m]]
    /\ h[k] = Node("TYPECAST", ty, <<Edge("A", g[n].in[i].n)>>)
    /\ h[n] = Recast(g[n], i, k)
    /\ \A m \in DOMAIN g \ {n} : h[m] = g[m]

LEMMA CastEdgeIs ==
    ASSUME NEW g, OfExpression(g), NEW n \in DOMAIN g, NEW i \in DOMAIN g[n].in, NEW ty
    PROVE  HasCast(g, CastEdge(g, n, i, ty), n, i, ty)
<1> DEFINE k == Len(g) + 1
<1>1. Len(g) \in Nat /\ g = [m \in 1..Len(g) |-> g[m]] /\ WellMade(g[n], DOMAIN g)
  BY DEF OfExpression
<1>2. PICK f : f = [g EXCEPT ![n].in[i].n = k]
  OBVIOUS
<1>3. DOMAIN g = 1..Len(g) /\ DOMAIN f = 1..Len(g) /\ \A m \in DOMAIN g \ {n} : f[m] = g[m]
  BY <1>1, <1>2
<1>4. f[n] = Node(g[n].op, g[n].val, [g[n].in EXCEPT ![i] = Edge(g[n].in[i].c, k)])
  <2>1. PICK op, val, in : op = g[n].op /\ val = g[n].val /\ in = g[n].in
    OBVIOUS
  <2>2. g[n] = Node(op, val, in) /\ in[i] = Edge(in[i].c, in[i].n)
    BY <1>1, <2>1, EdgeFacts DEF WellMade
  <2>3. f[n] = [g[n] EXCEPT !.in = [in EXCEPT ![i] = [in[i] EXCEPT !.n = k]]]
    BY <1>1, <1>2, <1>3, <2>1
  <2>4. [in[i] EXCEPT !.n = k] = Edge(in[i].c, k)
    BY <2>2 DEF Edge
  <2>5. f[n] = Node(op, val, [in EXCEPT ![i] = Edge(in[i].c, k)])
    BY <2>2, <2>3, <2>4 DEF Node
  <2> QED BY <2>1, <2>5
<1>5. PICK x : x = Node("TYPECAST", ty, <<Edge("A", g[n].in[i].n)>>)
  OBVIOUS
<1>6. PICK h : h = Append(f, x)
  OBVIOUS
<1>7. Len(h) = k /\ DOMAIN h = 1..k /\ h[k] = x /\ (\A m \in 1..Len(g) : h[m] = f[m])
      /\ h = [m \in 1..Len(h) |-> h[m]]
  <2>1. PICK S : S = {f[m] : m \in DOMAIN f} \cup {x}
    OBVIOUS
  <2>2. f \in [1..Len(g) -> S]
    <3>1. f = [m \in 1..Len(g) |-> f[m]]
      BY <1>1, <1>2
    <3>2. \A m \in 1..Len(g) : f[m] \in S
      BY <1>3, <2>1
    <3> QED BY <3>1, <3>2
  <2>3. f \in Seq(S) /\ Len(f) = Len(g)
    BY <1>1, <2>2
  <2>4. h \in Seq(S) /\ Len(h) = Len(g) + 1 /\ h[Len(g) + 1] = x /\ \A m \in 1..Len(g) : h[m] = f[m]
    <3>1. x \in S
      BY <2>1
    <3> QED BY <1>6, <2>3, <3>1, AppendFacts
  <2> QED BY <1>1, <2>4
<1>8. 1..k = (1..Len(g)) \cup {k} /\ k \notin 1..Len(g)
  BY <1>1
<1>9. h = CastEdge(g, n, i, ty)
  BY <1>2, <1>5, <1>6 DEF CastEdge
<1>10. h[n] = f[n] /\ \A m \in DOMAIN g \ {n} : h[m] = g[m]
  BY <1>3, <1>7
<1>11. HasCast(g, h, n, i, ty)
  BY <1>3, <1>4, <1>5, <1>7, <1>8, <1>10 DEF HasCast, Recast
<1> QED BY <1>9, <1>11

LEMMA CastNode ==
    ASSUME NEW node, NEW ns, WellMade(node, ns), NEW i \in DOMAIN node.in, NEW k,
           NEW new, new = Recast(node, i, k)
    PROVE  /\ WellMade(new, ns \cup {k})
           /\ new.op = node.op /\ new.val = node.val /\ Len(new.in) = Len(node.in)
           /\ DOMAIN new.in = DOMAIN node.in /\ new.in[i] = Edge(node.in[i].c, k)
           /\ \A j \in DOMAIN node.in : j # i => new.in[j] = node.in[j]
           /\ \A j \in DOMAIN node.in : new.in[j].c = node.in[j].c
           /\ \A c : FromEdges(new, c) = {} <=> FromEdges(node, c) = {}
<1> DEFINE cs == AllEdges \cup {"FUNC", "ARG"}
<1>1. PICK in : in = [node.in EXCEPT ![i] = Edge(node.in[i].c, k)]
  OBVIOUS
<1>2. new = Node(node.op, node.val, in)
  BY <1>1 DEF Recast
<1>3. new.op = node.op /\ new.val = node.val /\ new.in = in
  BY <1>2 DEF Node
<1>4. /\ Len(node.in) \in Nat /\ DOMAIN node.in = 1..Len(node.in) /\ node.in \in Seq([c : cs, n : ns])
      /\ \A j \in DOMAIN node.in : node.in[j].c \in cs /\ node.in[j].n \in ns
  BY EdgeFacts DEF WellMade
<1>5. \A c : c \in cs => Edge(c, k) \in [c : cs, n : ns \cup {k}]
  BY DEF Edge
<1>6. [c : cs, n : ns] \subseteq [c : cs, n : ns \cup {k}]
  OBVIOUS
<1> HIDE DEF cs
<1>7. in \in Seq([c : cs, n : ns \cup {k}]) /\ Len(in) = Len(node.in) /\ DOMAIN in = DOMAIN node.in
  <2>1. PICK E : E = [c : cs, n : ns \cup {k}]
    OBVIOUS
  <2>2. node.in \in Seq(E)
    <3>1. PICK D : D = [c : cs, n : ns]
      OBVIOUS
    <3>2. node.in \in Seq(D) /\ D \subseteq E
      BY <1>4, <1>6, <2>1, <3>1
    <3> QED BY <3>2
  <2>3. PICK e : e = Edge(node.in[i].c, k) /\ e \in E
    BY <1>4, <1>5, <2>1
  <2>4. in \in Seq(E) /\ Len(in) = Len(node.in) /\ DOMAIN in = DOMAIN node.in
    BY <1>1, <2>2, <2>3
  <2> QED BY <2>1, <2>4
<1>8. in[i] = Edge(node.in[i].c, k) /\ \A j \in DOMAIN node.in : j # i => in[j] = node.in[j]
  BY <1>1
<1>9. \A j \in DOMAIN node.in : in[j].c = node.in[j].c
  BY <1>8 DEF Edge
<1>10. \A c : FromEdges(new, c) = {} <=> FromEdges(node, c) = {}
  <2> TAKE c
  <2>1. FromEdges(new, c) = {} <=> \A j \in DOMAIN in : in[j].c # c
    BY <1>3, NoEdge
  <2>2. FromEdges(node, c) = {} <=> \A j \in DOMAIN node.in : node.in[j].c # c
    BY NoEdge
  <2> QED BY <1>7, <1>9, <2>1, <2>2
<1>11. \A j, m \in DOMAIN in : in[j].c = in[m].c => j = m \/ in[j].c = "ARG"
  BY <1>7, <1>9 DEF WellMade
<1>12. WellMade(new, ns \cup {k})
  BY <1>2, <1>3, <1>7, <1>10, <1>11 DEF WellMade, cs
<1> QED BY <1>1, <1>2, <1>3, <1>7, <1>8, <1>9, <1>10, <1>12

LEMMA CastEdgeFormed ==
    ASSUME NEW g, OfExpression(g), NEW h, NEW n \in DOMAIN g, NEW i \in DOMAIN g[n].in, NEW ty,
           HasCast(g, h, n, i, ty)
    PROVE  OfExpression(h)
<1> DEFINE k == Len(g) + 1
           from == g[n].in[i].n
<1>1. /\ Len(h) = k /\ DOMAIN h = DOMAIN g \cup {k} /\ k \notin DOMAIN g
      /\ h = [m \in 1..Len(h) |-> h[m]]
      /\ h[k] = Node("TYPECAST", ty, <<Edge("A", from)>>)
      /\ h[n] = Recast(g[n], i, k)
      /\ \A m \in DOMAIN g \ {n} : h[m] = g[m]
  BY DEF HasCast
<1>2. k \in Nat /\ \A m \in DOMAIN g : WellMade(g[m], DOMAIN g)
  BY DEF OfExpression
<1>3. \A m \in DOMAIN g : \A j \in DOMAIN g[m].in : g[m].in[j].n \in DOMAIN g
  BY <1>2, EdgeFacts
<1> HIDE DEF k
<1>4. /\ WellMade(h[n], DOMAIN h) /\ h[n].in[i].n = k
      /\ DOMAIN h[n].in = DOMAIN g[n].in /\ \A j \in DOMAIN g[n].in : j # i => h[n].in[j] = g[n].in[j]
  <2>1. Edge(g[n].in[i].c, k).n = k
    BY DEF Edge
  <2>2. PICK new : new = Recast(g[n], i, k)
    OBVIOUS
  <2>3. /\ WellMade(new, DOMAIN g \cup {k}) /\ new.in[i] = Edge(g[n].in[i].c, k)
        /\ DOMAIN new.in = DOMAIN g[n].in /\ \A j \in DOMAIN g[n].in : j # i => new.in[j] = g[n].in[j]
    <3>1. PICK node : node = g[n]
      OBVIOUS
    <3>2. WellMade(node, DOMAIN g) /\ i \in DOMAIN node.in /\ new = Recast(node, i, k)
      BY <1>2, <2>2, <3>1
    <3>3. WellMade(new, DOMAIN g \cup {k})
      BY <3>2, CastNode
    <3>4. /\ DOMAIN new.in = DOMAIN node.in /\ new.in[i] = Edge(node.in[i].c, k)
          /\ \A j \in DOMAIN node.in : j # i => new.in[j] = node.in[j]
      BY <3>2, <3>3, CastNode
    <3> QED BY <3>1, <3>3, <3>4
  <2> QED BY <1>1, <2>1, <2>2, <2>3
<1>5. from \in DOMAIN g /\ from # k
  BY <1>1, <1>3
<1>6. /\ WellMade(h[k], DOMAIN h)
      /\ DOMAIN h[k].in = {1} /\ h[k].in[1].n = from
  <2> DEFINE cs == AllEdges \cup {"FUNC", "ARG"}
  <2>1. PICK e : e = Edge("A", from)
    OBVIOUS
  <2>2. e.c = "A" /\ e.n = from /\ e \in [c : cs, n : DOMAIN h]
    BY <1>1, <1>5, <2>1 DEF Edge, AllEdges
  <2>3. PICK in : in = <<e>>
    OBVIOUS
  <2>4. DOMAIN in = {1} /\ in[1] = e /\ in \in Seq([c : cs, n : DOMAIN h])
    <3>1. PICK E : E = [c : cs, n : DOMAIN h]
      OBVIOUS
    <3>2. DOMAIN in = {1} /\ in[1] = e /\ in \in Seq(E)
      BY <2>2, <2>3, <3>1
    <3> QED BY <3>1, <3>2
  <2>5. h[k] = Node("TYPECAST", ty, in) /\ h[k].op = "TYPECAST" /\ h[k].val = ty /\ h[k].in = in
    BY <1>1, <2>1, <2>3 DEF Node
  <2>6. FromEdges(h[k], "A") # {} /\ FromEdges(h[k], "B") = {} /\ FromEdges(h[k], "DEST") = {}
    <3>1. PICK node : node = h[k]
      OBVIOUS
    <3>2. DOMAIN node.in = {1} /\ node.in[1].c = "A"
      BY <2>2, <2>4, <2>5, <3>1
    <3>3. FromEdges(node, "A") # {} /\ FromEdges(node, "B") = {} /\ FromEdges(node, "DEST") = {}
      BY <3>2 DEF FromEdges
    <3> QED BY <3>1, <3>3
  <2> HIDE DEF cs
  <2>7. WellMade(h[k], DOMAIN h)
    BY <2>4, <2>5, <2>6 DEF WellMade, cs
  <2> QED BY <2>2, <2>4, <2>5, <2>7
<1>7. ASSUME NEW m \in DOMAIN h
      PROVE  WellMade(h[m], DOMAIN h)
  <2>1. CASE m \in {n, k}
    BY <1>4, <1>6, <2>1
  <2>2. CASE m \notin {n, k}
    <3>1. m \in DOMAIN g /\ h[m] = g[m] /\ WellMade(g[m], DOMAIN g)
      BY <1>1, <1>2, <2>2
    <3> DEFINE cs == AllEdges \cup {"FUNC", "ARG"}
    <3>2. g[m].in \in Seq([c : cs, n : DOMAIN h])
      <4>1. PICK D, E : D = [c : cs, n : DOMAIN g] /\ E = [c : cs, n : DOMAIN h]
        OBVIOUS
      <4>2. D \subseteq E /\ g[m].in \in Seq(D)
        BY <1>1, <3>1, <4>1 DEF WellMade
      <4>3. g[m].in \in Seq(E)
        BY <4>2
      <4> QED BY <4>1, <4>3
    <3> HIDE DEF cs
    <3> QED BY <3>1, <3>2 DEF WellMade, cs
  <2> QED BY <2>1, <2>2
<1>8. ASSUME NEW ns \in SUBSET DOMAIN h, ns # {}
      PROVE  \E m \in ns : \A j \in DOMAIN h[m].in : h[m].in[j].n \notin ns
  <2>1. CASE ns \ {k} = {}
    <3>1. k \in ns /\ \A j \in DOMAIN h[k].in : h[k].in[j].n \notin ns
      BY <1>5, <1>6, <1>8, <2>1
    <3> QED BY <3>1
  <2>2. CASE ns \ {k} # {}
    <3>1. ns \ {k} \in SUBSET DOMAIN g
      BY <1>1
    <3>2. PICK m \in ns \ {k} : \A j \in DOMAIN g[m].in : g[m].in[j].n \notin ns \ {k}
      BY <2>2, <3>1 DEF OfExpression
    <3>3. m \in DOMAIN g /\ \A j \in DOMAIN g[m].in : g[m].in[j].n \notin ns
      BY <1>1, <1>3, <3>1, <3>2
    <3>4. CASE m # n
      BY <1>1, <3>2, <3>3, <3>4
    <3>5. CASE m = n /\ k \notin ns
      <4>1. \A j \in DOMAIN h[n].in : h[n].in[j].n \notin ns
        BY <1>4, <3>3, <3>5
      <4> QED BY <3>2, <3>5, <4>1
    <3>6. CASE m = n /\ k \in ns
      <4>1. from \notin ns
        BY <3>3, <3>6
      <4> QED BY <1>6, <3>6, <4>1
    <3> QED BY <3>4, <3>5, <3>6
  <2> QED BY <2>1, <2>2
<1>9. Len(h) \in Nat /\ h = [m \in 1..Len(h) |-> h[m]]
  BY <1>1, <1>2
<1> QED BY <1>7, <1>8, <1>9 DEF OfExpression

(* h is g with conversions put before a node, no node of g has another     *)
(* type for it.                                                            *)
Keeps(g, h, n) ==
    /\ OfExpression(h) /\ DOMAIN g \subseteq DOMAIN h
    /\ \A m \in DOMAIN g : IRNodeType(h, m) = IRNodeType(g, m)
    /\ \A m \in DOMAIN g \ {n} : h[m] = g[m]
    /\ \A m \in DOMAIN h \ DOMAIN g : h[m].op = "TYPECAST"
    /\ h[n].op = g[n].op /\ h[n].val = g[n].val /\ DOMAIN h[n].in = DOMAIN g[n].in
    /\ \A i \in DOMAIN g[n].in : h[n].in[i].c = g[n].in[i].c

(* The types of operands when one of the edges comes from another type     *)
Now(g, n, i, ty, c) == IF g[n].in[i].c = c THEN ty ELSE IRNodeType(g, Incoming(g[n], c))
Stands(g, n, i, ty) ==
    TypeOf(g[n], Now(g, n, i, ty, "FUNC"), Now(g, n, i, ty, "A"), Now(g, n, i, ty, "B")) = IRNodeType(g, n)

LEMMA CastEdgeKeeps ==
    ASSUME NEW g, OfExpression(g), NEW n \in DOMAIN g, NEW i \in DOMAIN g[n].in, NEW ty, Stands(g, n, i, ty)
    PROVE  LET h == CastEdge(g, n, i, ty) IN
           /\ Keeps(g, h, n) /\ IRNodeType(h, h[n].in[i].n) = ty
           /\ \A j \in DOMAIN g[n].in : j # i => h[n].in[j] = g[n].in[j]
<1>1. PICK h : h = CastEdge(g, n, i, ty)
  OBVIOUS
<1>2. PICK k : k = Len(g) + 1
  OBVIOUS
<1>3. HasCast(g, h, n, i, ty)
  BY <1>1, CastEdgeIs
<1>4. OfExpression(h)
  BY <1>3, CastEdgeFormed
<1>5. /\ DOMAIN h = DOMAIN g \cup {k} /\ k \notin DOMAIN g
      /\ h[k] = Node("TYPECAST", ty, <<Edge("A", g[n].in[i].n)>>)
      /\ h[n] = Recast(g[n], i, k)
      /\ \A m \in DOMAIN g \ {n} : h[m] = g[m]
  BY <1>2, <1>3 DEF HasCast
<1>6. \A m \in DOMAIN g : WellMade(g[m], DOMAIN g) /\ \A j \in DOMAIN g[m].in : g[m].in[j].n \in DOMAIN g
  BY EdgeFacts DEF OfExpression
<1>7. PICK new : new = h[n]
  OBVIOUS
<1>8. /\ WellMade(new, DOMAIN h) /\ new.op = g[n].op /\ new.val = g[n].val
      /\ DOMAIN new.in = DOMAIN g[n].in /\ new.in[i] = Edge(g[n].in[i].c, k)
      /\ \A j \in DOMAIN g[n].in : j # i => new.in[j] = g[n].in[j]
      /\ \A j \in DOMAIN g[n].in : new.in[j].c = g[n].in[j].c
      /\ \A c : FromEdges(new, c) = {} <=> FromEdges(g[n], c) = {}
  <2>1. PICK node : node = g[n]
    OBVIOUS
  <2>2. WellMade(node, DOMAIN g) /\ i \in DOMAIN node.in /\ new = Recast(node, i, k)
    BY <1>5, <1>6, <1>7, <2>1
  <2>3. WellMade(new, DOMAIN g \cup {k})
    BY <2>2, CastNode
  <2> QED BY <1>5, <2>1, <2>2, <2>3, CastNode
<1>9. PICK T : T = NodeTypes(g)
  OBVIOUS
<1>10. \A m \in DOMAIN g : T[m] = TypeFrom(g[m], T) /\ T[m] = IRNodeType(g, m)
  BY <1>9, TypesSolve DEF Solves, IRNodeType
<1>11. PICK t : t = [m \in DOMAIN h |-> IF m = k THEN ty ELSE T[m]]
  OBVIOUS
<1>12. t[k] = ty /\ \A m \in DOMAIN g : t[m] = T[m]
  BY <1>5, <1>11
<1>13. ASSUME NEW m \in DOMAIN g, m # n
       PROVE  t[m] = TypeFrom(h[m], t)
  <2>1. \A j \in DOMAIN g[m].in : t[g[m].in[j].n] = T[g[m].in[j].n]
    BY <1>6, <1>12
  <2>2. TypeFrom(g[m], t) = TypeFrom(g[m], T)
    BY <1>6, <2>1, TypeFromSame
  <2> QED BY <1>5, <1>10, <1>12, <1>13, <2>2
<1>14. t[k] = TypeFrom(h[k], t)
  <2>1. h[k].op = "TYPECAST" /\ h[k].val = ty
    BY <1>5 DEF Node
  <2>2. \A node, f, a, b : node.op = "TYPECAST" => TypeOf(node, f, a, b) = node.val
    BY DEF TypeOf, IsBinop, Logical, Compares
  <2> QED BY <1>12, <2>1, <2>2 DEF TypeFrom
<1>15. t[n] = TypeFrom(new, t)
  <2>1. ASSUME NEW c, c # "ARG", FromEdges(new, c) # {}
        PROVE  t[Incoming(new, c)] = Now(g, n, i, ty, c)
    <3>1. PICK j \in DOMAIN g[n].in : new.in[j].c = c /\ g[n].in[j].c = c
      BY <1>8, <2>1, HasEdge
    <3>2. Incoming(new, c) = new.in[j].n /\ Incoming(g[n], c) = g[n].in[j].n
      BY <1>6, <1>8, <2>1, <3>1, FromIs
    <3>3. CASE j = i
      <4>1. Incoming(new, c) = k
        BY <1>8, <3>2, <3>3 DEF Edge
      <4> QED BY <1>12, <3>1, <3>3, <4>1 DEF Now
    <3>4. CASE j # i
      <4>1. g[n].in[i].c # c
        BY <1>6, <2>1, <3>1, <3>4 DEF WellMade
      <4>2. Incoming(new, c) = Incoming(g[n], c) /\ Incoming(g[n], c) \in DOMAIN g
        BY <1>6, <1>8, <3>2, <3>4
      <4>3. t[Incoming(new, c)] = IRNodeType(g, Incoming(g[n], c))
        BY <1>10, <1>12, <4>2
      <4> QED BY <4>1, <4>3 DEF Now
    <3> QED BY <3>3, <3>4
  <2>2. PICK f, a, b : f = t[Incoming(new, "FUNC")] /\ a = t[Incoming(new, "A")] /\ b = t[Incoming(new, "B")]
    OBVIOUS
  <2>3. PICK f2, a2, b2 : f2 = Now(g, n, i, ty, "FUNC") /\ a2 = Now(g, n, i, ty, "A") /\ b2 = Now(g, n, i, ty, "B")
    OBVIOUS
  <2>4. TypeOf(new, f, a, b) = TypeOf(new, f2, a2, b2)
    <3>1. /\ FromEdges(new, "FUNC") # {} => f = f2
          /\ FromEdges(new, "A") # {} => a = a2
          /\ FromEdges(new, "B") # {} => b = b2
      BY <2>1, <2>2, <2>3
    <3> QED BY <1>8, <3>1, TypeOfSame
  <2>5. TypeOf(new, f2, a2, b2) = TypeOf(g[n], f2, a2, b2)
    <3>1. UnaryType(new, f2) = UnaryType(g[n], f2) /\ UnaryType(new, a2) = UnaryType(g[n], a2)
      BY <1>8 DEF UnaryType
    <3>2. IsBinop(new) <=> IsBinop(g[n])
      BY <1>8 DEF IsBinop
    <3> QED BY <1>8, <3>1, <3>2 DEF TypeOf, IsBinop
  <2>6. TypeOf(g[n], f2, a2, b2) = T[n]
    BY <1>10, <2>3 DEF Stands
  <2> QED BY <1>12, <2>2, <2>4, <2>5, <2>6 DEF TypeFrom
<1>16. \A m \in DOMAIN h : t[m] = TypeFrom(h[m], t)
  BY <1>5, <1>7, <1>13, <1>14, <1>15
<1>17. \A m \in DOMAIN h : IRNodeType(h, m) = t[m]
  BY <1>4, <1>16, TypesAre
<1>18. h[n].in[i].n = k /\ h[k].op = "TYPECAST"
  BY <1>5, <1>7, <1>8 DEF Edge, Node
<1>19. IRNodeType(h, k) = ty /\ \A m \in DOMAIN g : IRNodeType(h, m) = IRNodeType(g, m)
  BY <1>5, <1>10, <1>12, <1>17
<1>20. Keeps(g, h, n)
  BY <1>4, <1>5, <1>7, <1>8, <1>18, <1>19 DEF Keeps
<1> QED BY <1>1, <1>7, <1>8, <1>18, <1>19, <1>20

-----------------------------------------------------------------------------
(* The higher of two types stays what it is when either becomes it.        *)
LEMMA PlainBase ==
    ASSUME NEW ty, ty.t \notin Compound, ty.t # "forward"
    PROVE  ObjectBaseType(ty) = ty
BY DEF ObjectBaseType, Through, HasBase, Declared

LEMMA RankedAre ==
    /\ \A t \in Ranked : RankOf(t) \in Int /\ t \notin Compound \cup PtrTypes /\ t # "forward"
    /\ "abort" \notin Ranked
<1>1. DOMAIN Ranks = 1..11
  BY DEF Ranks
<1>2. \A i \in 1..11 : Ranks[i] \in {"U0", "Bool", "I8i", "U8i", "I16i", "U16i", "I32i", "U32i", "I64i", "U64i", "F64"}
  BY DEF Ranks
<1>3. ASSUME NEW t \in Ranked
      PROVE  RankOf(t) \in Int
  <2>1. \E i \in DOMAIN Ranks : Ranks[i] = t
    BY DEF Ranked
  <2>2. RankOf(t) \in DOMAIN Ranks
    BY <2>1 DEF RankOf
  <2> QED BY <1>1, <2>2
<1>4. \A t \in Ranked : t \in {"U0", "Bool", "I8i", "U8i", "I16i", "U16i", "I32i", "U32i", "I64i", "U64i", "F64"}
  BY <1>1, <1>2 DEF Ranked
<1>5. \A t \in Ranked : t \notin Compound \cup PtrTypes /\ t # "forward" /\ t # "abort"
  BY <1>4 DEF Compound, PtrTypes
<1> QED BY <1>3, <1>5

LEMMA HigherStands ==
    ASSUME NEW a, NEW b, NEW r, r = GetHigherType(a, b)
    PROVE  /\ GetHigherType(r, b) = r /\ GetHigherType(a, r) = r /\ GetHigherType(r, r) = r
           /\ ~IsPtrType(a) /\ ~IsPtrType(b) => ~IsPtrType(r) /\ ~IsPtrType(ObjectBaseType(r))
<1> DEFINE x == ObjectBaseType(a)
           y == ObjectBaseType(b)
           z == ObjectBaseType(r)
<1>0. /\ \A c, d : c.t \in PtrTypes => GetHigherType(c, d) = c
      /\ \A c, d : c.t \notin PtrTypes /\ d.t = "ptr" => GetHigherType(c, d) = d
      /\ \A c, d : c.t \notin PtrTypes /\ d.t # "ptr" =>
            GetHigherType(c, d) = Higher(ObjectBaseType(c), ObjectBaseType(d))
  BY DEF GetHigherType
<1>1. CASE a.t \in PtrTypes
  <2>1. r = a
    BY <1>0, <1>1
  <2> QED BY <1>0, <1>1, <2>1 DEF IsPtrType
<1>2. CASE a.t \notin PtrTypes /\ b.t = "ptr"
  <2>1. r = b /\ b.t \in PtrTypes
    BY <1>0, <1>2 DEF PtrTypes
  <2> QED BY <1>0, <1>2, <2>1 DEF IsPtrType
<1>3. CASE a.t \notin PtrTypes /\ b.t # "ptr"
  <2>1. r = Higher(x, y)
    BY <1>0, <1>3
  <2>2. CASE {x.t, y.t} \subseteq Ranked
    <3>1. r = (IF RankOf(x.t) > RankOf(y.t) THEN x ELSE y)
      BY <2>1, <2>2 DEF Higher
    <3>2. r \in {x, y} /\ r.t \in Ranked
      BY <2>2, <3>1
    <3>3. /\ r.t \notin Compound \cup PtrTypes /\ r.t # "forward"
          /\ RankOf(x.t) \in Int /\ RankOf(y.t) \in Int
      BY <2>2, <3>2, RankedAre
    <3>4. z = r
      BY <3>3, PlainBase
    <3>5. r.t # "ptr"
      BY <3>3 DEF PtrTypes
    <3>6. Higher(r, y) = r /\ Higher(x, r) = r /\ Higher(r, r) = r
      BY <2>2, <3>1, <3>2, <3>3 DEF Higher
    <3>7. GetHigherType(r, b) = r /\ GetHigherType(a, r) = r /\ GetHigherType(r, r) = r
      BY <1>0, <1>3, <3>3, <3>4, <3>5, <3>6
    <3> QED BY <3>3, <3>4, <3>7 DEF IsPtrType
  <2>3. CASE ~ ({x.t, y.t} \subseteq Ranked)
    <3>1. r = Abort
      BY <2>1, <2>3 DEF Higher
    <3>2. r.t = "abort"
      BY <3>1 DEF Abort, Prim
    <3>3. r.t \notin Ranked /\ r.t # "ptr" /\ r.t \notin PtrTypes /\ r.t \notin Compound /\ r.t # "forward"
      BY <3>2, RankedAre DEF PtrTypes, Compound
    <3>4. z = r
      BY <3>3, PlainBase
    <3>5. Higher(r, y) = r /\ Higher(x, r) = r /\ Higher(r, r) = r
      BY <3>1, <3>3 DEF Higher
    <3>6. GetHigherType(r, b) = r /\ GetHigherType(a, r) = r /\ GetHigherType(r, r) = r
      BY <1>0, <1>3, <3>3, <3>4, <3>5
    <3> QED BY <3>3, <3>4, <3>6 DEF IsPtrType
  <2> QED BY <2>2, <2>3
<1> QED BY <1>1, <1>2, <1>3

(* A type that is no pointer, once its base has been found to be none      *)
LEMMA NoPtr ==
    ASSUME NEW ty, ~IsPtrType(ObjectBaseType(ty))
    PROVE  ~IsPtrType(ty)
<1> SUFFICES ASSUME IsPtrType(ty)
             PROVE  FALSE
  OBVIOUS
<1>1. ObjectBaseType(ty) = ty
  BY PlainBase DEF IsPtrType, PtrTypes, Compound
<1> QED BY <1>1

LEMMA BinaryStands ==
    ASSUME NEW op, NEW a, NEW b, NEW r, r = BinaryType(op, a, b),
           op \in {"ADD", "SUB"} => ~IsPtrType(ObjectBaseType(a)) /\ ~IsPtrType(ObjectBaseType(b))
    PROVE  /\ BinaryType(op, r, b) = r /\ BinaryType(op, a, r) = r /\ BinaryType(op, r, r) = r
           /\ op \in {"ADD", "SUB"} => ~IsPtrType(ObjectBaseType(r))
<1>1. op \in {"ADD", "SUB"} => ~IsPtrType(a) /\ ~IsPtrType(b)
  BY NoPtr
<1>2. r = GetHigherType(a, b)
  BY <1>1 DEF BinaryType, IsPtrType
<1>3. /\ GetHigherType(r, b) = r /\ GetHigherType(a, r) = r /\ GetHigherType(r, r) = r
      /\ op \in {"ADD", "SUB"} => ~IsPtrType(r) /\ ~IsPtrType(ObjectBaseType(r))
  BY <1>1, <1>2, HigherStands
<1> QED BY <1>1, <1>3 DEF BinaryType, IsPtrType

(* A number is added to a pointer: its type becomes that of an index       *)
LEMMA CountedStands ==
    ASSUME NEW op, NEW a, NEW b
    PROVE  /\ IsPtrType(ObjectBaseType(a)) /\ ~IsPtrType(ObjectBaseType(b)) =>
                 BinaryType(op, a, DftValType) = BinaryType(op, a, b)
           /\ ~IsPtrType(ObjectBaseType(a)) /\ IsPtrType(ObjectBaseType(b)) =>
                 BinaryType(op, DftValType, b) = BinaryType(op, a, b)
           /\ ~IsPtrType(ObjectBaseType(DftValType))
<1>1. DftValType.t = "I32i"
  BY DEF DftValType, Prim
<1>2. DftValType.t \notin PtrTypes /\ DftValType.t # "ptr" /\ ObjectBaseType(DftValType) = DftValType
  BY <1>1, PlainBase DEF PtrTypes, Compound
<1>3. \A t \in Ranked : t \notin PtrTypes
  BY RankedAre
<1>4. ASSUME IsPtrType(ObjectBaseType(a)), ~IsPtrType(ObjectBaseType(b))
      PROVE  BinaryType(op, a, DftValType) = BinaryType(op, a, b)
  <2>1. b.t \notin PtrTypes /\ b.t # "ptr"
    BY <1>4, NoPtr DEF IsPtrType, PtrTypes
  <2>2. CASE a.t \in PtrTypes
    BY <1>2, <2>1, <2>2 DEF BinaryType, GetHigherType
  <2>3. CASE a.t \notin PtrTypes
    <3>1. ObjectBaseType(a).t \notin Ranked
      BY <1>3, <1>4 DEF IsPtrType
    <3>2. GetHigherType(a, b) = Abort /\ GetHigherType(a, DftValType) = Abort
      BY <1>2, <2>1, <2>3, <3>1 DEF GetHigherType, Higher
    <3> QED BY <2>3, <3>2 DEF BinaryType
  <2> QED BY <2>2, <2>3
<1>5. ASSUME ~IsPtrType(ObjectBaseType(a)), IsPtrType(ObjectBaseType(b))
      PROVE  BinaryType(op, DftValType, b) = BinaryType(op, a, b)
  <2>1. a.t \notin PtrTypes
    BY <1>5, NoPtr DEF IsPtrType
  <2>2. CASE b.t = "ptr"
    BY <1>2, <2>1, <2>2 DEF BinaryType, GetHigherType
  <2>3. CASE b.t # "ptr"
    <3>1. ObjectBaseType(b).t \notin Ranked
      BY <1>3, <1>5 DEF IsPtrType
    <3>2. GetHigherType(a, b) = Abort /\ GetHigherType(DftValType, b) = Abort
      BY <1>2, <2>1, <2>3, <3>1 DEF GetHigherType, Higher
    <3> QED BY <1>2, <2>1, <3>2 DEF BinaryType
  <2> QED BY <2>2, <2>3
<1>6. ~IsPtrType(ObjectBaseType(DftValType))
  BY <1>2 DEF IsPtrType
<1> QED BY <1>4, <1>5, <1>6

-----------------------------------------------------------------------------
(* The conversions at a node: a run over its edges                         *)
(* f[i] is g when its edges up to i have been looked at.                    *)
Casts(f, g, n, edges, types, last) ==
    /\ f[0] = g
    /\ \A i \in 1..last :
          f[i] = IF g[n].in[i].c \in edges THEN CastUnless(f[i - 1], n, i, types[i]) ELSE f[i - 1]

LEMMA CastRun ==
    ASSUME NEW g, NEW m, NEW edges, NEW types, Len(g[m].in) \in Nat
    PROVE  \E f : /\ Casts(f, g, m, edges, types, Len(g[m].in))
                  /\ CastEdges(g, m, edges, types) = f[Len(g[m].in)]
<1> DEFINE Step(x, i) == IF g[m].in[i].c \in edges THEN CastUnless(x, m, i, types[i]) ELSE x
           Base == g
           Runs(f, n) == f = [i \in 0..n |-> IF i = 0 THEN Base ELSE Step(f[i - 1], i)]
           S == {n \in Nat : \E f : Runs(f, n)}
           L == Len(g[m].in)
           run[i \in 0..L] == IF i = 0 THEN Base ELSE Step(run[i - 1], i)
<1>1. CastEdges(g, m, edges, types) = run[L]
  BY Zenon DEF CastEdges
<1>2. (\E f : Runs(f, L)) => run = [i \in 0..L |-> IF i = 0 THEN Base ELSE Step(run[i - 1], i)]
  BY Zenon
<1>3. \A x, i : Step(x, i) = IF g[m].in[i].c \in edges THEN CastUnless(x, m, i, types[i]) ELSE x
  OBVIOUS
<1>0. Base = g
  OBVIOUS
<1> HIDE DEF Step, run, Base, L
<1>4. 0 \in S
  <2> DEFINE h == [i \in 0..0 |-> Base]
  <2>1. Runs(h, 0)
    OBVIOUS
  <2> QED BY <2>1, Zenon
<1>5. ASSUME NEW n \in Nat, n \in S
      PROVE  n + 1 \in S
  <2>1. PICK f : Runs(f, n)
    BY <1>5
  <2> DEFINE h == [i \in 0..(n + 1) |-> IF i = n + 1 THEN Step(f[n], n + 1) ELSE f[i]]
  <2>2. /\ h = [i \in 0..(n + 1) |-> h[i]]
        /\ \A i \in 0..n : h[i] = f[i]
        /\ h[n + 1] = Step(f[n], n + 1)
    OBVIOUS
  <2>3. \A i \in 0..n : i # 0 => f[i] = Step(f[i - 1], i) /\ i - 1 \in 0..n
    BY <2>1
  <2>4. f[0] = Base
    BY <2>1
  <2> HIDE DEF h
  <2>5. \A i \in 0..(n + 1) : h[i] = IF i = 0 THEN Base ELSE Step(h[i - 1], i)
    <3> TAKE i \in 0..(n + 1)
    <3>1. CASE i = n + 1
      <4>1. i - 1 = n /\ i # 0 /\ n \in 0..n
        BY <3>1
      <4> QED BY <2>2, <3>1, <4>1
    <3>2. CASE i # n + 1
      <4>1. i \in 0..n
        BY <3>2
      <4> QED BY <2>2, <2>3, <2>4, <4>1
    <3> QED BY <3>1, <3>2
  <2>6. Runs(h, n + 1)
    BY <2>2, <2>5, Zenon
  <2>7. n + 1 \in Nat
    OBVIOUS
  <2> HIDE DEF Runs
  <2> QED BY <2>6, <2>7, Zenon
<1>6. \E f : Runs(f, L)
  <2> HIDE DEF Runs
  <2>1. Nat \subseteq S
    <3> HIDE DEF S
    <3> QED BY <1>4, <1>5, AllNumbers
  <2>2. L \in Nat
    BY DEF L
  <2> QED BY <2>1, <2>2
<1>7. run = [i \in 0..L |-> IF i = 0 THEN Base ELSE Step(run[i - 1], i)]
  BY <1>2, <1>6
<1>8. L \in Nat
  BY DEF L
<1>9. run[0] = Base /\ \A i \in 1..L : run[i] = Step(run[i - 1], i)
  BY <1>7, <1>8
<1>10. Casts(run, g, m, edges, types, L)
  BY <1>3, <1>9, <1>0 DEF Casts
<1> HIDE DEF Runs
<1> QED BY <1>1, <1>10, Zenon DEF L

LEMMA KeepsItself ==
    ASSUME NEW g, OfExpression(g), NEW n
    PROVE  Keeps(g, g, n)
BY DEF Keeps

LEMMA KeepsOn ==
    ASSUME NEW f, NEW n \in DOMAIN f, NEW g, Keeps(f, g, n), NEW h, Keeps(g, h, n)
    PROVE  Keeps(f, h, n)
BY DEF Keeps

(* The type of the node is the same, whichever of the edges have been      *)
(* looked at.                                                              *)
Maybe(g, n, edges, types, c, ty) ==
    \/ ty = IRNodeType(g, Incoming(g[n], c))
    \/ c \in edges /\ \E i \in DOMAIN g[n].in : g[n].in[i].c = c /\ ty = types[i]
Bears(g, n, edges, types) ==
    \A f, a, b :
        /\ FromEdges(g[n], "FUNC") # {} => Maybe(g, n, edges, types, "FUNC", f)
        /\ FromEdges(g[n], "A") # {} => Maybe(g, n, edges, types, "A", a)
        /\ FromEdges(g[n], "B") # {} => Maybe(g, n, edges, types, "B", b)
        => TypeOf(g[n], f, a, b) = IRNodeType(g, n)

(* h: the edges up to the last have been looked at                         *)
Looked(g, h, n, edges, types, last) ==
    /\ Keeps(g, h, n)
    /\ \A i \in DOMAIN g[n].in :
          IF i <= last /\ g[n].in[i].c \in edges THEN IRNodeType(h, h[n].in[i].n) = types[i]
          ELSE h[n].in[i] = g[n].in[i]

SameKinds(node, new) == \A c : FromEdges(new, c) = {} <=> FromEdges(node, c) = {}

LEMMA TypeOfAlike ==
    ASSUME NEW node, NEW new, new.op = node.op, new.val = node.val, SameKinds(node, new),
           NEW f, NEW a, NEW b
    PROVE  TypeOf(new, f, a, b) = TypeOf(node, f, a, b)
<1>1. UnaryType(new, f) = UnaryType(node, f) /\ UnaryType(new, a) = UnaryType(node, a)
  BY DEF UnaryType
<1>2. IsBinop(new) <=> IsBinop(node)
  BY DEF IsBinop, SameKinds
<1> QED BY <1>1, <1>2 DEF TypeOf, IsBinop

LEMMA LookedAtNext ==
    ASSUME NEW g, OfExpression(g), NEW n \in DOMAIN g, NEW edges, NEW types, Bears(g, n, edges, types),
           NEW i \in DOMAIN g[n].in, g[n].in[i].c \in edges, NEW h, Looked(g, h, n, edges, types, i - 1)
    PROVE  Looked(g, CastUnless(h, n, i, types[i]), n, edges, types, i)
<1>1. PICK ty : ty = types[i]
  OBVIOUS
<1>2. PICK x : x = CastUnless(h, n, i, ty)
  OBVIOUS
<1>3. Keeps(g, h, n) /\ OfExpression(h) /\ n \in DOMAIN h /\ DOMAIN h[n].in = DOMAIN g[n].in
  BY DEF Looked, Keeps
<1>4. PICK old, node : old = g[n] /\ node = h[n]
  OBVIOUS
<1>5. /\ WellMade(old, DOMAIN g) /\ WellMade(node, DOMAIN h)
      /\ node.op = old.op /\ node.val = old.val /\ DOMAIN node.in = DOMAIN old.in
      /\ \A j \in DOMAIN old.in : node.in[j].c = old.in[j].c
  BY <1>3, <1>4 DEF Keeps, OfExpression
<1>6. SameKinds(old, node)
  <2> SUFFICES ASSUME NEW c
               PROVE  FromEdges(node, c) = {} <=> FromEdges(old, c) = {}
    BY DEF SameKinds
  <2>1. FromEdges(node, c) = {} <=> \A j \in DOMAIN node.in : node.in[j].c # c
    BY NoEdge
  <2>2. FromEdges(old, c) = {} <=> \A j \in DOMAIN old.in : old.in[j].c # c
    BY NoEdge
  <2> QED BY <1>5, <2>1, <2>2
<1>7. DOMAIN old.in \subseteq Int /\ \A j \in DOMAIN old.in : old.in[j].n \in DOMAIN g
  BY <1>5, EdgeFacts
<1>8. ASSUME NEW j \in DOMAIN old.in
      PROVE  IF j <= i - 1 /\ old.in[j].c \in edges THEN IRNodeType(h, node.in[j].n) = types[j]
             ELSE node.in[j] = old.in[j] /\ IRNodeType(h, node.in[j].n) = IRNodeType(g, old.in[j].n)
  <2>1. \A m \in DOMAIN g : IRNodeType(h, m) = IRNodeType(g, m)
    BY <1>3 DEF Keeps
  <2> QED BY <1>4, <1>7, <2>1 DEF Looked
<1>9. Stands(h, n, i, ty)
  <2>1. ASSUME NEW c, c # "ARG", FromEdges(old, c) # {}
        PROVE  Maybe(g, n, edges, types, c, Now(h, n, i, ty, c))
    <3>1. PICK j \in DOMAIN old.in : old.in[j].c = c /\ node.in[j].c = c
      BY <1>5, <2>1, HasEdge
    <3>2. Incoming(node, c) = node.in[j].n /\ Incoming(old, c) = old.in[j].n
      BY <1>5, <2>1, <3>1, FromIs
    <3>3. CASE old.in[i].c = c
      <4>1. Now(h, n, i, ty, c) = ty
        BY <1>4, <1>5, <3>3 DEF Now
      <4> QED BY <1>1, <1>4, <3>3, <4>1 DEF Maybe
    <3>4. CASE old.in[i].c # c
      <4>1. Now(h, n, i, ty, c) = IRNodeType(h, node.in[j].n)
        BY <1>4, <1>5, <3>2, <3>4 DEF Now
      <4> QED BY <1>4, <1>8, <3>1, <3>2, <4>1 DEF Maybe
    <3> QED BY <3>3, <3>4
  <2>2. PICK f, a, b : /\ f = Now(h, n, i, ty, "FUNC") /\ a = Now(h, n, i, ty, "A")
                       /\ b = Now(h, n, i, ty, "B")
    OBVIOUS
  <2>3. TypeOf(old, f, a, b) = IRNodeType(g, n)
    <3>1. /\ FromEdges(old, "FUNC") # {} => Maybe(g, n, edges, types, "FUNC", f)
          /\ FromEdges(old, "A") # {} => Maybe(g, n, edges, types, "A", a)
          /\ FromEdges(old, "B") # {} => Maybe(g, n, edges, types, "B", b)
      BY <2>1, <2>2
    <3> QED BY <1>4, <3>1 DEF Bears
  <2>4. TypeOf(node, f, a, b) = TypeOf(old, f, a, b)
    BY <1>5, <1>6, TypeOfAlike
  <2>5. IRNodeType(h, n) = IRNodeType(g, n)
    BY <1>3 DEF Keeps
  <2> QED BY <1>4, <2>2, <2>3, <2>4, <2>5 DEF Stands
<1>10. CASE ty = IRNodeType(h, h[n].in[i].n)
  <2>1. x = h
    BY <1>2, <1>10 DEF CastUnless
  <2>2. ASSUME NEW j \in DOMAIN g[n].in
        PROVE  IF j <= i /\ g[n].in[j].c \in edges THEN IRNodeType(h, h[n].in[j].n) = types[j]
               ELSE h[n].in[j] = g[n].in[j]
    <3>1. CASE j = i
      <4>1. i <= i
        BY <1>4, <1>7
      <4> QED BY <1>1, <1>10, <3>1, <4>1
    <3>2. CASE j # i
      <4>1. j <= i <=> j <= i - 1
        BY <1>4, <1>7, <3>2
      <4> QED BY <1>4, <1>8, <4>1
    <3> QED BY <3>1, <3>2
  <2>3. Looked(g, h, n, edges, types, i)
    BY <1>3, <2>2 DEF Looked
  <2> QED BY <1>1, <1>2, <2>1, <2>3
<1>11. CASE ty # IRNodeType(h, h[n].in[i].n)
  <2>1. x = CastEdge(h, n, i, ty)
    BY <1>2, <1>11 DEF CastUnless
  <2>2. /\ Keeps(h, x, n) /\ IRNodeType(x, x[n].in[i].n) = ty
        /\ \A j \in DOMAIN h[n].in : j # i => x[n].in[j] = h[n].in[j]
    BY <1>3, <1>9, <2>1, CastEdgeKeeps
  <2>3. Keeps(g, x, n)
    BY <1>3, <2>2, KeepsOn
  <2>4. ASSUME NEW j \in DOMAIN g[n].in
        PROVE  IF j <= i /\ g[n].in[j].c \in edges THEN IRNodeType(x, x[n].in[j].n) = types[j]
               ELSE x[n].in[j] = g[n].in[j]
    <3>1. CASE j = i
      BY <1>1, <1>4, <1>7, <2>2, <3>1
    <3>2. CASE j # i
      <4>1. j <= i <=> j <= i - 1
        BY <1>4, <1>7, <3>2
      <4>2. x[n].in[j] = node.in[j]
        BY <1>3, <1>4, <2>2, <3>2
      <4>3. node.in[j].n \in DOMAIN h
        BY <1>4, <1>5, EdgeFacts
      <4>4. IRNodeType(x, node.in[j].n) = IRNodeType(h, node.in[j].n)
        BY <2>2, <4>3 DEF Keeps
      <4> QED BY <1>4, <1>8, <4>1, <4>2, <4>4
    <3> QED BY <3>1, <3>2
  <2>5. Looked(g, x, n, edges, types, i)
    BY <2>3, <2>4 DEF Looked
  <2> QED BY <1>1, <1>2, <2>5
<1> QED BY <1>10, <1>11

LEMMA CastEdgesKeep ==
    ASSUME NEW g, OfExpression(g), NEW n \in DOMAIN g, NEW edges, NEW types, Bears(g, n, edges, types)
    PROVE  LET h == CastEdges(g, n, edges, types) IN
           /\ Keeps(g, h, n)
           /\ \A i \in DOMAIN g[n].in :
                 IF g[n].in[i].c \in edges THEN IRNodeType(h, h[n].in[i].n) = types[i]
                 ELSE h[n].in[i] = g[n].in[i]
<1>1. PICK last : last = Len(g[n].in)
  OBVIOUS
<1>2. last \in Nat /\ DOMAIN g[n].in = 1..last
  <2>1. WellMade(g[n], DOMAIN g)
    BY DEF OfExpression
  <2> QED BY <1>1, <2>1, EdgeFacts
<1>3. PICK f : Casts(f, g, n, edges, types, last) /\ CastEdges(g, n, edges, types) = f[last]
  BY <1>1, <1>2, CastRun
<1> DEFINE S == {i \in 0..last : Looked(g, f[i], n, edges, types, i)}
<1>4. 0 \in S
  <2>1. f[0] = g
    BY <1>3 DEF Casts
  <2>2. \A i \in DOMAIN g[n].in : ~ (i <= 0)
    BY <1>2
  <2>3. Looked(g, g, n, edges, types, 0)
    BY <2>2, KeepsItself DEF Looked
  <2> QED BY <1>2, <2>1, <2>3
<1>5. ASSUME NEW k \in 0..(last - 1), k \in S
      PROVE  k + 1 \in S
  <2>1. PICK i : i = k + 1
    OBVIOUS
  <2>2. i \in 1..last /\ i - 1 = k /\ i \in DOMAIN g[n].in /\ i \in 0..last
    BY <1>2, <2>1
  <2>3. PICK h : h = f[k] /\ Looked(g, h, n, edges, types, i - 1)
    BY <1>5, <2>2
  <2>4. f[i] = IF g[n].in[i].c \in edges THEN CastUnless(h, n, i, types[i]) ELSE h
    BY <1>3, <2>2, <2>3 DEF Casts
  <2>5. CASE g[n].in[i].c \in edges
    <3>1. Looked(g, CastUnless(h, n, i, types[i]), n, edges, types, i)
      BY <2>2, <2>3, <2>5, LookedAtNext
    <3> QED BY <2>1, <2>2, <2>4, <2>5, <3>1
  <2>6. CASE g[n].in[i].c \notin edges
    <3>1. \A j \in DOMAIN g[n].in : j = i \/ (j <= i <=> j <= i - 1)
      BY <1>2, <2>2
    <3>2. Looked(g, h, n, edges, types, i)
      BY <2>2, <2>3, <2>6, <3>1 DEF Looked
    <3> QED BY <2>1, <2>2, <2>4, <2>6, <3>2
  <2> QED BY <2>5, <2>6
<1>6. 0..last \subseteq S
  <2> HIDE DEF S
  <2> QED BY <1>2, <1>4, <1>5, AllUpTo
<1>7. Looked(g, f[last], n, edges, types, last)
  BY <1>2, <1>6
<1>8. \A i \in DOMAIN g[n].in : i <= last
  BY <1>2
<1> QED BY <1>3, <1>7, <1>8 DEF Looked

(* Conversions of some kinds of edges, none of arguments: each is from     *)
(* what has the type then.                                                 *)
OneTyped == {"A", "B", "DEST"}

LEMMA EachIs ==
    ASSUME NEW g, NEW n, NEW ty, NEW i \in DOMAIN g[n].in, g[n].in[i].c # "ASSIGN_FROM_PTR"
    PROVE  Each(g, n, ty)[i] = ty
BY DEF Each

LEMMA CastEachKeeps ==
    ASSUME NEW g, OfExpression(g), NEW n \in DOMAIN g, NEW edges, NEW ty, NEW types,
           Bears(g, n, edges, types), edges \cap OneTyped # {} => types = Each(g, n, ty)
    PROVE  LET h == CastEdges(g, n, edges, types) IN
           /\ Keeps(g, h, n) /\ SameKinds(g[n], h[n])
           /\ \A c \in OneTyped : FromEdges(g[n], c) # {} =>
                 IRNodeType(h, Incoming(h[n], c)) = IF c \in edges THEN ty ELSE IRNodeType(g, Incoming(g[n], c))
<1>1. PICK h : h = CastEdges(g, n, edges, types)
  OBVIOUS
<1>2. /\ Keeps(g, h, n)
      /\ \A i \in DOMAIN g[n].in :
            IF g[n].in[i].c \in edges THEN IRNodeType(h, h[n].in[i].n) = types[i]
            ELSE h[n].in[i] = g[n].in[i]
  BY <1>1, CastEdgesKeep
<1>3. PICK old, node : old = g[n] /\ node = h[n]
  OBVIOUS
<1>4. /\ WellMade(old, DOMAIN g) /\ WellMade(node, DOMAIN h) /\ DOMAIN node.in = DOMAIN old.in
      /\ \A j \in DOMAIN old.in : node.in[j].c = old.in[j].c
  BY <1>2, <1>3 DEF Keeps, OfExpression
<1>5. SameKinds(old, node)
  <2> SUFFICES ASSUME NEW c
               PROVE  FromEdges(node, c) = {} <=> FromEdges(old, c) = {}
    BY DEF SameKinds
  <2>1. FromEdges(node, c) = {} <=> \A j \in DOMAIN node.in : node.in[j].c # c
    BY NoEdge
  <2>2. FromEdges(old, c) = {} <=> \A j \in DOMAIN old.in : old.in[j].c # c
    BY NoEdge
  <2> QED BY <1>4, <2>1, <2>2
<1>6. ASSUME NEW c \in OneTyped, FromEdges(old, c) # {}
      PROVE  IRNodeType(h, Incoming(node, c)) = IF c \in edges THEN ty ELSE IRNodeType(g, Incoming(old, c))
  <2>1. PICK i \in DOMAIN old.in : old.in[i].c = c /\ node.in[i].c = c
    BY <1>4, <1>6, HasEdge
  <2>2. c # "ARG" /\ c # "ASSIGN_FROM_PTR"
    BY DEF OneTyped
  <2>3. Incoming(node, c) = node.in[i].n /\ Incoming(old, c) = old.in[i].n /\ old.in[i].n \in DOMAIN g
    BY <1>4, <2>1, <2>2, FromIs, EdgeFacts
  <2>4. CASE c \in edges
    <3>1. types[i] = ty
      BY <1>3, <1>6, <2>1, <2>2, <2>4, EachIs
    <3> QED BY <1>2, <1>3, <2>1, <2>3, <2>4, <3>1
  <2>5. CASE c \notin edges
    <3>1. node.in[i] = old.in[i]
      BY <1>2, <1>3, <2>1, <2>5
    <3> QED BY <1>2, <2>3, <2>5, <3>1 DEF Keeps
  <2> QED BY <2>4, <2>5
<1> QED BY <1>1, <1>2, <1>3, <1>5, <1>6

LEMMA TypeIs ==
    ASSUME NEW g, OfExpression(g), NEW n \in DOMAIN g
    PROVE  IRNodeType(g, n) = TypeOf(g[n], IRNodeType(g, Incoming(g[n], "FUNC")),
                                     IRNodeType(g, Incoming(g[n], "A")), IRNodeType(g, Incoming(g[n], "B")))
BY TypesSolve DEF Solves, IRNodeType, TypeFrom

(* Edges that a type does not depend on may be converted.                  *)
LEMMA BearsOthers ==
    ASSUME NEW g, OfExpression(g), NEW n \in DOMAIN g, NEW edges, NEW types,
           "FUNC" \notin edges, "A" \notin edges, "B" \notin edges
    PROVE  Bears(g, n, edges, types)
<1> SUFFICES ASSUME NEW f, NEW a, NEW b,
                    FromEdges(g[n], "FUNC") # {} => Maybe(g, n, edges, types, "FUNC", f),
                    FromEdges(g[n], "A") # {} => Maybe(g, n, edges, types, "A", a),
                    FromEdges(g[n], "B") # {} => Maybe(g, n, edges, types, "B", b)
             PROVE  TypeOf(g[n], f, a, b) = IRNodeType(g, n)
  BY DEF Bears
<1>1. PICK f2, a2, b2 : /\ f2 = IRNodeType(g, Incoming(g[n], "FUNC")) /\ a2 = IRNodeType(g, Incoming(g[n], "A"))
                        /\ b2 = IRNodeType(g, Incoming(g[n], "B"))
  OBVIOUS
<1>2. PICK node : node = g[n]
  OBVIOUS
<1>3. /\ FromEdges(node, "FUNC") # {} => f = f2
      /\ FromEdges(node, "A") # {} => a = a2
      /\ FromEdges(node, "B") # {} => b = b2
  BY <1>1, <1>2 DEF Maybe
<1>4. WellMade(node, DOMAIN g)
  BY <1>2 DEF OfExpression
<1>5. TypeOf(node, f, a, b) = TypeOf(node, f2, a2, b2)
  BY <1>3, <1>4, TypeOfSame
<1> QED BY <1>1, <1>2, <1>5, TypeIs

(* What may come from the operands of an operation                         *)
MayBe(g, n, edges, ty, c, v) == v = IRNodeType(g, Incoming(g[n], c)) \/ (c \in edges /\ v = ty)

LEMMA BearsEach ==
    ASSUME NEW g, NEW n \in DOMAIN g, NEW edges, NEW ty,
           \A f, a, b :
               /\ FromEdges(g[n], "A") # {} => MayBe(g, n, edges, ty, "A", a)
               /\ FromEdges(g[n], "B") # {} => MayBe(g, n, edges, ty, "B", b)
               => TypeOf(g[n], f, a, b) = IRNodeType(g, n)
    PROVE  Bears(g, n, edges, Each(g, n, ty))
<1>1. ASSUME NEW c \in {"A", "B"}, NEW v, Maybe(g, n, edges, Each(g, n, ty), c, v)
      PROVE  MayBe(g, n, edges, ty, c, v)
  <2>1. \A i \in DOMAIN g[n].in : g[n].in[i].c = c => Each(g, n, ty)[i] = ty
    BY EachIs
  <2> QED BY <1>1, <2>1 DEF Maybe, MayBe
<1> QED BY <1>1 DEF Bears

-----------------------------------------------------------------------------
(* A node agrees                                                           *)
LEMMA AgreesAlone ==
    ASSUME NEW g, NEW n, NEW ns, WellMade(g[n], ns), FromEdges(g[n], "B") = {},
           \/ FromEdges(g[n], "DEST") = {} \/ g[n].op = "MEMBERS"
           \/ IRNodeType(g, Incoming(g[n], "DEST")) = IRNodeType(g, n)
    PROVE  Agree(g, n)
<1>1. ~IsBinop(g[n])
  BY DEF IsBinop
<1>2. FromEdges(g[n], "DEST") \subseteq {Incoming(g[n], "DEST")}
  <2>1. PICK node : node = g[n] /\ WellMade(node, ns)
    OBVIOUS
  <2>2. CASE FromEdges(node, "DEST") = {}
    BY <2>1, <2>2
  <2>3. CASE FromEdges(node, "DEST") # {}
    <3>1. PICK i \in DOMAIN node.in : node.in[i].c = "DEST"
      BY <2>3, HasEdge
    <3>2. FromEdges(node, "DEST") = {node.in[i].n} /\ Incoming(node, "DEST") = node.in[i].n
      BY <2>1, <3>1, FromIs
    <3> QED BY <2>1, <3>2
  <2> QED BY <2>2, <2>3
<1>3. {IRNodeType(g, m) : m \in FromEdges(g[n], "DEST")} \subseteq {IRNodeType(g, n)} \/ g[n].op = "MEMBERS"
  BY <1>2
<1> QED BY <1>1, <1>3 DEF Agree

LEMMA AgreesBinop ==
    ASSUME NEW g, NEW n, NEW ns, WellMade(g[n], ns), IsBinop(g[n]), NEW a, NEW b,
           a = IRNodeType(g, Incoming(g[n], "A")), b = IRNodeType(g, Incoming(g[n], "B")),
           \/ /\ g[n].op \in {"ADD", "SUB"} /\ (IsPtrType(ObjectBaseType(a)) \/ IsPtrType(ObjectBaseType(b)))
              /\ IsPtrType(ObjectBaseType(a)) \/ a = DftValType
              /\ IsPtrType(ObjectBaseType(b)) \/ b = DftValType
           \/ /\ a = b /\ (g[n].op \in {"ADD", "SUB"} => ~IsPtrType(ObjectBaseType(a)))
              /\ g[n].op \in Logical \cup Compares \/ a = IRNodeType(g, n)
    PROVE  Agree(g, n)
<1>1. PICK node, type : node = g[n] /\ type = IRNodeType(g, n)
  OBVIOUS
<1> DEFINE Have(c) == {IRNodeType(g, m) : m \in FromEdges(node, c)}
           Pointers(tys) == {ty \in tys : IsPtrType(ObjectBaseType(ty))}
<1>2. WellMade(node, ns) /\ IsBinop(node)
  BY <1>1
<1>3. ASSUME NEW c \in {"A", "B"}
      PROVE  FromEdges(node, c) = {Incoming(node, c)}
  <2>1. FromEdges(node, c) # {}
    BY <1>2 DEF IsBinop
  <2>2. PICK i \in DOMAIN node.in : node.in[i].c = c
    BY <2>1, HasEdge
  <2> QED BY <1>2, <2>2, FromIs
<1>4. Have("A") = {a} /\ Have("B") = {b}
  BY <1>1, <1>3
<1>5. Have("DEST") = {}
  <2>1. FromEdges(node, "DEST") = {}
    BY <1>2 DEF WellMade, IsBinop, Somewhere, Untouched
  <2> QED BY <2>1
<1>6. PICK operands : operands = Have("A") \cup Have("B") /\ operands = {a, b}
  BY <1>4
<1>7. IF node.op \in {"ADD", "SUB"} /\ Pointers(operands) # {}
      THEN operands \ Pointers(operands) \subseteq {DftValType}
      ELSE (\A x, y \in operands : x = y) /\ (node.op \in Logical \cup Compares \/ operands = {type})
  <2>1. CASE /\ node.op \in {"ADD", "SUB"} /\ (IsPtrType(ObjectBaseType(a)) \/ IsPtrType(ObjectBaseType(b)))
             /\ IsPtrType(ObjectBaseType(a)) \/ a = DftValType
             /\ IsPtrType(ObjectBaseType(b)) \/ b = DftValType
    <3>1. Pointers(operands) # {} /\ operands \ Pointers(operands) \subseteq {DftValType}
      BY <1>6, <2>1
    <3> QED BY <2>1, <3>1
  <2>2. CASE /\ a = b /\ (node.op \in {"ADD", "SUB"} => ~IsPtrType(ObjectBaseType(a)))
             /\ node.op \in Logical \cup Compares \/ a = type
    <3>1. node.op \in {"ADD", "SUB"} => Pointers(operands) = {}
      BY <1>6, <2>2
    <3> QED BY <1>6, <2>2, <3>1
  <2> QED BY <1>1, <2>1, <2>2
<1> HIDE DEF Have, Pointers
<1>8. PICK dest : dest = Have("DEST") /\ dest = {}
  BY <1>5
<1> QED BY <1>1, <1>6, <1>7, <1>8 DEF Agree, Have, Pointers

LEMMA AgreesStill ==
    ASSUME NEW g, OfExpression(g), NEW h, NEW n, Keeps(g, h, n), NEW m \in DOMAIN g \ {n}, Agree(g, m)
    PROVE  Agree(h, m)
<1>1. h[m] = g[m] /\ \A x \in DOMAIN g : IRNodeType(h, x) = IRNodeType(g, x)
  BY DEF Keeps
<1>2. ASSUME NEW c
      PROVE  FromEdges(g[m], c) \subseteq DOMAIN g
  <2>1. PICK node : node = g[m] /\ WellMade(node, DOMAIN g)
    BY DEF OfExpression
  <2>2. \A i \in DOMAIN node.in : node.in[i].n \in DOMAIN g
    BY <2>1, EdgeFacts
  <2> QED BY <2>1, <2>2 DEF FromEdges
<1>3. \A c : {IRNodeType(h, x) : x \in FromEdges(h[m], c)} = {IRNodeType(g, x) : x \in FromEdges(g[m], c)}
  BY <1>1, <1>2
<1>4. IRNodeType(h, m) = IRNodeType(g, m)
  BY <1>1
<1> QED BY <1>1, <1>3, <1>4 DEF Agree

-----------------------------------------------------------------------------
(* A node is converted: it agrees from then on.                            *)
LEMMA OneOperand ==
    ASSUME NEW node, NEW ns, WellMade(node, ns), ~IsBinop(node)
    PROVE  FromEdges(node, "B") = {}
BY DEF WellMade, IsBinop, Untouched

LEMMA TwoOperands ==
    ASSUME NEW node, NEW ns, WellMade(node, ns), IsBinop(node)
    PROVE  /\ node.op \notin {"VALUE", "SIZEOF", "FUNC_CALL", "DERREF"} \cup Untouched
           /\ FromEdges(node, "A") # {} /\ FromEdges(node, "B") # {}
           /\ \A f, a, b : TypeOf(node, f, a, b) = IF node.op \in Logical \cup Compares THEN Prim("U8i")
                                                   ELSE BinaryType(node.op, a, b)
<1>1. /\ node.op \notin {"VALUE", "SIZEOF", "FUNC_CALL", "DERREF"} \cup Untouched
      /\ FromEdges(node, "A") # {} /\ FromEdges(node, "B") # {}
  BY DEF WellMade, IsBinop
<1>2. \A f, a, b : TypeOf(node, f, a, b) = IF node.op \in Logical \cup Compares THEN Prim("U8i")
                                           ELSE BinaryType(node.op, a, b)
  <2>1. CASE node.op \in Logical \cup Compares
    BY <1>1, <2>1 DEF TypeOf, Untouched, IsBinop
  <2>2. CASE node.op \notin Logical \cup Compares
    BY <1>1, <2>2 DEF TypeOf, Untouched, IsBinop
  <2> QED BY <2>1, <2>2
<1> QED BY <1>1, <1>2

LEMMA TypeAlone ==
    ASSUME NEW node, ~IsBinop(node), node.op \notin {"FUNC_CALL", "DERREF"} \cup Untouched
    PROVE  \/ \A f, a, b : TypeOf(node, f, a, b) = a
           \/ \A f, a, b, f2, a2, b2 : TypeOf(node, f, a, b) = TypeOf(node, f2, a2, b2)
<1>1. CASE node.op \in {"VALUE", "SIZEOF"} \cup Logical \cup Compares
  BY <1>1 DEF TypeOf, Logical, Compares, IsBinop
<1>2. CASE node.op \notin {"VALUE", "SIZEOF"} \cup Logical \cup Compares
  <2>1. \A a : UnaryType(node, a) = a
    BY <1>2 DEF UnaryType, Untouched
  <2>2. \A f, a, b : TypeOf(node, f, a, b) = a
    BY <1>2, <2>1 DEF TypeOf, Untouched
  <2> QED BY <2>2
<1> QED BY <1>1, <1>2

(* The conversions of one node, but for those of two operands              *)
Done(g, h, n) == Keeps(g, h, n) /\ Agree(h, n)

LEMMA ConvertedAlone ==
    ASSUME NEW g, OfExpression(g), NEW n \in DOMAIN g, NEW edges, NEW types, Bears(g, n, edges, types),
           ~IsBinop(g[n]), edges \cap {"A", "B", "DEST"} # {} => types = Each(g, n, IRNodeType(g, n)),
           FromEdges(g[n], "DEST") = {} \/ "DEST" \in edges
    PROVE  Done(g, CastEdges(g, n, edges, types), n)
<1>1. PICK h, ty : h = CastEdges(g, n, edges, types) /\ ty = IRNodeType(g, n)
  OBVIOUS
<1>2. edges \cap OneTyped # {} => types = Each(g, n, ty)
  BY <1>1 DEF OneTyped
<1>3. /\ Keeps(g, h, n) /\ SameKinds(g[n], h[n])
      /\ \A c \in OneTyped : FromEdges(g[n], c) # {} =>
            IRNodeType(h, Incoming(h[n], c)) = IF c \in edges THEN ty ELSE IRNodeType(g, Incoming(g[n], c))
  BY <1>1, <1>2, CastEachKeeps
<1>4. FromEdges(g[n], "B") = {}
  <2>1. WellMade(g[n], DOMAIN g)
    BY DEF OfExpression
  <2> QED BY <2>1, OneOperand
<1>5. FromEdges(h[n], "B") = {}
  BY <1>3, <1>4 DEF SameKinds
<1>6. IRNodeType(h, n) = ty /\ WellMade(h[n], DOMAIN h)
  BY <1>1, <1>3 DEF Keeps, OfExpression
<1>7. FromEdges(h[n], "DEST") = {} \/ IRNodeType(h, Incoming(h[n], "DEST")) = ty
  <2>1. "DEST" \in OneTyped
    BY DEF OneTyped
  <2> QED BY <1>3, <2>1 DEF SameKinds
<1>8. Agree(h, n)
  BY <1>5, <1>6, <1>7, AgreesAlone
<1> QED BY <1>1, <1>3, <1>8 DEF Done

LEMMA ConvertedOperands ==
    ASSUME NEW g, OfExpression(g), NEW n \in DOMAIN g, IsBinop(g[n])
    PROVE  Done(g, CastOperands(g, n, IRNodeType(g, Incoming(g[n], "A")), IRNodeType(g, Incoming(g[n], "B"))), n)
<1>1. PICK a, b, type : /\ a = IRNodeType(g, Incoming(g[n], "A")) /\ b = IRNodeType(g, Incoming(g[n], "B"))
                        /\ type = IRNodeType(g, n)
  OBVIOUS
<1>2. PICK node, op : node = g[n] /\ op = node.op
  OBVIOUS
<1>3. WellMade(node, DOMAIN g) /\ IsBinop(node)
  BY <1>2 DEF OfExpression
<1>4. /\ FromEdges(node, "A") # {} /\ FromEdges(node, "B") # {}
      /\ \A f, x, y : TypeOf(node, f, x, y) = IF op \in Logical \cup Compares THEN Prim("U8i")
                                              ELSE BinaryType(op, x, y)
  BY <1>2, <1>3, TwoOperands
<1>5. type = IF op \in Logical \cup Compares THEN Prim("U8i") ELSE BinaryType(op, a, b)
  BY <1>1, <1>2, <1>4, TypeIs
<1>6. PICK added, ptrA, ptrB : /\ added = (op \in {"ADD", "SUB"})
                               /\ ptrA = IsPtrType(ObjectBaseType(a)) /\ ptrB = IsPtrType(ObjectBaseType(b))
  OBVIOUS
<1>7. op \in {"ADD", "SUB"} => op \notin Logical \cup Compares
  BY DEF Logical, Compares
<1>8. PICK h : h = CastOperands(g, n, a, b)
  OBVIOUS
<1>13. added \in BOOLEAN /\ ptrA \in BOOLEAN /\ ptrB \in BOOLEAN
  BY <1>6 DEF IsPtrType
<1>9. ASSUME NEW edges, NEW ty, h = CastEdges(g, n, edges, Each(g, n, ty)),
             op \notin Logical \cup Compares =>
                 \A x, y : (x = a \/ ("A" \in edges /\ x = ty)) /\ (y = b \/ ("B" \in edges /\ y = ty))
                              => BinaryType(op, x, y) = type
      PROVE  /\ Keeps(g, h, n) /\ WellMade(h[n], DOMAIN h) /\ IsBinop(h[n]) /\ h[n].op = op
             /\ IRNodeType(h, n) = type
             /\ IRNodeType(h, Incoming(h[n], "A")) = IF "A" \in edges THEN ty ELSE a
             /\ IRNodeType(h, Incoming(h[n], "B")) = IF "B" \in edges THEN ty ELSE b
  <2>1. \A f, x, y :
            /\ FromEdges(g[n], "A") # {} => MayBe(g, n, edges, ty, "A", x)
            /\ FromEdges(g[n], "B") # {} => MayBe(g, n, edges, ty, "B", y)
            => TypeOf(g[n], f, x, y) = IRNodeType(g, n)
    <3> SUFFICES ASSUME NEW f, NEW x, NEW y, MayBe(g, n, edges, ty, "A", x), MayBe(g, n, edges, ty, "B", y)
                 PROVE  TypeOf(g[n], f, x, y) = IRNodeType(g, n)
      BY <1>2, <1>4
    <3>1. (x = a \/ ("A" \in edges /\ x = ty)) /\ (y = b \/ ("B" \in edges /\ y = ty))
      BY <1>1 DEF MayBe
    <3>2. CASE op \in Logical \cup Compares
      BY <1>1, <1>2, <1>4, <1>5, <3>2
    <3>3. CASE op \notin Logical \cup Compares
      <4>1. BinaryType(op, x, y) = type
        BY <1>9, <3>1, <3>3
      <4> QED BY <1>1, <1>2, <1>4, <3>3, <4>1
    <3> QED BY <3>2, <3>3
  <2>2. Bears(g, n, edges, Each(g, n, ty))
    BY <2>1, BearsEach
  <2>3. /\ Keeps(g, h, n) /\ SameKinds(g[n], h[n])
        /\ \A c \in OneTyped : FromEdges(g[n], c) # {} =>
              IRNodeType(h, Incoming(h[n], c)) = IF c \in edges THEN ty ELSE IRNodeType(g, Incoming(g[n], c))
    BY <1>9, <2>2, CastEachKeeps
  <2>4. WellMade(h[n], DOMAIN h) /\ h[n].op = op /\ IRNodeType(h, n) = type
    BY <1>1, <1>2, <2>3 DEF Keeps, OfExpression
  <2>5. IsBinop(h[n])
    BY <1>2, <1>4, <2>3 DEF SameKinds, IsBinop
  <2>6. "A" \in OneTyped /\ "B" \in OneTyped
    BY DEF OneTyped
  <2> QED BY <1>1, <1>2, <1>4, <2>3, <2>4, <2>5, <2>6
<1>10. CASE added /\ ptrA /\ ptrB
  <2>1. h = g
    BY <1>2, <1>6, <1>8, <1>10 DEF CastOperands
  <2>2. Agree(g, n)
    BY <1>1, <1>2, <1>3, <1>6, <1>10, AgreesBinop
  <2> QED BY <1>1, <1>8, <2>1, <2>2, KeepsItself DEF Done
<1>11. CASE added /\ ptrA # ptrB
  <2>1. PICK edges : edges = {IF ptrA THEN "B" ELSE "A"}
    OBVIOUS
  <2>2. h = CastEdges(g, n, edges, Each(g, n, DftValType))
    <3>1. CASE ptrA
      <4>1. ~ptrB /\ edges = {"B"}
        BY <1>6, <1>11, <2>1, <3>1
      <4> QED BY <1>2, <1>6, <1>8, <1>11, <3>1, <4>1 DEF CastOperands, IsPtrType
    <3>2. CASE ~ptrA
      <4>1. ptrB /\ edges = {"A"}
        BY <1>6, <1>11, <2>1, <3>2 DEF IsPtrType
      <4> QED BY <1>2, <1>6, <1>8, <1>11, <3>2, <4>1 DEF CastOperands, IsPtrType
    <3> QED BY <3>1, <3>2
  <2>3. ~IsPtrType(ObjectBaseType(DftValType))
    BY CountedStands
  <2>4. type = BinaryType(op, a, b)
    BY <1>5, <1>6, <1>7, <1>11
  <2>5. CASE ptrA /\ ~ptrB
    <3>1. edges = {"B"} /\ "A" \notin edges
      BY <2>1, <2>5
    <3>2. BinaryType(op, a, DftValType) = type
      BY <1>6, <2>4, <2>5, CountedStands
    <3>3. /\ Keeps(g, h, n) /\ WellMade(h[n], DOMAIN h) /\ IsBinop(h[n]) /\ h[n].op = op
          /\ IRNodeType(h, Incoming(h[n], "A")) = a /\ IRNodeType(h, Incoming(h[n], "B")) = DftValType
      BY <1>9, <2>2, <2>4, <3>1, <3>2
    <3>4. Agree(h, n)
      BY <1>6, <1>11, <2>5, <3>3, AgreesBinop
    <3> QED BY <1>1, <1>8, <3>3, <3>4 DEF Done
  <2>6. CASE ~ptrA /\ ptrB
    <3>1. edges = {"A"} /\ "B" \notin edges
      BY <2>1, <2>6
    <3>2. BinaryType(op, DftValType, b) = type
      BY <1>6, <2>4, <2>6, CountedStands
    <3>3. /\ Keeps(g, h, n) /\ WellMade(h[n], DOMAIN h) /\ IsBinop(h[n]) /\ h[n].op = op
          /\ IRNodeType(h, Incoming(h[n], "A")) = DftValType /\ IRNodeType(h, Incoming(h[n], "B")) = b
      BY <1>9, <2>2, <2>4, <3>1, <3>2
    <3>4. Agree(h, n)
      BY <1>6, <1>11, <2>6, <3>3, AgreesBinop
    <3> QED BY <1>1, <1>8, <3>3, <3>4 DEF Done
  <2> QED BY <1>11, <1>13, <2>5, <2>6
<1>12. CASE ~added \/ (~ptrA /\ ~ptrB)
  <2>1. PICK ty : ty = IF op \in Logical \cup Compares THEN GetHigherType(a, b) ELSE type
    OBVIOUS
  <2>2. h = CastEdges(g, n, AllEdges, Each(g, n, ty))
    <3>1. ~ (added /\ ptrA /\ ptrB) /\ ~ (added /\ ptrA # ptrB)
      BY <1>12, <1>13
    <3>2. PICK type2 : type2 = IF node.op \in Logical \cup Compares THEN GetHigherType(a, b) ELSE IRNodeType(g, n)
      OBVIOUS
    <3>3. h = CastEdges(g, n, AllEdges, Each(g, n, type2))
      BY <1>2, <1>6, <1>8, <3>1, <3>2 DEF CastOperands
    <3> QED BY <1>1, <1>2, <2>1, <3>2, <3>3
  <2>3. "A" \in AllEdges /\ "B" \in AllEdges
    BY DEF AllEdges
  <2>4. ASSUME op \notin Logical \cup Compares
        PROVE  /\ ty = type /\ BinaryType(op, type, b) = type /\ BinaryType(op, a, type) = type
               /\ BinaryType(op, type, type) = type /\ BinaryType(op, a, b) = type
               /\ op \in {"ADD", "SUB"} => ~IsPtrType(ObjectBaseType(type))
    <3>1. ty = type /\ type = BinaryType(op, a, b)
      BY <1>5, <2>1, <2>4
    <3>2. op \in {"ADD", "SUB"} => ~IsPtrType(ObjectBaseType(a)) /\ ~IsPtrType(ObjectBaseType(b))
      BY <1>6, <1>12
    <3> QED BY <3>1, <3>2, BinaryStands
  <2>5. /\ Keeps(g, h, n) /\ WellMade(h[n], DOMAIN h) /\ IsBinop(h[n]) /\ h[n].op = op
        /\ IRNodeType(h, n) = type
        /\ IRNodeType(h, Incoming(h[n], "A")) = ty /\ IRNodeType(h, Incoming(h[n], "B")) = ty
    <3>1. op \notin Logical \cup Compares =>
              \A x, y : (x = a \/ ("A" \in AllEdges /\ x = ty)) /\ (y = b \/ ("B" \in AllEdges /\ y = ty))
                           => BinaryType(op, x, y) = type
      BY <2>4
    <3> QED BY <1>9, <2>2, <2>3, <3>1
  <2>6. /\ op \in {"ADD", "SUB"} => ~IsPtrType(ObjectBaseType(ty))
        /\ op \in Logical \cup Compares \/ ty = type
    BY <1>7, <2>4
  <2>7. Agree(h, n)
    BY <2>5, <2>6, AgreesBinop
  <2> QED BY <1>1, <1>8, <2>5, <2>7 DEF Done
<1> QED BY <1>6, <1>10, <1>11, <1>12 DEF IsPtrType

LEMMA ConvertedNode ==
    ASSUME NEW g, OfExpression(g), NEW n \in DOMAIN g
    PROVE  Done(g, InsertImplicitTypecasts(g, n), n)
<1>1. PICK h, types : h = InsertImplicitTypecasts(g, n) /\ types = Each(g, n, IRNodeType(g, n))
  OBVIOUS
<1>2. WellMade(g[n], DOMAIN g)
  BY DEF OfExpression
<1>3. IsBinop(g[n]) => g[n].op \notin {"VALUE", "SIZEOF", "FUNC_CALL", "DERREF"} \cup Untouched
  BY <1>2, TwoOperands
<1>4. CASE g[n].op = "FUNC_CALL"
  <2>1. PICK params : h = CastEdges(g, n, {"ARG"}, params)
    BY <1>1, <1>4 DEF InsertImplicitTypecasts, CastArgs, Untouched
  <2>2. Bears(g, n, {"ARG"}, params)
    BY BearsOthers
  <2>3. FromEdges(g[n], "DEST") = {}
    BY <1>2, <1>4 DEF WellMade, Somewhere
  <2>4. Done(g, CastEdges(g, n, {"ARG"}, params), n)
    BY <1>3, <1>4, <2>2, <2>3, ConvertedAlone
  <2> QED BY <1>1, <2>1, <2>4
<1>5. CASE g[n].op = "DERREF"
  <2>1. h = CastEdges(g, n, {"DEST"}, types)
    BY <1>1, <1>5 DEF InsertImplicitTypecasts, Untouched
  <2>2. Bears(g, n, {"DEST"}, types)
    BY BearsOthers
  <2>3. Done(g, CastEdges(g, n, {"DEST"}, types), n)
    BY <1>1, <1>3, <1>5, <2>2, ConvertedAlone
  <2> QED BY <1>1, <2>1, <2>3
<1>6. CASE g[n].op \in Untouched
  <2>1. h = g
    BY <1>1, <1>6 DEF InsertImplicitTypecasts, Untouched
  <2>2. FromEdges(g[n], "B") = {}
    BY <1>2, <1>3, <1>6, OneOperand
  <2>3. FromEdges(g[n], "DEST") = {} \/ g[n].op = "MEMBERS"
    BY <1>2, <1>6 DEF WellMade, Somewhere, Untouched
  <2>4. Agree(g, n)
    BY <1>2, <2>2, <2>3, AgreesAlone
  <2> QED BY <1>1, <2>1, <2>4, KeepsItself DEF Done
<1>7. CASE g[n].op \notin {"FUNC_CALL", "DERREF"} \cup Untouched /\ IsBinop(g[n])
  <2>1. h = CastOperands(g, n, IRNodeType(g, Incoming(g[n], "A")), IRNodeType(g, Incoming(g[n], "B")))
    BY <1>1, <1>7 DEF InsertImplicitTypecasts
  <2> QED BY <1>1, <1>7, <2>1, ConvertedOperands
<1>8. CASE g[n].op \notin {"FUNC_CALL", "DERREF"} \cup Untouched /\ ~IsBinop(g[n])
  <2>1. h = CastEdges(g, n, AllEdges, types)
    BY <1>1, <1>8 DEF InsertImplicitTypecasts
  <2>2. PICK a : a = IRNodeType(g, Incoming(g[n], "A"))
    OBVIOUS
  <2>3. \/ (\A f, x, b : TypeOf(g[n], f, x, b) = x) /\ IRNodeType(g, n) = a
        \/ \A f, x, b : TypeOf(g[n], f, x, b) = IRNodeType(g, n)
    BY <1>8, <2>2, TypeAlone, TypeIs
  <2>4. ASSUME NEW f, NEW x, NEW b, FromEdges(g[n], "A") # {} => MayBe(g, n, AllEdges, IRNodeType(g, n), "A", x)
        PROVE  TypeOf(g[n], f, x, b) = IRNodeType(g, n)
    <3>1. CASE \A f2, x2, b2 : TypeOf(g[n], f2, x2, b2) = IRNodeType(g, n)
      BY <3>1
    <3>2. CASE FromEdges(g[n], "A") # {}
      BY <2>2, <2>3, <2>4, <3>2 DEF MayBe
    <3>3. CASE FromEdges(g[n], "A") = {}
      <4>1. g[n].op \in {"VALUE", "SIZEOF"}
        BY <1>2, <1>8, <3>3 DEF WellMade
      <4>2. \A f2, x2, b2 : TypeOf(g[n], f2, x2, b2) = TypeOf(g[n], f, x, b)
        BY <4>1 DEF TypeOf, Logical, Compares
      <4> QED BY <4>2, TypeIs
    <3> QED BY <3>1, <3>2, <3>3
  <2>5. Bears(g, n, AllEdges, types)
    BY <1>1, <2>4, BearsEach
  <2>6. "DEST" \in AllEdges
    BY DEF AllEdges
  <2>7. Done(g, CastEdges(g, n, AllEdges, types), n)
    BY <1>1, <1>8, <2>5, <2>6, ConvertedAlone
  <2> QED BY <1>1, <2>1, <2>7
<1> QED BY <1>4, <1>5, <1>6, <1>7, <1>8

-----------------------------------------------------------------------------
(* What has been taken agrees, and what was never to be taken.             *)
ConvertInv ==
    /\ converting = [e |-> converting.e, g |-> converting.g, root |-> converting.root,
                     left |-> converting.left]
    /\ OfExpression(converting.g) /\ converting.left \subseteq DOMAIN converting.g
    /\ \A n \in DOMAIN converting.g \ converting.left : Agree(converting.g, n)

LEMMA NothingToConvert ==
    ASSUME NEW g, NEW n, NEW ns, WellMade(g[n], ns), g[n].in = <<>>
    PROVE  Agree(g, n)
<1>1. \A c : FromEdges(g[n], c) = {}
  BY DEF FromEdges
<1> QED BY <1>1, AgreesAlone

LEMMA ConvertInit == Begins => ConvertInv
<1> SUFFICES ASSUME Begins
             PROVE  ConvertInv
  OBVIOUS
<1>1. PICK e, root, g :
          /\ OfExpression(g)
          /\ converting = [e |-> e, g |-> g, root |-> root, left |-> {n \in DOMAIN g : g[n].in # <<>>}]
  BY DEF Begins
<1>2. \A n \in DOMAIN g : WellMade(g[n], DOMAIN g)
  BY <1>1 DEF OfExpression
<1>3. /\ converting = [e |-> converting.e, g |-> converting.g, root |-> converting.root,
                       left |-> converting.left]
      /\ converting.g = g /\ converting.left \subseteq DOMAIN g
      /\ \A n \in DOMAIN g \ converting.left : g[n].in = <<>>
  BY <1>1
<1> QED BY <1>1, <1>2, <1>3, NothingToConvert DEF ConvertInv

LEMMA ConvertStep ==
    ASSUME ConvertInv, NEW n, Convert(n)
    PROVE  /\ ConvertInv' /\ Keeps(converting.g, converting.g', n)
           /\ converting.left' = converting.left \ {n}
<1>1. PICK q, g, h : q = converting /\ g = q.g /\ h = InsertImplicitTypecasts(g, n)
  OBVIOUS
<1>2. /\ q = [e |-> q.e, g |-> g, root |-> q.root, left |-> q.left]
      /\ OfExpression(g) /\ q.left \subseteq DOMAIN g /\ n \in q.left
      /\ \A m \in DOMAIN g \ q.left : Agree(g, m)
  BY <1>1 DEF ConvertInv, Convert
<1>3. converting' = [e |-> q.e, g |-> h, root |-> q.root, left |-> q.left \ {n}]
  BY <1>1, <1>2 DEF Convert
<1>4. Keeps(g, h, n) /\ Agree(h, n)
  BY <1>1, <1>2, ConvertedNode DEF Done
<1>5. OfExpression(h) /\ DOMAIN g \subseteq DOMAIN h
  BY <1>4 DEF Keeps
<1>6. ASSUME NEW m \in DOMAIN h \ (q.left \ {n})
      PROVE  Agree(h, m)
  <2>1. CASE m = n
    BY <1>4, <2>1
  <2>2. CASE m \in DOMAIN g \ {n}
    <3>1. Agree(g, m)
      BY <1>2, <1>6, <2>2
    <3> QED BY <1>2, <1>4, <2>2, <3>1, AgreesStill
  <2>3. CASE m \notin DOMAIN g
    <3>1. h[m].op = "TYPECAST" /\ WellMade(h[m], DOMAIN h)
      BY <1>4, <1>5, <1>6, <2>3 DEF Keeps, OfExpression
    <3>2. FromEdges(h[m], "B") = {} /\ FromEdges(h[m], "DEST") = {}
      BY <3>1 DEF WellMade, Untouched, Somewhere
    <3> QED BY <3>1, <3>2, AgreesAlone
  <2> QED BY <1>2, <1>6, <2>1, <2>2, <2>3
<1>7. converting.g' = h /\ converting.left' = q.left \ {n}
  BY <1>3
<1>8. ConvertInv'
  BY <1>2, <1>3, <1>5, <1>6, <1>7 DEF ConvertInv
<1> QED BY <1>1, <1>4, <1>7, <1>8

(* IRTypeInference.c, IRInsertImplicitTypecasts: for the graph of every    *)
(* expression, in whatever order its nodes are taken, once all have been,  *)
(* an operation has its operands in one type, what is added to a pointer   *)
(* is an I32i, and what is assigned, unless to a member, is of the type of *)
(* what it is assigned to.                                                 *)
THEOREM ConvertedAgree == Conversions => []OperandsAgree
<1>1. Begins => ConvertInv
  BY ConvertInit
<1>2. ASSUME ConvertInv, [\E n \in converting.left : Convert(n)]_converting
      PROVE  ConvertInv'
  <2>1. CASE \E n \in converting.left : Convert(n)
    BY <1>2, <2>1, ConvertStep
  <2>2. CASE UNCHANGED converting
    BY <1>2, <2>2 DEF ConvertInv
  <2> QED BY <1>2, <2>1, <2>2
<1>3. ConvertInv => OperandsAgree
  BY DEF ConvertInv, OperandsAgree
<1> QED BY <1>1, <1>2, <1>3, PTL DEF Conversions

(* The same: no conversion changes the type that any node has, on which    *)
(* those that were made and those that will be depend.                     *)
THEOREM TypesStand ==
    Conversions =>
        [][\A n \in DOMAIN converting.g :
              /\ n \in DOMAIN converting.g'
              /\ IRNodeType(converting.g', n) = IRNodeType(converting.g, n)]_converting
<1>1. Begins => ConvertInv
  BY ConvertInit
<1>2. ASSUME ConvertInv, [\E n \in converting.left : Convert(n)]_converting
      PROVE  /\ ConvertInv'
             /\ [\A n \in DOMAIN converting.g :
                    /\ n \in DOMAIN converting.g'
                    /\ IRNodeType(converting.g', n) = IRNodeType(converting.g, n)]_converting
  <2>1. CASE \E n \in converting.left : Convert(n)
    <3>1. PICK n : Convert(n)
      BY <2>1
    <3>2. ConvertInv' /\ Keeps(converting.g, converting.g', n)
      BY <1>2, <3>1, ConvertStep
    <3> QED BY <3>2 DEF Keeps
  <2>2. CASE UNCHANGED converting
    BY <1>2, <2>2 DEF ConvertInv
  <2> QED BY <1>2, <2>1, <2>2
<1> QED BY <1>1, <1>2, PTL DEF Conversions
=============================================================================
