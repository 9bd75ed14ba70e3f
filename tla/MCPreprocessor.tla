--------------------------- MODULE MCPreprocessor ---------------------------
(* Texts of three lines that may include a file, which may include another *)
EXTENDS Preprocessor

A == Word("a")
X == Word("x")
Y == Word("y")

Plain == {<<>>, <<X>>, <<A, Other, X, Other, Y, Other>>, <<Quoted, X>>}
Defines == {<<Define("x", t)>> : t \in {<<>>, <<A, Other, A>>, <<Y>>, <<X>>}}
           \cup {<<Define("y", t)>> : t \in {<<A>>, <<A, Other, X>>}} \cup {<<X, Other, Define("x", <<Other>>)>>}
Comments == {<<Slashes, X>>, <<Open, X, Shut, X>>, <<Open, A, Shut, Open, X, Shut>>, <<Open, A>>, <<Shut, Y>>}
Includes == {<<Include("i")>>, <<A, Include("i")>>, <<Include("i"), Other, A>>, <<Include("i"), X, Other, X>>}
AnyLine == Plain \cup Defines \cup Comments \cup Includes

Included == {<<>>, <<X>>, <<Define("x", <<A>>), NewLine, Y, NewLine>>,
             <<A, NewLine, Include("j"), NewLine, X>>, <<X, Other, Include("j")>>}
Last == <<Y, NewLine, Define("y", <<A, Other, A>>)>>

Source(l1, l2, l3, i) == [base |-> l1 \o <<NewLine>> \o l2 \o <<NewLine>> \o l3, i |-> i, j |-> Last]

-----------------------------------------------------------------------------
(* Where the code is known to leave the promise                            *)
Somewhere(source, P(_, _)) == \E f \in DOMAIN source : \E p \in DOMAIN source[f] : P(source[f], p)
SameLine(t, p, q) == \A k \in p .. q : t[k] # NewLine

(* The search resumes behind the first comment of the line each time       *)
SecondComment(t, p) == t[p] = Shut /\ \E q \in p .. Len(t) : t[q] = Open /\ SameLine(t, p, q)

(* Each line is searched as if no comment was open at its start            *)
OpenComment(t, p) ==
    t[p] = Open /\ \E q \in p .. Len(t) : t[q] = NewLine /\ \A k \in p .. q : t[k] # Shut

Words(t) == {t[p][2] : p \in {p \in DOMAIN t : t[p][1] = "word"}}
Macros(source) ==
    UNION {{source[f][p][2] : p \in {p \in DOMAIN source[f] : source[f][p][1] = "define"}} : f \in DOMAIN source}

(* The loop around the text of a macro never ends once one in it was found *)
MacroInMacro(source) ==
    Somewhere(source, LAMBDA t, p : t[p][1] = "define" /\ Words(t[p][3]) \cap (Macros(source) \ {t[p][2]}) # {})

(* Only the first word behind an #include is looked at                     *)
SecondWord(t, p) ==
    t[p][1] = "include" /\ \E q, r \in p .. Len(t) : q < r /\ t[q][1] = "word" /\ t[r][1] = "word" /\ SameLine(t, p, r)

(* What is written from there is not counted in the start of what follows  *)
BehindInclude(t, p) == t[p][1] = "include" /\ p < Len(t) /\ t[p + 1] # NewLine
Unmapped(source) == Somewhere(source, BehindInclude)

(* Positions in a file included again are counted from its first inclusion *)
IncludedAgain(files) == \E i, j \in DOMAIN files : i # j /\ files[i].name = files[j].name

Deviates(source) ==
    Somewhere(source, SecondComment) \/ Somewhere(source, OpenComment) \/ Somewhere(source, SecondWord)
    \/ MacroInMacro(source)

(* The result is the text that is meant, or a macro within itself stops it *)
PreprocessesAsWritten(source) ==
    LET s == CreatePreprocessedFile(source, "base")
        meaning == Meaning(source, "base")
        text == [p \in DOMAIN meaning |-> meaning[p][1]]
    IN  IF \E p \in DOMAIN text : text[p] = Circular THEN s.fate = "stopped" ELSE s.fate = "" /\ s.out = text

LinesMapBack(source) ==
    LET s == CreatePreprocessedFile(source, "base")
        meaning == Meaning(source, "base")
    IN  s.fate = "" /\ ~IncludedAgain(s.files) =>
            \A p \in DOMAIN meaning :
                meaning[p][1] # NewLine => DiagLineCol(s, p - 1) = <<meaning[p][2], meaning[p][3]>>

Sources == {Source(l1, l2, l3, i) : l1 \in AnyLine, l2 \in AnyLine, l3 \in Plain \cup Includes, i \in Included}
=============================================================================
