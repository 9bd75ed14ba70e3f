---------------------------- MODULE Preprocessor ----------------------------
(***************************************************************************)
(* preprocessor.c expands macros and includes files, and notes every edit  *)
(* of the text; textMapper.c and diagMsg.c go back from a position of the  *)
(* result to a line of a file.                                             *)
(*                                                                         *)
(* A text is a sequence of atoms: a word, a string, a newline, a mark of a *)
(* comment, a whole #define (the last of its line) or #include with its    *)
(* file, or anything else; words are never side by side.  Positions count  *)
(* atoms from 0, as the code counts bytes; Len(t) is where the zero byte   *)
(* is, and stands for a search that found nothing.  Left out: a second     *)
(* directive on one line, directives in the texts of macros, #link, files  *)
(* that include themselves, and what follows an #include where the code    *)
(* puts it behind the zero byte of the file's last line, too.              *)
(***************************************************************************)
EXTENDS TextEdits, FiniteSets

Word(n) == <<"word", n>>
Define(n, t) == <<"define", n, t>>
Include(f) == <<"include", f>>
Other == <<"other">>
Quoted == <<"string">>
NewLine == <<"newline">>
Open == <<"/*">>
Shut == <<"*/">>
Slashes == <<"//">>

Directives == {"define", "include"}
Deepest == 6     \* expansions within each other after which one never ends

At(t, p) == t[p + 1]
IsA(kind, t, p) == p < Len(t) /\ At(t, p)[1] = kind
Least(S) == CHOOSE p \in S : \A q \in S : p <= q
First(t, p, kinds) == Least({q \in p .. Len(t) - 1 : At(t, q)[1] \in kinds} \cup {Len(t)})

(* The search that leaves out comments and strings: it comes out behind a  *)
(* comment without having found anything, and takes the end of the first   *)
(* comment of the text for that of any                                     *)
RECURSIVE FindSkipStringAndComments(_, _, _), Found(_, _, _, _, _)
FindSkipStringAndComments(t, p, kinds) ==
    Found(t, kinds, First(t, p, kinds), First(t, p, {"//", "/*"}), First(t, p, {"string"}))

Found(t, kinds, find, comment, str) ==
    CASE find = Len(t) \/ (find < comment /\ find < str) -> find
      [] find # Len(t) /\ str <= find /\ str < comment -> FindSkipStringAndComments(t, str + 1, kinds)
      [] OTHER -> IF IsA("//", t, comment) THEN Len(t) ELSE Least({First(t, 0, {"*/"}) + 1, Len(t)})

BugFindNextWord(t, p) == First(t, p, {"word"} \cup Directives)

SkipNonMacro(t, p) == FindSkipStringAndComments(t, p, Directives)
FindNextWord(t, p) == FindSkipStringAndComments(t, p, {"word", "string"} \cup Directives)

-----------------------------------------------------------------------------
(* Macros.  e is the text t of a line that starts at position at, the      *)
(* edits so far, the macros used in the expansion, whether any was, and    *)
(* its fate: "stopped" with a message, or "lost" in a loop.                *)
RECURSIVE ExpandRecur(_, _, _, _, _), ExpandAt(_, _, _, _, _, _), Replaced(_, _, _, _, _, _),
          Repeat(_, _, _, _, _, _), Repeated(_, _, _, _, _, _)

ExpandRecur(defines, e, where, end, depth) ==
    ExpandAt(defines, e, where, Least({end, First(e.t, where, Directives)}), FindNextWord(e.t, where), depth)

ExpandAt(defines, e, where, stop, find, depth) ==
    LET isMacro == IsA("word", e.t, find) /\ At(e.t, find)[2] \in DOMAIN defines
        next == IF IsA("word", e.t, find) THEN find + 1 ELSE find
    IN CASE e.fate # "" \/ (depth > 0 /\ find >= stop) -> e
         [] e.fate = "" /\ depth = 0 -> [e EXCEPT !.fate = "lost"]
         [] OTHER -> IF isMacro THEN Replaced(defines, e, At(e.t, find)[2], stop, find, depth)
                     ELSE ExpandRecur(defines, e, next, stop, IF next <= where THEN depth - 1 ELSE depth)

Replaced(defines, e, name, stop, find, depth) ==
    LET body == defines[name]
        inserted == InsertMacroText([e EXCEPT !.used = @ \cup {name}], body, find, 1)
        inner == Repeat(defines, inserted, find, find + Len(body) + 1, FALSE, depth - 1)
        rest(out) == IF First(out.t, find, Directives) = Len(out.t) THEN out
                     ELSE ExpandRecur(defines, out, find + Len(body), stop, depth)
    IN  IF name \in e.used THEN [e EXCEPT !.fate = "stopped"]
        ELSE rest([inner EXCEPT !.used = {}, !.expanded = TRUE])

(* The loop around the text of a macro goes on once a macro in it was      *)
(* expanded: expanded2 is never cleared                                    *)
Repeat(defines, e, where, end, expanded2, depth) ==
    Repeated(defines, ExpandRecur(defines, [e EXCEPT !.expanded = FALSE], where, end, depth),
             where, end, expanded2, depth)

Repeated(defines, r, where, end, expanded2, depth) ==
    CASE r.fate # "" \/ (~r.expanded /\ ~expanded2) -> r
      [] r.fate = "" /\ (depth = 0 \/ (~r.expanded /\ expanded2)) -> [r EXCEPT !.fate = "lost"]
      [] OTHER -> Repeat(defines, r, where, end, TRUE, depth - 1)

Unexpanded(s, t) == [t |-> t, at |-> s.lineStart, edits |-> s.edits, used |-> {}, expanded |-> FALSE, fate |-> s.fate]
ExpandDefinesInRange(s, t, where, end) == ExpandRecur(s.defines, Unexpanded(s, t), where, end, Deepest)

(* What reading an #include does to the rest of its line                   *)
ExpandNextWord(s, t, where) ==
    LET expanded(find) ==
            IF find = Len(t) THEN Unexpanded(s, t)
            ELSE ExpandDefinesInRange(s, t, where, IF IsA("word", t, find) THEN find + 1 ELSE find)
    IN  expanded(FindNextWord(t, where))

With(s, e) == [s EXCEPT !.edits = e.edits, !.fate = e.fate]

-----------------------------------------------------------------------------
(* Lines and files.  out is all that was written, lineStart where the code *)
(* believes the line to start in it.                                       *)
Write(s, t) == [s EXCEPT !.out = @ \o t]
Advance(s, n) == [s EXCEPT !.lineStart = @ + n]

Defined(defines, a) == [x \in DOMAIN defines \cup {a[2]} |-> IF x = a[2] THEN a[3] ELSE defines[x]]

RECURSIVE IncludeFile(_, _), CreatePreprocessedFileLine(_, _, _), Directive(_, _, _, _, _),
          IncludeAt(_, _, _), Lines(_, _, _), EndLine(_, _, _, _)

CreatePreprocessedFileLine(s, t, where) ==
    LET expanded(nextMacro) ==
            Directive(s, t, where, nextMacro, ExpandDefinesInRange(s, t, where, nextMacro))
    IN  expanded(SkipNonMacro(t, where))

(* A line that was expanded is looked at again from the same place         *)
Directive(s, t, where, nextMacro, e) ==
    LET without == InsertMacroText(e, <<>>, nextMacro, 1)
    IN CASE e.fate # "" -> With(s, e)
         [] e.fate = "" /\ e.expanded -> CreatePreprocessedFileLine(With(s, e), e.t, where)
         [] OTHER ->
              CASE nextMacro = Len(t) -> Advance(Write(s, t), Len(t))
                [] IsA("define", t, nextMacro) ->
                     CreatePreprocessedFileLine(
                         [With(s, without) EXCEPT !.defines = Defined(@, At(t, nextMacro))], without.t, nextMacro)
                [] IsA("include", t, nextMacro) -> IncludeAt(s, t, nextMacro)
                [] OTHER -> IF nextMacro <= where THEN [s EXCEPT !.fate = "lost"]
                            ELSE CreatePreprocessedFileLine(s, t, nextMacro)

IncludeAt(s, t, p) ==
    LET name == At(t, p)[2]
        before(rest) == With(s, InsertMacroText(rest, <<>>, p, 1))
        behind(r, rest) == IF r.fate # "" THEN r ELSE Write(r, SubSeq(rest.t, p + 2, Len(rest.t)))
        read(rest) == behind(IncludeFile(Advance(Write(before(rest), SubSeq(t, 1, p)), p), name), rest)
    IN  read(ExpandNextWord(s, t, p + 1))

(* A line, and as one all newlines that follow it                          *)
SeekEndOfLine(text, p) == First(text, p, {"newline"})
SeekPastEndOfLine(text, p) ==
    Least({q \in SeekEndOfLine(text, p) .. Len(text) - 1 : ~IsA("newline", text, q)} \cup {Len(text)})

Lines(s, text, p) ==
    EndLine(CreatePreprocessedFileLine(s, SubSeq(text, p + 1, SeekEndOfLine(text, p)), 0),
            text, SeekEndOfLine(text, p), SeekPastEndOfLine(text, p))

EndLine(s, text, end, next) ==
    LET done == Advance(Write(s, SubSeq(text, end + 1, next)), next - end)
    IN  IF s.fate # "" THEN s ELSE IF next = end THEN done ELSE Lines(done, text, next)

IncludeFile(s, name) ==
    LET i == Len(s.files) + 1
        opened(text) == [s EXCEPT
            !.edits = Append(@, Edit("insert", s.lineStart, Len(text))),
            !.files = Append(@, [name |-> name, offset |-> s.lineStart, end |-> s.lineStart, from |-> Len(s.edits) + 1])]
        closed(read) == [read EXCEPT !.files[i].end = Len(read.out) - Len(s.out) + s.lineStart]
    IN CASE s.fate # "" -> s
         [] s.fate = "" /\ name \notin DOMAIN s.source -> [s EXCEPT !.fate = "stopped"]
         [] OTHER -> closed(Lines(opened(s.source[name]), s.source[name], 0))

CreatePreprocessedFile(source, name) ==
    IncludeFile([source |-> source, out |-> <<>>, lineStart |-> 0, edits |-> <<>>, files |-> <<>>,
                 defines |-> [x \in {} |-> <<>>], fate |-> ""], name)

-----------------------------------------------------------------------------
(* Positions: from the result back to a line of a file                     *)
(* Of the files that may hold the position, the one that starts the        *)
(* closest before it, and of these the one that ends the closest behind    *)
RECURSIVE InnerMost(_, _, _, _, _)
InnerMost(files, i, upper, pos, best) ==
    LET start == pos - files[i].offset
        end == files[i].end - pos
        closer == start >= 0 /\ (start <= best.start \/ best.start = -1)
        within == closer /\ end >= 0 /\ (end <= best.end \/ best.end = -1)
    IN  IF i > upper THEN best.file
        ELSE InnerMost(files, i + 1, upper, pos,
                 [start |-> IF closer THEN start ELSE best.start, end |-> IF within THEN end ELSE best.end,
                  file |-> IF within \/ best.file = "" THEN files[i].name ELSE best.file])

FileNameFromPos(files, pos) ==
    LET Before == {i \in DOMAIN files : files[i].offset <= pos}
        Behind == {i \in DOMAIN files : files[i].end > pos}
    IN  InnerMost(files, Least(Before), CHOOSE i \in Behind : \A j \in Behind : j <= i, pos,
                  [start |-> -1, end |-> -1, file |-> ""])

(* Instances are kept by name: that of a file included again is the first  *)
InstOf(s, name) == s.files[Least({i \in DOMAIN s.files : s.files[i].name = name})]
DiagInputSize(s) == s.files[Len(s.files)].end

DiagInstByPos(s, where) ==
    InstOf(s, FileNameFromPos(s.files, IF where = DiagInputSize(s) /\ where > 0 THEN where - 1 ELSE where))

GetLine(text, where) == Cardinality({q \in 0 .. where - 1 : IsA("newline", text, q) /\ q + 1 < Len(text)})

DiagLineCol(s, where) ==
    LET inst == DiagInstByPos(s, where)
        pos == MapToSource(where, s.edits, inst.from) - inst.offset
    IN  <<inst.name, GetLine(s.source[inst.name], pos)>>

-----------------------------------------------------------------------------
(* What is promised: in a text, outside of comments and strings, a macro   *)
(* stands for its latest text, macros in it included, and an #include for  *)
(* the file.  Every atom comes with its file and line.                     *)
Circular == <<"circular">>

RECURSIVE Standing(_, _, _)
Standing(defines, t, used) ==
    IF t = <<>> THEN <<>>
    ELSE LET name == Head(t)[2]
         IN  (IF Head(t)[1] # "word" THEN <<Head(t)>>
              ELSE IF name \notin DOMAIN defines THEN <<Head(t)>>
              ELSE IF name \in used THEN <<Circular>>
              ELSE Standing(defines, defines[name], used \cup {name}))
             \o Standing(defines, Tail(t), used)

RECURSIVE Meant(_, _, _, _)
Meant(source, r, f, p) ==
    LET t == source[f]
        a == At(t, p)
        put(body, comment) == [r EXCEPT !.comment = comment,
            !.out = @ \o [i \in DOMAIN body |-> <<body[i], f, GetLine(t, p)>>]]
        skip == [r EXCEPT !.comment = CASE a[1] = "newline" /\ @ = "//" -> ""
                                        [] a[1] = "*/" /\ @ = "/*" -> ""
                                        [] OTHER -> @,
                          !.out = Append(@, <<a, f, GetLine(t, p)>>)]
    IN  IF p = Len(t) THEN [r EXCEPT !.comment = ""]
        ELSE Meant(source,
                CASE r.comment # "" -> skip
                  [] r.comment = "" /\ a[1] \in {"//", "/*"} -> put(<<a>>, a[1])
                  [] r.comment = "" /\ a[1] = "define" ->
                         [r EXCEPT !.defines = Defined(@, a)]
                  [] r.comment = "" /\ a[1] = "include" -> Meant(source, r, a[2], 0)
                  [] OTHER -> put(Standing(r.defines, <<a>>, {}), ""),
                f, p + 1)

Meaning(source, name) == Meant(source, [out |-> <<>>, defines |-> [x \in {} |-> <<>>], comment |-> ""], name, 0).out
=============================================================================
