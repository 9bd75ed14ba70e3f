----------------------------- MODULE TextEdits ------------------------------
(* The edits of a text that preprocessor.c makes and notes, and the way    *)
(* back through them in textMapper.c.  Positions count atoms from 0.       *)
EXTENDS Integers, Sequences

Spliced(t, p, body, n) == SubSeq(t, 1, p) \o body \o SubSeq(t, p + n + 1, Len(t))

(* The notes.  e.t is the text of a line that starts at position e.at of   *)
(* the whole.                                                              *)
Edit(type, where, len) == [type |-> type, where |-> where, len |-> len]
EditOf(type, where, len) == IF len = 0 THEN <<>> ELSE <<Edit(type, where, len)>>

BugInsertMacroText(e, body, p, n) ==
    [e EXCEPT !.t = Spliced(@, p, body, n),
              !.edits = @ \o EditOf("remove", p, n) \o EditOf("insert", p, Len(body))]

InsertMacroText(e, body, p, n) ==
    [e EXCEPT !.t = Spliced(@, p, body, n),
              !.edits = @ \o EditOf("remove", p + e.at, n) \o EditOf("insert", p + e.at, Len(body))]

-----------------------------------------------------------------------------
(* Where a position was before an edit: an inserted text was nowhere, and  *)
(* is taken for the place it was put in                                    *)
Undone(pos, edit) ==
    CASE pos < edit.where \/ (edit.type = "remove" /\ pos = edit.where) -> pos
      [] edit.type = "remove" /\ pos > edit.where -> pos + edit.len
      [] OTHER -> IF edit.where + edit.len >= pos THEN edit.where ELSE pos - edit.len

(* back[i] is where pos was before the last i edits; the first startEdit   *)
(* ones are those from before the text was there.                          *)
MapToSource(pos, edits, startEdit) ==
    LET back[i \in 0 .. (Len(edits) - startEdit)] ==
            IF i = 0 THEN pos ELSE Undone(back[i - 1], edits[Len(edits) + 1 - i])
    IN  back[Len(edits) - startEdit]
=============================================================================
