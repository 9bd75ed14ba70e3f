--------------------------- MODULE MCSymbolTable ---------------------------
(* Two names and two types, enough for a name to be everything in turn.    *)
EXTENDS SymbolTable, TLC
CONSTANTS x, y, I64, U8
MCSymmetry == Permutations({x, y}) \cup Permutations({I64, U8})
=============================================================================
