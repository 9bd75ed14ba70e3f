--------------------------- MODULE MCSourceCache ---------------------------
(* Small instances of SourceCache: f1 and f2 are two bodies of ff that may *)
(* hash alike; ff uses the variable x, f2 the class C as well, gg a        *)
(* pointer to C, and h1, in another source, the variable x of the first.   *)
EXTENDS SourceCache

CONSTANTS ff, gg, hh, C, x, p, f1, f2, g1, h1, h2, c1, c2, I64, U8, CPtr,
          Fn, FnC, A, B

MCFunc == {ff, gg, hh}
MCClassOrder == <<C>>
MCText == {f1, f2, g1, h1, h2, c1, c2}
MCTypeStr == {I64, U8, CPtr, Fn, FnC}
MCMentions == [t \in MCText |->
    CASE t = f1 -> {ff, x} [] t = f2 -> {ff, x, C} [] t = g1 -> {gg, p}
      [] t = h1 -> {hh, x} [] t = h2 -> {hh} [] OTHER -> {C}]
MCClassesOf == [t \in MCTypeStr |-> IF t \in {CPtr, FnC} THEN {C} ELSE {}]
MCPrinted == [t \in MCText |-> t]
ApartHash == [t \in MCText |-> IF t \in {f2, c2} THEN 2 ELSE 1]
MCHash == [t \in MCText |-> IF t = c2 THEN 2 ELSE 1]

SourceA(xType, fText, cText) ==
    [file |-> A,
     decl |-> {<<x, xType>>, <<C, cText>>, <<p, CPtr>>, <<ff, Fn>>, <<gg, Fn>>},
     stmts |-> <<[name |-> ff, text |-> fText], [name |-> gg, text |-> g1]>>]
SourceB(hText) == [file |-> B, decl |-> {<<hh, Fn>>},
                   stmts |-> <<[name |-> hh, text |-> hText]>>]
SmallA(xType, fText, cText) ==
    [file |-> A, decl |-> {<<x, xType>>, <<C, cText>>, <<ff, FnC>>},
     stmts |-> <<[name |-> ff, text |-> fText]>>]

(* types change, a source is edited and edited back                        *)
Changing == {SmallA(I64, f1, c1), SmallA(U8, f2, c1), SmallA(U8, f1, c2)}
(* only function bodies change                                             *)
Fixed == {SourceA(I64, f1, c1), SourceA(I64, f2, c1), SourceB(h1),
          SourceB(h2)}
=============================================================================
