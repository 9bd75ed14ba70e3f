----------------------------- MODULE MCHashMap -----------------------------
(* The codes of keys 1 to 7 fill seven of the first eight buckets, which   *)
(* makes the map grow.  Key 0 is in the bucket of key 1 until it does, and *)
(* again when the map shrinks; key 8 is in it always, as nine keys bring   *)
(* about 32 buckets at most.                                               *)
EXTENDS HashMap
MCKey == 0..8
MCCode == [k \in MCKey |-> CASE k = 0 -> 8 [] k = 8 -> 32 [] OTHER -> k - 1]
=============================================================================
