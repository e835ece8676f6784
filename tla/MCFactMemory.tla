---------------------------- MODULE MCFactMemory ----------------------------
(***************************************************************************)
(* Facts f and g are alike (one key, values that say the same); h is       *)
(* another.  One job reports f and h.                                      *)
(***************************************************************************)
EXTENDS FactMemory

CONSTANTS j1, f, g, h

SimilarFacts == {<<p, p>> : p \in {f, g, h}} \cup {<<f, g>>, <<g, f>>}
OneList == {<<f, h>>}
=============================================================================
