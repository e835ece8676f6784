------------------------------- MODULE Orders -------------------------------
(***************************************************************************)
(* Finite sets put in order, without recursion.                            *)
(***************************************************************************)
EXTENDS Integers, Sequences, FiniteSets

\* The elements of S in the order Before: the k-th one has k - 1 before it.
Sorted(S, Before(_, _)) ==
  [k \in 1 .. Cardinality(S) |->
     CHOOSE i \in S : Cardinality({j \in S : Before(j, i)}) = k - 1]

Ascending(S) == Sorted(S, <)

\* What a list has at the given places, in the list's order.
AtPlaces(list, places) ==
  LET order == Ascending(places) IN [k \in DOMAIN order |-> list[order[k]]]
=============================================================================
