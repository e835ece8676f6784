----------------------------- MODULE MCIngestion -----------------------------
(***************************************************************************)
(* Instances of Ingestion for TLC: two contents a and b of one and three   *)
(* chunks, an empty document z, and the file lists that make the cases of  *)
(* the handler and of the job happen.                                      *)
(***************************************************************************)
EXTENDS Ingestion

CONSTANTS r1, r2, a, b, z, bad

TwoRequests == {r1, r2}
OneRequest == {r1}

TwoContents == {a, b}
OneContent == {b}
EmptyToo == {b, z}
ChunksOf == [c \in Contents |-> CASE c = a -> 1 [] c = b -> 3 [] c = z -> 0]

\* Lists in opposite orders, a duplicate inside a list, a bad second file.
CrossedLists == {<<a, b>>, <<b, a>>, <<a, a>>, <<a, bad>>}
SingleFile == {<<b>>}
PlainOrEmpty == {<<b>>, <<z>>}
=============================================================================
