---------------------------- MODULE MCFileEvents ----------------------------
(***************************************************************************)
(* One document of three chunks and one client: streams do not affect jobs *)
(* or one another, so a second client would add nothing.                   *)
(***************************************************************************)
EXTENDS FileEvents

CONSTANTS r, b, viewer

OneRequest == {r}
OneContent == {b}
ThreeChunks == [c \in Contents |-> 3]
OneClient == {viewer}
WatchOnly == [c \in Clients |-> <<r, b>>]
=============================================================================
