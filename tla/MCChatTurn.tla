----------------------------- MODULE MCChatTurn -----------------------------
(***************************************************************************)
(* Three turns of one conversation, from any number of devices.  The turns *)
(* are interchangeable: the handler never compares them.                   *)
(***************************************************************************)
EXTENDS ChatTurn, TLC

CONSTANTS t1, t2, t3

TwoTurns == {t1, t2}
ThreeTurns == {t1, t2, t3}
TurnSymmetry == Permutations(Turns)
=============================================================================
