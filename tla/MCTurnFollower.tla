--------------------------- MODULE MCTurnFollower ---------------------------
(***************************************************************************)
(* TurnFollower for TLC.                                                   *)
(***************************************************************************)
EXTENDS TurnFollower

CONSTANTS A, B
=============================================================================
