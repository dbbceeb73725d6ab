--------------------------- MODULE MCDrainWindow ----------------------------
(***************************************************************************)
(* DrainWindow for TLC: operations may live longer than the drain period.  *)
(***************************************************************************)
EXTENDS DrainWindow
=============================================================================
