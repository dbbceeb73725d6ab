---------------------------- MODULE MCErrorPath -----------------------------
(***************************************************************************)
(* ErrorPath for TLC: two codes, one declared reason and plain errors.     *)
(***************************************************************************)
EXTENDS ErrorPath
=============================================================================
