---------------------------- MODULE MCStaleGauge ----------------------------
(***************************************************************************)
(* StaleGauge for TLC: the two components there are, and a third.          *)
(***************************************************************************)
EXTENDS StaleGauge
=============================================================================
