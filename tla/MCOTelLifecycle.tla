-------------------------- MODULE MCOTelLifecycle ---------------------------
(***************************************************************************)
(* OTelLifecycle for TLC: all three signals with runtime metrics.          *)
(***************************************************************************)
EXTENDS OTelLifecycle

MCEnabled == Signals
=============================================================================
