-------------------------- MODULE MCConsulRegistry --------------------------
(***************************************************************************)
(* ConsulRegistry for TLC.  Delays 1, 2, 3: the last doubling is cut off   *)
(* by retryMax.                                                            *)
(***************************************************************************)
EXTENDS ConsulRegistry
=============================================================================
