------------------------ MODULE MCConnectionAttempts ------------------------
(***************************************************************************)
(* ConnectionAttempts for TLC: all options against all servers.            *)
(***************************************************************************)
EXTENDS ConnectionAttempts
=============================================================================
