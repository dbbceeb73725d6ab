-------------------------- MODULE MCHeartbeatTiming -------------------------
(***************************************************************************)
(* HeartbeatTiming for TLC: TTLs and intervals on both sides of validation *)
(* and of the default interval.                                            *)
(***************************************************************************)
EXTENDS HeartbeatTiming

MCTTLs == {0} \cup 2..5
MCPingIntervals == {-1, 0, 1, 2, 4}
=============================================================================
