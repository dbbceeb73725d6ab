---------------------------- MODULE MCConfigLive ----------------------------
(***************************************************************************)
(* ConfigLive for TLC: two good documents and a bad one, two goroutines    *)
(* that may be in Set at the same time, and two subscriptions.             *)
(***************************************************************************)
EXTENDS ConfigLive, TLC

CONSTANTS d1, d2, bad

MCDocuments == {d1, d2, bad}
MCAccepted == {d1, d2}
=============================================================================
