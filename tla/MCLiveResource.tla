--------------------------- MODULE MCLiveResource ---------------------------
(***************************************************************************)
(* LiveResource for TLC: a pgpool holder, a redisclient holder and a pool  *)
(* of four handles.                                                        *)
(***************************************************************************)
EXTENDS LiveResource, TLC

CONSTANTS pg, redis

MCResources == {pg, redis}
MCProbing == {redis}

\* Handles and options are interchangeable.
Symmetry == Permutations(Handles) \cup Permutations(Options)
=============================================================================
