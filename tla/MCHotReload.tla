---------------------------- MODULE MCHotReload -----------------------------
(***************************************************************************)
(* HotReload for TLC: documents d1 and d2 project to different options for *)
(* every resource, and bad, which projects like d2, does not validate.     *)
(***************************************************************************)
EXTENDS HotReload

CONSTANTS d1, d2, bad, o1, o2

MCDocuments == {d1, d2, bad}
MCValid == {d1, d2}
MCOptions == {o1, o2}
MCProject ==
  [r \in Resources |-> [d \in MCDocuments |-> IF d = d1 THEN o1 ELSE o2]]
=============================================================================
