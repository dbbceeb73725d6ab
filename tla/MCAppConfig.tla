---------------------------- MODULE MCAppConfig -----------------------------
(***************************************************************************)
(* AppConfig for TLC: three documents that load everywhere, with levels    *)
(* that change, that do not parse and that are empty, and sections that    *)
(* change, appear and disappear; one for each way to be refused.           *)
(***************************************************************************)
EXTENDS AppConfig

MCDocuments == {"a", "b", "c", "unknown", "invalid", "malformed"}
MCLevels ==
  [a |-> "warn", b |-> "verbose", c |-> "", unknown |-> "fatal",
   invalid |-> "error", malformed |-> "error"]
MCSection ==
  [a |-> [server |-> 1, trace |-> 1], b |-> [server |-> 1],
   c |-> [server |-> 2, trace |-> 1], unknown |-> [trace |-> 2],
   invalid |-> [server |-> 1], malformed |-> [server |-> 1]]
=============================================================================
