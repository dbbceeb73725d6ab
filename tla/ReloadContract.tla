--------------------------- MODULE ReloadContract ---------------------------
(***************************************************************************)
(* What hot reload promises: a configuration is published only when every  *)
(* resource has answered the one before, and each attached resource        *)
(* answers it once, by using it or by keeping what it uses; stale.State    *)
(* says which (pgpool.Live.Stale, redisclient.Live.Stale, internal/stale). *)
(***************************************************************************)
CONSTANTS
  Resources,
  Options,
  None       \* nothing is in use before the constructor has returned

VARIABLES
  wanted,    \* wanted[r]: the options of the published snapshot
  inUse,     \* inUse[r]: the options of the visible connection
  stale,     \* stale[r]: Stale() reports a reason
  attached,  \* the resources that subscribe to updates
  pending    \* the resources that have not answered the published snapshot

vars == <<wanted, inUse, stale, attached, pending>>

TypeOK ==
  /\ wanted \in [Resources -> Options]
  /\ inUse \in [Resources -> Options \cup {None}]
  /\ stale \in [Resources -> BOOLEAN]
  /\ attached \in SUBSET Resources
  /\ pending \in SUBSET Resources

Init ==
  /\ wanted \in [Resources -> Options]
  /\ inUse = [r \in Resources |-> None]
  /\ stale = [r \in Resources |-> FALSE]
  /\ attached = {}
  /\ pending = {}

\* A constructor connects with the configuration of start-up...
Connect(r) ==
  /\ inUse[r] = None
  /\ inUse' = [inUse EXCEPT ![r] = wanted[r]]
  /\ UNCHANGED <<wanted, stale, attached, pending>>

\* ...and subscribes before anything else is published.
Attach(r) ==
  /\ r \notin attached
  /\ inUse[r] = wanted[r]
  /\ ~stale[r]
  /\ attached' = attached \cup {r}
  /\ UNCHANGED <<wanted, inUse, stale, pending>>

Publish(want) ==
  /\ pending = {}
  /\ wanted' = want
  /\ pending' = attached
  /\ UNCHANGED <<inUse, stale, attached>>

\* A rebuild succeeded, or the published options are already in use.
Adopt(r) ==
  /\ r \in pending
  /\ inUse' = [inUse EXCEPT ![r] = wanted[r]]
  /\ stale' = [stale EXCEPT ![r] = FALSE]
  /\ pending' = pending \ {r}
  /\ UNCHANGED <<wanted, attached>>

\* A rebuild failed.
Keep(r) ==
  /\ r \in pending
  /\ inUse[r] # wanted[r]
  /\ stale' = [stale EXCEPT ![r] = TRUE]
  /\ pending' = pending \ {r}
  /\ UNCHANGED <<wanted, inUse, attached>>

\* OnStop unsubscribes; an answer on its way may still arrive.
Detach(r) ==
  /\ r \in attached
  /\ attached' = attached \ {r}
  /\ pending' \in {pending, pending \ {r}}
  /\ UNCHANGED <<wanted, inUse, stale>>

Next ==
  \/ \E r \in Resources :
       Connect(r) \/ Attach(r) \/ Adopt(r) \/ Keep(r) \/ Detach(r)
  \/ \E want \in [Resources -> Options] : Publish(want)

Spec == Init /\ [][Next]_vars

-----------------------------------------------------------------------------

(* The promise to operators: a resource that is attached and has answered  *)
(* is stale exactly when it does not use the published options.            *)
StaleTellsTheTruth ==
  \A r \in attached \ pending : stale[r] <=> inUse[r] # wanted[r]

=============================================================================
