----------------------------- MODULE StaleGauge -----------------------------
(***************************************************************************)
(* The gauge that exports which components run on an older configuration   *)
(* (internal/stale/stale.go): one process-wide instrument, created by      *)
(* whoever registers first, whose callback walks the registered states     *)
(* while rebuilds set and clear them and further components register.      *)
(***************************************************************************)
CONSTANT Components   \* pgpool, redisclient

VARIABLES
  stale,       \* components whose State holds an error
  states,      \* registry.states
  created,     \* registry.once: fresh, busy or done
  failure,     \* registry.err is not nil
  creator,     \* who creates the instrument
  registering, \* registering[c]: idle, once, or what Register(c) returned
  callback,    \* components the instrument's callback walks
  collecting,  \* the callback is running, and holds the read lock
  todo,        \* components it has still to observe
  seen,        \* seen[c]: what this collection reports of c
  held,        \* history, held[c]: values c's State has had since it began
  due          \* history: components that were registered when it began

gaugeVars == <<stale, states, created, failure, creator, registering, callback,
               collecting, todo, seen, held, due>>
registration == <<states, created, failure, creator, registering, callback>>
collection == <<collecting, todo, seen, held, due>>

Reports == {"nothing", "0", "1"}

GaugeTypeOK ==
  /\ stale \subseteq Components /\ states \subseteq Components
  /\ created \in {"fresh", "busy", "done"} /\ failure \in BOOLEAN
  /\ creator \in Components \cup {"nobody"}
  /\ registering \in [Components -> {"idle", "once", "ok", "failed"}]
  /\ callback \in {{}, Components}
  /\ collecting \in BOOLEAN /\ todo \subseteq Components
  /\ seen \in [Components -> Reports]
  /\ held \in [Components -> SUBSET Reports]
  /\ due \subseteq Components

GaugeInit ==
  /\ stale = {} /\ states = {}
  /\ created = "fresh" /\ failure = FALSE /\ creator = "nobody"
  /\ registering = [c \in Components |-> "idle"]
  /\ callback = {}
  /\ collecting = FALSE /\ todo = {} /\ due = {}
  /\ seen = [c \in Components |-> "nothing"]
  /\ held = [c \in Components |-> {}]

-----------------------------------------------------------------------------
(* Register                                                                *)

Step(c, from, to) ==
  /\ registering[c] = from
  /\ registering' = [registering EXCEPT ![c] = to]

(* The state goes into the map, under the write lock...                    *)
Insert(c) ==
  /\ Step(c, "idle", "once")
  /\ ~collecting
  /\ states' = states \cup {c}
  /\ UNCHANGED <<stale, created, failure, creator, callback, collection>>

EnterOnce(c) ==
  /\ registering[c] = "once" /\ created = "fresh"
  /\ created' = "busy" /\ creator' = c
  /\ UNCHANGED <<stale, states, failure, registering, callback, collection>>

(* ...whoever comes first creates the instrument, or fails to...           *)
Create(c) ==
  /\ created = "busy" /\ creator = c
  /\ \/ callback' = Components /\ failure' = FALSE
     \/ callback' = {} /\ failure' = TRUE
  /\ created' = "done"
  /\ UNCHANGED <<stale, states, creator, registering, collection>>

\* Mutant of ReturnOutcome: a flag instead of a sync.Once.
ReturnAtOnce(c) ==
  /\ created # "fresh" /\ (created = "busy" => creator # c)
  /\ Step(c, "once", IF failure THEN "failed" ELSE "ok")
  /\ UNCHANGED <<stale, states, created, failure, creator, callback,
                 collection>>

(* ...and everybody gets the outcome.                                      *)
ReturnOutcome(c) ==
  /\ created = "done"
  /\ Step(c, "once", IF failure THEN "failed" ELSE "ok")
  /\ UNCHANGED <<stale, states, created, failure, creator, callback,
                 collection>>

-----------------------------------------------------------------------------
(* State.Set, and observe                                                  *)

\* What the gauge is for a component, by which are stale.
Value(c, among) == IF c \in among THEN "1" ELSE "0"

(* Set(err), and Set(nil).                                                 *)
Set(c) ==
  /\ stale' \in {stale \cup {c}, stale \ {c}}
  /\ held' = IF collecting THEN [held EXCEPT ![c] = @ \cup {Value(c, stale')}]
             ELSE held
  /\ UNCHANGED <<registration, collecting, todo, seen, due>>

(* The meter's reader runs the callback, which takes the read lock...      *)
Collect ==
  /\ callback # {} /\ ~collecting
  /\ collecting' = TRUE
  /\ todo' = states \cap callback
  /\ seen' = [c \in Components |-> "nothing"]
  /\ held' = [c \in Components |-> {Value(c, stale)}]
  /\ due' = {c \in Components : registering[c] = "ok"}
  /\ UNCHANGED <<stale, registration>>

\* Mutant of Observe: only stale components are reported.
ObserveStale(c) ==
  /\ collecting /\ c \in todo
  /\ todo' = todo \ {c}
  /\ seen' = IF c \in stale THEN [seen EXCEPT ![c] = "1"] ELSE seen
  /\ UNCHANGED <<stale, registration, collecting, held, due>>

(* ...and reports 1 or 0 of each.                                          *)
Observe(c) ==
  /\ collecting /\ c \in todo
  /\ todo' = todo \ {c}
  /\ seen' = [seen EXCEPT ![c] = Value(c, stale)]
  /\ UNCHANGED <<stale, registration, collecting, held, due>>

Collected ==
  /\ collecting /\ todo = {}
  /\ collecting' = FALSE
  /\ UNCHANGED <<stale, registration, todo, seen, held, due>>

GaugeNext ==
  \/ \E c \in Components :
       \/ Insert(c) \/ EnterOnce(c) \/ Create(c) \/ ReturnOutcome(c)
       \/ Set(c) \/ Observe(c)
  \/ Collect \/ Collected

GaugeSpec == GaugeInit /\ [][GaugeNext]_gaugeVars

-----------------------------------------------------------------------------

(* A finished collection has reported every component that was registered  *)
(* before it began, as it was at some moment of the collection.            *)
CompleteAndTrue ==
  collecting /\ todo = {} =>
    \A c \in Components :
      /\ c \in due => seen[c] # "nothing"
      /\ seen[c] # "nothing" => seen[c] \in held[c]

(* Nobody starts with a gauge that is not there: a component whose         *)
(* Register returned nil is in the map of an instrument that exists.       *)
RegisteredIsExported ==
  \A c \in Components : registering[c] = "ok" => c \in states \cap callback

=============================================================================
