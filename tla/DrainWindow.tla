---------------------------- MODULE DrainWindow -----------------------------
(***************************************************************************)
(* Queries and commands against a pool or client that is being replaced    *)
(* (pgpool.Live, redisclient.Live), with time.  An operation first takes   *)
(* the current handle, then uses it; between the two, or while it runs,    *)
(* the handle can be replaced, and a replaced handle is closed when its    *)
(* drain timer fires.                                                      *)
(*                                                                         *)
(* Whether the rebuild itself succeeds is LiveResource's subject: here a   *)
(* rebuild is its swap and the timer it arms.                              *)
(***************************************************************************)
EXTENDS Naturals

CONSTANTS
  Handles,       \* pools or clients; a bound on how many exist at a time
  Operations,    \* queries or commands in flight at a time
  DrainTimeout,  \* drainTimeout, in ticks
  Graceful,      \* Close lets what is running finish (pgxpool), or not (redis)
  MaxAge,        \* operations end before this age
  None

ASSUME DrainAssumption ==
  /\ DrainTimeout \in Nat /\ MaxAge \in Nat
  /\ Graceful \in BOOLEAN
  /\ None \notin Handles

VARIABLES
  visible,   \* the handle behind Live.p / Live.c
  prev,      \* the handle just replaced, before its timer is armed
  open,      \* handles that are not closed
  draining,  \* handles with an armed timer
  timer,     \* timer[h]: ticks until it fires
  stopped,   \* OnStop has closed the visible handle
  phase,     \* phase[o]: idle, taken, running or failed
  at,        \* at[o]: the handle o took
  age        \* age[o]: ticks since o took it

windowVars == <<visible, prev, open, draining, timer, stopped, phase, at, age>>
opvars == <<phase, at, age>>

WindowTypeOK ==
  /\ visible \in Handles /\ prev \in Handles \cup {None}
  /\ open \in SUBSET Handles /\ draining \in SUBSET Handles
  /\ timer \in [Handles -> Nat]
  /\ stopped \in BOOLEAN
  /\ phase \in [Operations -> {"idle", "taken", "running", "failed"}]
  /\ at \in [Operations -> Handles \cup {None}]
  /\ age \in [Operations -> Nat]

-----------------------------------------------------------------------------

WindowInit ==
  /\ visible \in Handles
  /\ prev = None
  /\ open = {visible}
  /\ draining = {}
  /\ timer = [h \in Handles |-> 0]
  /\ stopped = FALSE
  /\ phase = [o \in Operations |-> "idle"]
  /\ at = [o \in Operations |-> None]
  /\ age = [o \in Operations |-> 0]

(* Load the pointer: inside Exec, Query and QueryRow of pgpool.Live, or by *)
(* the caller through Pool() and Client().                                 *)
Take(o) ==
  /\ phase[o] = "idle"
  /\ phase' = [phase EXCEPT ![o] = "taken"]
  /\ at' = [at EXCEPT ![o] = visible]
  /\ age' = [age EXCEPT ![o] = 0]
  /\ UNCHANGED <<visible, prev, open, draining, timer, stopped>>

(* Use it: a closed handle refuses.                                        *)
Use(o) ==
  /\ phase[o] = "taken"
  /\ phase' = [phase EXCEPT ![o] =
                 IF at[o] \in open THEN "running" ELSE "failed"]
  /\ UNCHANGED <<visible, prev, open, draining, timer, stopped, at, age>>

Finish(o) ==
  /\ phase[o] \in {"running", "failed"}
  /\ phase' = [phase EXCEPT ![o] = "idle"]
  /\ at' = [at EXCEPT ![o] = None]
  /\ UNCHANGED <<visible, prev, open, draining, timer, stopped, age>>

\* A handle nobody refers to stands for one that does not exist yet.
Fresh(h) ==
  /\ h \notin open \cup draining \cup {visible}
  /\ \A o \in Operations : at[o] # h

(* A rebuild that succeeded swaps its handle in...                         *)
Swap(h) ==
  /\ prev = None
  /\ Fresh(h)
  /\ visible' = h /\ prev' = visible
  /\ open' = open \cup {h}
  /\ UNCHANGED <<draining, timer, stopped, opvars>>

\* Mutants of Arm: the timer counts from the start of the rebuild, which may
\* have taken as long; one timer per holder, moved on by every rebuild.
ArmEarlier ==
  /\ prev # None
  /\ prev' = None
  /\ draining' = draining \cup {prev}
  /\ timer' = [timer EXCEPT ![prev] = 0]
  /\ UNCHANGED <<visible, open, stopped, opvars>>

ArmOne ==
  /\ prev # None
  /\ prev' = None
  /\ draining' = {prev}
  /\ timer' = [timer EXCEPT ![prev] = DrainTimeout]
  /\ UNCHANGED <<visible, open, stopped, opvars>>

(* ...and arms a timer for the one it replaced.                            *)
Arm ==
  /\ prev # None
  /\ prev' = None
  /\ draining' = draining \cup {prev}
  /\ timer' = [timer EXCEPT ![prev] = DrainTimeout]
  /\ UNCHANGED <<visible, open, stopped, opvars>>

\* What Close does to the operations running on h (external).
Interrupt(h) ==
  phase' = [o \in Operations |->
              IF ~Graceful /\ at[o] = h /\ phase[o] = "running"
              THEN "failed" ELSE phase[o]]

(* A timer fires at its time or later.                                     *)
Fire(h) ==
  /\ h \in draining /\ timer[h] = 0
  /\ draining' = draining \ {h}
  /\ open' = open \ {h}
  /\ Interrupt(h)
  /\ UNCHANGED <<visible, prev, timer, stopped, at, age>>

(* OnStop closes what is visible, at once.                                 *)
OnStop ==
  /\ ~stopped
  /\ stopped' = TRUE
  /\ open' = open \ {visible}
  /\ Interrupt(visible)
  /\ UNCHANGED <<visible, prev, draining, timer, at, age>>

Tick ==
  /\ \A o \in Operations : phase[o] # "idle" => age[o] < MaxAge
  /\ age' = [o \in Operations |->
               IF phase[o] \in {"taken", "running"} THEN age[o] + 1 ELSE age[o]]
  /\ timer' = [h \in Handles |-> IF timer[h] > 0 THEN timer[h] - 1 ELSE 0]
  /\ UNCHANGED <<visible, prev, open, draining, stopped, phase, at>>

WindowNext ==
  \/ \E o \in Operations : Take(o) \/ Use(o) \/ Finish(o)
  \/ \E h \in Handles : Swap(h) \/ Fire(h)
  \/ Arm \/ OnStop \/ Tick

WindowSpec == WindowInit /\ [][WindowNext]_windowVars

(***************************************************************************)
(* Time passes, the callback runs on to its AfterFunc, the runtime fires   *)
(* timers, and operations end (their callers give them a deadline).        *)
(***************************************************************************)
Fairness ==
  /\ WF_windowVars(Arm) /\ SF_windowVars(Tick)
  /\ \A h \in Handles : WF_windowVars(Fire(h))
  /\ \A o \in Operations : WF_windowVars(Use(o) \/ Finish(o))

FairSpec == WindowSpec /\ Fairness

-----------------------------------------------------------------------------

(* What drainTimeout is for: an operation that meets a closed handle, or   *)
(* is cut off by its closing, took the handle at least drainTimeout ago,   *)
(* however many rebuilds followed; only OnStop is not so patient.          *)
DrainHonoured ==
  \A o \in Operations : phase[o] = "failed" => age[o] >= DrainTimeout \/ stopped

(* Every replaced handle is closed in the end, whatever replaces it next.  *)
ReplacedCloses ==
  \A h \in Handles : h = prev ~> h \notin open

=============================================================================
