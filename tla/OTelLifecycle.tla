--------------------------- MODULE OTelLifecycle ----------------------------
(***************************************************************************)
(* The OpenTelemetry providers of a process, from SetupOTelSDK in OnStart  *)
(* to sdkLifecycle.stop, which is both the OnStop hook and the flush       *)
(* function handed to the application (otel/otel.go).  Whether a provider  *)
(* can be created, and whether it shuts down without error, is up to the   *)
(* collector; a provider that has been shut down runs no workers either    *)
(* way.                                                                    *)
(***************************************************************************)
EXTENDS Sequences, SequencesExt

CONSTANTS
  Enabled,        \* the signals Options asks for, some of Signals
  RuntimeMetrics, \* Options.RuntimeMetrics
  Callers         \* OnStop and the application's flush points

Signals == {"trace", "metric", "logging"}

Setup == "setup"  \* SetupOTelSDK, when it undoes what it has started

ASSUME OTelAssumption ==
  /\ Enabled \subseteq Signals
  /\ RuntimeMetrics \in BOOLEAN
  /\ Setup \notin Callers

VARIABLES
  stage,      \* where SetupOTelSDK is
  running,    \* signals whose provider has workers and unsent data
  installed,  \* signals whose provider is the global one
  funcs,      \* shutdownGroup.funcs
  once,       \* shutdownGroup.once: fresh, busy or done
  runner,     \* who runs the group
  err,        \* shutdownGroup.err is not nil
  shutdown,   \* sdkLifecycle.shutdown is set
  at,         \* at[c]: idle, waiting or returned
  joined,     \* joined[c]: history, c found the shutdown function set
  result      \* result[c]: c was given an error

vars == <<stage, running, installed, funcs, once, runner, err, shutdown, at,
          joined, result>>
group == <<funcs, once, runner, err>>
calls == <<at, joined, result>>

Everyone == Callers \cup {Setup}

TypeOK ==
  /\ stage \in Signals \cup {"off", "resource", "runtime", "undo", "ready",
                             "failed"}
  /\ running \subseteq Signals
  /\ installed \subseteq Signals
  /\ funcs \in Seq(Signals)
  /\ once \in {"fresh", "busy", "done"}
  /\ runner \in Everyone \cup {"nobody"}
  /\ err \in BOOLEAN /\ shutdown \in BOOLEAN
  /\ at \in [Everyone -> {"idle", "waiting", "returned"}]
  /\ joined \in [Everyone -> BOOLEAN]
  /\ result \in [Everyone -> BOOLEAN]

Init ==
  /\ stage = "off"
  /\ running = {} /\ installed = {}
  /\ funcs = <<>> /\ once = "fresh" /\ runner = "nobody" /\ err = FALSE
  /\ shutdown = FALSE
  /\ at = [c \in Everyone |-> "idle"]
  /\ joined = [c \in Everyone |-> FALSE]
  /\ result = [c \in Everyone |-> FALSE]

-----------------------------------------------------------------------------
(* SetupOTelSDK                                                            *)

After(s) ==
  CASE s = "resource" -> "trace"
    [] s = "trace"    -> "metric"
    [] s = "metric"   -> "runtime"
    [] s = "runtime"  -> "logging"
    [] s = "logging"  -> "ready"

\* With no signal enabled there is nothing to set up and nothing to stop.
Start ==
  /\ stage = "off"
  /\ stage' = IF Enabled = {} THEN "ready" ELSE "resource"
  /\ shutdown' = (Enabled = {})
  /\ UNCHANGED <<running, installed, group, calls>>

\* What may be skipped, and the resource, which starts nothing.
Skips(s) ==
  \/ s = "resource"
  \/ s \in Signals \ Enabled
  \/ s = "runtime" /\ ~(RuntimeMetrics /\ "metric" \in Enabled)

\* OnStart hands the shutdown function over when set-up is complete.
Proceed(s) ==
  /\ stage = s
  /\ stage' = After(s)
  /\ shutdown' = (After(s) = "ready")

Skip(s) ==
  /\ Proceed(s)
  /\ Skips(s)
  /\ UNCHANGED <<running, installed, group, calls>>

StartProvider(s) ==
  /\ s \in Enabled
  /\ Proceed(s)
  /\ running' = running \cup {s}
  /\ funcs' = Append(funcs, s)
  /\ installed' = installed \cup {s}
  /\ UNCHANGED <<once, runner, err, calls>>

\* Runtime metrics add no shutdown function of their own.
StartRuntime ==
  /\ ~Skips("runtime")
  /\ Proceed("runtime")
  /\ UNCHANGED <<running, installed, group, calls>>

\* Mutant of Fails: the error is returned as it is.
FailsAsIs(s) ==
  /\ stage = s
  /\ stage' = "failed"
  /\ UNCHANGED <<running, installed, group, shutdown, calls>>

(* Any error on the way shuts down what was started and ends OnStart.      *)
Fails(s) ==
  /\ stage = s
  /\ s = "resource" \/ ~Skips(s)
  /\ stage' = "undo"
  /\ at' = [at EXCEPT ![Setup] = "waiting"]
  /\ UNCHANGED <<running, installed, group, shutdown, joined, result>>

FailsStart ==
  /\ stage = "undo"
  /\ at[Setup] = "returned"
  /\ stage' = "failed"
  /\ UNCHANGED <<running, installed, group, shutdown, calls>>

-----------------------------------------------------------------------------
(* sdkLifecycle.stop and shutdownGroup.shutdown                            *)

(* Before set-up is complete there is nothing to call.                     *)
StopNothing(c) ==
  /\ at[c] = "idle" /\ ~shutdown
  /\ at' = [at EXCEPT ![c] = "returned"]
  /\ UNCHANGED <<stage, running, installed, group, shutdown, joined, result>>

Stop(c) ==
  /\ at[c] = "idle" /\ shutdown
  /\ at' = [at EXCEPT ![c] = "waiting"]
  /\ joined' = [joined EXCEPT ![c] = TRUE]
  /\ UNCHANGED <<stage, running, installed, group, shutdown, result>>

\* once.Do: the first caller runs the group...
Enter(c) ==
  /\ at[c] = "waiting" /\ once = "fresh"
  /\ once' = "busy"
  /\ runner' = c
  /\ UNCHANGED <<stage, running, installed, funcs, err, shutdown, calls>>

Latest == Last(funcs)

\* ...from the last function to the first, whatever they return...
StopProvider ==
  /\ once = "busy" /\ funcs # <<>>
  /\ running' = running \ {Latest}
  /\ funcs' = Front(funcs)
  /\ err' \in {err, TRUE}
  /\ UNCHANGED <<stage, installed, once, runner, shutdown, calls>>

Return(c) ==
  /\ at' = [at EXCEPT ![c] = "returned"]
  /\ result' = [result EXCEPT ![c] = err]

\* Mutant of Leave: the end of the round is not told.
LeaveUntold(c) ==
  /\ once = "busy" /\ runner = c
  /\ funcs = <<>>
  /\ Return(c)
  /\ UNCHANGED <<stage, running, installed, group, shutdown, joined>>

Leave(c) ==
  /\ once = "busy" /\ runner = c
  /\ funcs = <<>>
  /\ once' = "done"
  /\ Return(c)
  /\ UNCHANGED <<stage, running, installed, funcs, runner, err, shutdown,
                 joined>>

\* Mutant of Join: a flag instead of a sync.Once.
JoinAtOnce(c) ==
  /\ at[c] = "waiting" /\ once # "fresh" /\ runner # c
  /\ Return(c)
  /\ UNCHANGED <<stage, running, installed, group, shutdown, joined>>

\* ...and everybody else waits for the end of that round.
Join(c) ==
  /\ at[c] = "waiting" /\ once = "done"
  /\ Return(c)
  /\ UNCHANGED <<stage, running, installed, group, shutdown, joined>>

ShutdownStep ==
  \/ StopProvider
  \/ \E c \in Everyone : Enter(c) \/ Leave(c) \/ Join(c)

Next ==
  \/ Start
  \/ \E s \in Signals : StartProvider(s)
  \/ \E s \in Signals \cup {"resource", "runtime"} : Skip(s) \/ Fails(s)
  \/ StartRuntime \/ FailsStart
  \/ \E c \in Callers : StopNothing(c) \/ Stop(c)
  \/ ShutdownStep

Spec == Init /\ [][Next]_vars

\* A provider's Shutdown ends with its context at the latest.
FairSpec == Spec /\ WF_vars(ShutdownStep) /\ WF_vars(FailsStart)

-----------------------------------------------------------------------------

(* A start that failed half-way leaves no exporter behind: Fx does not run *)
(* the OnStop of a hook whose OnStart failed.                              *)
FailedStartLeavesNothing == stage = "failed" => running = {}

(* Whoever is told that telemetry is shut down can exit: nothing is still  *)
(* being flushed, by this caller or by a concurrent one, and whoever lost  *)
(* data in that flush, this caller knows.                                  *)
ReturnsAfterFlush ==
  \A c \in Callers :
    at[c] = "returned" /\ joined[c] => running = {} /\ result[c] = err

(* Every stop returns and every failed start ends.                         *)
StopReturns ==
  /\ \A c \in Everyone : at[c] = "waiting" ~> at[c] = "returned"
  /\ stage = "undo" ~> stage = "failed"

=============================================================================
