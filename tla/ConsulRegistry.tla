--------------------------- MODULE ConsulRegistry ---------------------------
(***************************************************************************)
(* One service's Consul registration and the loop that keeps it alive      *)
(* (registry/consul.go), against an agent that is slow, refuses, forgets   *)
(* or answers nobody: every request can be given up by the client (its     *)
(* timeout, its context) and commit at the agent later, or never.          *)
(*                                                                         *)
(* The agent's side is external: what it does with a request, the TTL, the *)
(* removal of critical services, and losing its state.                     *)
(***************************************************************************)
EXTENDS Integers

CONSTANTS
  Callers,      \* concurrent callers of Shutdown (OnStop, Deregister)
  RetryBase,    \* retryBase and
  RetryMax,     \* retryMax, as configured
  DefaultBase,  \* defaultRetryBase
  AttemptCap,   \* attempt counts up to here; the delay is at its maximum then
  MaxLate,      \* abandoned requests of a kind that may still reach the agent
  MaxForgets    \* times the agent loses the registration of a live process

ASSUME RegistryAssumption ==
  /\ RetryBase \in Int /\ RetryMax \in Int
  /\ DefaultBase \in Nat \ {0}
  /\ AttemptCap \in Nat \ {0} /\ MaxLate \in Nat /\ MaxForgets \in Nat

VARIABLES
  pc,         \* where Maintain is
  answer,     \* of the request Maintain waits for
  cancelled,  \* Maintain's context is cancelled
  valid,      \* validateAndNormalizeOptions accepts the options
  attempted,  \* registerAttempted
  registered, \* registered
  attempt,    \* consecutive failures
  delay,      \* the next wait between them
  stage,      \* stage[c]: where caller c is in Shutdown
  late,       \* late[k]: abandoned requests of kind k on their way
  entry,      \* the agent's entry: its status and, as history, whether the
              \* requests that created it and made it pass came late
  forgets     \* how often the agent forgot

vars == <<pc, answer, cancelled, valid, attempted, registered, attempt, delay,
          stage, late, entry, forgets>>
loopvars == <<attempt, delay, registered>>
flags == <<cancelled, valid, attempted>>

Kinds == {"register", "ping", "deregister"}
Marks == {"none", "own", "late"}
Entries ==
  [status : {"absent", "critical", "passing"}, by : Marks, beat : Marks]
Absent == [status |-> "absent", by |-> "none", beat |-> "none"]

TypeOK ==
  /\ pc \in {"off", "register", "registering", "ping", "pinging", "ticker",
             "backoff", "done", "crashed"}
  /\ answer \in {"none", "waiting", "ok", "failed"}
  /\ cancelled \in BOOLEAN /\ valid \in BOOLEAN
  /\ attempted \in BOOLEAN /\ registered \in BOOLEAN
  /\ attempt \in 0..AttemptCap
  /\ delay \in Nat \ {0}
  /\ stage \in [Callers -> {"idle", "join", "gate", "check", "sent",
                            "accepted", "refused", "ok", "failed"}]
  /\ late \in [Kinds -> 0..MaxLate]
  /\ entry \in Entries
  /\ forgets \in 0..MaxForgets

-----------------------------------------------------------------------------

\* Maintain's normalisation of the two retry delays.
Base == IF RetryBase <= 0 THEN DefaultBase ELSE RetryBase
MaxDelay == IF RetryMax < Base THEN Base ELSE RetryMax

ASSUME CapAssumption == Base * 2^(AttemptCap - 1) >= MaxDelay

\* Mutants of TTLCheck: born passing; no DeregisterCriticalServiceAfter.
TTLCheckPassing == [status |-> "passing", deregisters |-> TRUE]
TTLCheckForever == [status |-> "critical", deregisters |-> FALSE]

(* newConsulTTLCheck: critical until this process proves liveness, and     *)
(* removed when it stays critical.                                         *)
TTLCheck == [status |-> "critical", deregisters |-> TRUE]

(* What the agent does with a request (external).  A registration may keep *)
(* the status of a check it replaces.                                      *)
AfterRegister(mark) ==
  {[status |-> s, by |-> mark,
    beat |-> IF s = "passing" /\ entry.status = "passing"
             THEN entry.beat ELSE "none"] :
     s \in {TTLCheck.status} \cup ({entry.status} \ {"absent"})}

AfterPing(mark) == [entry EXCEPT !.status = "passing", !.beat = mark]

Commits(kind, mark) ==
  \/ kind = "register" /\ entry' \in AfterRegister(mark)
  \/ kind = "ping" /\ entry.status # "absent" /\ entry' = AfterPing(mark)
  \/ kind = "deregister" /\ entry' = Absent

Init ==
  /\ pc = "off" /\ answer = "none"
  /\ cancelled = FALSE /\ valid \in BOOLEAN
  /\ attempted = FALSE /\ registered = FALSE
  /\ attempt = 0 /\ delay = Base
  /\ stage = [c \in Callers |-> "idle"]
  /\ late = [k \in Kinds |-> 0]
  /\ entry = Absent
  /\ forgets = 0

-----------------------------------------------------------------------------
(* Maintain                                                                *)

(* OnStart: Maintain runs in a goroutine of its own.                       *)
Start ==
  /\ pc = "off"
  /\ pc' = "register"
  /\ UNCHANGED <<answer, flags, loopvars, stage, late, entry, forgets>>

\* A request sent under a cancelled context fails before it leaves.
Send == answer' = IF cancelled THEN "failed" ELSE "waiting"

(* RegisterContext, up to the request.                                     *)
Register ==
  /\ pc = "register"
  /\ valid
  /\ attempted' = TRUE
  /\ Send
  /\ pc' = "registering"
  /\ UNCHANGED <<cancelled, valid, loopvars, stage, late, entry, forgets>>

(* ErrInvalidOptions: Maintain returns without a request.                  *)
RejectOptions ==
  /\ pc = "register"
  /\ ~valid
  /\ pc' = "done"
  /\ UNCHANGED <<answer, flags, loopvars, stage, late, entry, forgets>>

\* Mutant of Established: the delay is not reset.
EstablishedSlow ==
  /\ pc = "registering" /\ answer = "ok"
  /\ registered' = TRUE
  /\ attempt' = 0
  /\ answer' = "none"
  /\ pc' = "ping"
  /\ UNCHANGED <<flags, delay, stage, late, entry, forgets>>

(* The request succeeded: the loop resets its backoff and heartbeats.      *)
Established ==
  /\ pc = "registering" /\ answer = "ok"
  /\ registered' = TRUE
  /\ attempt' = 0 /\ delay' = Base
  /\ answer' = "none"
  /\ pc' = "ping"
  /\ UNCHANGED <<flags, stage, late, entry, forgets>>

(* TTLCheckPinger: the first ping is immediate, the others by the ticker.  *)
Ping ==
  /\ pc \in {"ping", "ticker"}
  /\ Send
  /\ pc' = "pinging"
  /\ UNCHANGED <<flags, loopvars, stage, late, entry, forgets>>

PingAnswered ==
  /\ pc = "pinging" /\ answer = "ok"
  /\ answer' = "none"
  /\ pc' = "ticker"
  /\ UNCHANGED <<flags, loopvars, stage, late, entry, forgets>>

\* attempt++, saturating.
CountAttempt == attempt' = IF attempt < AttemptCap THEN attempt + 1 ELSE attempt

\* Mutant of Retry: a failed heartbeat is left to the next one.
RetryRegistrationOnly ==
  /\ pc \in {"registering", "pinging"} /\ answer = "failed"
  /\ ~cancelled
  /\ CountAttempt
  /\ answer' = "none"
  /\ pc' = IF pc = "pinging" THEN "ticker" ELSE "backoff"
  /\ UNCHANGED <<flags, delay, registered, stage, late, entry, forgets>>

(* The registration or a heartbeat failed: wait and register again...      *)
Retry ==
  /\ pc \in {"registering", "pinging"} /\ answer = "failed"
  /\ ~cancelled
  /\ CountAttempt
  /\ answer' = "none"
  /\ pc' = "backoff"
  /\ UNCHANGED <<flags, delay, registered, stage, late, entry, forgets>>

(* ...unless the context is cancelled, which also ends the waits.          *)
Leave ==
  /\ cancelled
  /\ \/ pc \in {"registering", "pinging"} /\ answer = "failed"
     \/ pc \in {"ticker", "backoff"}
  /\ answer' = "none"
  /\ pc' = "done"
  /\ UNCHANGED <<flags, loopvars, stage, late, entry, forgets>>

Doubled(d) == IF 2 * d > MaxDelay THEN MaxDelay ELSE 2 * d

WaitOver ==
  /\ pc = "backoff"
  /\ delay' = IF delay < MaxDelay THEN Doubled(delay) ELSE delay
  /\ pc' = "register"
  /\ UNCHANGED <<answer, flags, attempt, registered, stage, late, entry,
                 forgets>>

\* The request Maintain is waiting for.
Awaited == IF pc = "registering" THEN "register" ELSE "ping"

(* The agent answers Maintain's request: done, or refused.                 *)
AgentServes ==
  /\ answer = "waiting"
  /\ Commits(Awaited, "own")
  /\ answer' = "ok"
  /\ UNCHANGED <<pc, flags, loopvars, stage, late, forgets>>

AgentRefuses ==
  /\ answer = "waiting"
  /\ answer' = "failed"
  /\ UNCHANGED <<pc, flags, loopvars, stage, late, entry, forgets>>

\* A request its sender gave up on may still be on its way.
Abandon(kind) ==
  late' \in {late} \cup
    (IF late[kind] < MaxLate THEN {[late EXCEPT ![kind] = @ + 1]} ELSE {})

(* The client's timeout, or its context.                                   *)
GiveUp ==
  /\ answer = "waiting"
  /\ Abandon(Awaited)
  /\ answer' = "failed"
  /\ UNCHANGED <<pc, flags, loopvars, stage, entry, forgets>>

-----------------------------------------------------------------------------
(* Shutdown                                                                *)

Step(c, from, to) == stage[c] = from /\ stage' = [stage EXCEPT ![c] = to]

\* Mutant of Shutdown: the loop is not told.
ShutdownUntold(c) ==
  /\ pc \notin {"off", "crashed"}
  /\ Step(c, "idle", "join")
  /\ UNCHANGED <<pc, answer, flags, loopvars, late, entry, forgets>>

(* Cancel the loop (there is one: a Shutdown that comes before OnStart, or *)
(* where Register is called without Maintain, is left out)...              *)
Shutdown(c) ==
  /\ pc \notin {"off", "crashed"}
  /\ Step(c, "idle", "join")
  /\ cancelled' = TRUE
  /\ UNCHANGED <<pc, answer, valid, attempted, loopvars, late, entry, forgets>>

\* Mutant of Join: the loop is told but not awaited.
JoinAtOnce(c) ==
  /\ Step(c, "join", "gate")
  /\ UNCHANGED <<pc, answer, flags, loopvars, late, entry, forgets>>

(* ...join it...                                                           *)
Join(c) ==
  /\ Step(c, "join", "gate")
  /\ pc = "done"
  /\ UNCHANGED <<pc, answer, flags, loopvars, late, entry, forgets>>

\* The stages at which a caller holds deregisterGate.
Inside == {"check", "sent", "accepted", "refused"}

(* ...and deregister, one caller at a time.                                *)
EnterGate(c) ==
  /\ Step(c, "gate", "check")
  /\ \A d \in Callers : stage[d] \notin Inside
  /\ UNCHANGED <<pc, answer, flags, loopvars, late, entry, forgets>>

\* Mutant of SkipNeverAttempted: only an acknowledged registration counts.
SkipNeverRegistered(c) ==
  /\ Step(c, "check", "ok")
  /\ ~registered
  /\ UNCHANGED <<pc, answer, flags, loopvars, late, entry, forgets>>

SkipNeverAttempted(c) ==
  /\ Step(c, "check", "ok")
  /\ ~attempted /\ ~registered
  /\ UNCHANGED <<pc, answer, flags, loopvars, late, entry, forgets>>

SendDeregister(c) ==
  /\ Step(c, "check", "sent")
  /\ attempted \/ registered
  /\ UNCHANGED <<pc, answer, flags, loopvars, late, entry, forgets>>

AgentDeregisters(c) ==
  /\ Step(c, "sent", "accepted")
  /\ Commits("deregister", "own")
  /\ UNCHANGED <<pc, answer, flags, loopvars, late, forgets>>

AgentRefusesCaller(c) ==
  /\ Step(c, "sent", "refused")
  /\ UNCHANGED <<pc, answer, flags, loopvars, late, entry, forgets>>

CallerGivesUp(c) ==
  /\ Step(c, "sent", "refused")
  /\ Abandon("deregister")
  /\ UNCHANGED <<pc, answer, flags, loopvars, entry, forgets>>

Deregistered(c) ==
  /\ Step(c, "accepted", "ok")
  /\ attempted' = FALSE
  /\ registered' = FALSE
  /\ UNCHANGED <<pc, answer, cancelled, valid, attempt, delay, late, entry,
                 forgets>>

(* The request failed, or the caller's context expired in a wait.          *)
ShutdownFails(c) ==
  /\ \E from \in {"join", "gate", "check", "refused"} : Step(c, from, "failed")
  /\ UNCHANGED <<pc, answer, flags, loopvars, late, entry, forgets>>

-----------------------------------------------------------------------------
(* The agent by itself, and the process as a whole                         *)

\* An abandoned request is late when a Shutdown has already deregistered.
LateMark ==
  IF \E c \in Callers : stage[c] \in {"accepted", "ok"} THEN "late" ELSE "own"

LateCommit(kind) ==
  /\ late[kind] > 0
  /\ late' = [late EXCEPT ![kind] = @ - 1]
  /\ Commits(kind, LateMark)
  /\ UNCHANGED <<pc, answer, flags, loopvars, stage, forgets>>

Expire ==
  /\ entry.status = "passing"
  /\ entry' = [entry EXCEPT !.status = "critical", !.beat = "none"]
  /\ UNCHANGED <<pc, answer, flags, loopvars, stage, late, forgets>>

Gone == pc \in {"done", "crashed"}

(* DeregisterCriticalServiceAfter.                                         *)
Reap ==
  /\ Gone
  /\ entry.status = "critical" /\ TTLCheck.deregisters
  /\ entry' = Absent
  /\ UNCHANGED <<pc, answer, flags, loopvars, stage, late, forgets>>

(* An agent restart, or the removal of a live but critical service.        *)
Forget ==
  /\ ~Gone
  /\ entry.status # "absent"
  /\ forgets < MaxForgets
  /\ forgets' = forgets + 1
  /\ entry' = Absent
  /\ UNCHANGED <<pc, answer, flags, loopvars, stage, late>>

Inherited(mark) == IF mark = "late" THEN "own" ELSE mark

(* The process dies; nothing of it survives but what it has sent.  What    *)
(* came late for it is for the next process to find and deregister.        *)
Crash ==
  /\ pc \notin {"off", "crashed"}
  /\ pc' = "crashed"
  /\ answer' = "none"
  /\ IF answer = "waiting" THEN Abandon(Awaited) ELSE late' = late
  /\ stage' = [c \in Callers |-> "idle"]
  /\ entry' = [entry EXCEPT !.by = Inherited(@), !.beat = Inherited(@)]
  /\ UNCHANGED <<flags, loopvars, forgets>>

(* A new process with the same service ID.                                 *)
Restart ==
  /\ pc = "crashed"
  /\ pc' = "off"
  /\ cancelled' = FALSE /\ attempted' = FALSE /\ registered' = FALSE
  /\ attempt' = 0 /\ delay' = Base
  /\ UNCHANGED <<answer, valid, stage, late, entry, forgets>>

Maintain ==
  \/ Register \/ RejectOptions \/ Established \/ Ping \/ PingAnswered
  \/ Retry \/ Leave \/ WaitOver

ShutdownStep(c) ==
  \/ Join(c) \/ EnterGate(c) \/ SkipNeverAttempted(c) \/ SendDeregister(c)
  \/ CallerGivesUp(c) \/ Deregistered(c)
  \/ stage[c] = "refused" /\ ShutdownFails(c)

Next ==
  \/ Start \/ Maintain
  \/ AgentServes \/ AgentRefuses \/ GiveUp
  \/ \E c \in Callers :
       \/ Shutdown(c) \/ ShutdownStep(c) \/ ShutdownFails(c)
       \/ AgentDeregisters(c) \/ AgentRefusesCaller(c)
  \/ \E kind \in Kinds : LateCommit(kind)
  \/ Expire \/ Reap \/ Forget
  \/ Crash \/ Restart

Spec == Init /\ [][Next]_vars

(***************************************************************************)
(* The goroutines run, the 15 second client timeout ends every request,    *)
(* and a waiter gets the gate.  Of the agent: it serves what it is asked   *)
(* again and again, and its timers fire for a service nobody keeps alive.  *)
(***************************************************************************)
Fairness ==
  /\ WF_vars(Maintain) /\ WF_vars(GiveUp)
  /\ \A c \in Callers : WF_vars(ShutdownStep(c)) /\ SF_vars(EnterGate(c))
  /\ SF_vars(pc = "registering" /\ AgentServes)
  /\ SF_vars(pc = "pinging" /\ AgentServes)
  /\ WF_vars(Gone /\ Expire) /\ WF_vars(Reap)

FairSpec == Spec /\ Fairness

-----------------------------------------------------------------------------

Clean == \E c \in Callers : stage[c] = "ok"

(* Shutdown deregisters only a loop that has ended: no heartbeat or        *)
(* registration of this process can follow the removal.                    *)
JoinsBeforeDeregister ==
  \A c \in Callers :
    stage[c] \in Inside \cup {"ok"} => pc = "done" /\ answer = "none"

(* After a Shutdown without error the agent has no entry, whichever        *)
(* registrations and removals timed out before, except one that an         *)
(* abandoned registration creates after the removal.                       *)
CleanShutdown == Clean => entry.status = "absent" \/ entry.by = "late"

(* The agent routes to this service only while a heartbeat vouches for it: *)
(* never because of a registration, late or not (consul_test.go:456), and  *)
(* after a clean Shutdown only because of an abandoned heartbeat.          *)
RoutableNeedsHeartbeat ==
  entry.status = "passing" =>
    /\ entry.beat # "none"
    /\ Clean => entry.beat = "late"

(* The n-th consecutive failure waits Base * 2^(n-1), at most MaxDelay,    *)
(* and a success starts over.                                              *)
BackoffIsExponential ==
  pc = "backoff" =>
    LET due == Base * 2^(attempt - 1)
    IN  delay = IF due > MaxDelay THEN MaxDelay ELSE due

(* The service is discoverable again and again, whatever the agent lost,   *)
(* refused or answered too late, until it is stopped or dies.              *)
StaysDiscoverable ==
  valid /\ pc = "register"
    ~> entry.status = "passing" \/ cancelled \/ pc = "crashed"

(* Every Shutdown ends, with the loop anywhere, even if its own context    *)
(* never expires.                                                          *)
ShutdownReturns ==
  \A c \in Callers : stage[c] = "join" ~> stage[c] \in {"ok", "failed", "idle"}

(* A process that is gone for good leaves nothing behind, whether or not   *)
(* it could deregister and whatever was still on its way.                  *)
GoneForGood == <>[]Gone => <>[](entry.status = "absent")

=============================================================================
