----------------------------- MODULE HotReload ------------------------------
(***************************************************************************)
(* Configuration hot reload in one process: config.Live fed by the watch   *)
(* goroutine, the resources that subscribe to it, and the Fx lifecycle     *)
(* around both.  Fx runs the constructors, then the OnStart hooks (which   *)
(* start the watch), and on shutdown the OnStop hooks one after the other. *)
(* The watch's OnStop cancels its context and does not wait for the        *)
(* goroutine, and Fx orders hooks by construction, which the application   *)
(* chooses: the OnStop hooks come in any order here.                       *)
(***************************************************************************)
CONSTANTS
  Documents, Decodable, Valid, Initial,   \* as in ConfigLive
  Resources, Probing, Options, Handles,   \* as in LiveResource
  Project,   \* Project[r][d]: what the Projector of r makes of document d
  Watch,     \* the watch goroutine, the only caller of Set in this module
  None

ASSUME ProjectAssumption == Project \in [Resources -> [Documents -> Options]]

\* The assumptions of the two modules this one composes.
ASSUME PartsAssumption ==
  /\ Decodable \subseteq Documents /\ Valid \subseteq Documents
  /\ Initial \in Decodable \cap Valid
  /\ Probing \subseteq Resources
  /\ None \notin Documents \cup Resources \cup Options \cup Handles

VARIABLES
  latest, ptr, subs, ended, pc, arg, old, todo, inside, known, late,
  life, phase, applied, current, next, candidate, prev, draining, stale,
  built, overlapped,
  app,     \* construct, running, stopping or failed
  watch,   \* the goroutine: off, on, cancelled or stopped
  conf     \* the T injected into constructors: Get(), read once

Config == INSTANCE ConfigLive WITH Writers <- {Watch}, Subscribers <- Resources
Pool == INSTANCE LiveResource

cvars == <<latest, ptr, subs, ended, pc, arg, old, todo, inside, known, late>>
rvars == <<life, phase, applied, current, next, candidate, prev, draining,
           stale, built, overlapped>>
appvars == <<app, watch, conf>>
vars == <<cvars, rvars, appvars>>

TypeOK ==
  /\ Config!TypeOK
  /\ Pool!TypeOK
  /\ app \in {"construct", "running", "stopping", "failed"}
  /\ watch \in {"off", "on", "cancelled", "stopped"}
  /\ conf \in Documents \cup {None}

Init ==
  /\ Config!Init
  /\ Pool!Init
  /\ app = "construct"
  /\ watch = "off"
  /\ conf = None

-----------------------------------------------------------------------------

(* The constructors.  The injected T is a singleton: whichever constructor *)
(* asks first fixes it for all of them.                                    *)
Injected == IF conf = None THEN ptr ELSE conf

Construct(r) ==
  /\ app = "construct"
  /\ conf' = Injected
  /\ \E h \in Handles : Pool!Construct(r, Project[r][Injected], h)
  /\ UNCHANGED <<cvars, app, watch>>

ConstructFails(r) ==
  /\ app = "construct"
  /\ Pool!ConstructFails(r)
  /\ app' = "failed"
  /\ conf' = Injected
  /\ UNCHANGED <<cvars, watch>>

Attach(r) ==
  /\ Pool!Attach(r)
  /\ Config!Subscribe(r)
  /\ UNCHANGED appvars

\* Mutant of Start: the watch starts before every resource subscribes.
StartEarly ==
  /\ app = "construct"
  /\ \A r \in Resources : life[r] \in {"built", "up"}
  /\ app' = "running"
  /\ watch' = "on"
  /\ UNCHANGED <<cvars, rvars, conf>>

(* Every constructor has returned; OnStart starts the watch goroutine.     *)
Start ==
  /\ app = "construct"
  /\ \A r \in Resources : life[r] = "up"
  /\ app' = "running"
  /\ watch' = "on"
  /\ UNCHANGED <<cvars, rvars, conf>>

-----------------------------------------------------------------------------

(* The source reports an update.  A cancelled source may report one more.  *)
Deliver ==
  /\ watch \in {"on", "cancelled"}
  /\ \/ \E d \in Documents :
          Config!ApplyUpdate(Watch, d) \/ Config!RejectUpdate(Watch, d)
     \/ Config!KeepCurrent(Watch)
  /\ UNCHANGED <<rvars, appvars>>

(* Watch returns, after cancellation or by an error of its own: the last   *)
(* known good configuration stays.                                         *)
WatchReturns ==
  /\ watch \in {"on", "cancelled"}
  /\ pc[Watch] = "idle"
  /\ watch' = "stopped"
  /\ UNCHANGED <<cvars, rvars, app, conf>>

(* Set, up to and after its callbacks.                                     *)
SetStep ==
  /\ \/ Config!Lock(Watch) \/ Config!Swap(Watch)
     \/ Config!Copy(Watch) \/ Config!Unlock(Watch)
  /\ UNCHANGED <<rvars, appvars>>

(* Set calls the callback of r with the snapshot it published...           *)
Call(r) ==
  /\ Config!Invoke(Watch, r)
  /\ Pool!Notified(r, Project[r][arg[Watch]])
  /\ UNCHANGED appvars

(* ...which works for a while...                                           *)
Rebuild(r) ==
  /\ Pool!Rebuild(r)
  /\ UNCHANGED <<cvars, appvars>>

(* ...and returns to Set.                                                  *)
Return(r) ==
  /\ inside[Watch] = r
  /\ Config!Return(Watch)
  /\ Pool!Finish(r)
  /\ UNCHANGED appvars

Drain(h) ==
  /\ Pool!Drain(h)
  /\ UNCHANGED <<cvars, appvars>>

-----------------------------------------------------------------------------

(* Shutdown: each OnStop hook once, never two at a time.                   *)
Stop ==
  /\ app = "running"
  /\ app' = "stopping"
  /\ UNCHANGED <<cvars, rvars, watch, conf>>

BetweenHooks == app = "stopping" /\ \A r \in Resources : life[r] # "detached"

CancelWatch ==
  /\ BetweenHooks
  /\ watch = "on"
  /\ watch' = "cancelled"
  /\ UNCHANGED <<cvars, rvars, app, conf>>

Detach(r) ==
  /\ BetweenHooks
  /\ Pool!Detach(r)
  /\ Config!Cancel(r)
  /\ UNCHANGED appvars

StopClose(r) ==
  /\ Pool!StopClose(r)
  /\ UNCHANGED <<cvars, appvars>>

-----------------------------------------------------------------------------

\* The steps of the goroutine between two events of the source.
HandlerStep ==
  \/ SetStep
  \/ \E r \in Resources : Call(r) \/ Rebuild(r) \/ Return(r)

Next ==
  \/ \E r \in Resources :
       \/ Construct(r) \/ ConstructFails(r) \/ Attach(r)
       \/ Detach(r) \/ StopClose(r)
  \/ Start \/ Deliver \/ WatchReturns \/ HandlerStep
  \/ \E h \in Handles : Drain(h)
  \/ Stop \/ CancelWatch

Spec == Init /\ [][Next]_vars

(* The handler runs on: a dial, a ping and a Close are bounded by timeouts.*)
(* Drain timers fire.  Nothing is assumed of the source or of shutdown.    *)
FairSpec ==
  Spec /\ WF_vars(HandlerStep) /\ \A h \in Handles : WF_vars(Drain(h))

-----------------------------------------------------------------------------

Quiet == pc[Watch] \in {"idle", "lock"}

(* Once Set has returned, a resource that is up says it is stale exactly   *)
(* when it runs on other options than the published ones, whatever failed, *)
(* was reverted or was retried before.                                     *)
StaleIffBehind ==
  Quiet => \A r \in Resources :
             life[r] = "up" => (stale[r] <=> applied[r] # Project[r][ptr])

(* After shutdown only handles with a running drain timer are open, unless *)
(* a callback outlived its OnStop: unsubscribe waits for none, and what    *)
(* such a callback swaps in is closed by nobody.                           *)
CleanShutdown ==
  watch = "stopped" /\ (\A r \in Resources : life[r] = "down" /\ ~overlapped[r])
    => Pool!Open \subseteq draining

(* Every published configuration gets its answer: the handler does not get *)
(* stuck in a rebuild or behind one.                                       *)
PushSettles == pc[Watch] = "lock" ~> pc[Watch] = "idle"

(* The resources together implement ReloadContract.  The gauge is cleared  *)
(* a step after the swap; the swap is where the contract sees an adoption. *)
Answering(r) ==
  \/ pc[Watch] = "copy" /\ r \in subs
  \/ r \in todo[Watch]
  \/ inside[Watch] = r /\ phase[r] \in {"build", "ping", "client", "swap"}

Contract == INSTANCE ReloadContract WITH
  wanted <- [r \in Resources |-> Project[r][ptr]],
  inUse <- applied,
  stale <- [r \in Resources |-> stale[r] /\ phase[r] # "settle"],
  attached <- {r \in Resources : life[r] = "up"},
  pending <- {r \in Resources : Answering(r)}

ImplementsContract == Contract!Spec

(* What internal/stale/stale.go:21 says of the gauge, when no push is      *)
(* being handled: 1 while a component runs on configuration older than the *)
(* latest push, and 0 otherwise.                                           *)
GaugeCoversLatestPush ==
  pc[Watch] = "idle" /\ latest # None =>
    \A r \in Resources :
      life[r] = "up" => (stale[r] <=> applied[r] # Project[r][latest])

=============================================================================
