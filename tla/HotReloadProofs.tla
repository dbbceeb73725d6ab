-------------------------- MODULE HotReloadProofs ---------------------------
(***************************************************************************)
(* Hot reload as a whole, for any number of resources, documents and       *)
(* handles: its parts keep the invariants they keep on their own, and a    *)
(* joint invariant relates where Set is to where each callback is.         *)
(***************************************************************************)
EXTENDS HotReload, TLAPS

ConfigP == INSTANCE ConfigLiveProofs
             WITH Writers <- {Watch}, Subscribers <- Resources
PoolP == INSTANCE LiveResourceProofs

Parts == ConfigP!IInv /\ PoolP!OInv

\* The watch runs between Start and its return, and only then is Set called;
\* until then ptr is what the constructors are given.
Phases ==
  /\ app \in {"construct", "running", "stopping", "failed"}
  /\ watch \in {"off", "on", "cancelled", "stopped"}
  /\ watch = "off" <=> app \in {"construct", "failed"}
  /\ watch \in {"off", "stopped"} => pc[Watch] = "idle"
  /\ watch = "off" =>
       /\ conf \in {None, ptr}
       /\ \A r \in Resources : life[r] \notin {"detached", "down"}
  /\ watch # "off" =>
       \A r \in Resources : life[r] \in {"up", "detached", "down"}

\* A resource subscribes for as long as it is up.
Subscribed ==
  /\ subs = {r \in Resources : life[r] = "up"}
  /\ ended = {r \in Resources : life[r] \in {"detached", "down"}}

\* A callback is under way exactly where Set is inside it, and each is called
\* once.
Calling ==
  /\ pc[Watch] = "call" <=> inside[Watch] # None
  /\ \A r \in Resources : phase[r] # "idle" <=> inside[Watch] = r
  /\ inside[Watch] \notin todo[Watch]

\* What a resource has made of the published snapshot, by the place of its
\* callback: nothing to say yet, at work on it, using it, or done with it.
Behind(r) == applied[r] # Project[r][ptr]
Answers ==
  \A r \in Resources :
    /\ life[r] \in {"absent", "failed"} => applied[r] = None
    /\ life[r] \in {"absent", "built"} => ~stale[r]
    /\ life[r] = "built" => ~Behind(r)
    /\ phase[r] \in {"build", "ping", "client", "swap"} =>
         next[r] = Project[r][ptr]
    /\ phase[r] = "settle" => ~Behind(r)
    /\ phase[r] = "done" => (stale[r] <=> Behind(r))
    /\ life[r] = "up" /\ phase[r] = "idle" /\ r \notin todo[Watch]
         /\ pc[Watch] # "copy" =>
         (stale[r] <=> Behind(r))

Joint == Phases /\ Subscribed /\ Calling /\ Answers
IInv == Parts /\ Joint

-----------------------------------------------------------------------------

LEMMA ConfigAssumption == ConfigP!DocumentAssumption
  BY PartsAssumption DEF ConfigP!DocumentAssumption

LEMMA PoolAssumption == PoolP!ResourceAssumption
  BY PartsAssumption DEF PoolP!ResourceAssumption

(* What the goroutine and the hooks do to config.Live is what ConfigLive   *)
(* lets a single writer and its subscribers do.                            *)
LEMMA ConfigStep == [Next]_vars => [ConfigP!Next]_(ConfigP!vars)
<1> SUFFICES ASSUME Next, ~UNCHANGED cvars PROVE ConfigP!Next
  BY DEF vars, cvars, ConfigP!vars
<1>1. ASSUME NEW r \in Resources, Attach(r) \/ Detach(r) PROVE ConfigP!Next
  BY <1>1 DEF Attach, Detach, Config!Subscribe, Config!Cancel, ConfigP!Next,
              ConfigP!Subscribe, ConfigP!Cancel
<1>2. CASE Deliver
  BY <1>2 DEF Deliver, Config!ApplyUpdate, Config!RejectUpdate,
              Config!KeepCurrent, Config!CallSet, Config!Applies, Config!Goto,
              ConfigP!Next, ConfigP!ApplyUpdate, ConfigP!RejectUpdate,
              ConfigP!KeepCurrent, ConfigP!CallSet, ConfigP!Applies, ConfigP!Goto
<1>3. CASE SetStep
  BY <1>3 DEF SetStep, Config!Lock, Config!Swap, Config!Copy, Config!Unlock,
              Config!Goto, Config!Holding, ConfigP!Next, ConfigP!SetStep,
              ConfigP!Lock, ConfigP!Swap, ConfigP!Copy, ConfigP!Unlock,
              ConfigP!Goto, ConfigP!Holding
<1>4. ASSUME NEW r \in Resources, Call(r) \/ Return(r) PROVE ConfigP!Next
  BY <1>4 DEF Call, Return, Config!Invoke, Config!Return, Config!Goto,
              ConfigP!Next, ConfigP!SetStep, ConfigP!Invoke, ConfigP!Return,
              ConfigP!Goto
<1>5. QED
  BY <1>1, <1>2, <1>3, <1>4
     DEF Next, HandlerStep, cvars, Construct, ConstructFails, StopClose, Start,
         WatchReturns, Rebuild, Drain, Stop, CancelWatch

(* ...and what happens to the connections is what LiveResource lets happen *)
(* to them, with the options the projectors make of the published snapshot.*)
LEMMA PoolStep == Parts /\ Joint /\ [Next]_vars => [PoolP!Next]_(PoolP!rvars)
<1> SUFFICES ASSUME Parts, Joint, Next, ~UNCHANGED rvars PROVE PoolP!Next
  BY DEF vars, rvars, PoolP!rvars
<1>1. ASSUME NEW r \in Resources, Construct(r) PROVE PoolP!Next
  <2>1. Project[r][Injected] \in Options
    BY <1>1, ProjectAssumption
       DEF Construct, Injected, Parts, ConfigP!IInv, ConfigP!TypeOK, Joint, Phases
  <2>2. QED
    BY <1>1, <2>1
       DEF Construct, Pool!Construct, Pool!Fresh, PoolP!Next, PoolP!Construct,
           PoolP!Fresh
<1>2. ASSUME NEW r \in Resources, ConstructFails(r) \/ Attach(r)
      PROVE  PoolP!Next
  BY <1>2 DEF ConstructFails, Attach, Pool!ConstructFails, Pool!Attach,
              PoolP!Next, PoolP!ConstructFails, PoolP!Attach
<1>3. ASSUME NEW r \in Resources, Call(r) PROVE PoolP!Next
  <2>1. Project[r][arg[Watch]] \in Options
    BY <1>3, ProjectAssumption
       DEF Call, Config!Invoke, Parts, ConfigP!IInv, ConfigP!Arguments
  <2>2. QED
    BY <1>3, <2>1
       DEF Call, Pool!Notified, Pool!NotifiedSame, Pool!NotifiedChanged,
           Pool!Begun, Pool!Constructed, Pool!Go, PoolP!Next, PoolP!Notified,
           PoolP!NotifiedSame, PoolP!NotifiedChanged, PoolP!Begun,
           PoolP!Constructed, PoolP!Go
<1>4. ASSUME NEW r \in Resources, Rebuild(r) PROVE PoolP!Next
  BY <1>4
     DEF Rebuild, Pool!Rebuild, Pool!BuildFails, Pool!PingFails,
         Pool!PoolAnswers, Pool!ProbeAnswers, Pool!Create, Pool!CreateClient,
         Pool!SwapIn, Pool!Settle, Pool!SettleWith, Pool!KeepPrevious,
         Pool!Close, Pool!Fresh, Pool!Go, PoolP!Next, PoolP!Rebuild,
         PoolP!BuildFails, PoolP!PingFails, PoolP!PoolAnswers,
         PoolP!ProbeAnswers, PoolP!Create, PoolP!CreateClient, PoolP!SwapIn,
         PoolP!Settle, PoolP!SettleWith, PoolP!KeepPrevious, PoolP!Close,
         PoolP!Fresh, PoolP!Go
<1>5. ASSUME NEW r \in Resources, Return(r) PROVE PoolP!Next
  BY <1>5 DEF Return, Pool!Finish, Pool!Go, PoolP!Next, PoolP!Finish, PoolP!Go
<1>6. ASSUME NEW r \in Resources, Detach(r) \/ StopClose(r) PROVE PoolP!Next
  BY <1>6 DEF Detach, StopClose, Pool!Detach, Pool!StopClose, Pool!Close,
              PoolP!Next, PoolP!Detach, PoolP!StopClose, PoolP!Close
<1>7. ASSUME NEW h \in Handles, Drain(h) PROVE PoolP!Next
  BY <1>7 DEF Drain, Pool!Drain, Pool!Close, PoolP!Next, PoolP!Drain, PoolP!Close
<1>8. QED
  BY <1>1, <1>2, <1>3, <1>4, <1>5, <1>6, <1>7
     DEF Next, HandlerStep, rvars, Start, Deliver, WatchReturns, SetStep, Stop,
         CancelWatch

(* So each part keeps what it keeps by itself.                             *)
LEMMA PartsStep == IInv /\ [Next]_vars => Parts'
<1>1. Parts /\ Joint /\ [Next]_vars => ConfigP!IInv'
  BY ConfigStep, ConfigAssumption, ConfigP!InvariantStep DEF Parts
<1>2. Parts /\ Joint /\ [Next]_vars => PoolP!OInv'
  BY PoolStep, PoolAssumption, PoolP!OwnerStep DEF Parts
<1>3. QED
  BY <1>1, <1>2 DEF IInv, Parts

-----------------------------------------------------------------------------

(* What the joint invariant needs of the parts.                            *)
LEMMA PartsFacts ==
  ASSUME Parts
  PROVE  /\ Config!TypeOK /\ Pool!TypeOK
         /\ pc[Watch] # "idle" => arg[Watch] \in Documents
         /\ pc[Watch] \in {"copy", "notify", "call"} => ptr = arg[Watch]
         /\ pc[Watch] \notin {"notify", "call"} => todo[Watch] = {}
         /\ \A r \in Resources :
              /\ life[r] \in {"absent", "built", "failed"} => phase[r] = "idle"
              /\ phase[r] \in {"build", "ping", "client", "swap"} =>
                   next[r] \in Options /\ next[r] # applied[r]
<1>1. Config!TypeOK
  BY DEF Config!TypeOK, Parts, ConfigP!IInv, ConfigP!TypeOK
<1>2. Pool!TypeOK
  BY DEF Pool!TypeOK, Parts, PoolP!OInv, PoolP!IInv, PoolP!TypeOK
<1>3. /\ pc[Watch] # "idle" => arg[Watch] \in Documents
      /\ pc[Watch] \in {"copy", "notify", "call"} => ptr = arg[Watch]
      /\ pc[Watch] \notin {"notify", "call"} => todo[Watch] = {}
  BY DEF Parts, ConfigP!IInv, ConfigP!Arguments, ConfigP!Published,
         ConfigP!Publishing, ConfigP!Pending
<1>4. ASSUME NEW r \in Resources
      PROVE  /\ life[r] \in {"absent", "built", "failed"} => phase[r] = "idle"
             /\ phase[r] \in {"build", "ping", "client", "swap"} =>
                  next[r] \in Options /\ next[r] # applied[r]
  BY DEF Parts, PoolP!OInv, PoolP!IInv, PoolP!Begins, PoolP!Locals,
         PoolP!Building
<1>5. QED
  BY <1>1, <1>2, <1>3, <1>4

(* Every step of the process keeps the joint invariant.                    *)
LEMMA JointStep == IInv /\ [Next]_vars => Joint'
<1> SUFFICES ASSUME Parts, Joint, [Next]_vars PROVE Joint'
  BY DEF IInv
<1> USE PartsFacts, PartsAssumption
    DEF Config!TypeOK, Pool!TypeOK, Joint, Phases, Subscribed, Calling, Answers,
        Behind, cvars, rvars, appvars, Config!Goto, Pool!Go
<1>1. ASSUME NEW r \in Resources, Construct(r) PROVE Joint'
  BY <1>1 DEF Construct, Injected, Pool!Construct
<1>2. ASSUME NEW r \in Resources, ConstructFails(r) PROVE Joint'
  BY <1>2 DEF ConstructFails, Injected, Pool!ConstructFails
<1>3. ASSUME NEW r \in Resources, Attach(r) PROVE Joint'
  BY <1>3 DEF Attach, Pool!Attach, Config!Subscribe
<1>4. CASE Start
  BY <1>4 DEF Start
<1>5. CASE Deliver
  BY <1>5 DEF Deliver, Config!ApplyUpdate, Config!RejectUpdate,
              Config!KeepCurrent, Config!CallSet
<1>6. CASE WatchReturns
  BY <1>6 DEF WatchReturns
<1>7. CASE SetStep
  <2>1. CASE Config!Lock(Watch)
    BY <1>7, <2>1 DEF SetStep, Config!Lock
  <2>2. CASE Config!Swap(Watch)
    BY <1>7, <2>2 DEF SetStep, Config!Swap
  <2>3. CASE Config!Copy(Watch)
    BY <1>7, <2>3 DEF SetStep, Config!Copy
  <2>4. CASE Config!Unlock(Watch)
    BY <1>7, <2>4 DEF SetStep, Config!Unlock
  <2>5. QED
    BY <1>7, <2>1, <2>2, <2>3, <2>4 DEF SetStep
<1>8. ASSUME NEW r \in Resources, Call(r) PROVE Joint'
  <2>1. CASE Pool!NotifiedSame(r, Project[r][arg[Watch]])
    BY <1>8, <2>1
       DEF Call, Config!Invoke, Pool!NotifiedSame, Pool!Begun, Pool!Constructed
  <2>2. CASE Pool!NotifiedChanged(r, Project[r][arg[Watch]])
    BY <1>8, <2>2
       DEF Call, Config!Invoke, Pool!NotifiedChanged, Pool!Begun, Pool!Constructed
  <2>3. QED
    BY <1>8, <2>1, <2>2 DEF Call, Pool!Notified
<1>9. ASSUME NEW r \in Resources, Rebuild(r) PROVE Joint'
  BY <1>9
     DEF Rebuild, Pool!Rebuild, Pool!BuildFails, Pool!PingFails,
         Pool!PoolAnswers, Pool!ProbeAnswers, Pool!Create, Pool!CreateClient,
         Pool!SwapIn, Pool!Settle, Pool!SettleWith, Pool!KeepPrevious
<1>10. ASSUME NEW r \in Resources, Return(r) PROVE Joint'
  BY <1>10 DEF Return, Config!Return, Pool!Finish
<1>11. ASSUME NEW h \in Handles, Drain(h) PROVE Joint'
  BY <1>11 DEF Drain, Pool!Drain
<1>12. CASE Stop \/ CancelWatch
  BY <1>12 DEF Stop, CancelWatch, BetweenHooks
<1>13. ASSUME NEW r \in Resources, Detach(r) PROVE Joint'
  BY <1>13 DEF Detach, BetweenHooks, Pool!Detach, Config!Cancel
<1>14. ASSUME NEW r \in Resources, StopClose(r) PROVE Joint'
  BY <1>14 DEF StopClose, Pool!StopClose
<1>15. CASE UNCHANGED vars
  BY <1>15 DEF vars
<1>16. QED
  BY <1>1, <1>2, <1>3, <1>4, <1>5, <1>6, <1>7, <1>8, <1>9, <1>10, <1>11,
     <1>12, <1>13, <1>14, <1>15 DEF Next, HandlerStep

(* Start-up: nothing is built, nobody subscribes, the watch does not run.  *)
LEMMA Initially == Init => IInv
<1> SUFFICES ASSUME Init PROVE IInv
  OBVIOUS
<1>1. ConfigP!IInv
  <2>1. ConfigP!Init
    BY DEF Init, Config!Init, ConfigP!Init
  <2>2. QED
    BY <2>1, ConfigAssumption, ConfigP!Initially
<1>2. PoolP!OInv
  <2>1. PoolP!Init
    BY DEF Init, Pool!Init, PoolP!Init
  <2>2. PoolP!IInv
    BY <2>1, PoolAssumption, PoolP!Initially
  <2>3. QED
    BY <2>1, <2>2 DEF PoolP!Init, PoolP!OInv, PoolP!Recorded, PoolP!Open
<1>3. Joint
  BY PartsAssumption
     DEF Init, Config!Init, Pool!Init, Joint, Phases, Subscribed, Calling,
         Answers
<1>4. QED
  BY <1>1, <1>2, <1>3 DEF IInv, Parts

LEMMA Invariance == Spec => []IInv
<1>1. IInv /\ [Next]_vars => IInv'
  BY PartsStep, JointStep DEF IInv
<1>2. QED
  BY <1>1, Initially, PTL DEF Spec

-----------------------------------------------------------------------------

(* Whatever was pushed, failed, reverted or retried: between two Sets the  *)
(* gauge of every resource is right about the published configuration.     *)
THEOREM StaleTruthful == Spec => []StaleIffBehind
<1>1. IInv => StaleIffBehind
  <2> SUFFICES ASSUME IInv, Quiet, NEW r \in Resources, life[r] = "up"
               PROVE  stale[r] <=> applied[r] # Project[r][ptr]
    BY DEF StaleIffBehind
  <2>1. todo[Watch] = {} /\ phase[r] = "idle"
    BY PartsFacts, PartsAssumption DEF IInv, Joint, Calling, Quiet
  <2>2. QED
    BY <2>1 DEF IInv, Joint, Answers, Behind, Quiet
<1>2. QED
  BY <1>1, Invariance, PTL

(* However the hooks, the callbacks and the drain timers interleave, a     *)
(* shutdown that no callback outlived leaves only what its timers close.   *)
THEOREM ShutdownClean == Spec => []CleanShutdown
<1>1. IInv => CleanShutdown
  <2> SUFFICES ASSUME IInv, watch = "stopped",
                      \A r \in Resources : life[r] = "down" /\ ~overlapped[r],
                      NEW h \in Handles, built[h] # None
               PROVE  h \in draining
    BY DEF CleanShutdown, Pool!Open
  <2>1. PoolP!Kept(h)
    BY DEF IInv, Parts, PoolP!OInv, PoolP!Open
  <2>2. ASSUME NEW r \in Resources PROVE candidate[r] = None /\ prev[r] = None
    <3>1. phase[r] = "idle"
      BY PartsAssumption DEF IInv, Joint, Phases, Calling
    <3>2. QED
      BY <3>1 DEF IInv, Parts, PoolP!OInv, PoolP!IInv, PoolP!Locals
  <2>3. QED
    BY <2>1, <2>2, PartsAssumption DEF PoolP!Kept
<1>2. QED
  BY <1>1, Invariance, PTL

-----------------------------------------------------------------------------

\* The state of ReloadContract, as HotReload's instance maps it.
Wanted == [r \in Resources |-> Project[r][ptr]]
Gauge == [r \in Resources |-> stale[r] /\ phase[r] # "settle"]
Up == {r \in Resources : life[r] = "up"}
Owing == {r \in Resources : Answering(r)}

Promise == INSTANCE ReloadContract WITH
  wanted <- Wanted, inUse <- applied, stale <- Gauge, attached <- Up,
  pending <- Owing

(* Start-up is the contract's: nothing in use, nothing owed.               *)
LEMMA ContractInitially == Init => Contract!Init
<1> SUFFICES ASSUME Init PROVE Contract!Init
  OBVIOUS
<1>1. Wanted \in [Resources -> Options]
  BY PartsAssumption, ProjectAssumption DEF Init, Config!Init, Wanted
<1>2. Gauge = [r \in Resources |-> FALSE]
  BY DEF Init, Pool!Init, Gauge
<1>3. Up = {} /\ Owing = {}
  BY PartsAssumption DEF Init, Config!Init, Pool!Init, Up, Owing, Answering
<1>4. applied = [r \in Resources |-> None]
  BY DEF Init, Pool!Init
<1>5. QED
  BY <1>1, <1>2, <1>3, <1>4 DEF Contract!Init, Wanted, Gauge, Up, Owing

(* Every step is one of the contract's or invisible there: Construct       *)
(* connects, Swap publishes, a failed rebuild keeps, and a swap of handles *)
(* or a push of the options in use adopts.                                 *)
LEMMA ContractStep == IInv /\ [Next]_vars => [Contract!Next]_(Contract!vars)
<1> SUFFICES ASSUME IInv, [Next]_vars
             PROVE  Contract!Next \/ UNCHANGED Contract!vars
  OBVIOUS
<1>1. Parts /\ Joint
  BY DEF IInv
<1> USE <1>1, PartsFacts, PartsAssumption
    DEF Config!TypeOK, Pool!TypeOK, Joint, Phases, Subscribed, Calling, Answers,
        Behind, cvars, rvars, appvars, Config!Goto, Pool!Go, Answering
<1>2. ASSUME NEW r \in Resources, Construct(r) PROVE Contract!Connect(r)
  <2>1. applied[r] = None /\ applied' = [applied EXCEPT ![r] = Project[r][ptr]]
    BY <1>2 DEF Construct, Injected, Pool!Construct
  <2>2. UNCHANGED <<Wanted, Gauge, Up, Owing>>
    BY <1>2 DEF Construct, Pool!Construct, Wanted, Gauge, Up, Owing
  <2>3. QED
    BY <2>1, <2>2 DEF Contract!Connect, Wanted, Gauge, Up, Owing
<1>3. ASSUME NEW r \in Resources, Attach(r) PROVE Contract!Attach(r)
  BY <1>3 DEF Attach, Pool!Attach, Config!Subscribe, Contract!Attach
<1>4. CASE SetStep
  <2>1. CASE Config!Swap(Watch)
    <3>1. Contract!Publish([r \in Resources |-> Project[r][arg[Watch]]])
      BY <1>4, <2>1 DEF SetStep, Config!Swap, Contract!Publish
    <3>2. [r \in Resources |-> Project[r][arg[Watch]]] \in [Resources -> Options]
      BY <1>4, <2>1, ProjectAssumption DEF Config!Swap
    <3>3. QED
      BY <3>1, <3>2 DEF Contract!Next, Contract!Publish
  <2>2. CASE Config!Lock(Watch) \/ Config!Copy(Watch) \/ Config!Unlock(Watch)
    BY <1>4, <2>2
       DEF SetStep, Config!Lock, Config!Copy, Config!Unlock, Contract!vars
  <2>3. QED
    BY <1>4, <2>1, <2>2 DEF SetStep
<1>5. ASSUME NEW r \in Resources, Call(r)
      PROVE  Contract!Adopt(r) \/ UNCHANGED Contract!vars
  <2>1. CASE Pool!NotifiedSame(r, Project[r][arg[Watch]])
    <3>1. r \in Owing /\ Owing' = Owing \ {r}
      BY <1>5, <2>1
         DEF Call, Config!Invoke, Pool!NotifiedSame, Pool!Begun, Owing
    <3>2. /\ applied' = [applied EXCEPT ![r] = Project[r][ptr]]
          /\ UNCHANGED <<Wanted, Up>>
      BY <1>5, <2>1
         DEF Call, Config!Invoke, Pool!NotifiedSame, Wanted, Up
    <3>3. Gauge' = [Gauge EXCEPT ![r] = FALSE]
      BY <1>5, <2>1 DEF Call, Pool!NotifiedSame, Pool!Begun, Gauge
    <3>4. QED
      BY <3>1, <3>2, <3>3 DEF Contract!Adopt, Wanted, Gauge, Up, Owing
  <2>2. CASE Pool!NotifiedChanged(r, Project[r][arg[Watch]])
    BY <1>5, <2>2
       DEF Call, Config!Invoke, Pool!NotifiedChanged, Pool!Begun,
           Pool!Constructed, Contract!vars
  <2>3. QED
    BY <1>5, <2>1, <2>2 DEF Call, Pool!Notified
<1>6. ASSUME NEW r \in Resources, Rebuild(r)
      PROVE  \/ Contract!Adopt(r) \/ Contract!Keep(r)
             \/ UNCHANGED Contract!vars
  <2>1. CASE Pool!SwapIn(r)
    <3>1. r \in Owing /\ Owing' = Owing \ {r}
      BY <1>6, <2>1 DEF Rebuild, Pool!SwapIn, Owing
    <3>2. /\ applied' = [applied EXCEPT ![r] = Project[r][ptr]]
          /\ UNCHANGED <<Wanted, Up>>
      <4>1. next[r] = Project[r][ptr]
        BY <2>1 DEF Pool!SwapIn
      <4>2. applied' = [applied EXCEPT ![r] = next[r]]
        BY <2>1 DEF Pool!SwapIn
      <4>3. UNCHANGED <<Wanted, Up>>
        BY <1>6, <2>1 DEF Rebuild, Pool!SwapIn, Wanted, Up
      <4>4. QED
        BY <4>1, <4>2, <4>3
    <3>3. Gauge' = [Gauge EXCEPT ![r] = FALSE]
      BY <1>6, <2>1 DEF Rebuild, Pool!SwapIn, Gauge
    <3>4. QED
      BY <3>1, <3>2, <3>3 DEF Contract!Adopt, Wanted, Gauge, Up, Owing
  <2>2. CASE Pool!BuildFails(r) \/ Pool!PingFails(r)
    <3>1. r \in Owing /\ Owing' = Owing \ {r}
      BY <1>6, <2>2
         DEF Rebuild, Pool!BuildFails, Pool!PingFails, Pool!KeepPrevious, Owing
    <3>2. applied[r] # Project[r][ptr] /\ UNCHANGED <<applied, Wanted, Up>>
      BY <1>6, <2>2
         DEF Rebuild, Pool!BuildFails, Pool!PingFails, Pool!KeepPrevious,
             Wanted, Up
    <3>3. Gauge' = [Gauge EXCEPT ![r] = TRUE]
      <4>1. /\ stale' = [stale EXCEPT ![r] = TRUE]
            /\ phase' = [phase EXCEPT ![r] = "done"]
        BY <1>6, <2>2
           DEF Rebuild, Pool!BuildFails, Pool!PingFails, Pool!KeepPrevious
      <4>2. QED
        BY <4>1 DEF Gauge
    <3>4. QED
      BY <3>1, <3>2, <3>3 DEF Contract!Keep, Wanted, Gauge, Up, Owing
  <2>3. CASE \/ Pool!PoolAnswers(r) \/ Pool!ProbeAnswers(r) \/ Pool!Settle(r)
             \/ \E h \in Handles : Pool!Create(r, h) \/ Pool!CreateClient(r, h)
    BY <1>6, <2>3
       DEF Rebuild, Pool!PoolAnswers, Pool!ProbeAnswers, Pool!Create,
           Pool!CreateClient, Pool!Settle, Pool!SettleWith, Contract!vars
  <2>4. QED
    BY <1>6, <2>1, <2>2, <2>3 DEF Rebuild, Pool!Rebuild
<1>7. ASSUME NEW r \in Resources, Return(r) PROVE UNCHANGED Contract!vars
  BY <1>7 DEF Return, Config!Return, Pool!Finish, Contract!vars
<1>8. ASSUME NEW r \in Resources, Detach(r) PROVE Contract!Detach(r)
  BY <1>8 DEF Detach, Pool!Detach, Config!Cancel, Contract!Detach
<1>9. ASSUME NEW r \in Resources, ConstructFails(r) \/ StopClose(r)
      PROVE  UNCHANGED Contract!vars
  BY <1>9 DEF ConstructFails, StopClose, Pool!ConstructFails, Pool!StopClose,
              Contract!vars
<1>10. ASSUME Start \/ WatchReturns \/ Stop \/ CancelWatch
       PROVE  UNCHANGED Contract!vars
  BY <1>10 DEF Start, WatchReturns, Stop, CancelWatch, Contract!vars
<1>11. ASSUME NEW h \in Handles, Drain(h) PROVE UNCHANGED Contract!vars
  BY <1>11 DEF Drain, Pool!Drain, Contract!vars
<1>12. ASSUME Deliver PROVE UNCHANGED Contract!vars
  BY <1>12 DEF Deliver, Config!ApplyUpdate, Config!RejectUpdate,
               Config!KeepCurrent, Config!CallSet, Contract!vars
<1>13. ASSUME UNCHANGED vars PROVE UNCHANGED Contract!vars
  BY <1>13 DEF vars, Contract!vars
<1>14. QED
  BY <1>2, <1>3, <1>4, <1>5, <1>6, <1>7, <1>8, <1>9, <1>10, <1>11, <1>12, <1>13
     DEF Next, HandlerStep, Contract!Next

(* The detailed system implements what ReloadContract promises.            *)
THEOREM Refinement == Spec => ImplementsContract
<1>1. Spec => Contract!Spec
  BY ContractInitially, ContractStep, Invariance, PTL DEF Spec, Contract!Spec
<1>2. QED
  BY <1>1 DEF ImplementsContract

-----------------------------------------------------------------------------

\* Only what has connected subscribes, so nothing connects twice.
Connected == \A r \in Up : applied[r] # None

PInv == Promise!TypeOK /\ Connected /\ Promise!StaleTellsTheTruth

(* The contract delivers its promise: publishing makes every attached      *)
(* resource owe an answer, and either answer restores the equivalence.     *)
LEMMA PromiseStep ==
  PInv /\ [Promise!Next]_(Promise!vars) => PInv'
<1> SUFFICES ASSUME PInv, [Promise!Next]_(Promise!vars) PROVE PInv'
  OBVIOUS
<1> USE PartsAssumption
    DEF PInv, Promise!TypeOK, Connected, Promise!StaleTellsTheTruth
<1>1. ASSUME NEW r \in Resources, Promise!Connect(r) PROVE PInv'
  BY <1>1 DEF Promise!Connect
<1>2. ASSUME NEW r \in Resources, Promise!Attach(r) PROVE PInv'
  BY <1>2 DEF Promise!Attach
<1>3. ASSUME NEW want \in [Resources -> Options], Promise!Publish(want)
      PROVE  PInv'
  BY <1>3 DEF Promise!Publish
<1>4. ASSUME NEW r \in Resources, Promise!Adopt(r) PROVE PInv'
  BY <1>4 DEF Promise!Adopt
<1>5. ASSUME NEW r \in Resources, Promise!Keep(r) PROVE PInv'
  BY <1>5 DEF Promise!Keep
<1>6. ASSUME NEW r \in Resources, Promise!Detach(r) PROVE PInv'
  BY <1>6 DEF Promise!Detach
<1>7. CASE UNCHANGED Promise!vars
  BY <1>7 DEF Promise!vars
<1>8. QED
  BY <1>1, <1>2, <1>3, <1>4, <1>5, <1>6, <1>7 DEF Promise!Next

(* However publications, failed rebuilds and shut-downs interleave, the    *)
(* gauge of a resource that has answered is right: this much follows from  *)
(* ReloadContract alone.                                                   *)
THEOREM PromiseKept == Promise!Spec => []Promise!StaleTellsTheTruth
<1>1. Promise!Init => PInv
  BY DEF Promise!Init, PInv, Promise!TypeOK, Connected,
         Promise!StaleTellsTheTruth
<1>2. PInv => Promise!StaleTellsTheTruth
  BY DEF PInv
<1>3. QED
  BY <1>1, <1>2, PromiseStep, PTL DEF Promise!Spec

(* So what the contract promises of the gauge holds at every moment, also  *)
(* while Set is calling: of each resource that is up and has answered.     *)
THEOREM StaleTruthfulMeanwhile == Spec => []Promise!StaleTellsTheTruth
<1>1. Contract!Init => Promise!Init
  BY DEF Contract!Init, Promise!Init, Wanted, Gauge, Up, Owing
<1>2. [Contract!Next]_(Contract!vars) => [Promise!Next]_(Promise!vars)
  BY DEF Contract!Next, Contract!Connect, Contract!Attach, Contract!Publish,
         Contract!Adopt, Contract!Keep, Contract!Detach, Contract!vars,
         Promise!Next, Promise!Connect, Promise!Attach,
         Promise!Publish, Promise!Adopt, Promise!Keep,
         Promise!Detach, Promise!vars, Wanted, Gauge, Up, Owing
<1>3. Promise!Spec => []Promise!StaleTellsTheTruth
  BY PromiseKept
<1>4. QED
  BY <1>1, <1>2, <1>3, ContractInitially, ContractStep, Invariance, PTL
     DEF Spec, Promise!Spec

=============================================================================
