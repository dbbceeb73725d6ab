------------------------ MODULE ConsulRegistryProofs ------------------------
(***************************************************************************)
(* What a registration promises, for any number of callers of Shutdown,    *)
(* any retry delays and any number of requests that are still on their     *)
(* way.                                                                    *)
(***************************************************************************)
EXTENDS ConsulRegistry, TLAPS

\* Normalisation leaves two positive delays in order, and the next wait is
\* between them.
Delays == Base <= delay /\ delay <= MaxDelay

\* Only a loop that has sent something waits for an answer.
Waiting == answer # "none" => pc \in {"registering", "pinging"}

\* Who waits for the gate or is past it has joined the loop, which stays ended.
Joined ==
  \A c \in Callers : stage[c] \in Inside \cup {"gate", "ok"} => pc = "done"

\* With options that are not valid nothing is ever sent.
NeverSent ==
  ~valid =>
    /\ entry = Absent /\ answer = "none"
    /\ ~attempted /\ ~registered
    /\ pc \in {"off", "register", "done", "crashed"}
    /\ \A k \in Kinds : late[k] = 0
    /\ \A c \in Callers : stage[c] \notin {"sent", "accepted"}

\* Only a Shutdown that has deregistered forgets that an attempt was made.
Remembered ==
  valid /\ ~attempted => pc \in {"off", "register", "crashed"} \/ Clean

\* The agent has done what some Shutdown asked.
Removed == \E c \in Callers : stage[c] \in {"accepted", "ok"}

\* What is at the agent after that came there late.
CameLate(e) ==
  /\ e.status = "absent" \/ e.by = "late"
  /\ e.status = "passing" => e.beat = "late"

OnlyLate == Removed => CameLate(entry)

Vouched == entry.status = "passing" => entry.beat # "none"

Loop == Delays /\ Waiting /\ Joined /\ NeverSent /\ Remembered
IInv == TypeOK /\ Loop /\ OnlyLate /\ Vouched

-----------------------------------------------------------------------------

(* Whatever the options are: 0 < Base <= MaxDelay.                         *)
LEMMA DelayOrder == Base \in Nat \ {0} /\ MaxDelay \in Nat /\ Base <= MaxDelay
  BY RegistryAssumption DEF Base, MaxDelay

(* A doubled delay stays between the two.                                  *)
LEMMA DoubledBounded ==
  ASSUME NEW d \in Nat \ {0}, Base <= d, d <= MaxDelay
  PROVE  Doubled(d) \in Nat \ {0} /\ Base <= Doubled(d) /\ Doubled(d) <= MaxDelay
  BY DelayOrder DEF Doubled

(* What the agent makes of a request is an entry; it passes only by a      *)
(* heartbeat, and a request that comes late leaves what came late.         *)
LEMMA CommitEffect ==
  ASSUME TypeOK, NEW kind \in Kinds, NEW mark \in {"own", "late"},
         Commits(kind, mark)
  PROVE  /\ entry' \in Entries
         /\ Vouched => Vouched'
         /\ mark = "late" /\ CameLate(entry) => CameLate(entry')
<1> USE DEF TypeOK, Entries, Marks, Vouched, CameLate
<1>1. CASE kind = "register" /\ entry' \in AfterRegister(mark)
  BY <1>1 DEF AfterRegister, TTLCheck
<1>2. CASE entry.status # "absent" /\ entry' = AfterPing(mark)
  BY <1>2 DEF AfterPing
<1>3. CASE entry' = Absent
  BY <1>3 DEF Absent
<1>4. QED
  BY <1>1, <1>2, <1>3 DEF Commits

-----------------------------------------------------------------------------

(* The steps of Maintain.                                                  *)
LEMMA MaintainStep == IInv /\ (Start \/ Maintain) => IInv'
<1> SUFFICES ASSUME IInv, Start \/ Maintain PROVE IInv'
  OBVIOUS
<1> USE DelayOrder, RegistryAssumption
    DEF IInv, TypeOK, Loop, Waiting, Joined, NeverSent, Remembered, Clean,
        OnlyLate, Removed, Vouched, CameLate, Inside, Delays, flags, loopvars
<1>1. CASE Start
  BY <1>1 DEF Start
<1>2. CASE Register
  BY <1>2 DEF Register, Send
<1>3. CASE RejectOptions
  BY <1>3 DEF RejectOptions
<1>4. CASE Established
  BY <1>4 DEF Established
<1>5. CASE Ping
  BY <1>5 DEF Ping, Send
<1>6. CASE PingAnswered
  BY <1>6 DEF PingAnswered
<1>7. CASE Retry
  BY <1>7 DEF Retry, CountAttempt
<1>8. CASE Leave
  BY <1>8 DEF Leave
<1>9. CASE WaitOver
  <2>1. /\ delay' \in Nat \ {0}
        /\ Base <= delay' /\ delay' <= MaxDelay
    BY <1>9, DoubledBounded DEF WaitOver
  <2>2. QED
    BY <1>9, <2>1 DEF WaitOver
<1>10. QED
  BY <1>1, <1>2, <1>3, <1>4, <1>5, <1>6, <1>7, <1>8, <1>9 DEF Maintain

(* The steps of the callers of Shutdown and of the agent's answers to them.*)
LEMMA ShutdownInvariant ==
  ASSUME IInv, NEW c \in Callers,
         \/ Shutdown(c) \/ ShutdownStep(c) \/ ShutdownFails(c)
         \/ AgentDeregisters(c) \/ AgentRefusesCaller(c)
  PROVE  IInv'
<1> USE DelayOrder, RegistryAssumption
    DEF IInv, TypeOK, Loop, Waiting, Joined, NeverSent, Remembered, Clean,
        OnlyLate, Removed, Vouched, CameLate, Inside, Delays, flags, loopvars,
        Step
<1>1. CASE Shutdown(c)
  BY <1>1 DEF Shutdown
<1>2. CASE Join(c)
  BY <1>2 DEF Join
<1>3. CASE EnterGate(c)
  BY <1>3 DEF EnterGate
<1>4. CASE SkipNeverAttempted(c)
  <2>1. pc = "done" /\ ~attempted
    BY <1>4 DEF SkipNeverAttempted
  <2>2. CASE valid
    <3>1. Removed
      BY <2>1, <2>2
    <3>2. QED
      BY <1>4, <3>1, <2>1 DEF SkipNeverAttempted
  <2>3. CASE ~valid
    BY <1>4, <2>3 DEF SkipNeverAttempted, Absent
  <2>4. QED
    BY <2>2, <2>3
<1>5. CASE SendDeregister(c)
  BY <1>5 DEF SendDeregister
<1>6. CASE AgentDeregisters(c)
  BY <1>6 DEF AgentDeregisters, Commits, Absent, Entries, Marks
<1>7. CASE AgentRefusesCaller(c)
  BY <1>7 DEF AgentRefusesCaller
<1>8. CASE CallerGivesUp(c)
  BY <1>8 DEF CallerGivesUp, Abandon, Kinds
<1>9. CASE Deregistered(c)
  BY <1>9 DEF Deregistered
<1>10. CASE ShutdownFails(c)
  BY <1>10 DEF ShutdownFails
<1>11. QED
  BY <1>1, <1>2, <1>3, <1>4, <1>5, <1>6, <1>7, <1>8, <1>9, <1>10 DEF ShutdownStep

(* The agent's own steps, a crash and a restart.                           *)
LEMMA AgentStep ==
  ASSUME IInv,
         \/ AgentServes \/ AgentRefuses \/ GiveUp
         \/ \E kind \in Kinds : LateCommit(kind)
         \/ Expire \/ Reap \/ Forget \/ Crash \/ Restart
  PROVE  IInv'
<1> USE DelayOrder, RegistryAssumption
    DEF IInv, TypeOK, Loop, Waiting, Joined, NeverSent, Remembered, Clean,
        OnlyLate, Removed, Vouched, CameLate, Inside, Delays, flags, loopvars
<1>1. CASE AgentServes
  <2>1. Awaited \in Kinds /\ ~Removed /\ valid
    BY <1>1 DEF AgentServes, Awaited, Kinds
  <2>2. entry' \in Entries /\ Vouched'
    BY <1>1, <2>1, CommitEffect DEF AgentServes
  <2>3. QED
    BY <1>1, <2>1, <2>2 DEF AgentServes
<1>2. CASE AgentRefuses
  BY <1>2 DEF AgentRefuses
<1>3. CASE GiveUp
  BY <1>3 DEF GiveUp, Abandon, Awaited, Kinds
<1>4. ASSUME NEW kind \in Kinds, LateCommit(kind) PROVE IInv'
  <2>1. Commits(kind, LateMark) /\ LateMark \in {"own", "late"}
    BY <1>4 DEF LateCommit, LateMark
  <2>2. entry' \in Entries /\ Vouched' /\ OnlyLate'
    BY <1>4, <2>1, CommitEffect DEF LateCommit, LateMark
  <2>3. NeverSent'
    BY <1>4 DEF LateCommit
  <2>4. QED
    BY <1>4, <2>2, <2>3 DEF LateCommit
<1>5. CASE Expire
  <2>1. /\ entry' \in Entries /\ Vouched'
        /\ CameLate(entry) => CameLate(entry')
        /\ entry # Absent
    <3>1. entry' = [entry EXCEPT !.status = "critical", !.beat = "none"]
      BY <1>5 DEF Expire
    <3>2. /\ entry' \in Entries
          /\ entry'.status = "critical" /\ entry'.by = entry.by
      BY <3>1 DEF Entries, Marks
    <3>3. QED
      BY <1>5, <3>2 DEF Expire, Absent
  <2>2. QED
    BY <1>5, <2>1 DEF Expire
<1>6. CASE Reap
  BY <1>6 DEF Reap, Entries, Marks, Absent
<1>7. CASE Forget
  BY <1>7 DEF Forget, Entries, Marks, Absent, Gone
<1>8. CASE Crash
  <2>1. entry' \in Entries /\ Vouched' /\ (entry = Absent => entry' = Absent)
    <3>1. entry' = [entry EXCEPT !.by = Inherited(@), !.beat = Inherited(@)]
      BY <1>8 DEF Crash
    <3>2. /\ entry' \in Entries
          /\ entry'.status = entry.status
          /\ entry'.by = Inherited(entry.by)
          /\ entry'.beat = Inherited(entry.beat)
      BY <3>1 DEF Entries, Marks, Inherited
    <3>3. QED
      BY <3>2 DEF Inherited, Entries, Absent
  <2>2. late' \in [Kinds -> 0..MaxLate]
    <3>1. CASE late' = late
      BY <3>1
    <3>2. CASE Abandon(Awaited)
      BY <3>2 DEF Abandon, Awaited, Kinds
    <3>3. QED
      BY <1>8, <3>1, <3>2 DEF Crash
  <2>3. ~valid => late' = late
    BY <1>8 DEF Crash
  <2>4. QED
    BY <1>8, <2>1, <2>2, <2>3 DEF Crash
<1>9. CASE Restart
  <2>1. TypeOK' /\ Delays' /\ Waiting'
    <3>1. /\ attempt' \in 0..AttemptCap /\ delay' = Base
          /\ pc = "crashed" /\ pc' = "off"
          /\ UNCHANGED <<answer, valid, stage, late, entry, forgets>>
      BY <1>9 DEF Restart
    <3>2. /\ cancelled' \in BOOLEAN /\ attempted' \in BOOLEAN
          /\ registered' \in BOOLEAN
      BY <1>9 DEF Restart
    <3>3. TypeOK' /\ Waiting'
      BY <3>1, <3>2
    <3>4. Delays'
      BY <3>1 DEF Base, MaxDelay
    <3>5. QED
      BY <3>3, <3>4
  <2>2. Joined' /\ NeverSent' /\ Remembered'
    BY <1>9 DEF Restart
  <2>3. OnlyLate' /\ Vouched'
    BY <1>9 DEF Restart
  <2>4. QED
    BY <2>1, <2>2, <2>3
<1>10. QED
  BY <1>1, <1>2, <1>3, <1>4, <1>5, <1>6, <1>7, <1>8, <1>9

LEMMA InvariantStep == IInv /\ [Next]_vars => IInv'
<1>1. CASE Start \/ Maintain
  BY <1>1, MaintainStep
<1>2. ASSUME IInv, NEW c \in Callers,
             \/ Shutdown(c) \/ ShutdownStep(c) \/ ShutdownFails(c)
             \/ AgentDeregisters(c) \/ AgentRefusesCaller(c)
      PROVE  IInv'
  BY <1>2, ShutdownInvariant
<1>3. ASSUME IInv,
             \/ AgentServes \/ AgentRefuses \/ GiveUp
             \/ \E kind \in Kinds : LateCommit(kind)
             \/ Expire \/ Reap \/ Forget \/ Crash \/ Restart
      PROVE  IInv'
  BY <1>3, AgentStep
<1>4. ASSUME IInv, UNCHANGED vars PROVE IInv'
  BY <1>4
     DEF vars, IInv, TypeOK, Loop, Delays, Waiting, Joined, NeverSent,
         Remembered, Clean, OnlyLate, Removed, CameLate, Vouched
<1>5. QED
  BY <1>1, <1>2, <1>3, <1>4 DEF Next

(* No process has started, and the agent has no entry.                     *)
LEMMA Initially == Init => IInv
<1> SUFFICES ASSUME Init PROVE IInv
  OBVIOUS
<1>1. TypeOK
  <2>1. /\ cancelled \in BOOLEAN /\ valid \in BOOLEAN
        /\ attempted \in BOOLEAN /\ registered \in BOOLEAN
    BY DEF Init
  <2>2. /\ attempt \in 0..AttemptCap /\ forgets \in 0..MaxForgets
        /\ delay \in Nat \ {0}
    BY DelayOrder, RegistryAssumption DEF Init
  <2>3. late \in [Kinds -> 0..MaxLate]
    BY RegistryAssumption DEF Init
  <2>4. entry \in Entries
    BY DEF Init, Entries, Marks, Absent
  <2>5. QED
    BY <2>1, <2>2, <2>3, <2>4 DEF Init, TypeOK
<1>2. Loop
  BY DelayOrder
     DEF Init, Loop, Delays, Waiting, Joined, NeverSent, Remembered, Inside
<1>3. OnlyLate /\ Vouched
  BY DEF Init, OnlyLate, Removed, Vouched, Absent
<1>4. QED
  BY <1>1, <1>2, <1>3 DEF IInv

LEMMA Invariance == Spec => []IInv
  BY Initially, InvariantStep, PTL DEF Spec

-----------------------------------------------------------------------------
(* The backoff, from its invariant                                         *)

\* The wait after n + 1 consecutive failures.
WaitAfter(n) == IF Base * 2^n > MaxDelay THEN MaxDelay ELSE Base * 2^n

\* The failure that is waited for is counted already; while the loop tries,
\* delay is the wait after the next failure.
Growing ==
  /\ pc \notin {"backoff", "done", "crashed"} => delay = WaitAfter(attempt)
  /\ pc = "backoff" => attempt > 0 /\ delay = WaitAfter(attempt - 1)

\* What 2^n means; the provers know of its values that they are integers.
PowersDouble == \A n \in Nat : 2^(n + 1) = 2 * 2^n

(* The first wait is Base, each is the double of the one before it until   *)
(* they reach MaxDelay, and there they stay when the count does.           *)
LEMMA Waits ==
  ASSUME PowersDouble
  PROVE  /\ WaitAfter(0) = Base
         /\ WaitAfter(AttemptCap) = MaxDelay
         /\ WaitAfter(AttemptCap - 1) = MaxDelay
         /\ \A n \in Nat :
              WaitAfter(n + 1) =
                IF WaitAfter(n) < MaxDelay THEN Doubled(WaitAfter(n))
                ELSE WaitAfter(n)
<1>0. Base \in Nat /\ MaxDelay \in Nat /\ Base > 0 /\ Base <= MaxDelay
  BY DelayOrder
<1>1. \A n \in Nat : Base * 2^n \in Int
  BY <1>0
<1>2. \A n \in Nat : Base * 2^(n + 1) = 2 * (Base * 2^n)
  BY <1>0 DEF PowersDouble
<1>3. WaitAfter(0) = Base
  <2>1. 2^0 = 1
    OBVIOUS
  <2>2. Base * 2^0 = Base
    BY <1>0, <2>1
  <2> QED BY <1>0, <2>2 DEF WaitAfter
<1>4. \A n \in Nat :
        WaitAfter(n + 1) = IF WaitAfter(n) < MaxDelay
                           THEN Doubled(WaitAfter(n)) ELSE WaitAfter(n)
  <2> TAKE n \in Nat
  <2>1. PICK b \in Int : b = Base * 2^n
    BY <1>1
  <2>2. Base * 2^(n + 1) = 2 * b
    BY <1>2, <2>1
  <2> QED BY <1>0, <2>1, <2>2 DEF WaitAfter, Doubled
<1>5. WaitAfter(AttemptCap - 1) = MaxDelay
  <2>1. AttemptCap - 1 \in Nat
    BY RegistryAssumption
  <2> QED BY <1>0, <1>1, <2>1, CapAssumption DEF WaitAfter
<1>6. WaitAfter(AttemptCap) = MaxDelay
  <2>1. PICK n \in Nat : n = AttemptCap - 1 /\ n + 1 = AttemptCap
    BY RegistryAssumption
  <2> QED BY <1>0, <1>4, <1>5, <2>1
<1> QED BY <1>3, <1>4, <1>5, <1>6

LEMMA GrowingStep ==
  ASSUME PowersDouble
  PROVE  IInv /\ Growing /\ [Next]_vars => Growing'
<1> SUFFICES ASSUME IInv, Growing, [Next]_vars PROVE Growing'
  OBVIOUS
<1>0. attempt \in Nat /\ attempt <= AttemptCap /\ AttemptCap \in Nat
  BY RegistryAssumption DEF IInv, TypeOK
<1>1. CASE Retry
  <2>1. attempt' > 0 /\ pc' = "backoff" /\ delay' = WaitAfter(attempt)
    BY <1>0, <1>1, RegistryAssumption DEF Retry, CountAttempt, Growing
  <2>2. CASE attempt < AttemptCap
    <3>1. attempt' - 1 = attempt
      BY <1>0, <1>1, <2>2 DEF Retry, CountAttempt
    <3> QED BY <2>1, <3>1 DEF Growing
  <2>3. CASE attempt = AttemptCap
    <3>1. attempt' = AttemptCap
      BY <1>0, <1>1, <2>3 DEF Retry, CountAttempt
    <3> QED BY <2>1, <2>3, <3>1, Waits DEF Growing
  <2> QED BY <1>0, <2>2, <2>3
<1>2. CASE WaitOver
  <2>1. PICK n \in Nat : n = attempt - 1 /\ n + 1 = attempt
    BY <1>0, <1>2 DEF WaitOver, Growing
  <2>2. /\ delay = WaitAfter(n) /\ pc' = "register" /\ attempt' = n + 1
        /\ delay' = IF delay < MaxDelay THEN Doubled(delay) ELSE delay
    BY <1>2, <2>1 DEF WaitOver, Growing
  <2>3. delay' = WaitAfter(n + 1)
    BY <2>2, Waits
  <2> QED BY <2>2, <2>3 DEF Growing
<1>3. CASE Established \/ Restart
  BY <1>3, Waits DEF Established, Restart, Growing
<1>4. CASE \/ Start \/ Register \/ RejectOptions \/ Ping \/ PingAnswered
           \/ Leave
  BY <1>4 DEF Start, Register, RejectOptions, Ping, PingAnswered, Leave,
              loopvars, Growing
<1>5. CASE \/ AgentServes \/ AgentRefuses \/ GiveUp
           \/ \E kind \in Kinds : LateCommit(kind)
           \/ Expire \/ Reap \/ Forget \/ Crash
  BY <1>5 DEF AgentServes, AgentRefuses, GiveUp, LateCommit, Expire, Reap,
              Forget, Crash, loopvars, Growing
<1>6. CASE \E c \in Callers :
             \/ Shutdown(c) \/ ShutdownStep(c) \/ ShutdownFails(c)
             \/ AgentDeregisters(c) \/ AgentRefusesCaller(c)
  <2>1. UNCHANGED <<pc, attempt, delay>>
    BY <1>6 DEF Shutdown, ShutdownStep, ShutdownFails, AgentDeregisters,
                AgentRefusesCaller, Join, EnterGate, SkipNeverAttempted,
                SendDeregister, CallerGivesUp, Deregistered, loopvars
  <2> QED BY <2>1 DEF Growing
<1>7. CASE UNCHANGED vars
  BY <1>7 DEF vars, Growing
<1> QED BY <1>1, <1>2, <1>3, <1>4, <1>5, <1>6, <1>7 DEF Next, Maintain

-----------------------------------------------------------------------------

(* The loop, its callers and the agent's entry have the values listed for  *)
(* them, also after crashes and late commits.                              *)
THEOREM TypeCorrect == Spec => []TypeOK
<1>1. IInv => TypeOK
  BY DEF IInv
<1>2. QED
  BY <1>1, Invariance, PTL

(* The wait between two attempts stays between the two retry delays,       *)
(* normalised, for any configured values, also of zero or out of order,    *)
(* and after any number of failures.                                       *)
THEOREM DelayBounded == Spec => [](Base <= delay /\ delay <= MaxDelay)
<1>1. IInv => Base <= delay /\ delay <= MaxDelay
  BY DEF IInv, Loop, Delays
<1>2. QED
  BY <1>1, Invariance, PTL

(* However many callers shut down, none deregisters a loop that can still  *)
(* send.                                                                   *)
THEOREM DeregistersAfterJoin == Spec => []JoinsBeforeDeregister
<1>1. IInv => JoinsBeforeDeregister
  BY DEF IInv, Loop, Joined, Waiting, JoinsBeforeDeregister
<1>2. QED
  BY <1>1, Invariance, PTL

(* A Shutdown without error, of whichever caller, means that the agent has *)
(* nothing of this process but what an abandoned request brings later.     *)
THEOREM ShutdownClean == Spec => []CleanShutdown
<1>1. IInv => CleanShutdown
  BY DEF IInv, OnlyLate, Removed, CameLate, Clean, CleanShutdown
<1>2. QED
  BY <1>1, Invariance, PTL

(* Nothing but a heartbeat makes the agent route to the service.           *)
THEOREM RoutableByHeartbeat == Spec => []RoutableNeedsHeartbeat
<1>1. IInv => RoutableNeedsHeartbeat
  BY DEF IInv, OnlyLate, Removed, CameLate, Clean, Vouched,
         RoutableNeedsHeartbeat
<1>2. QED
  BY <1>1, Invariance, PTL

(* The n-th consecutive failure waits Base * 2^(n-1) or MaxDelay, for any  *)
(* configured delays, and only an established registration (or a new       *)
(* process) starts over.                                                   *)
THEOREM BackoffDoubles ==
  ASSUME PowersDouble
  PROVE  Spec => []BackoffIsExponential
<1>1. Init => Growing
  BY Waits DEF Init, Growing
<1>2. IInv /\ Growing /\ [Next]_vars => Growing'
  BY GrowingStep
<1>3. Growing => BackoffIsExponential
  BY DEF Growing, WaitAfter, BackoffIsExponential
<1>4. QED
  BY <1>1, <1>2, <1>3, Invariance, PTL DEF Spec

=============================================================================
