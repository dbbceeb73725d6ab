-------------------------- MODULE TelemetryProofs ---------------------------
(***************************************************************************)
(* What the telemetry of a process promises: the providers, for any set of *)
(* enabled signals and any number of callers that stop them at once; and   *)
(* the gauge of stale components that is exported through them, for any    *)
(* number of components that register at once, change state and are        *)
(* collected.                                                              *)
(***************************************************************************)
EXTENDS OTelLifecycle, StaleGauge, SequenceTheorems, TLAPS

-----------------------------------------------------------------------------
(* The providers: set-up, its undoing, and everybody who stops them        *)

Settled == {"undo", "ready", "failed"}

\* What still has workers is what the group has still to shut down, and
\* nothing is added once the round, which its runner waits for, has begun.
Round ==
  /\ running \subseteq Range(funcs)
  /\ once # "fresh" => stage \in Settled
  /\ once = "busy" => runner \in Everyone /\ at[runner] = "waiting"
  /\ once = "done" => funcs = <<>>

\* Set-up calls the group when it fails and nobody else does then.
Undone ==
  /\ shutdown <=> stage = "ready"
  /\ at[Setup] # "idle" => stage \in {"undo", "failed"}
  /\ at[Setup] = "returned" => once = "done"
  /\ stage = "failed" => at[Setup] = "returned"

\* Who has found the shutdown function leaves when the round is over, and
\* with its error.
Told ==
  \A c \in Callers :
    /\ at[c] = "waiting" => stage = "ready"
    /\ joined[c] => at[c] # "idle"
    /\ joined[c] /\ at[c] = "returned" => once = "done" /\ result[c] = err

IInv == TypeOK /\ Round /\ Undone /\ Told

-----------------------------------------------------------------------------

(* The last of a sequence leaves its front, which has every other element. *)
LEMMA FrontOfSeq ==
  ASSUME NEW S, NEW q \in Seq(S), q # <<>>
  PROVE  /\ Last(q) \in S
         /\ Front(q) \in Seq(S)
         /\ Range(q) \ {Last(q)} \subseteq Range(Front(q))
<1>1. Len(q) \in Nat \ {0}
  OBVIOUS
<1>2. Front(q) \in Seq(S) /\ Len(Front(q)) = Len(q) - 1
  <2>1. PICK n \in Nat : n = Len(q) - 1
    BY <1>1
  <2>2. \A i \in 1..n : q[i] \in S
    BY <1>1, <2>1
  <2>3. SubSeq(q, 1, n) \in Seq(S) /\ Len(SubSeq(q, 1, n)) = n
    BY <2>2, SubSeqProperties
  <2> QED BY <2>1, <2>3 DEF Front
<1>3. \A i \in 1..(Len(q) - 1) : Front(q)[i] = q[i]
  BY <1>1 DEF Front
<1>4. ASSUME NEW x \in Range(q) \ {Last(q)} PROVE x \in Range(Front(q))
  <2>1. PICK i \in 1..Len(q) : x = q[i]
    BY DEF Range
  <2>2. i \in 1..(Len(q) - 1)
    BY <2>1, <1>1 DEF Last
  <2>3. i \in DOMAIN Front(q) /\ Front(q)[i] = x
    BY <1>2, <1>3, <2>1, <2>2
  <2> QED BY <2>3 DEF Range
<1> QED BY <1>1, <1>2, <1>4 DEF Last

(* A sequence that grows keeps its elements.                               *)
LEMMA RangeOfAppend ==
  ASSUME NEW S, NEW q \in Seq(S), NEW x \in S
  PROVE  /\ Append(q, x) \in Seq(S)
         /\ Range(Append(q, x)) = Range(q) \cup {x}
<1>1. /\ DOMAIN Append(q, x) = 1..(Len(q) + 1)
      /\ \A i \in 1..Len(q) : Append(q, x)[i] = q[i]
      /\ Append(q, x)[Len(q) + 1] = x
      /\ Append(q, x) \in Seq(S) /\ DOMAIN q = 1..Len(q) /\ Len(q) \in Nat
  OBVIOUS
<1>2. 1..(Len(q) + 1) = 1..Len(q) \cup {Len(q) + 1}
  BY <1>1
<1> QED BY <1>1, <1>2 DEF Range

LEMMA EmptyRange == Range(<<>>) = {}
  BY DEF Range

-----------------------------------------------------------------------------

LEMMA SDKInit == Init => IInv
<1> SUFFICES ASSUME Init PROVE IInv
  OBVIOUS
<1> USE OTelAssumption DEF Init, Everyone
<1>1. TypeOK
  <2>1. funcs \in Seq(Signals)
    BY EmptySeq
  <2>2. /\ at \in [Everyone -> {"idle", "waiting", "returned"}]
        /\ joined \in [Everyone -> BOOLEAN]
        /\ result \in [Everyone -> BOOLEAN]
    OBVIOUS
  <2> QED BY <2>1, <2>2 DEF TypeOK
<1>2. Round
  BY DEF Round
<1>3. Undone /\ Told
  BY DEF Undone, Told
<1> QED BY <1>1, <1>2, <1>3 DEF IInv

(* What set-up goes through on its way: none of it is settled but ready.   *)
LEMMA AfterStage ==
  ASSUME NEW s \in Signals \cup {"resource", "runtime"}
  PROVE  /\ s \notin Settled
         /\ After(s) \in Signals \cup {"runtime", "ready"}
  BY DEF Signals, Settled, After

(* Before set-up has settled the group is as fresh as at the beginning.    *)
LEMMA Unsettled ==
  IInv /\ stage \notin Settled =>
    /\ once = "fresh" /\ at[Setup] = "idle"
    /\ \A c \in Callers : at[c] # "waiting" /\ (joined[c] => at[c] # "returned")
  BY OTelAssumption DEF IInv, TypeOK, Round, Undone, Told, Settled, Everyone

LEMMA SDKStep == IInv /\ [Next]_vars => IInv'
<1> SUFFICES ASSUME IInv, [Next]_vars PROVE IInv'
  OBVIOUS
<1> USE OTelAssumption DEF IInv, TypeOK, Round, Undone, Told, group, calls,
                           Everyone
<1>1. CASE Start
  BY <1>1, Unsettled DEF Start, Settled, Signals
<1>2. ASSUME NEW s \in Signals, StartProvider(s) PROVE IInv'
  <2>1. stage = s /\ stage \notin Settled /\ stage' = After(s)
    BY <1>2, AfterStage DEF StartProvider, Proceed
  <2>2. /\ funcs' \in Seq(Signals)
        /\ running' \subseteq Range(funcs')
    BY <1>2, RangeOfAppend DEF StartProvider
  <2>3. TypeOK'
    BY <1>2, <2>1, <2>2, AfterStage DEF StartProvider, Proceed
  <2>4. Round'
    BY <1>2, <2>1, <2>2, Unsettled DEF StartProvider
  <2>5. Undone' /\ Told'
    BY <1>2, <2>1, Unsettled, AfterStage DEF StartProvider, Proceed, Signals
  <2> QED BY <2>3, <2>4, <2>5
<1>3. ASSUME NEW s \in Signals \cup {"resource", "runtime"},
             Proceed(s), UNCHANGED <<running, installed, group, calls>>
      PROVE  IInv'
  <2>1. stage = s /\ stage \notin Settled /\ stage' = After(s)
    BY <1>3, AfterStage DEF Proceed
  <2>2. TypeOK'
    BY <1>3, <2>1, AfterStage DEF Proceed
  <2>3. Round' /\ Undone' /\ Told'
    BY <1>3, <2>1, Unsettled, AfterStage DEF Proceed, Signals
  <2> QED BY <2>2, <2>3
<1>4. ASSUME NEW s \in Signals \cup {"resource", "runtime"}, Fails(s)
      PROVE  IInv'
  <2>1. stage = s /\ stage \notin Settled
    BY <1>4, AfterStage DEF Fails
  <2> QED BY <1>4, <2>1, Unsettled DEF Fails, Settled
<1>5. CASE FailsStart
  BY <1>5 DEF FailsStart, Settled
<1>6. ASSUME NEW c \in Callers, StopNothing(c) PROVE IInv'
  BY <1>6 DEF StopNothing
<1>7. ASSUME NEW c \in Callers, Stop(c) PROVE IInv'
  BY <1>7 DEF Stop
<1>8. CASE StopProvider
  <2>1. /\ funcs' \in Seq(Signals)
        /\ running' \subseteq Range(funcs')
    BY <1>8, FrontOfSeq DEF StopProvider, Latest
  <2>2. running' \subseteq Signals /\ err' \in BOOLEAN
    BY <1>8 DEF StopProvider
  <2> QED BY <1>8, <2>1, <2>2 DEF StopProvider
<1>9. ASSUME NEW c \in Everyone, Enter(c) PROVE IInv'
  BY <1>9 DEF Enter, Settled
<1>10. ASSUME NEW c \in Everyone, Leave(c) PROVE IInv'
  <2>1. result' \in [Everyone -> BOOLEAN] /\ result'[c] = err
    BY <1>10 DEF Leave, Return
  <2>2. TypeOK'
    BY <1>10, <2>1 DEF Leave, Return
  <2>3. Round'
    BY <1>10 DEF Leave, Return
  <2>4. Undone'
    BY <1>10 DEF Leave, Return
  <2>5. Told'
    BY <1>10, <2>1 DEF Leave, Return
  <2> QED BY <2>2, <2>3, <2>4, <2>5
<1>11. ASSUME NEW c \in Everyone, Join(c) PROVE IInv'
  BY <1>11 DEF Join, Return
<1>12. CASE UNCHANGED vars
  BY <1>12 DEF vars
<1> QED BY <1>1, <1>2, <1>3, <1>4, <1>5, <1>6, <1>7, <1>8, <1>9, <1>10, <1>11,
           <1>12 DEF Next, ShutdownStep, Skip, StartRuntime

LEMMA SDKInvariant == Spec => []IInv
  BY SDKInit, SDKStep, PTL DEF Spec

-----------------------------------------------------------------------------

(* Set-up, its undoing and everybody who stops are where TypeOK lists.     *)
THEOREM SDKTypeCorrect == Spec => []TypeOK
<1>1. IInv => TypeOK
  BY DEF IInv
<1> QED BY <1>1, SDKInvariant, PTL

(* Whichever step of set-up fails, and whatever the providers return when  *)
(* they are shut down, no exporter of a failed start keeps running.        *)
THEOREM FailedStartClean == Spec => []FailedStartLeavesNothing
<1>1. IInv => FailedStartLeavesNothing
  BY EmptyRange DEF IInv, Round, Undone, FailedStartLeavesNothing
<1> QED BY <1>1, SDKInvariant, PTL

(* Of any number of callers, whoever returns does so after the flush is    *)
(* over, and with the error of whoever has run it.                         *)
THEOREM StopIsFlushed == Spec => []ReturnsAfterFlush
<1>1. IInv => ReturnsAfterFlush
  BY EmptyRange DEF IInv, Round, Told, ReturnsAfterFlush
<1> QED BY <1>1, SDKInvariant, PTL

-----------------------------------------------------------------------------
(* The gauge: instrument and registry, Set and collection                  *)

\* Who has got past Insert is in the map, who has returned has seen the
\* once done, and nil is returned only of an instrument that exists.
Registered ==
  \A c \in Components :
    /\ registering[c] # "idle" => c \in states
    /\ registering[c] \in {"ok", "failed"} => created = "done"
    /\ registering[c] = "ok" => ~failure

Exists == created = "done" /\ ~failure => callback = Components

\* While a collection runs: who was due has been or will be observed, and
\* both what was observed and what would be now are values of its period.
Collecting ==
  collecting => \A c \in Components :
    /\ c \in due => c \in todo \/ seen[c] # "nothing"
    /\ seen[c] # "nothing" => seen[c] \in held[c]
    /\ Value(c, stale) \in held[c]

GaugeInv == GaugeTypeOK /\ Registered /\ Exists /\ Collecting

-----------------------------------------------------------------------------

(* The invariant gives a component that has returned from Register its     *)
(* place in the map and in the callback, which Collect relies on.          *)
LEMMA OkIsExported == GaugeInv => RegisteredIsExported
  BY DEF GaugeInv, GaugeTypeOK, Registered, Exists, RegisteredIsExported

LEMMA ValueIsReport ==
  \A c, among :
    Value(c, among) \in Reports /\ Value(c, among) # "nothing"
  BY DEF Value, Reports

LEMMA GaugeStep == GaugeInv /\ [GaugeNext]_gaugeVars => GaugeInv'
<1> SUFFICES ASSUME GaugeInv, [GaugeNext]_gaugeVars PROVE GaugeInv'
  OBVIOUS
<1> USE DEF GaugeInv, GaugeTypeOK, Registered, Exists, Collecting,
            registration, collection
<1>1. ASSUME NEW c \in Components, Insert(c) PROVE GaugeInv'
  BY <1>1 DEF Insert, Step
<1>2. ASSUME NEW c \in Components, EnterOnce(c) PROVE GaugeInv'
  BY <1>2 DEF EnterOnce
<1>3. ASSUME NEW c \in Components, Create(c) PROVE GaugeInv'
  BY <1>3 DEF Create
<1>4. ASSUME NEW c \in Components, ReturnOutcome(c) PROVE GaugeInv'
  BY <1>4 DEF ReturnOutcome, Step
<1>5. ASSUME NEW c \in Components, Set(c) PROVE GaugeInv'
  <2>1. /\ stale' \subseteq Components
        /\ UNCHANGED <<states, created, failure, creator, registering,
                       callback, collecting, todo, seen, due>>
    BY <1>5 DEF Set
  <2>2. held' \in [Components -> SUBSET Reports]
    BY <1>5, ValueIsReport DEF Set
  <2>3. ASSUME NEW d \in Components, collecting
        PROVE  held[d] \subseteq held'[d] /\ Value(d, stale') \in held'[d]
    <3>1. CASE d = c
      BY <1>5, <2>3, <3>1 DEF Set
    <3>2. CASE d # c
      BY <1>5, <2>3, <3>2 DEF Set, Value
    <3>3. QED
      BY <3>1, <3>2
  <2>4. Collecting'
    BY <2>1, <2>3
  <2>5. QED
    BY <2>1, <2>2, <2>4
<1>6. ASSUME Collect PROVE GaugeInv'
  <2>1. callback = Components
    BY <1>6 DEF Collect
  <2>2. \A c \in due' : c \in todo'
    BY <1>6, <2>1 DEF Collect
  <2>3. /\ seen' \in [Components -> Reports]
        /\ held' \in [Components -> SUBSET Reports]
    BY <1>6, ValueIsReport DEF Collect, Reports
  <2>4. Collecting'
    BY <1>6, <2>2 DEF Collect, Value
  <2>5. QED
    BY <1>6, <2>3, <2>4 DEF Collect
<1>7. ASSUME NEW c \in Components, Observe(c) PROVE GaugeInv'
  <2>1. seen' \in [Components -> Reports]
    BY <1>7, ValueIsReport DEF Observe
  <2>2. Collecting'
    BY <1>7, ValueIsReport DEF Observe, Value
  <2>3. QED
    BY <1>7, <2>1, <2>2 DEF Observe
<1>8. ASSUME Collected PROVE GaugeInv'
  BY <1>8 DEF Collected
<1>9. CASE UNCHANGED gaugeVars
  BY <1>9 DEF gaugeVars, Value
<1>10. QED
  BY <1>1, <1>2, <1>3, <1>4, <1>5, <1>6, <1>7, <1>8, <1>9 DEF GaugeNext

LEMMA GaugeInvariant == GaugeSpec => []GaugeInv
<1>1. GaugeInit => GaugeInv
  BY DEF GaugeInit, GaugeInv, GaugeTypeOK, Registered, Exists, Collecting,
         Reports
<1>2. QED
  BY <1>1, GaugeStep, PTL DEF GaugeSpec

-----------------------------------------------------------------------------

(* A component starts only with a gauge that exists and that reports it,   *)
(* whoever of the components created it.                                   *)
THEOREM RegisteredExported == GaugeSpec => []RegisteredIsExported
  BY GaugeInvariant, OkIsExported, PTL

(* No collection misses a component that was registered before it, or      *)
(* reports a value the component did not have meanwhile.                   *)
THEOREM CollectionsTrue == GaugeSpec => []CompleteAndTrue
<1>1. GaugeInv => CompleteAndTrue
  BY DEF GaugeInv, Collecting, CompleteAndTrue
<1>2. QED
  BY <1>1, GaugeInvariant, PTL

=============================================================================
