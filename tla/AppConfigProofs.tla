-------------------------- MODULE AppConfigProofs ---------------------------
(***************************************************************************)
(* What an application may rely on of its configuration, for any documents *)
(* and levels: the level in force, the last known good document, the       *)
(* sections that were warned about, and the sinks of a log entry.          *)
(***************************************************************************)
EXTENDS AppConfig, TLAPS

Own == {LevelSub, RestartSub}
Labels == {"idle", "lock", "swap", "copy", "notify", "call"}

Entries ==
  [at : {"idle", "stdout", "otel", "write"}, logger : Loggers,
   level : Severities, sinks : SUBSET {"stdout", "otel"}, reopened : BOOLEAN]

\* The parts of the state the proofs compute with.
Types ==
  /\ latest \in Documents \cup {None}
  /\ app \in {"select", "load", "construct", "running", "stopped", "failed"}
  /\ pc \in [{Watch} -> Labels]
  /\ arg \in [{Watch} -> Documents \cup {None}]
  /\ old \in [{Watch} -> Documents \cup {None}]
  /\ todo \in [{Watch} -> SUBSET Own]
  /\ inside \in [{Watch} -> Own \cup {None}]
  /\ level \in Levels \cup {-1}
  /\ entry \in Entries

Loaded == app \in {"construct", "running", "stopped"}
Level(d) == ParseLevel(LevelText[d])
Drift(d) == Changed(Section[conf], Section[d])

\* Nothing is built before the first document is loaded, the logger before
\* the watch, and nothing is pushed before everything is built.
Stages ==
  /\ ~Loaded => conf = None /\ level = -1 /\ subs = {}
  /\ Loaded => ptr \in Documents /\ Loads(ptr)
  /\ app = "construct" => conf \in {None, ptr}
  /\ app \in {"running", "stopped"} => conf \in Documents /\ level # -1
  /\ level # -1 => conf \in Documents
  /\ subs \subseteq Own
  /\ level # -1 <=> LevelSub \in subs
  /\ RestartSub \in subs => level # -1
  /\ app \in {"running", "stopped"} /\ source = "watched" => RestartSub \in subs
  /\ pc[Watch] # "idle" =>
       app \in {"running", "stopped"} /\ source = "watched"

\* The watch publishes the document it was given last, and it loads.
Publishing ==
  /\ pc[Watch] # "idle" =>
       arg[Watch] \in Documents /\ arg[Watch] = latest /\ Loads(latest)
  /\ pc[Watch] \in {"copy", "notify", "call"} =>
       ptr = arg[Watch] /\ old[Watch] \in Documents
  /\ pc[Watch] = "call" => inside[Watch] \in Own \ todo[Watch]
  /\ pc[Watch] = "idle" /\ Loaded /\ latest # None =>
       (ptr = latest <=> Loads(latest))

\* Set has nothing to tell a subscriber, or nothing any more.
Told(s) ==
  \/ pc[Watch] \in {"idle", "lock", "swap"}
  \/ pc[Watch] \in {"notify", "call"} /\ s \notin todo[Watch]
       /\ (pc[Watch] = "call" => inside[Watch] # s)

\* Once told, a subscriber has acted on the published document...
LevelSet == level # -1 /\ Told(LevelSub) => level = Level(ptr)

\* ...and until then the warnings are about the one before.
Warned ==
  conf \in Documents =>
    /\ Told(RestartSub) => Drift(ptr) \subseteq warned
    /\ ~Told(RestartSub) => Drift(old[Watch]) \subseteq warned

\* Stdout is asked first.  When OTel is asked about an entry stdout has
\* dropped, the level still drops it, or has come down to it since.
Checked ==
  entry.at # "idle" =>
    /\ level # -1
    /\ entry.at = "stdout" => entry.sinks = {}
    /\ entry.at = "otel" =>
         /\ "otel" \notin entry.sinks
         /\ "stdout" \in entry.sinks \/ entry.reopened \/ entry.level < level
    /\ entry.at = "write" /\ "otel" \in entry.sinks =>
         "stdout" \in entry.sinks \/ entry.reopened

IInv == Types /\ Stages /\ Publishing /\ LevelSet /\ Warned /\ Checked

-----------------------------------------------------------------------------

(* A document has not changed from itself.                                *)
LEMMA ChangedNothing == \A x : Changed(x, x) = {}
  BY DEF Changed

(* What a series of changes has done to a section, one of them did.        *)
LEMMA ChangedOnTheWay ==
  \A x, y, z : Changed(x, z) \subseteq Changed(x, y) \cup Changed(y, z)
  BY DEF Changed

(* Any text is a level, and none is taken for no level.                    *)
LEMMA LevelOfText == \A text : ParseLevel(text) \in Levels
  BY DEF ParseLevel, Levels, DPanic

(* What loads depends on the options only, which do not change.            *)
LEMMA OptionsDecide == UNCHANGED options => \A d : Loads(d)' <=> Loads(d)
  BY DEF Loads, Decodes

(* Choosing a source, loading and constructing.                            *)
LEMMA StartStep ==
  ASSUME IInv,
         Select \/ Load \/ Provide \/ BuildLogger \/ StartWatch \/ OnStart \/ OnStop
  PROVE  Types' /\ Stages' /\ Publishing' /\ LevelSet' /\ Warned'
<1> USE ApplicationAssumption
    DEF IInv, Types, Loaded, Level, Drift, Stages, Publishing, Told, LevelSet,
        Warned, live, logging, Labels, Own
<1>1. CASE Select
  <2>1. app' \in {"failed", "load"}
    BY <1>1 DEF Select
  <2>2. QED
    BY <1>1, <2>1 DEF Select
<1>2. CASE Load
  <2>1. /\ UNCHANGED <<latest, subs, pc, arg, old, todo, inside, options, source,
                       conf, warned, level, entry>>
        /\ app = "load"
    BY <1>2 DEF Load
  <2>2. CASE Loads(latest)
    <3>1. app' = "construct" /\ ptr' = latest
      BY <1>2, <2>2 DEF Load
    <3>2. latest \in Documents /\ Loads(latest)'
      BY <2>1, <2>2, OptionsDecide DEF Loads
    <3>3. Loads(ptr)'
      BY <2>1, <2>2, <3>1, OptionsDecide DEF Loads, Decodes
    <3>4. QED
      BY <2>1, <2>2, <3>1, <3>2, <3>3
  <2>3. CASE ~Loads(latest)
    <3>1. app' = "failed"
      BY <1>2, <2>3 DEF Load
    <3>2. QED
      BY <2>1, <3>1
  <2>4. QED
    BY <2>2, <2>3
<1>3. CASE Provide
  BY <1>3, OptionsDecide, ChangedNothing DEF Provide
<1>4. CASE BuildLogger
  <2>1. level' = Level(conf) /\ level' \in Levels /\ level' # -1
    BY <1>4, LevelOfText DEF BuildLogger, Levels
  <2>2. QED
    BY <1>4, <2>1, OptionsDecide DEF BuildLogger, Live!Subscribe
<1>5. CASE StartWatch
  BY <1>5, OptionsDecide DEF StartWatch, Live!Subscribe
<1>6. CASE OnStart
  BY <1>6, OptionsDecide DEF OnStart
<1>7. CASE OnStop
  BY <1>7, OptionsDecide DEF OnStop
<1>8. QED
  BY <1>1, <1>2, <1>3, <1>4, <1>5, <1>6, <1>7

(* The watch handler, and Set outside callbacks.                           *)
LEMMA WatchStep ==
  ASSUME IInv, (\E d \in Documents : Update(d)) \/ Keep \/ SetOn
  PROVE  Types' /\ Stages' /\ Publishing' /\ LevelSet' /\ Warned'
<1> USE ApplicationAssumption
    DEF IInv, Types, Loaded, Level, Drift, Stages, Publishing, Told, LevelSet,
        Warned, live, logging, Labels, Own, Watching, Live!Goto
<1>1. ASSUME NEW d \in Documents, Update(d)
      PROVE  Types' /\ Stages' /\ Publishing' /\ LevelSet' /\ Warned'
  <2>1. Applies(d) <=> Loads(d)
    BY DEF Applies, Loads
  <2>2. QED
    BY <1>1, <2>1, OptionsDecide DEF Update, Live!CallSet
<1>2. CASE Keep
  BY <1>2, OptionsDecide DEF Keep, Live!KeepCurrent
<1>3. CASE SetOn
  <2>1. UNCHANGED <<options, source, app, conf, warned, level, entry, latest, subs>>
    BY <1>3 DEF SetOn, Live!Lock, Live!Swap, Live!Copy, Live!Invoke, Live!Unlock
  <2>2. CASE Live!Lock(Watch)
    BY <2>1, <2>2, OptionsDecide DEF Live!Lock
  <2>3. CASE Live!Swap(Watch)
    BY <2>1, <2>3, OptionsDecide DEF Live!Swap
  <2>4. CASE Live!Copy(Watch)
    <3>1. todo' = [todo EXCEPT ![Watch] = subs] /\ pc' = [pc EXCEPT ![Watch] = "notify"]
          /\ pc[Watch] = "copy" /\ UNCHANGED <<ptr, arg, old, inside>>
      BY <2>4 DEF Live!Copy
    <3>2. {LevelSub, RestartSub} \subseteq subs
      BY <3>1
    <3>3. Types' /\ Stages' /\ Publishing'
      BY <2>1, <3>1, OptionsDecide
    <3>4. QED
      BY <2>1, <3>1, <3>2, <3>3
  <2>5. ASSUME NEW s \in subs, Live!Invoke(Watch, s)
        PROVE  Types' /\ Stages' /\ Publishing' /\ LevelSet' /\ Warned'
    BY <2>1, <2>5, OptionsDecide DEF Live!Invoke
  <2>6. CASE Live!Unlock(Watch)
    BY <2>1, <2>6, OptionsDecide DEF Live!Unlock
  <2>7. QED
    BY <1>3, <2>2, <2>3, <2>4, <2>5, <2>6 DEF SetOn
<1>4. QED
  BY <1>1, <1>2, <1>3

(* The two callbacks.                                                      *)
LEMMA CallbackStep ==
  ASSUME IInv, LevelChanges \/ RestartWarns
  PROVE  Types' /\ Stages' /\ Publishing' /\ LevelSet' /\ Warned'
<1> USE ApplicationAssumption
    DEF IInv, Types, Loaded, Level, Drift, Stages, Publishing, Told, LevelSet,
        Warned, live, logging, Labels, Own, Live!Goto, Live!Return
<1>1. CASE LevelChanges
  <2>1. /\ pc[Watch] = "call" /\ pc' = [pc EXCEPT ![Watch] = "notify"]
        /\ inside[Watch] = LevelSub /\ inside' = [inside EXCEPT ![Watch] = None]
        /\ UNCHANGED <<latest, ptr, subs, arg, old, todo, options, source, app,
                       conf, warned>>
    BY <1>1 DEF LevelChanges
  <2>2. entry' \in Entries
    BY <1>1 DEF LevelChanges, Entries
  <2>3. level' = Level(ptr) /\ level' \in Levels /\ level' # -1
    BY <1>1, <2>1, LevelOfText DEF LevelChanges, WantedLevel, Levels
  <2>4. Types' /\ Stages' /\ Publishing'
    BY <2>1, <2>2, <2>3, OptionsDecide
  <2>5. LevelSet'
    BY <2>1, <2>3
  <2>6. Warned'
    BY <2>1 DEF LevelSub, RestartSub
  <2>7. QED
    BY <2>4, <2>5, <2>6
<1>2. CASE RestartWarns
  <2>1. /\ pc[Watch] = "call" /\ pc' = [pc EXCEPT ![Watch] = "notify"]
        /\ inside[Watch] = RestartSub /\ inside' = [inside EXCEPT ![Watch] = None]
        /\ warned' = warned \cup Changed(Section[old[Watch]], Section[ptr])
        /\ UNCHANGED <<latest, ptr, subs, arg, old, todo, options, source, app,
                       conf, level, entry>>
    BY <1>2 DEF RestartWarns
  <2>2. Types' /\ Stages' /\ Publishing' /\ LevelSet'
    BY <2>1, OptionsDecide DEF LevelSub, RestartSub
  <2>3. conf \in Documents => Drift(ptr) \subseteq warned'
    BY <2>1, ChangedOnTheWay
  <2>4. Warned'
    BY <2>1, <2>3
  <2>5. QED
    BY <2>2, <2>4
<1>3. QED
  BY <1>1, <1>2

(* An entry meets the level sink by sink; a change of the level in between *)
(* either keeps dropping what stdout dropped or is remembered.             *)
LEMMA EntryStep == IInv /\ [Next]_vars => Checked' /\ entry' \in Entries
<1> SUFFICES ASSUME IInv, [Next]_vars PROVE Checked' /\ entry' \in Entries
  OBVIOUS
<1>0. /\ entry \in Entries /\ Checked
      /\ level \in Levels \cup {-1}
  BY DEF IInv, Types
<1>1. ASSUME UNCHANGED logging PROVE Checked' /\ entry' \in Entries
  BY <1>0, <1>1 DEF logging, Checked
<1>2. CASE BuildLogger
  BY <1>0, <1>2 DEF BuildLogger, Checked
<1>3. CASE LevelChanges
  <2>1. /\ entry' \in Entries
        /\ entry'.at = entry.at /\ entry'.level = entry.level
        /\ entry'.sinks = entry.sinks
        /\ entry'.reopened = (entry.reopened \/
              (entry.at = "otel" /\ entry.level < level /\ level' <= entry.level))
    BY <1>0, <1>3 DEF LevelChanges, Entries
  <2>2. level' \in Levels
    BY <1>3, LevelOfText DEF LevelChanges, WantedLevel
  <2>3. entry.level < level => level' <= entry.level \/ entry.level < level'
    BY <1>0, <2>2 DEF Levels, Severities, Entries
  <2>4. level' # -1
    BY <2>2 DEF Levels
  <2>5. QED
    BY <1>0, <2>1, <2>3, <2>4 DEF Checked
<1>4. ASSUME NEW l \in Loggers, NEW severity \in Severities, Log(l, severity)
      PROVE  Checked' /\ entry' \in Entries
  <2>1. level' = level /\ level # -1
    BY <1>4 DEF Log, IInv, Stages
  <2>2. entry' = [at |-> "stdout", logger |-> l, level |-> severity,
                  sinks |-> {}, reopened |-> FALSE]
    BY <1>4 DEF Log, Tee
  <2>3. QED
    BY <2>1, <2>2 DEF Checked, Entries
<1>5. CASE CheckSink("stdout")
  <2>1. entry.at = "stdout" /\ level' = level /\ level # -1 /\ entry.sinks = {}
    BY <1>0, <1>5 DEF CheckSink, Checked
  <2>2. PICK accepts \in BOOLEAN :
          entry' = [entry EXCEPT !.at = "otel", !.sinks = @ \cup
            {s \in {"stdout"} :
               Enabled(s, entry.logger, entry.level, accepts)}]
    BY <1>5 DEF CheckSink, Tee
  <2>3. Enabled("stdout", entry.logger, entry.level, accepts)
          <=> entry.level >= level
    BY DEF Enabled
  <2>4. /\ entry' \in Entries
        /\ entry'.at = "otel" /\ entry'.level = entry.level
        /\ entry'.sinks \subseteq {"stdout"}
        /\ "stdout" \in entry'.sinks <=> entry.level >= level
    BY <1>0, <2>1, <2>2, <2>3 DEF Entries
  <2>5. entry.level >= level \/ entry.level < level
    BY <1>0 DEF Entries, Levels, Severities
  <2>6. QED
    BY <2>1, <2>4, <2>5 DEF Checked
<1>6. CASE CheckSink("otel")
  <2>1. entry.at = "otel" /\ level' = level /\ level # -1
    BY <1>0, <1>6 DEF CheckSink, Checked
  <2>2. PICK accepts \in BOOLEAN :
          entry' = [entry EXCEPT !.at = "write", !.sinks = @ \cup
            {s \in {"otel"} :
               Enabled(s, entry.logger, entry.level, accepts)}]
    BY <1>6 DEF CheckSink, Tee
  <2>3. Enabled("otel", entry.logger, entry.level, accepts)
          => entry.level >= level
    BY <1>0 DEF Enabled, OTelFilters, Entries
  <2>4. /\ entry' \in Entries
        /\ entry'.at = "write" /\ entry'.reopened = entry.reopened
        /\ "stdout" \in entry.sinks => "stdout" \in entry'.sinks
        /\ "otel" \in entry'.sinks => "otel" \in entry.sinks \/ entry.level >= level
    BY <1>0, <2>2, <2>3 DEF Entries
  <2>5. ~(entry.level >= level /\ entry.level < level)
    BY <1>0 DEF Entries, Levels, Severities
  <2>6. QED
    BY <1>0, <2>1, <2>4, <2>5 DEF Checked
<1>7. CASE Write
  BY <1>7, ApplicationAssumption DEF Write, NoEntry, Checked, Entries, Severities
<1>8. QED
  BY <1>1, <1>2, <1>3, <1>4, <1>5, <1>6, <1>7
     DEF Next, vars, Select, Load, Provide, StartWatch, OnStart, OnStop, Update,
         Keep, SetOn, RestartWarns

(* Log entries do not disturb the rest.                                    *)
LEMMA InvariantStep == IInv /\ [Next]_vars => IInv'
<1> SUFFICES ASSUME IInv, [Next]_vars PROVE IInv'
  OBVIOUS
<1>1. Checked'
  BY EntryStep
<1>2. ASSUME \/ \E l \in Loggers, severity \in Severities : Log(l, severity)
             \/ \E sink \in {"stdout", "otel"} : CheckSink(sink)
             \/ Write \/ UNCHANGED vars
      PROVE  Types' /\ Stages' /\ Publishing' /\ LevelSet' /\ Warned'
  <2>1. UNCHANGED <<latest, live, options, source, app, conf, warned, level>>
    BY <1>2 DEF Log, CheckSink, Write, vars, logging
  <2>2. Types'
    BY <2>1, EntryStep DEF IInv, Types, live
  <2>3. Stages' /\ Publishing'
    BY <2>1, OptionsDecide DEF IInv, Stages, Publishing, Loaded, live
  <2>4. LevelSet' /\ Warned'
    BY <2>1 DEF IInv, LevelSet, Warned, Told, Level, Drift, live
  <2>5. QED
    BY <2>2, <2>3, <2>4
<1>3. QED
  BY <1>1, <1>2, StartStep, WatchStep, CallbackStep DEF Next, IInv

(* At first there is no document to be right about.                        *)
LEMMA Initially == Init => IInv
  BY ApplicationAssumption
     DEF Init, IInv, Types, Stages, Publishing, LevelSet, Warned, Checked,
         Loaded, Told, NoEntry, Entries, Levels, Severities, Labels, Own

LEMMA Invariance == Spec => []IInv
  BY Initially, InvariantStep, PTL DEF Spec

(* What the rest of the state may be: the invariant has the types it needs *)
(* itself, so these are the options, the source, the injected document and *)
(* the sections warned about.                                              *)
LEMMA TypeStep == IInv /\ TypeOK /\ [Next]_vars => TypeOK'
<1> SUFFICES ASSUME IInv, TypeOK, [Next]_vars PROVE TypeOK'
  OBVIOUS
<1>0. IInv'
  BY InvariantStep
<1>1. /\ latest' \in Documents \cup {None} /\ subs' \subseteq {LevelSub, RestartSub}
      /\ app' \in {"select", "load", "construct", "running", "stopped", "failed"}
      /\ app' \in {"construct", "running"} => ptr' # None
      /\ entry' \in Entries
  BY <1>0, ApplicationAssumption DEF IInv, Types, Stages, Loaded, Own
<1>2. ptr' \in Documents \cup {None}
  <2>1. ASSUME Live!Swap(Watch) PROVE ptr' \in Documents
    BY <2>1 DEF Live!Swap, IInv, Publishing
  <2>2. ASSUME Load PROVE ptr' \in Documents \cup {None}
    BY <2>2 DEF Load, TypeOK
  <2>3. QED
    BY <2>1, <2>2
       DEF TypeOK, Next, vars, live, Select, Provide, BuildLogger, StartWatch,
           OnStart, OnStop, Update, Keep, SetOn, LevelChanges, RestartWarns, Log,
           CheckSink, Write, Live!Subscribe, Live!KeepCurrent, Live!Lock,
           Live!Copy, Live!Invoke, Live!Unlock, Live!Return
<1>3. /\ options' \in [allowUnknown : BOOLEAN, skipValidation : BOOLEAN]
      /\ source' \in {"none", "watched", "once"}
  <2>1. ASSUME Select PROVE source' \in {"none", "watched", "once"}
    BY <2>1 DEF Select, FromEnvironment, Selectors, TypeOK
  <2>2. QED
    BY <2>1
       DEF TypeOK, Next, vars, Select, Load, Provide, BuildLogger, StartWatch,
           OnStart, OnStop, Update, Keep, SetOn, LevelChanges, RestartWarns, Log,
           CheckSink, Write
<1>4. conf' \in Documents \cup {None}
  <2>1. ASSUME Provide PROVE conf' \in Documents \cup {None}
    BY <2>1 DEF Provide, TypeOK
  <2>2. QED
    BY <2>1
       DEF TypeOK, Next, vars, Select, Load, BuildLogger, StartWatch, OnStart,
           OnStop, Update, Keep, SetOn, LevelChanges, RestartWarns, Log,
           CheckSink, Write
<1>5. level' \in Levels \cup {-1}
  BY <1>0 DEF IInv, Types
<1>6. warned' \subseteq Sections
  <2>1. ASSUME RestartWarns PROVE warned' \subseteq Sections
    <3>1. old[Watch] \in Documents
      BY <2>1 DEF RestartWarns, Live!Return, IInv, Publishing
    <3>2. DOMAIN Section[old[Watch]] \subseteq Sections
      BY <3>1, ApplicationAssumption
    <3>3. QED
      BY <2>1, <3>2 DEF RestartWarns, Changed, TypeOK
  <2>2. QED
    BY <2>1
       DEF TypeOK, Next, vars, Select, Load, Provide, BuildLogger, StartWatch,
           OnStart, OnStop, Update, Keep, SetOn, LevelChanges, Log, CheckSink,
           Write
<1>7. QED
  BY <1>1, <1>2, <1>3, <1>4, <1>5, <1>6 DEF TypeOK, Entries

-----------------------------------------------------------------------------

(* Options, source, documents, level and warnings have the values listed   *)
(* for them, from the environment to the last push.                        *)
THEOREM TypeCorrect == Spec => []TypeOK
<1>1. Init => TypeOK
  BY ApplicationAssumption DEF Init, TypeOK, NoEntry, Levels, Severities
<1>2. QED
  BY <1>1, TypeStep, Invariance, PTL DEF Spec

(* Once no Set is running, the level in force is that of the document in   *)
(* force: log.Module's level is not overtaken by a push.                   *)
THEOREM LevelInForce == Spec => []LevelFollows
<1>1. IInv => LevelFollows
  BY DEF IInv, Stages, LevelSet, Told, Level, LevelFollows, Settled
<1>2. QED
  BY <1>1, Invariance, PTL

(* The running process keeps the document a restart would load, and        *)
(* refuses the one a restart would refuse.                                 *)
THEOREM LastKnownGood == Spec => []RestartAgrees
<1>1. IInv => RestartAgrees
  BY DEF IInv, Publishing, Loaded, RestartAgrees, Settled
<1>2. QED
  BY <1>1, Invariance, PTL

(* No series of pushes takes a section from what the process started with  *)
(* without a warning that names it.                                        *)
THEOREM DriftWarned == Spec => []DriftIsReported
<1>1. IInv => DriftIsReported
  BY DEF IInv, Stages, Warned, Told, Drift, DriftIsReported, Settled
<1>2. QED
  BY <1>1, Invariance, PTL

(* OTel exports nothing that stdout drops, whatever otelzap's core answers *)
(* and however the level moves, except when it came down to the entry in   *)
(* between.                                                                *)
THEOREM OTelSubset == Spec => []OTelWithinStdout
<1>1. IInv => OTelWithinStdout
  BY DEF IInv, Checked, OTelWithinStdout
<1>2. QED
  BY <1>1, Invariance, PTL

=============================================================================
