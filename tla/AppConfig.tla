----------------------------- MODULE AppConfig ------------------------------
(***************************************************************************)
(* An application's configuration from the environment to its subscribers: *)
(* which source is chosen, how the first document is judged and how pushes *)
(* are (config/source.go, config.go), and the two subscribers of the       *)
(* module's own: the log level (log/log.go) and the warning about sections *)
(* that need a restart.  config.Live is ConfigLive; its only setter here   *)
(* is the watch goroutine.                                                 *)
(*                                                                         *)
(* A log entry is checked sink by sink, while the level may change.  What  *)
(* the core of otelzap answers depends on its provider (whether logging is *)
(* set up, and already installed); here it answers as it likes, each time. *)
(***************************************************************************)
EXTENDS Integers

CONSTANTS
  Documents,    \* documents the source may hold, each malformed, with fields
  Malformed,    \* the schema does not know, breaking a validation rule, or
  Unknown,      \* none of these
  Invalid,
  LevelText,    \* LevelText[d]: the log level the Projector finds, in lower
                \* case
  Sections,     \* names of sections that need a restart
  Section,      \* Section[d]: the sections d has, with their contents
  Loggers,      \* the logger and those derived from it by With or Named
  Root,
  None

ASSUME ApplicationAssumption ==
  /\ Malformed \cup Unknown \cup Invalid \subseteq Documents
  /\ DOMAIN LevelText = Documents
  /\ \A d \in Documents : DOMAIN Section[d] \subseteq Sections
  /\ Root \in Loggers
  /\ None \notin Documents

Watch == "watch"
LevelSub == "level"
RestartSub == "restart"

VARIABLES
  latest, ptr, subs, ended, pc, arg, old, todo, inside, known, late,
  options,  \* LoadOptions
  source,   \* what FromEnvironment chose, and then whether it is a Watcher
  app,      \* the Fx lifecycle
  conf,     \* the T injected into constructors
  level,    \* zap.AtomicLevel
  warned,   \* history: sections a warning has named
  entry     \* the log entry being checked

\* Any document may be a Live's: which ones get there is judged below.
Live == INSTANCE ConfigLive WITH
  Writers <- {Watch}, Subscribers <- {LevelSub, RestartSub},
  Decodable <- Documents, Valid <- Documents,
  Initial <- CHOOSE d \in Documents : TRUE

live == <<ptr, subs, ended, pc, arg, old, todo, inside, known, late>>
logging == <<level, entry>>
vars == <<latest, live, options, source, app, conf, warned, logging>>

Levels == 0..6       \* debug, info, warn, error, dpanic, panic, fatal
Severities == 0..5   \* a fatal entry ends the process
DPanic == 4
NoEntry == [at |-> "idle", logger |-> Root, level |-> 0, sinks |-> {},
            reopened |-> FALSE]

TypeOK ==
  /\ ptr \in Documents \cup {None} /\ latest \in Documents \cup {None}
  /\ subs \subseteq {LevelSub, RestartSub}
  /\ options \in [allowUnknown : BOOLEAN, skipValidation : BOOLEAN]
  /\ source \in {"none", "watched", "once"}
  /\ app \in {"select", "load", "construct", "running", "stopped", "failed"}
  /\ app \in {"construct", "running"} => ptr # None
  /\ conf \in Documents \cup {None}
  /\ level \in Levels \cup {-1}
  /\ warned \subseteq Sections
  /\ entry \in [at : {"idle", "stdout", "otel", "write"}, logger : Loggers,
                level : Severities, sinks : SUBSET {"stdout", "otel"},
                reopened : BOOLEAN]

-----------------------------------------------------------------------------
(* Choosing and loading                                                    *)

(* What FromEnvironment makes of CONFIG_SOURCE_FILE, CONFIG_SOURCE and     *)
(* CONFIG_FILE (each "" when unset) and of a selector that may be nil, may *)
(* fail, or returns a source with or without Watch.  A file is read once.  *)
FromEnvironment(sourceFile, name, file, selector) ==
  CASE sourceFile # "" -> IF selector = "nil" THEN "error" ELSE selector
    [] sourceFile = "" /\ name = "file" /\ file # "" -> "once"
    [] OTHER -> "error"

Paths == {"", "path"}
Names == {"", "file", "configcenter", "other"}
Selectors == {"nil", "error", "watched", "once"}

(* The document may be missing: a file that cannot be read, or is empty.   *)
Init ==
  /\ latest \in Documents \cup {None}
  /\ ptr = None /\ subs = {} /\ ended = {}
  /\ pc = [w \in {Watch} |-> "idle"]
  /\ arg = [w \in {Watch} |-> None] /\ old = [w \in {Watch} |-> None]
  /\ todo = [w \in {Watch} |-> {}] /\ inside = [w \in {Watch} |-> None]
  /\ known = [s \in {LevelSub, RestartSub} |-> None]
  /\ late = [s \in {LevelSub, RestartSub} |-> 0]
  /\ options \in [allowUnknown : BOOLEAN, skipValidation : BOOLEAN]
  /\ source = "none" /\ app = "select"
  /\ conf = None /\ level = -1 /\ warned = {} /\ entry = NoEntry

Select ==
  /\ app = "select"
  /\ \E f \in Paths, n \in Names, p \in Paths, s \in Selectors :
       LET chosen == FromEnvironment(f, n, p, s)
       IN  IF chosen = "error" THEN app' = "failed" /\ source' = source
           ELSE app' = "load" /\ source' = chosen
  /\ UNCHANGED <<latest, live, options, conf, warned, logging>>

\* decodeConfig under the given options
Decodes(d, allowUnknown) == d \notin Malformed /\ (d \in Unknown => allowUnknown)

(* NewWithOptions: load, decode, validate.                                 *)
Loads(d) ==
  /\ d # None
  /\ Decodes(d, options.allowUnknown)
  /\ d \in Invalid => options.skipValidation

Load ==
  /\ app = "load"
  /\ IF Loads(latest) THEN app' = "construct" /\ ptr' = latest
     ELSE app' = "failed" /\ ptr' = ptr
  /\ UNCHANGED <<latest, subs, ended, pc, arg, old, todo, inside, known, late,
                 options, source, conf, warned, logging>>

\* Mutant of Applies: the Live keeps the decode NewLive gave it.
AppliesStrictly(d) ==
  Decodes(d, FALSE) /\ (d \in Invalid => options.skipValidation)

(* What live.decode and live.validate let through, as the handler of       *)
(* startWatch applies them.                                                *)
Applies(d) ==
  /\ Decodes(d, options.allowUnknown)
  /\ d \in Invalid => options.skipValidation

-----------------------------------------------------------------------------
(* Constructors and lifecycle                                              *)

\* parseLevel: UnmarshalText takes the empty text for info and does not mind
\* the case; what it does not know is debug.
ParseLevel(text) ==
  CASE text \in {"", "info"} -> 1
    [] text = "warn" -> 2
    [] text = "error" -> 3
    [] text = "dpanic" -> DPanic
    [] text = "panic" -> 5
    [] text = "fatal" -> 6
    [] OTHER -> 0

(* The T that Fx provides, once.                                           *)
Provide ==
  /\ app = "construct" /\ conf = None
  /\ conf' = ptr
  /\ UNCHANGED <<latest, live, options, source, app, warned, logging>>

(* log.Module: the level of the injected T, and the subscription.          *)
BuildLogger ==
  /\ app = "construct" /\ conf # None /\ level = -1
  /\ level' = ParseLevel(LevelText[conf])
  /\ Live!Subscribe(LevelSub)
  /\ UNCHANGED <<latest, options, source, app, conf, warned, entry>>

(* startWatch (it needs the logger): a source that is a Watcher gets the   *)
(* subscription and, at OnStart, its goroutine.                            *)
StartWatch ==
  /\ app = "construct" /\ level # -1 /\ source = "watched"
  /\ Live!Subscribe(RestartSub)
  /\ UNCHANGED <<latest, options, source, app, conf, warned, logging>>

OnStart ==
  /\ app = "construct" /\ level # -1
  /\ source = "watched" => RestartSub \in subs
  /\ app' = "running"
  /\ UNCHANGED <<latest, live, options, source, conf, warned, logging>>

(* Cancels the watch's context; the Set it is in goes on.                  *)
OnStop ==
  /\ app = "running"
  /\ app' = "stopped"
  /\ UNCHANGED <<latest, live, options, source, conf, warned, logging>>

-----------------------------------------------------------------------------
(* The watch                                                               *)

Watching == app = "running" /\ source = "watched"

Update(d) ==
  /\ Watching /\ pc[Watch] = "idle"
  /\ latest' = d
  /\ IF Applies(d) THEN Live!CallSet(Watch, d) ELSE UNCHANGED <<arg, pc>>
  /\ UNCHANGED <<ptr, subs, ended, old, todo, inside, known, late,
                 options, source, app, conf, warned, logging>>

\* The Err and Deleted events.
Keep ==
  /\ Watching
  /\ Live!KeepCurrent(Watch)
  /\ UNCHANGED <<options, source, app, conf, warned, logging>>

\* Set, but for the return from a callback, which has had its effect.
SetOn ==
  /\ \/ Live!Lock(Watch) \/ Live!Swap(Watch) \/ Live!Copy(Watch)
     \/ \E s \in subs : Live!Invoke(Watch, s)
     \/ Live!Unlock(Watch)
  /\ UNCHANGED <<options, source, app, conf, warned, logging>>

\* Mutant of WantedLevel: the old document is projected.
WantedOld == ParseLevel(LevelText[old[Watch]])

WantedLevel == ParseLevel(LevelText[arg[Watch]])

(* The log subscriber: SetLevel, if the level differs.  It is remembered   *)
(* when it lets through an entry that stdout has been asked about already. *)
LevelChanges ==
  /\ inside[Watch] = LevelSub
  /\ level' = WantedLevel
  /\ entry' = [entry EXCEPT !.reopened = @ \/
       (entry.at = "otel" /\ entry.level < level /\ level' <= entry.level)]
  /\ Live!Return(Watch)
  /\ UNCHANGED <<options, source, app, conf, warned>>

\* Mutant of Changed: a section that is gone has not changed.
ChangedKept(from, to) ==
  {n \in DOMAIN from \cap DOMAIN to : from[n] # to[n]}

(* warnNotHotReloadable goes through the sections of the old document.     *)
Changed(from, to) ==
  {n \in DOMAIN from : n \notin DOMAIN to \/ from[n] # to[n]}

RestartWarns ==
  /\ inside[Watch] = RestartSub
  /\ warned' = warned \cup Changed(Section[old[Watch]], Section[arg[Watch]])
  /\ Live!Return(Watch)
  /\ UNCHANGED <<options, source, app, conf, logging>>

-----------------------------------------------------------------------------
(* Log entries                                                             *)

\* Mutant of OTelFilters: With is left to the embedded Core.
OTelFiltersRoot(logger) == logger = Root

(* The OTel core has no level of its own: atomicLevelCore gives it one,    *)
(* and With keeps it for derived loggers.                                  *)
OTelFilters(logger) == logger \in Loggers

(* Whether a sink takes an entry: stdout by the level alone, OTel if also  *)
(* the core of otelzap does.                                               *)
Enabled(sink, logger, severity, accepts) ==
  CASE sink = "stdout" -> severity >= level
    [] sink = "otel"   ->
         accepts /\ (OTelFilters(logger) => severity >= level)

\* Mutant of Tee: OTel is asked first.
TeeSwapped == [enter |-> "otel", otel |-> "stdout", stdout |-> "write"]

(* The tee asks stdout, then OTel.                                         *)
Tee == [enter |-> "stdout", stdout |-> "otel", otel |-> "write"]

(* Logger.Check gives up at once on an entry below dpanic that no sink     *)
(* takes...                                                                *)
Log(logger, severity) ==
  /\ app = "running" /\ entry.at = "idle"
  /\ \/ severity >= DPanic
     \/ \E sink \in {"stdout", "otel"}, accepts \in BOOLEAN :
          Enabled(sink, logger, severity, accepts)
  /\ entry' = [at |-> Tee["enter"], logger |-> logger, level |-> severity,
               sinks |-> {}, reopened |-> FALSE]
  /\ UNCHANGED <<latest, live, options, source, app, conf, warned, level>>

\* ...and then each sink is asked, and reads the level again.
CheckSink(sink) ==
  /\ entry.at = sink
  /\ \E accepts \in BOOLEAN :
       entry' = [entry EXCEPT !.at = Tee[sink], !.sinks = @ \cup
         {s \in {sink} : Enabled(s, entry.logger, entry.level, accepts)}]
  /\ UNCHANGED <<latest, live, options, source, app, conf, warned, level>>

Write ==
  /\ entry.at = "write"
  /\ entry' = NoEntry
  /\ UNCHANGED <<latest, live, options, source, app, conf, warned, level>>

Next ==
  \/ Select \/ Load
  \/ Provide \/ BuildLogger \/ StartWatch \/ OnStart \/ OnStop
  \/ (\E d \in Documents : Update(d)) \/ Keep
  \/ SetOn \/ LevelChanges \/ RestartWarns
  \/ \E l \in Loggers, severity \in Severities : Log(l, severity)
  \/ (\E sink \in {"stdout", "otel"} : CheckSink(sink)) \/ Write

Spec == Init /\ [][Next]_vars

-----------------------------------------------------------------------------

\* A document has been published, and no Set is running or about to.
Settled == app \in {"running", "stopped"} /\ pc[Watch] = "idle"

(* The running level is that of the current document, however its          *)
(* publication interleaved with the constructors and with shutdown.        *)
LevelFollows == Settled => level = ParseLevel(LevelText[ptr])

(* A push is applied exactly when a restart with it would come up: last    *)
(* known good is never worse than what a restart loads, and never better.  *)
RestartAgrees ==
  Settled /\ Watching /\ latest # None => (ptr = latest <=> Loads(latest))

(* A section the process started with, and that the current configuration  *)
(* has in another form or no more, has been warned about, whatever the     *)
(* configurations between the two were.                                    *)
DriftIsReported ==
  Settled => Changed(Section[conf], Section[ptr]) \subseteq warned

(* OTel gets nothing that stdout does not, from any logger and while the   *)
(* level moves: raising it in the middle of a check never exports an entry *)
(* that stdout drops.  The one exception is a level that comes down to the *)
(* entry after stdout has dropped it.  OTel may well get less.             *)
OTelWithinStdout ==
  entry.at = "write" /\ "otel" \in entry.sinks =>
    "stdout" \in entry.sinks \/ entry.reopened

=============================================================================
