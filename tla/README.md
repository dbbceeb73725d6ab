# Verification of go-connect-kit

TLA+ specifications of the parts of go-connect-kit that run concurrently,
survive failures or decide what a service trusts: loading and hot reload of its
configuration (`config`, `pgpool`, `redisclient`, `internal/stale`, `log`), the
Consul registration loop (`registry`), the OpenTelemetry lifecycle (`otel`), how
connections are tried and protected (`pgpool`, `redisclient`, `otel`), and the
way an error takes from the database driver to a client (`dbutil`, `errinfo`,
`rpcobs`). TLC checks them on small instances. TLAPS proves, for instances of any
size, the safety of the data structures hot reload stands on, of their
composition and that it implements its contract, of the drain period and the
stale gauge, of the Consul registration loop and its timing, and of what an
application is told of its configuration.

## 1. The system

go-connect-kit is a library of Fx modules for Connect services. Fx runs all
constructors, then the OnStart hooks in order, and on shutdown the OnStop hooks
one at a time. Everything else that runs concurrently is started by the modules:
the watch goroutine of `config`, the maintenance goroutine of `registry`, drain
timers, and the application's own requests.

| Component | State it keeps | Operations | Talks to |
|---|---|---|---|
| `config.Live` | current snapshot (atomic pointer), table of subscribers, `applyMu`, `mu` | `Get`, `Set`, `Subscribe`, cancel | calls its subscribers synchronously |
| `config` Module | the watch context | choose a source, load, decode, validate, handle watch events, warn | `Source`, `config.Live` |
| `pgpool.Live` | current pool, options in use, stale reason | construct, callback (rebuild), `Build`, OnStop | `config.Live`, PostgreSQL, drain timers |
| `redisclient.Live` | current client, options in use, stale reason | the same, with a throwaway probe client | `config.Live`, Redis, drain timers |
| `internal/stale` | per component: why the latest configuration is not in use | `Set`, `Err`, gauge | the two above |
| `registry` | `registerAttempted`, `registered`, loop context, `deregisterGate` | `Maintain`, `RegisterContext`, `TTLCheckPinger`, `Shutdown` | Consul agent over HTTP |
| `otel` | providers, `shutdownGroup`, `sdkLifecycle` | `SetupOTelSDK`, stop | OTLP collector |
| `log` | the level both sinks share | hot level update, `Check` | `config.Live` |
| `dbutil` | a handler's mappings | `HandleError`, `WrapError`, `MustHandleError` | the driver's errors, `errinfo` |
| `errinfo` | reason and origin, in the error chain | `New`, `ReasonOf`, `Here`, `OriginOf` | |
| `rpcobs` | nothing between requests | interceptors, `attachErrorInfo` | handlers' errors, `errinfo` |
| `configschema`, `env`, `meta` | nothing | pure functions | |

What is hard about it, and what makes each part correct:

- **config.Live.** `Set` swaps the pointer, copies the callbacks under `mu`,
  releases `mu` and calls them; readers, subscribers, cancels and other setters
  run in between. Correct means: a callback finds in `Get` what it was told; who
  subscribes before reading `Get` misses nothing; updates reach everybody in one
  order; cancel stops all calls but one already copied; every `Set` returns.
- **Connection holders.** A rebuild can fail at three places, the replaced handle
  lives on for a drain period, timers of several generations run at once and
  OnStop may overlap a rebuild. Correct means: what callers see is open and built
  from the options in use; nothing is closed that callers can still get; every
  handle is closed by somebody; the stale flag says exactly when the options in
  use are not the published ones.
- **Time.** A replaced handle closes while operations may still hold it; a
  heartbeat must be sent and answered before the TTL of the one before runs out.
  Correct means: an operation has the whole drain period; options that validation
  accepts keep a healthy service discoverable, and an outage of the agent
  outlasts itself by a bounded time.
- **The application's configuration.** A restart and a push must agree on which
  documents are good; the log level must be that of the current document; a
  section that only a restart applies must be reported whenever it drifts.
- **Connections.** Several attempts, of several strengths, at an address several
  settings have a say in. Correct means: the outcome the documented SSL
  mode promises, at the configured host only, and never weaker than the options ask.
- **Registration.** Every request can be refused, be given up and commit later,
  or never; the agent forgets; the process crashes. Correct means: the loop never
  gives up, backs off exponentially, never makes the service routable without a
  heartbeat, stops before the service is deregistered, and nothing is left
  behind for good.
- **OpenTelemetry.** Set-up may fail half-way, and the stop function has several
  callers. Correct means: a failed start leaves nothing running, and whoever
  returns from stop knows the flush is over and how it went.
- **Errors.** Three packages and the application's own layers each look into, add
  to and replace parts of one error chain. Correct means: a failure arrives as one
  and a success too; the place reported is the one closest to the fault; a mapped
  SQLSTATE is counted under its reason and the client gets that reason once,
  whatever was wrapped around; `MustHandleError` lets no `PgError` and no `ErrNoRows`
  through, the other two lose no cause.

`PROJECT.json` lists the hazards one by one with the line of code where each
bites and the property that covers it.

## 2. Modules

| Module | What it models |
|---|---|
| `ConfigLive` | `config/live.go`, and the watch handler of `config/config.go` |
| `ConfigLiveProofs` | its inductive invariant and five theorems |
| `LiveResource` | `pgpool.Live` and `redisclient.Live`: constructor, callback, `Build`, drain, OnStop, `stale.State` |
| `LiveResourceProofs` | its inductive invariant and five theorems |
| `ReloadContract` | abstract: what hot reload promises about options in use and the stale flag |
| `HotReload` | `ConfigLive` and `LiveResource` composed under the Fx lifecycle; refinement of `ReloadContract` |
| `HotReloadProofs` | its inductive invariant, the refinement, the contract's promise: five theorems |
| `ConsulRegistry` | `registry/consul.go` against an unreliable agent |
| `ConsulRegistryProofs` | its inductive invariants and six theorems |
| `OTelLifecycle` | `SetupOTelSDK`, `shutdownGroup`, `sdkLifecycle` of `otel/otel.go` |
| `DrainWindow` | operations in flight while `pgpool.Live` or `redisclient.Live` replaces their handle, with time |
| `HeartbeatTiming` | TTL, ping interval, retry delays and timeout of `registry/consul.go` on a clock |
| `HeartbeatTimingProofs` | its inductive invariant and three theorems |
| `AppConfig` | `config/source.go`, `config/source_file.go`, `config/config.go` and the level of `log/log.go`, on top of `ConfigLive` |
| `AppConfigProofs` | its inductive invariant and five theorems |
| `ConnectionAttempts` | SSL modes of `pgpool`, TLS of `redisclient` and of the exporters of `otel` |
| `StaleGauge` | registration and collection of the gauge of `internal/stale/stale.go` |
| `TelemetryProofs` | `OTelLifecycle` and `StaleGauge`: an inductive invariant each, five theorems |
| `ErrorPath` | `dbutil/handler.go`, `errinfo/errinfo.go` and the unary interceptor of `rpcobs/rpcobs.go` |
| `QueryProofs` | `ErrorPath`, `ConnectionAttempts` and `DrainWindow`: an inductive invariant each, ten theorems |
| `MC...` | instances for TLC |

The names of `StaleGauge` (`GaugeSpec`), `ConnectionAttempts` (`DialSpec`) and
`DrainWindow` (`WindowSpec`) are not the usual ones because a proof module extends
each of them together with another component.

### ConfigLive

`pc[w]` is a goroutine's line in `Set`: *lock* (waiting for `applyMu`), *swap*,
*copy*, *notify* (at the loop), *call* (inside a callback). Sections under `mu`
are single steps, since nothing else happens while `mu` is held. `ApplyUpdate`,
`RejectUpdate` and `KeepCurrent` are the branches of the handler's `switch`;
`SetDirectly` is the exported `Set`. Documents are model values; which of them
decode and validate are constants. `known` and `late` are history variables:
what a subscriber was told or could read when it subscribed, and how many calls
began after its cancel had returned. Subscription ids are never reused in the
code, so a subscriber here subscribes once.

### LiveResource

One handle is one `*pgxpool.Pool` or `*redis.Client`. `built[h]` is the options
it was created with, `None` once closed. A closed handle nobody refers to stands
for one that does not exist yet, so a few handles are enough for any number of
rebuilds. `phase[r]` is the callback's line. Resources in `Probing` build as
redisclient does (a probe client is opened, pinged, closed, and then the real
client created), the others as pgpool does (the pool itself is pinged).
`candidate`, `prev` and `next` are the callback's local variables. The
callback's own mutex needs no variable: within one holder `config.Live` calls it
one at a time. `overlapped` is history: a callback that ran past its holder's
unsubscribe.

### HotReload

`INSTANCE`s of both modules share one state; each action joins an action of one
with an action of the other, e.g. `Call` is `Config!Invoke` with
`Pool!Notified`, and `Return` is `Config!Return` with `Pool!Finish`.
`Project[r][d]` is what the caller's Projector makes of a document. Constructors
get the configuration that was current when the first of them asked (`conf`).
The watch's OnStop cancels but does not wait, and hooks run in the reverse order
of construction, which the application chooses; OnStop hooks are therefore taken
in any order, one at a time.

`ReloadContract` says: a configuration is published only when everybody attached
has answered the one before; each answers once, by adopting it or by keeping what
it has and saying so. `ImplementsContract` maps `inUse` to `applied`, `wanted` to
the projection of `ptr`, `pending` to the holders `Set` has not heard from, and
the contract's stale flag to `stale` except in the one step between the swap and
`stale.Set(nil)`.

### ConsulRegistry

`pc` is the place of `Maintain`; a request is sent, then served, refused or given
up (`answer`); a request that was given up can be in `late` and commit at any
time after, also after a crash. `entry` is the agent's registration with its
status, and, as history, whether its registration and its last heartbeat came
late (after a Shutdown had deregistered). `stage[c]` is a caller of `Shutdown`.
What the agent does is external: it serves or refuses, its TTL expires, it
removes services that stay critical, it may forget. Re-registration may keep a
passing status or reset it: the model allows both. Time is abstract: a wait ends
at some point, and delays are small numbers.

### OTelLifecycle

`stage` is the line of `SetupOTelSDK`; `running` are providers with workers and
unsent data, `funcs` is `shutdownGroup.funcs`, `once` its `sync.Once`. The undo of
a failed set-up runs the same group as a stop does (`Setup` is one more caller).

### ErrorPath

One failed (or successful) call. `err` is the chain that `Unwrap` walks, outermost
link first, so that `errors.As` is "the first link of that kind". `stage` says who
has it: the data layer, the service, an interceptor, the client. `handler` is one
of all configurations a `dbutil.Handler` can have, with the `noRowsErr` argument.
All formatted text is one link, `Text`: what matters is whether the chain goes on
below it. `Places` is where links of a kind are, so `First`, the link errors.As
finds, is at the least of them. `Propagate` is what the application's layers may do: wrap with `%w`,
call `errinfo.Here`, make a connect error, with or without an ErrorInfo of its
own. `raised`, `via` and `handled` are history.

### DrainWindow

`LiveResource` has no time: its `Drain` may happen at once. Here an operation
`Take`s the visible handle (inside `Exec`, or the caller through `Pool()` or
`Client()`), and `Use`s it later; a rebuild is only its `Swap` and the timer it
`Arm`s. `timer[h]` counts down with `Tick`, `age[o]` counts up, and both are
exact: nothing else takes time. `Graceful` is the difference between
`pgxpool.Pool.Close`, which waits for what it has lent out, and
`redis.Client.Close`, which cuts it off.

### HeartbeatTiming

`ConsulRegistry` lets any wait end at any time; here time is discrete and every
step of the loop that can be taken is taken before the next tick (`Quiet`).
`next` and `fired` are Go's ticker, whose channel holds one tick; `Interval` and
`Valid` are `ttlPingInterval` and `validateAndNormalizeOptions`. The agent
answers within `latency` while it is up; a request it is asked while it is down,
or that it has not answered when it goes down, is lost, and the client's timeout
ends it. (Requests that arrive after all are `ConsulRegistry`'s.) `Recovery` is
the promise: the longest of a request that hangs and a ping interval, then one
delay at its maximum, a registration and a heartbeat. It is tight: with one tick
less the property fails.

### AppConfig

`Live` is `ConfigLive` with one writer, the watch goroutine. `FromEnvironment`
is evaluated for every combination of the three variables and a selector that is
nil, fails, or returns a source with or without `Watch`. `Malformed`, `Unknown`
and `Invalid` say which documents decode under which `LoadOptions`. The
subscribers are the log level and the restart warning; `entry` is a log entry
between the checks of the two sinks of the tee, each of which reads the level
again. What the core of otelzap adds to the level (`log/log.go:93` and 104: it asks
its provider, which may have no logging set up or not be installed yet) is
external: it accepts or refuses, differently each time. So OTel may get less than
stdout, and the property is the other direction: nothing that stdout drops.

### ConnectionAttempts

Options become a sequence of attempts, an attempt says what it asks of TLS, and
the library dials one after the other (external). The server is one of all that
speak plain text or TLS or both or neither, with a certificate from the system's
roots, the bundle, or nobody, in its name or another's. `Wanted` and `Offered`
state the outcome from the documentation of libpq's modes, without attempts, and
with what pgpool does differently: a CA bundle that does not parse is refused in
every mode, and the verify modes use the system's roots when there is none.

### StaleGauge

`registering[c]` is the place of a component in `Register`: it enters the map under
the write lock, then the `sync.Once`, whose runner (`creator`) creates the
instrument or fails to. A collection holds the read lock; `held` remembers what each state was
while it ran.

## 3. Runs

| Run | States | Question |
|---|---|---|
| `config_live` | 23 184 | Set, Subscribe and cancel interleaved; every Set returns |
| `live_resource` | 30 230 | rebuilds, drains and OnStop of two holders |
| `hot_reload` | 802 155 | the composition is safe, implements the contract and answers every push |
| `hot_reload_gauge` | violation | the gauge as documented |
| `consul_registry` | 44 467 | registration, shutdown, late commits, crashes; the service comes back, shutdown ends, nothing remains |
| `otel_lifecycle` | 179 | failing set-up, concurrent stops |
| `error_path` | 3 706 128 | every handler, driver error and way up |
| `drain_window` | 256 548 | operations of any age against two generations of drains; every replaced handle closes |
| `heartbeat_timing` | 258 544 | what validation accepts keeps the service discoverable |
| `app_config` | 1 436 884 | from the environment to the subscribers |
| `connection_attempts` | 3 226 | every option against every server |
| `stale_gauge` | 232 072 | concurrent registration, changes and collections |

`hot_reload_gauge` shows a disagreement between a comment and the code.
`internal/stale/stale.go:21` says the gauge is 1 "while a component runs on
configuration older than the latest push". The watch handler
(`config/config.go:174-181`) drops a push that fails to decode or to validate
before it reaches `Set`, so the gauge stays 0. What the code does keep is
`StaleIffBehind`: the flag is right with respect to the latest *published*
configuration.

**Bounds.**

- `ConfigLive`: two setters and two subscriptions are enough for every pair of
  Sets, and a Subscribe or cancel, to meet; three documents give an update, its
  revert and a rejected one.
- `LiveResource`: two holders with four handles allow a visible handle each, one
  candidate or just-replaced handle and one draining, or two generations of
  drains for one of them; when no handle is free a rebuild waits for a drain,
  which only removes behaviours that need more handles.
- `HotReload`: three handles, since the watch goroutine runs one callback at a
  time: a visible handle each and one that is built, just replaced or draining.
  Fairness and refinement are checked on the same instance as safety. Overlapping
  drains are `live_resource`'s.
- `DrainWindow`: three handles are one visible and two generations of replaced
  ones; two operations can hold different ones, and `MaxAge` 4 lets them outlive
  the drain period of 2.
- `ConsulRegistry`: two concurrent Shutdowns, one late request of each kind, one
  loss of the entry, attempts counted to 3 with delays 1, 2, 3 (the last cut off
  by the maximum), `RetryBase` 0 so that the default is taken.
- `HeartbeatTiming`: TTLs 0 and 2 to 5 and intervals -1 to 4 lie on both sides of
  each other and of the default of 3; delays go 1, 2, 3; the timeout of 4 is longer
  than the delays and as long as the longest interval; the latencies are 0
  and 2, which is longer than the shortest interval, so that ticks are dropped.
- `AppConfig`: six documents, one for each way to be refused, and three valid ones
  that differ in level and in sections added, changed and removed, with one level
  (`fatal`) that no entry reaches; two loggers, one derived; one entry at a time,
  since entries do not see each other. The projector of sections that need a restart is given; without
  one there is no warning.
- `ConnectionAttempts`: everything there is.
- `OTelLifecycle`: the three signals there are, two callers.
- `ErrorPath`: one reason and one reasonless error, two codes (so that one can be
  mapped and the other not, or both to different errors), room for one more layer
  above the longest chain the data layer makes and for three above a mapped
  sentinel, two interceptors.
- `StaleGauge`: three components, of which one creates and two wait.

**Deadlock.** Checking is off where a process really ends: everything shut down
or failed to start, a connection made or refused; and in `DrainWindow`, where
operations that reach `MaxAge` hold time still, and `StaleGauge`, which never
stops changing. It is on for `config_live`.

**Fairness.** `ConfigLive`: a goroutine in `Set` runs and its callbacks return;
strong fairness of `Lock`, because `sync.Mutex` hands itself over to a waiter
that has starved for 1 ms. `HotReload`: the handler runs on (dial and ping are
bounded by timeouts) and drain timers fire; nothing is assumed of the source,
the network or shutdown. `ConsulRegistry`: the goroutines run; the 15 s client
timeout ends each request; the gate is a channel, first come first served; an
agent asked again and again serves in the end, and its timers fire once nobody
keeps the service alive. Without that last assumption no client could promise
anything. `OTelLifecycle`: a provider's Shutdown ends with its context.
`DrainWindow`: time passes (strongly fair, because operations started again and
again could disable it at their greatest age), the callback runs on to its
`AfterFunc`, timers fire, and operations end. `HeartbeatTiming` states its
progress as bounds on a clock, and so as safety.

Every checked property has a mutant in the modules: a plausible bug written as a
variant of one action (marked "Mutant of"), under which TLC finds the property
violated. Each module also has a `TypeOK`, which documents the values of its
variables; the ones of `ConfigLive`, `LiveResource`, `ReloadContract`,
`ConsulRegistry`, `DrainWindow`, `HeartbeatTiming`, `StaleGauge`,
`OTelLifecycle`, `AppConfig`, `ErrorPath` and `ConnectionAttempts` are proved with
the invariants below.

## 4. Proofs

All theorems hold for every value of the constants that satisfies the named
assumptions, each of which a TLC run evaluates too:

- `DocumentAssumption`, `ResourceAssumption`, `PartsAssumption`,
  `ProjectAssumption`: the null values are no data, the start-up document is one
  that decodes and is valid, and a document gives every resource its options;
- `DrainAssumption`, `RegistryAssumption`, `TimingAssumption`: times are numbers
  and the code's own defaults positive. The registry's options may be any integers;
  `HeartbeatTiming` takes the two retry delays as `Maintain` normalises them,
  positive and in order, which `DelayOrder` of `ConsulRegistryProofs` proves it
  does, and an agent that is up to answer within the client's timeout;
- `CapAssumption` of `ConsulRegistry`: attempts are counted far enough for the
  doubled delay to have reached its maximum (the count is a bound of the model);
- `HostAssumption`: the configured host is not pgx's default host;
  `PathAssumption`: the bounds of `ErrorPath` are numbers, and no sentinel has the
  reason of an error without one, or of what a layer attached;
- `ApplicationAssumption`: every document has a level text and sections, and
  *malformed*, *unknown* and *invalid* are said of documents.

`StaleGauge` and `OTelLifecycle` need none. One theorem has a hypothesis:
`BackoffDoubles` is about powers of two, of which the provers know nothing but
that they are integers, and assumes `PowersDouble`, 2^(n+1) = 2 * 2^n. Every inductive invariant below was first an invariant
of a TLC run of its component.

**ConfigLiveProofs.** The properties are not inductive: a subscriber is up to
date between Sets because the last Set told it. `IInv` says what is true at each
line: one holder of `applyMu` (`Exclusion`), `ptr` is what the holder publishes
(`Published`), callbacks to call exist only in the loop (`Pending`), between Sets
everybody knows `ptr` (`Settled`), during one exactly those with a call to come
may know the old value (`Telling`), and a late call is the last one (`Lateness`:
a cancelled subscriber is in no later copy, and the current Set calls it once).
`TypeStep` and `InvariantStep` go through the actions one by one. Theorems:
`TypeCorrect`, `CallbacksSeePublished`, `NoUpdateMissed`, `UpdatesChained`,
`LateCallsBounded`.

**LiveResourceProofs.** The visible handle works because whoever closes a handle
holds another one. `Roles` says that a handle has one role (visible, candidate,
just replaced, draining) in one holder; `Locals` ties the callback's variables to
its line (a candidate is open and built for `next`, which differs from
`applied`); `Begins` covers constructors. `OwnerStep` extends the invariant for
leaks: `Recorded` says that a callback running past unsubscribe is known to be
one, `Kept` that every open handle has an owner. Theorems: `TypeCorrect`,
`VisibleAlwaysWorks`, `ExclusiveHandles`, `HandsOver` (an action property),
`NothingLeaks`.

**HotReloadProofs.** The composition keeps the invariants its parts keep alone:
`ConfigStep` and `PoolStep` show that each of its steps is, for either part, a
step of that part or invisible, and the part's own `InvariantStep` applies,
through an instance of its proof module. What neither part can say is `Joint`:
the callback of a resource is under way exactly where `Set` is inside it
(`Calling`), a resource is subscribed exactly while it is up (`Subscribed`), the
hooks order the rest (`Phases`), and, by the place of its callback, what a
resource has made of the published snapshot (`Answers`). The last is the heart:
"stale iff behind" is false while a push travels, so it is stated of who has
nothing to come. `StaleTruthful` and `ShutdownClean` follow. `ContractStep` maps
each step to one of `ReloadContract` or to none: `Swap` publishes, a failed
rebuild keeps, a swap of handles or a push of the options in use adopts;
`Refinement` concludes. `PromiseKept` proves from the contract alone that
publishing makes every attached resource owe an answer and both answers restore
"stale iff behind", and `StaleTruthfulMeanwhile` carries that back to the
composition, where it says more than the checked property: it holds in the middle
of a `Set` as well.

**ConsulRegistryProofs.** That a clean Shutdown leaves nothing is not inductive,
because the loop, other callers and late requests could bring the entry back.
`Joined`: whoever is at the gate or past it has waited for the loop's end, and the
loop stays ended. `OnlyLate`: once the agent has done what some Shutdown asked,
its entry is absent or came late, and passes only by a late heartbeat. `Remembered`
and `NeverSent` cover the early return of Shutdown: `attempted` is only forgotten
by a caller that deregistered, and with options that are not valid nothing was
sent. `Vouched` ties a passing check to a heartbeat, and `Delays` keeps the
doubled wait between the normalised delays. `CommitEffect` is the one lemma on
what the agent makes of a request, in time or late. The backoff has an invariant
of its own, `Growing`, which relates delay and count by the place of the loop:
while it waits the failure is counted already, while it tries the delay is the
one after the next failure. `Waits` has the arithmetic, also of the maximum and of
a count that stays at its cap. Theorems: `TypeCorrect`, `DelayBounded`,
`DeregistersAfterJoin`, `ShutdownClean`, `RoutableByHeartbeat`, `BackoffDoubles`.

**HeartbeatTimingProofs.** Both properties bound a time, so the invariant bounds
the time that is left, by the place of the loop: `ToNext` until the agent answers
the next heartbeat, `ToRecover` until the first one after an outage. `Alive` says
that the lease is longer than `ToNext` as long as no outage has come after the
heartbeat, `Recovering` that the time the agent has been up and `ToRecover` add up
to `Recovery` at most. `TickToNext` and `TickToRecover` show that a tick takes one
from each, also of the ticker's channel that holds one tick; the other steps take
no time and leave no more to wait for. `Uninterrupted` says that a loop whose
heartbeat counts has seen no outage, `Accepted` that it runs with options that
passed validation. Theorems: `TypeCorrect`, `HeartbeatLasts`, `RecoversWithin`:
the second is why `Recovery` is the bound for all values, where the run shows it
for some.

**AppConfigProofs.** `Stages` orders the constructors, so that nothing is pushed
before the subscribers are there and the document in force always loads.
`Publishing` says that `Set` has the document the source reported last. What a
subscriber has done is stated by whether `Set` still has to tell it (`Told`):
`LevelSet` for the level, and `Warned`, which needs the document before as well:
until the restart subscriber is told, the warnings cover the drift to the *old*
document, and `ChangedOnTheWay` (what a series of changes has done to a section,
one of them did) takes them to the new one. `Checked` follows a log entry from
sink to sink: while OTel is asked about an entry stdout has dropped, the level
still drops it, or was seen to come down to it. The invariant has the types its own proof needs; `TypeStep` adds the
rest of `TypeOK` to it. Theorems: `TypeCorrect`, `LevelInForce`, `LastKnownGood`,
`DriftWarned`, `OTelSubset`.

**QueryProofs.** Three components, for what a query relies on.

*ErrorPath.* Errors are chains of any length, so the lemmas come first: `FirstPlace`
(what errors.As finds is there and of its kind), `PrependKeeps` and `PrependEnds` (a
link in front moves every other one by one and keeps the end), `SuffixByLinks`
(`IsSuffix` link by link, from the reversals it is defined by), `HereKeeps` and
`AttachKeeps` (what Here and the interceptors change of a chain). None needs
induction: the first of a kind is the least of a set of positions, which is there
because < on the naturals is well-founded. `PathInv` then says, by the place of the
error: nothing is counted before the interceptors (`Before`), an answered error has
one origin (`Located`), the cause is at the end or gone (`Caused`), the reason the
error has is the one every counter saw (`Reasoned`), and the ErrorInfo of its
first connect error is that reason or a layer's own (`Attached`). The steps from
the driver to dbutil's answer are proved once, for an answer that is `Sound`, by
the cases of `handleError`. `PathInv` is stronger than the properties: it says of
`Reasoned` what `MappingDecidesReason` says only of mapped errors. Theorems:
`PathTypeCorrect`, `OriginKept`, `ReasonReachesClient`, `MappingCounted`,
`CauseSafe`, `VerdictKept`.

*ConnectionAttempts.* `Planned` keeps the plan that `Attempts` made next to what is
left of it: `Progress(plan, n)` says that n attempts were made, in order, that
the ones before the last failed, and that the last did too or is the connection.
`PlanIsWanted` is the other half: attempt by attempt, the plan of a mode asks for
what libpq's table wants and succeeds with the servers that offer it.
`LibpqFollowed` puts the two together: the least offered place in the table is
where the plan stopped. `VerifiedStaysVerified` needs only that the plan of a
verified connection has one attempt.

*DrainWindow.* That a failed operation is old enough is not inductive: it is old
when the handle closes, and the handle closes when a timer ends. `Patience`
relates the two clocks: an operation on a draining handle took it before the
swap, so its age and what is left of the timer add up to the drain period;
`Roles` says that a handle is visible, just replaced or draining, never two of
them, and that nothing else is closed. Theorems: `WindowTypeCorrect`,
`DrainPeriodHonoured`.

**TelemetryProofs.** Two components.

*OTelLifecycle.* Both properties say that one flush reaches everything that runs,
whoever starts it. `Round` ties the providers to the group: what runs has its
function in `funcs`, set-up adds none once somebody is in the once, whose runner is
one of those who wait, and a round that is over has emptied `funcs`. `Undone` says
that set-up is a caller of the group only when it fails, before the application
has a function to stop, and that it fails only after its round; `Told` that who
joined a round leaves after it, with its error. `FrontOfSeq` and `RangeOfAppend`
are what the proof needs of sequences. Theorems: `SDKTypeCorrect`,
`FailedStartClean`, `StopIsFlushed`.

*StaleGauge.* A component is exported because of three steps of two actors: its
own `Insert`, the creation by whoever ran the once, and the end of the once it
waited for. `Registered` and `Exists` state what each place in `Register` knows of
them. `Collecting` says that during a collection everybody who was due has been or
will be observed, and that what was observed, and what would be now, are values
of the period. Theorems: `RegisteredExported`, `CollectionsTrue`.

Every invariant a run checks is a theorem. Only model-checked are the liveness
properties (`SetReturns`, `PushSettles` and the others) and what needs `ENABLED`,
which are out of the prover's reach.

## 5. Not modelled

- YAML, JSON Schema and protobuf validation: constants say what they make of a
  document. `configschema` runs a schema library, and no other part uses it.
- What is handed to a library unchanged: pool sizes and lifetimes, time zones,
  type registration, samplers, intervals, resource attributes, encoders, stack
  traces, Fx's own logger, the gRPC readiness check (the agent runs it), the TLS
  of the Consul client, the once-only Redis instrumentation and the routing of
  go-redis's log lines.
- Wording: error texts, span names, log messages and severities of `rpcobs`,
  `errinfo.New`'s pattern, `trimPath`.
- `env` and `meta`, which read the environment and build information once (the
  variables that choose a source are in `AppConfig`).
- Fx's roll-back when another module's OnStart fails.
- `Shutdown` of a registry without a loop: before OnStart, or where an application
  calls `Register` itself. It has nothing to cancel and to join and goes straight to
  the gate (`registry/consul.go:445-454`).
- A log entry that ends the process (`fatal`).
- A component that registers while the gauge is collected: only the `RWMutex` of
  `internal/stale` keeps the two apart, and a guard of `Insert` stands for it. A
  property would restate the lock.
- That the same push, sent again after it failed, is tried again: it is the guard of
  `NotifiedChanged`, and `StaleIffBehind` would hold without the retry.
- A callback that calls `Set` on the `Live` that is calling it: it would wait for
  ever on `applyMu`. No callback of the kit does; the models assume that the
  application's do not.
- A connect error several calls share. A `dbutil.Handler` returns one mapped value
  to every caller, and `attachErrorInfo` (`rpcobs/rpcobs.go:199`) inspects its
  details and appends to them without a lock: if an application mapped a code to a
  connect error, two calls could attach an ErrorInfo each, which is a data race.
  Nothing in the repository does; `ErrorPath` gives each call an error of its own.

What the models make explicit, and the properties state as exceptions:

- a rebuild that overlaps OnStop leaves the handle it swaps in open (OnStop
  closed what was visible before; the process is about to exit), and OnStop does
  not wait for operations as a drain does;
- a request that commits at the agent after a clean Shutdown brings the entry
  back until `DeregisterCriticalServiceAfter` removes it;
- validation accepts a ping interval just below the TTL, which leaves an agent no
  time to answer: with answers that take time the heartbeat properties need
  `Ample`, a TTL with room for them;
- a section that is only in the new document is never warned about: the warning
  goes through the sections of the old one;
- an exporter with a CA bundle it cannot read goes on with the system's roots,
  where `pgpool` and `redisclient` refuse such options: not weaker, but not the
  roots that were asked for;
- `WrapError(nil)` makes an error out of a success, unlike `HandleError` and
  `MustHandleError`, which return nil.

## 6. Plan

Written, in this order: `ConfigLive` (everything depends on it), `LiveResource`,
their composition `HotReload` with `ReloadContract`, `ConsulRegistry`,
`OTelLifecycle`, `ErrorPath`; `DrainWindow` and `HeartbeatTiming`, which add time;
`AppConfig`, which composes `ConfigLive` with the rest of `config` and `log`;
`ConnectionAttempts`, `StaleGauge`; then the proofs, in about the same order.

Left is what the last paragraph of section 4 names, and from section 5 a
connect error that concurrent calls share, which takes a model of two calls next
to `ErrorPath`.
