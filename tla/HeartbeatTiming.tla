-------------------------- MODULE HeartbeatTiming ---------------------------
(***************************************************************************)
(* Is the heartbeat of registry/consul.go fast enough?  The TTL and the    *)
(* ping interval the options are accepted with, the ticker, the retry      *)
(* delays and the client timeout, against an agent that answers within     *)
(* latency while it is up and loses what it was asked when it goes down.   *)
(*                                                                         *)
(* Time is discrete and only Tick takes any: a step of the loop that can   *)
(* be taken is taken before the next tick.  Requests that arrive after an  *)
(* outage, crashes and Shutdown are ConsulRegistry's subject.              *)
(***************************************************************************)
EXTENDS Integers

CONSTANTS
  TTLs,            \* what TTLCheckOptions.Duration parses to
  PingIntervals,   \* what TTLCheckOptions.PingInterval may be
  DefaultPing,     \* defaultTTLPingInterval
  RetryBase,       \* retryBase and
  RetryMax,        \* retryMax, as Maintain normalises them
  RequestTimeout,  \* defaultRequestTimeout
  Latencies        \* how long an agent that is up may take to answer

ASSUME TimingAssumption ==
  /\ TTLs \subseteq Int /\ PingIntervals \subseteq Int
  /\ DefaultPing \in Nat \ {0}
  /\ RetryBase \in Nat \ {0} /\ RetryMax \in Nat /\ RetryBase <= RetryMax
  /\ RequestTimeout \in Nat /\ Latencies \subseteq 0..(RequestTimeout - 1)

VARIABLES
  ttl, pingInterval,  \* options.Check.TTL
  latency,            \* this agent answers within this time while it is up
  pc,                 \* where Maintain is
  request,            \* the request it waits for
  elapsed,            \* ticks since it was sent
  next,               \* ticks until the ticker fires
  fired,              \* ticker.C holds a tick; it has room for one
  wait,               \* ticks until time.After(delay) fires
  delay,              \* the next such delay
  up,                 \* the agent answers
  upFor,              \* for how many ticks of Maintain, up to Recovery + 1
  status,             \* the TTL check at the agent
  lease,              \* ticks until a passing check expires
  outage              \* the agent has been down since the last heartbeat

vars == <<ttl, pingInterval, latency, pc, request, elapsed, next, fired, wait,
          delay, up, upFor, status, lease, outage>>
options == <<ttl, pingInterval, latency>>
ticker == <<next, fired>>
backoff == <<wait, delay>>
agent == <<up, upFor, status, lease, outage>>

-----------------------------------------------------------------------------

\* ttlPingInterval
Interval == IF pingInterval <= 0 THEN DefaultPing ELSE pingInterval

\* Mutant of Valid: the interval is checked before its default is filled in.
ValidRaw == ttl > 0 /\ pingInterval < ttl

(* What validateAndNormalizeOptions asks of the two durations.             *)
Valid == ttl > 0 /\ Interval < ttl

Larger(a, b) == IF a > b THEN a ELSE b

(* How long the agent must have been up for the service to be discoverable *)
(* whatever the loop was doing when it came up: to notice a failure, to    *)
(* wait, to register, and to send the first heartbeat.                     *)
Recovery == Larger(RequestTimeout, Interval + latency) + RetryMax + 2 * latency

TypeOK ==
  /\ ttl \in TTLs /\ pingInterval \in PingIntervals /\ latency \in Latencies
  /\ pc \in {"off", "registering", "pinging", "ticker", "backoff", "done"}
  /\ request \in {"none", "sent", "served", "refused", "lost"}
  /\ request # "none" <=> pc \in {"registering", "pinging"}
  /\ elapsed \in 0..RequestTimeout
  /\ next \in 0..Interval /\ fired \in BOOLEAN
  /\ wait \in 0..RetryMax /\ delay \in RetryBase..RetryMax
  /\ up \in BOOLEAN /\ upFor \in 0..(Recovery + 1)
  /\ status \in {"absent", "critical", "passing", "expired"}
  /\ lease \in Nat /\ outage \in BOOLEAN

Init ==
  /\ ttl \in TTLs /\ pingInterval \in PingIntervals /\ latency \in Latencies
  /\ pc = "off"
  /\ request = "none" /\ elapsed = 0
  /\ next = 0 /\ fired = FALSE
  /\ wait = 0 /\ delay = RetryBase
  /\ up \in BOOLEAN /\ upFor = 0
  /\ status = "absent" /\ lease = 0 /\ outage = FALSE

-----------------------------------------------------------------------------

Send(where) ==
  /\ pc' = where
  /\ request' = IF up THEN "sent" ELSE "lost"
  /\ elapsed' = 0

(* Maintain's first RegisterContext, which rejects what is not Valid.      *)
Start ==
  /\ pc = "off" /\ Valid
  /\ Send("registering")
  /\ UNCHANGED <<options, ticker, backoff, agent>>

Reject ==
  /\ pc = "off" /\ ~Valid
  /\ pc' = "done"
  /\ UNCHANGED <<options, request, elapsed, ticker, backoff, agent>>

\* Mutant of Established: the ticker comes first, and so does its wait.
EstablishedNoPing ==
  /\ pc = "registering" /\ request = "served"
  /\ delay' = RetryBase
  /\ next' = Interval /\ fired' = FALSE
  /\ pc' = "ticker" /\ request' = "none"
  /\ UNCHANGED <<options, elapsed, wait, agent>>

(* Registered: the delay is reset, the ticker runs, and the first ping     *)
(* does not wait for it.                                                   *)
Established ==
  /\ pc = "registering" /\ request = "served"
  /\ delay' = RetryBase
  /\ next' = Interval /\ fired' = FALSE
  /\ Send("pinging")
  /\ UNCHANGED <<options, wait, agent>>

PingAnswered ==
  /\ pc = "pinging" /\ request = "served"
  /\ pc' = "ticker" /\ request' = "none"
  /\ UNCHANGED <<options, elapsed, ticker, backoff, agent>>

Ping ==
  /\ pc = "ticker" /\ fired
  /\ fired' = FALSE
  /\ Send("pinging")
  /\ UNCHANGED <<options, next, backoff, agent>>

(* A request that failed: wait delay.                                      *)
Fail ==
  /\ request \in {"refused", "lost"}
  /\ pc' = "backoff" /\ request' = "none"
  /\ wait' = delay
  /\ UNCHANGED <<options, elapsed, ticker, delay, agent>>

(* ...then double it, up to maxDelay, and register again.                  *)
Retry ==
  /\ pc = "backoff" /\ wait = 0
  /\ delay' = IF 2 * delay > RetryMax THEN RetryMax ELSE 2 * delay
  /\ Send("registering")
  /\ UNCHANGED <<options, ticker, wait, agent>>

(* The context is cancelled: every wait and every request ends.            *)
Cancel ==
  /\ pc # "done"
  /\ pc' = "done" /\ request' = "none"
  /\ UNCHANGED <<options, elapsed, ticker, backoff, agent>>

-----------------------------------------------------------------------------
(* The agent (external)                                                    *)

ServeRegister ==
  /\ pc = "registering" /\ request = "sent"
  /\ request' = "served"
  /\ status' \in {"critical"} \cup ({status} \ {"absent"})
  /\ UNCHANGED <<options, pc, elapsed, ticker, backoff, up, upFor, lease,
                 outage>>

(* A heartbeat renews the lease of a check the agent knows.                *)
ServePing ==
  /\ pc = "pinging" /\ request = "sent"
  /\ status # "absent"
  /\ request' = "served"
  /\ status' = "passing" /\ lease' = ttl /\ outage' = FALSE
  /\ UNCHANGED <<options, pc, elapsed, ticker, backoff, up, upFor>>

RefusePing ==
  /\ pc = "pinging" /\ request = "sent"
  /\ status = "absent"
  /\ request' = "refused"
  /\ UNCHANGED <<options, pc, elapsed, ticker, backoff, agent>>

(* It goes down, with or without its state, and comes back.                *)
Down ==
  /\ up
  /\ up' = FALSE /\ upFor' = 0 /\ outage' = TRUE
  /\ status' \in {status, "absent"}
  /\ request' = IF request = "none" THEN "none" ELSE "lost"
  /\ UNCHANGED <<options, pc, elapsed, ticker, backoff, lease>>

Up ==
  /\ ~up
  /\ up' = TRUE
  /\ UNCHANGED <<options, pc, request, elapsed, ticker, backoff, upFor, status,
                 lease, outage>>

-----------------------------------------------------------------------------

\* Nothing has to happen before time goes on.
Quiet ==
  /\ pc = "ticker" => ~fired
  /\ pc = "backoff" => wait > 0
  /\ request \in {"sent", "served", "refused"} => elapsed < latency
  /\ request = "lost" => elapsed < RequestTimeout

Decrement(n) == IF n > 0 THEN n - 1 ELSE 0

(* A full ticker.C drops the tick, and the ticker keeps its own time.      *)
TickTicker ==
  IF pc \notin {"pinging", "ticker"} THEN UNCHANGED ticker
  ELSE /\ next' = IF next <= 1 THEN Interval ELSE next - 1
       /\ fired' = (fired \/ next <= 1)

Tick ==
  /\ Quiet
  /\ elapsed' = IF request = "none" THEN elapsed ELSE elapsed + 1
  /\ TickTicker
  /\ wait' = Decrement(wait)
  /\ upFor' = IF up /\ pc # "off" /\ upFor <= Recovery THEN upFor + 1 ELSE upFor
  /\ lease' = Decrement(lease)
  /\ status' = IF status = "passing" /\ lease <= 1 THEN "expired" ELSE status
  /\ UNCHANGED <<options, pc, request, delay, up, outage>>

Next ==
  \/ Start \/ Reject \/ Established \/ PingAnswered \/ Ping \/ Fail \/ Retry
  \/ Cancel
  \/ ServeRegister \/ ServePing \/ RefusePing \/ Down \/ Up
  \/ Tick

Spec == Init /\ [][Next]_vars

-----------------------------------------------------------------------------

\* The TTL leaves room for the slowest agent: two heartbeats are that far
\* apart.  An agent that takes no time asks for no more than Valid.
Ample == latency = 0 \/ Larger(Interval, latency) + latency < ttl

(* With options the registry accepts, a heartbeat lasts until the next: a  *)
(* TTL that leaves room for the answers never expires but in an outage.    *)
NeverExpires == status = "expired" /\ Ample => outage \/ pc = "done"

(* An outage is over for this service at most Recovery after it is over    *)
(* for the agent, whatever the agent forgot and however long it was down.  *)
RecoversInTime ==
  upFor > Recovery /\ Ample => status = "passing" \/ pc = "done"

=============================================================================
