----------------------- MODULE HeartbeatTimingProofs ------------------------
(***************************************************************************)
(* The heartbeat is fast enough, for every TTL and interval the options    *)
(* are accepted with, any retry delays and any agent that answers within   *)
(* its latency.  Both proofs bound the time to the next heartbeat by the   *)
(* place of the loop, and show that a tick takes one from it.              *)
(***************************************************************************)
EXTENDS HeartbeatTiming, TLAPS

\* A loop that runs has options that were accepted.
Accepted == pc \notin {"off", "done"} => Valid

\* The ticker, a request and upFor run where there is something to count.
Clocks ==
  /\ pc \in {"pinging", "ticker"} => next >= 1
  /\ request \in {"sent", "served", "refused"} => up /\ elapsed <= latency
  /\ request = "refused" => pc = "pinging"
  /\ request = "served" => status # "absent"
  /\ ~up \/ pc = "off" => upFor = 0

\* A heartbeat vouches for the service, and no outage has come after it:
\* then the loop has seen none.
Vouched == status \in {"passing", "expired"} /\ ~outage
Uninterrupted ==
  /\ Vouched /\ pc # "done" =>
       /\ up
       /\ pc \in {"pinging", "ticker"}
       /\ request \in {"none", "sent", "served"}
  /\ pc = "pinging" /\ request = "served" => Vouched
  /\ pc = "off" => status = "absent"

\* The longest time until the agent answers the next heartbeat.
ToAnswer == latency - elapsed
ToNext ==
  IF pc = "ticker" THEN (IF fired THEN 0 ELSE next) + latency
  ELSE IF request = "sent" THEN ToAnswer
  ELSE (IF fired THEN ToAnswer ELSE Larger(ToAnswer, next)) + latency

Counting == Vouched /\ pc # "done" /\ Ample
Alive == Counting => status = "passing" /\ lease > ToNext

\* The longest time, from when the agent is up, until the first heartbeat
\* after an outage.
ToRegister == RetryMax + 2 * latency
ToRecover ==
  CASE request = "lost" -> RequestTimeout - elapsed + ToRegister
    [] request \in {"sent", "served"} /\ pc = "registering" -> ToAnswer + latency
    [] request = "refused" -> ToAnswer + ToRegister
    [] request \in {"sent", "served"} /\ pc = "pinging" ->
         ToAnswer + IF status = "absent" THEN ToRegister ELSE 0
    [] pc = "ticker" -> (IF fired THEN 0 ELSE next) + latency + ToRegister
    [] OTHER -> wait + 2 * latency

Missing ==
  ~(status = "passing" /\ ~outage) /\ pc \notin {"off", "done"} /\ Ample
Recovering == Missing => upFor + ToRecover <= Recovery

IInv == TypeOK /\ Accepted /\ Clocks /\ Uninterrupted /\ Alive /\ Recovering

-----------------------------------------------------------------------------

(* What follows from the assumptions on the configured durations.          *)
LEMMA Durations ==
  ASSUME ttl \in TTLs, pingInterval \in PingIntervals, latency \in Latencies
  PROVE  /\ ttl \in Int /\ Interval \in Nat /\ Interval >= 1
         /\ latency \in Nat /\ latency < RequestTimeout
         /\ RetryBase \in Nat /\ RetryMax \in Nat /\ RequestTimeout \in Nat
         /\ RetryBase >= 1 /\ RetryBase <= RetryMax
         /\ Recovery \in Nat
         /\ Recovery >= RequestTimeout + ToRegister
         /\ Recovery >= Interval + latency + ToRegister
  BY TimingAssumption DEF Interval, Recovery, Larger, ToRegister

(* The bounds on the clocks hold at every step.                            *)
LEMMA TypeStep ==
  TypeOK /\ Accepted /\ Clocks /\ [Next]_vars => TypeOK' /\ Accepted' /\ Clocks'
<1> SUFFICES ASSUME TypeOK, Accepted, Clocks, [Next]_vars
             PROVE  TypeOK' /\ Accepted' /\ Clocks'
  OBVIOUS
<1>0. /\ UNCHANGED options => UNCHANGED <<Interval, Recovery, Valid>>
      /\ ttl \in Int /\ Interval \in Nat /\ Interval >= 1
      /\ latency \in Nat /\ latency < RequestTimeout
      /\ RetryBase \in Nat /\ RetryMax \in Nat /\ RequestTimeout \in Nat
      /\ RetryBase >= 1 /\ RetryBase <= RetryMax /\ Recovery \in Nat
  BY Durations DEF TypeOK, options, Interval, Recovery, Valid
<1> USE <1>0 DEF TypeOK, Accepted, Clocks, options, ticker, backoff, agent, Send
<1>1. CASE Start
  BY <1>1 DEF Start
<1>2. CASE Reject
  BY <1>2 DEF Reject
<1>3. CASE Established
  <2>1. fired' \in BOOLEAN
    BY <1>3 DEF Established
  <2>2. QED
    BY <1>3, <2>1 DEF Established
<1>4. CASE PingAnswered
  BY <1>4 DEF PingAnswered
<1>5. CASE Ping
  <2>1. fired' \in BOOLEAN
    BY <1>5 DEF Ping
  <2>2. QED
    BY <1>5, <2>1 DEF Ping
<1>6. CASE Fail
  BY <1>6 DEF Fail
<1>7. CASE Retry
  BY <1>7 DEF Retry
<1>8. CASE Cancel
  BY <1>8 DEF Cancel
<1>9. CASE ServeRegister
  BY <1>9 DEF ServeRegister
<1>10. CASE ServePing
  <2>1. outage' \in BOOLEAN
    BY <1>10 DEF ServePing, Valid
  <2>2. QED
    BY <1>10, <2>1 DEF ServePing, Valid
<1>11. CASE RefusePing
  BY <1>11 DEF RefusePing
<1>12. CASE Down
  <2>1. up' \in BOOLEAN /\ outage' \in BOOLEAN
    BY <1>12 DEF Down
  <2>2. QED
    BY <1>12, <2>1 DEF Down
<1>13. CASE Up
  BY <1>13 DEF Up
<1>14. CASE Tick
  <2>1. fired' \in BOOLEAN
    BY <1>14 DEF Tick, Quiet, Decrement, TickTicker
  <2>2. QED
    BY <1>14, <2>1 DEF Tick, Quiet, Decrement, TickTicker
<1>15. CASE UNCHANGED vars
  BY <1>15 DEF vars
<1>16. QED
  BY <1>1, <1>2, <1>3, <1>4, <1>5, <1>6, <1>7, <1>8, <1>9, <1>10, <1>11,
     <1>12, <1>13, <1>14, <1>15 DEF Next

(* A loop whose heartbeat counts has seen no outage, and sees one before   *)
(* the heartbeat counts again.                                             *)
LEMMA UninterruptedStep ==
  IInv /\ [Next]_vars => Uninterrupted'
<1> SUFFICES ASSUME IInv, TypeOK', Accepted', Clocks', [Next]_vars
             PROVE  Uninterrupted'
  BY TypeStep DEF IInv
<1> USE DEF IInv, TypeOK, Clocks, Uninterrupted, Vouched, options, ticker,
            backoff, agent, Send
<1>1. CASE Start
  BY <1>1 DEF Start
<1>2. CASE Reject
  BY <1>2 DEF Reject
<1>3. CASE Established
  BY <1>3 DEF Established
<1>4. CASE PingAnswered
  BY <1>4 DEF PingAnswered
<1>5. CASE Ping
  BY <1>5 DEF Ping
<1>6. CASE Fail
  BY <1>6 DEF Fail
<1>7. CASE Retry
  BY <1>7 DEF Retry
<1>8. CASE Cancel
  BY <1>8 DEF Cancel
<1>9. CASE ServeRegister
  BY <1>9 DEF ServeRegister
<1>10. CASE ServePing
  BY <1>10 DEF ServePing
<1>11. CASE RefusePing
  BY <1>11 DEF RefusePing
<1>12. CASE Down
  BY <1>12 DEF Down
<1>13. CASE Up
  BY <1>13 DEF Up
<1>14. CASE Tick
  BY <1>14 DEF Tick, Quiet, Decrement, TickTicker
<1>15. CASE UNCHANGED vars
  BY <1>15 DEF vars
<1>16. QED
  BY <1>1, <1>2, <1>3, <1>4, <1>5, <1>6, <1>7, <1>8, <1>9, <1>10, <1>11,
     <1>12, <1>13, <1>14, <1>15 DEF Next

(* A tick takes one from the time to the next heartbeat, and there is one  *)
(* to take.                                                                *)
LEMMA TickToNext ==
  ASSUME TypeOK, TypeOK', Clocks, Uninterrupted, Counting, Tick
  PROVE  /\ ToNext \in Int /\ ToNext' \in Int
         /\ ToNext >= 1 /\ ToNext' <= ToNext - 1
<1>1. /\ Interval \in Nat /\ Interval >= 1 /\ latency \in Nat
      /\ next \in Nat /\ next' \in Nat /\ elapsed \in Nat /\ elapsed' \in Nat
      /\ UNCHANGED <<Interval, latency, pc, request>>
  BY Durations DEF TypeOK, Tick, options, Interval
<1>2. /\ \/ pc = "ticker" /\ request = "none"
         \/ pc = "pinging" /\ request \in {"sent", "served"}
      /\ next >= 1
      /\ pc = "pinging" => elapsed < latency /\ elapsed' = elapsed + 1
      /\ pc = "ticker" => ~fired
  BY DEF TypeOK, Clocks, Uninterrupted, Counting, Tick, Quiet
<1>3. CASE next <= 1
  <2>1. next' = Interval /\ fired'
    BY <1>1, <1>2, <1>3 DEF Tick, TickTicker
  <2>2. CASE pc = "ticker"
    <3>1. ToNext = next + latency /\ ToNext' = latency
      BY <1>1, <1>2, <2>1, <2>2 DEF ToNext
    <3>2. QED
      BY <1>1, <1>2, <1>3, <2>1, <3>1
  <2>3. CASE request = "sent"
    <3>1. ToNext = latency - elapsed /\ ToNext' = latency - elapsed'
      BY <1>1, <1>2, <2>3 DEF ToNext, ToAnswer
    <3>2. QED
      BY <1>1, <1>2, <2>3, <3>1
  <2>4. CASE request = "served"
    <3>1. ToNext = (IF fired THEN latency - elapsed
                    ELSE Larger(latency - elapsed, next)) + latency
      BY <1>1, <1>2, <2>4 DEF ToNext, ToAnswer
    <3>2. ToNext' = (IF fired' THEN latency - elapsed'
                     ELSE Larger(latency - elapsed', next')) + latency
      BY <1>1, <1>2, <2>4 DEF ToNext, ToAnswer
    <3>3. QED
      BY <1>1, <1>2, <1>3, <2>1, <2>4, <3>1, <3>2 DEF Larger
  <2>5. QED
    BY <1>2, <2>2, <2>3, <2>4
<1>4. CASE next > 1
  <2>1. next' = next - 1 /\ (fired' <=> fired)
    <3>1. ~(next <= 1) /\ pc \in {"pinging", "ticker"}
      BY <1>1, <1>2, <1>4
    <3>2. fired' = (fired \/ next <= 1) /\ next' = next - 1
      BY <3>1 DEF Tick, TickTicker
    <3>3. QED
      BY <3>1, <3>2
  <2>2. CASE pc = "ticker"
    <3>1. ToNext = next + latency /\ ToNext' = next' + latency
      BY <1>1, <1>2, <2>1, <2>2 DEF ToNext
    <3>2. QED
      BY <1>1, <1>2, <1>4, <2>1, <3>1
  <2>3. CASE request = "sent"
    <3>1. ToNext = latency - elapsed /\ ToNext' = latency - elapsed'
      BY <1>1, <1>2, <2>3 DEF ToNext, ToAnswer
    <3>2. QED
      BY <1>1, <1>2, <2>3, <3>1
  <2>4. CASE request = "served"
    <3>1. ToNext = (IF fired THEN latency - elapsed
                    ELSE Larger(latency - elapsed, next)) + latency
      BY <1>1, <1>2, <2>4 DEF ToNext, ToAnswer
    <3>2. ToNext' = (IF fired' THEN latency - elapsed'
                     ELSE Larger(latency - elapsed', next')) + latency
      BY <1>1, <1>2, <2>4 DEF ToNext, ToAnswer
    <3>3. QED
      BY <1>1, <1>2, <1>4, <2>1, <2>4, <3>1, <3>2 DEF Larger
  <2>5. QED
    BY <1>2, <2>2, <2>3, <2>4
<1>5. QED
  BY <1>1, <1>3, <1>4

(* So the lease outlasts it by as much as before.                          *)
LEMMA TickAlive ==
  ASSUME TypeOK, TypeOK', Clocks, Uninterrupted, Alive, Tick
  PROVE  Alive'
<1> SUFFICES ASSUME Counting' PROVE (status = "passing" /\ lease > ToNext)'
  BY DEF Alive
<1>1. Counting
  <2>1. Vouched /\ pc # "done"
    BY DEF Counting, Vouched, Tick, options
  <2>2. Ample
    BY DEF Counting, Ample, Interval, Larger, Tick, options
  <2>3. QED
    BY <2>1, <2>2 DEF Counting
<1>2. /\ ToNext \in Int /\ ToNext' \in Int
      /\ ToNext >= 1 /\ ToNext' <= ToNext - 1
  BY <1>1, TickToNext
<1>3. status = "passing" /\ lease > ToNext /\ lease \in Nat
  BY <1>1 DEF Alive, TypeOK
<1>4. status' = "passing" /\ lease' = lease - 1
  BY <1>2, <1>3 DEF Tick, Decrement
<1>5. QED
  BY <1>2, <1>3, <1>4

(* A heartbeat lasts until the agent has answered the next one.            *)
LEMMA AliveStep ==
  IInv /\ [Next]_vars => Alive'
<1> SUFFICES ASSUME IInv, TypeOK', Accepted', Clocks', [Next]_vars
             PROVE  Alive'
  BY TypeStep DEF IInv
<1>0. /\ UNCHANGED options => UNCHANGED <<Interval, Valid, Ample>>
      /\ ttl \in Int /\ Interval \in Nat /\ Interval >= 1 /\ latency \in Nat
  BY Durations DEF IInv, TypeOK, options, Interval, Valid, Ample, Larger
<1> USE <1>0, UninterruptedStep
        DEF IInv, TypeOK, Clocks, Uninterrupted, Vouched, Counting,
            Alive, ToNext,
            ToAnswer, Larger, options, ticker, backoff, agent, Send
<1>1. CASE Start
  BY <1>1 DEF Start
<1>2. CASE Reject
  BY <1>2 DEF Reject
<1>3. CASE Established
  BY <1>3 DEF Established
<1>4. CASE PingAnswered
  <2>1. Vouched /\ Vouched' /\ Ample' = Ample
    BY <1>4 DEF PingAnswered
  <2>2. ToNext' = (IF fired THEN 0 ELSE next) + latency
    BY <1>4 DEF PingAnswered
  <2>3. ToNext >= ToNext'
    BY <1>4, <2>2 DEF PingAnswered
  <2>4. QED
    BY <1>4, <2>1, <2>3 DEF PingAnswered
<1>5. CASE Ping
  <2>1. Vouched' => request' = "sent" /\ ToNext' = latency
    BY <1>5 DEF Ping
  <2>2. ToNext = latency
    BY <1>5 DEF Ping
  <2>3. QED
    BY <1>5, <2>1, <2>2 DEF Ping
<1>6. CASE Fail
  BY <1>6 DEF Fail
<1>7. CASE Retry
  BY <1>7 DEF Retry
<1>8. CASE Cancel
  BY <1>8 DEF Cancel
<1>9. CASE ServeRegister
  BY <1>9 DEF ServeRegister
<1>10. CASE ServePing
  BY <1>10 DEF ServePing, Ample, Valid, Accepted
<1>11. CASE RefusePing
  BY <1>11 DEF RefusePing
<1>12. CASE Down
  BY <1>12 DEF Down
<1>13. CASE Up
  BY <1>13 DEF Up
<1>14. CASE Tick
  BY <1>14, TickAlive
<1>15. CASE UNCHANGED vars
  BY <1>15 DEF vars
<1>16. QED
  BY <1>1, <1>2, <1>3, <1>4, <1>5, <1>6, <1>7, <1>8, <1>9, <1>10, <1>11,
     <1>12, <1>13, <1>14, <1>15 DEF Next

(* A tick of the loop takes a tick from the time it needs to recover.      *)
LEMMA TickToRecover ==
  ASSUME TypeOK, TypeOK', Clocks, pc \notin {"off", "done"}, Tick
  PROVE  /\ ToRecover \in Int /\ ToRecover' \in Int
         /\ ToRecover' <= ToRecover - 1
<1>1. /\ Interval \in Nat /\ Interval >= 1 /\ latency \in Nat
      /\ RetryMax \in Nat /\ RequestTimeout \in Nat
      /\ next \in Nat /\ next' \in Nat /\ elapsed \in Nat /\ elapsed' \in Nat
      /\ wait \in Nat /\ wait' \in Nat
      /\ UNCHANGED <<Interval, latency, pc, request>>
  BY Durations DEF TypeOK, Tick, options, Interval
<1>2. CASE pc = "ticker"
  <2>1. request = "none" /\ next >= 1 /\ ~fired
    BY <1>2 DEF TypeOK, Clocks, Tick, Quiet
  <2>2. ToRecover = next + latency + ToRegister
    BY <1>2, <2>1 DEF ToRecover
  <2>3. CASE next <= 1
    <3>1. fired'
      BY <1>2, <2>3 DEF Tick, TickTicker
    <3>2. ToRecover' = latency + ToRegister
      BY <1>1, <1>2, <2>1, <3>1 DEF ToRecover, ToRegister
    <3>3. QED
      BY <1>1, <2>1, <2>2, <3>2 DEF ToRegister
  <2>4. CASE ~(next <= 1)
    <3>1. next' = next - 1 /\ fired' = (fired \/ next <= 1)
      BY <1>2, <2>4 DEF Tick, TickTicker
    <3>2. ~fired'
      BY <2>1, <2>4, <3>1
    <3>3. ToRecover' = next' + latency + ToRegister
      BY <1>1, <1>2, <2>1, <3>2 DEF ToRecover, ToRegister
    <3>4. QED
      BY <1>1, <2>2, <3>1, <3>3 DEF ToRegister
  <2>5. QED
    BY <2>3, <2>4
<1>3. CASE pc = "backoff"
  <2>1. request = "none" /\ wait > 0 /\ wait' = wait - 1
    BY <1>1, <1>3 DEF TypeOK, Tick, Quiet, Decrement
  <2>2. QED
    BY <1>1, <1>3, <2>1 DEF ToRecover
<1>4. CASE pc \in {"registering", "pinging"}
  <2>1. request # "none" /\ elapsed' = elapsed + 1
    BY <1>4 DEF TypeOK, Tick
  <2>2. CASE request = "lost"
    BY <1>1, <1>4, <2>1, <2>2 DEF ToRecover, ToRegister
  <2>3. CASE request = "refused"
    BY <1>1, <1>4, <2>1, <2>3 DEF ToRecover, ToRegister, ToAnswer
  <2>4. CASE request \in {"sent", "served"}
    <3>1. status = "absent" <=> status' = "absent"
      BY DEF Tick
    <3>2. QED
      BY <1>1, <1>4, <2>1, <2>4, <3>1 DEF ToRecover, ToRegister, ToAnswer
  <2>5. QED
    BY <2>1, <2>2, <2>3, <2>4 DEF TypeOK
<1>5. QED
  BY <1>2, <1>3, <1>4 DEF TypeOK

(* The steps of the loop take no time.                                     *)
LEMMA LoopStep ==
  ASSUME TypeOK, Recovering, UNCHANGED <<options, agent>>, Missing',
         pc \notin {"off", "done"}
  PROVE  upFor' = upFor /\ upFor + ToRecover <= Recovery
<1>1. Ample
  BY DEF Missing, options, Ample, Interval, Larger
<1>2. ~(status = "passing" /\ ~outage)
  BY DEF Missing, agent
<1>3. Missing
  BY <1>1, <1>2 DEF Missing
<1>4. QED
  BY <1>3 DEF Recovering, agent

(* What one clock gains, another loses.                                    *)
LEMMA OneForOne ==
  ASSUME NEW m \in Int, NEW n \in Int, NEW m1 \in Int, NEW n1 \in Int,
         NEW bound \in Int, m + n <= bound, m1 <= m + 1, n1 <= n - 1
  PROVE  m1 + n1 <= bound
  OBVIOUS

(* The heartbeat after an outage comes within Recovery of the agent.       *)
LEMMA RecoveringStep ==
  IInv /\ [Next]_vars => Recovering'
<1> SUFFICES ASSUME IInv, TypeOK', Clocks', Alive', [Next]_vars, Missing'
             PROVE  upFor' + ToRecover' <= Recovery'
  BY TypeStep, AliveStep DEF IInv, Recovering
<1>a. /\ UNCHANGED options => UNCHANGED <<latency, Interval, Recovery, Ample>>
      /\ Interval \in Nat /\ Interval >= 1
      /\ latency \in Nat /\ latency < RequestTimeout
      /\ RetryBase \in Nat /\ RetryMax \in Nat /\ RequestTimeout \in Nat
      /\ RetryBase >= 1 /\ RetryBase <= RetryMax
      /\ Recovery \in Nat
      /\ Recovery >= RequestTimeout + ToRegister
      /\ Recovery >= Interval + latency + ToRegister
  BY Durations DEF IInv, TypeOK, options, Interval, Recovery, Ample, Larger
<1>b. /\ upFor \in Nat /\ upFor' \in Nat
      /\ elapsed \in Nat /\ elapsed' \in Nat /\ wait \in Nat /\ wait' \in Nat
      /\ delay \in Nat /\ delay <= RetryMax /\ next \in Nat /\ next' \in Nat
  BY <1>a DEF IInv, TypeOK
<1> USE <1>a, <1>b
<1>1. CASE Start
  <2>1. upFor' = 0 /\ request' \in {"sent", "lost"} /\ pc' = "registering"
        /\ elapsed' = 0 /\ latency' = latency /\ Recovery' = Recovery
    BY <1>1 DEF IInv, TypeOK, Clocks, Start, Send, agent, options
  <2>2. QED
    BY <2>1 DEF ToRecover, ToRegister, ToAnswer
<1>2. CASE Reject
  BY <1>2 DEF Reject, Missing
<1>3. CASE Established
  <2>1. upFor' = upFor /\ upFor + ToRecover <= Recovery
    BY <1>3, LoopStep DEF IInv, Established, Send
  <2>2. /\ request' = "sent" /\ pc' = "pinging" /\ elapsed' = 0
        /\ status' # "absent" /\ latency' = latency /\ Recovery' = Recovery
    BY <1>3 DEF IInv, Clocks, Established, Send, options, agent
  <2>3. ToRecover = latency - elapsed + latency /\ elapsed <= latency
    BY <1>3 DEF IInv, Clocks, Established, ToRecover, ToAnswer
  <2>4. ToRecover' = latency
    BY <2>2 DEF ToRecover, ToAnswer
  <2>5. QED
    BY <2>1, <2>2, <2>3, <2>4
<1>4. CASE PingAnswered
  <2>1. Vouched' /\ pc' # "done" /\ Ample'
    BY <1>4 DEF IInv, Uninterrupted, PingAnswered, Vouched, agent, Missing
  <2>2. QED
    BY <2>1 DEF Alive, Counting, Vouched, Missing
<1>5. CASE Ping
  <2>1. upFor' = upFor /\ upFor + ToRecover <= Recovery
    BY <1>5, LoopStep DEF IInv, Ping, Send
  <2>2. /\ request' = (IF up THEN "sent" ELSE "lost") /\ pc' = "pinging"
        /\ elapsed' = 0 /\ latency' = latency /\ Recovery' = Recovery
        /\ request = "none"
    BY <1>5 DEF IInv, TypeOK, Ping, Send, options
  <2>3. ToRecover = latency + ToRegister
    BY <1>5, <2>2 DEF Ping, ToRecover
  <2>4. CASE up
    BY <2>1, <2>2, <2>3, <2>4 DEF ToRecover, ToRegister, ToAnswer
  <2>5. CASE ~up
    <3>1. upFor = 0
      BY <2>5 DEF IInv, Clocks
    <3>2. QED
      BY <2>1, <2>2, <2>5, <3>1 DEF ToRecover, ToRegister
  <2>6. QED
    BY <2>4, <2>5
<1>6. CASE Fail
  <2>1. pc \in {"registering", "pinging"}
    BY <1>6 DEF IInv, TypeOK, Fail
  <2>2. upFor' = upFor /\ upFor + ToRecover <= Recovery
    BY <1>6, <2>1, LoopStep DEF IInv, Fail
  <2>3. ToRecover >= ToRegister
    BY <1>6 DEF IInv, TypeOK, Clocks, Fail, ToRecover, ToRegister, ToAnswer
  <2>4. /\ request' = "none" /\ pc' = "backoff" /\ wait' = delay
        /\ latency' = latency /\ Recovery' = Recovery
    BY <1>6 DEF Fail, options
  <2>5. ToRecover' = delay + 2 * latency
    BY <2>4 DEF ToRecover
  <2>6. ToRecover \in Int
    BY <1>6 DEF Fail, ToRecover, ToRegister, ToAnswer
  <2>7. QED
    BY <2>2, <2>3, <2>4, <2>5, <2>6 DEF ToRegister
<1>7. CASE Retry
  <2>1. upFor' = upFor /\ upFor + ToRecover <= Recovery
    BY <1>7, LoopStep DEF IInv, Retry, Send
  <2>2. /\ request' = (IF up THEN "sent" ELSE "lost") /\ pc' = "registering"
        /\ elapsed' = 0 /\ latency' = latency /\ Recovery' = Recovery
        /\ request = "none"
    BY <1>7 DEF IInv, TypeOK, Retry, Send, options
  <2>3. ToRecover = 2 * latency
    BY <1>7, <2>2 DEF Retry, ToRecover
  <2>4. CASE up
    BY <2>1, <2>2, <2>3, <2>4 DEF ToRecover, ToAnswer
  <2>5. CASE ~up
    <3>1. upFor = 0
      BY <2>5 DEF IInv, Clocks
    <3>2. QED
      BY <2>1, <2>2, <2>5, <3>1 DEF ToRecover, ToRegister
  <2>6. QED
    BY <2>4, <2>5
<1>8. CASE Cancel
  BY <1>8 DEF Cancel, Missing
<1>9. CASE ServeRegister
  <2>1. pc \notin {"off", "done"} /\ Ample
    BY <1>9 DEF ServeRegister, Missing, options
  <2>2. Missing
    BY <1>9, <2>1 DEF IInv, Uninterrupted, Vouched, ServeRegister, Missing
  <2>3. ToRecover' = ToRecover
    BY <1>9 DEF ServeRegister, options, ToRecover, ToAnswer
  <2>4. QED
    BY <1>9, <2>2, <2>3 DEF IInv, Recovering, ServeRegister, options
<1>10. CASE ServePing
  BY <1>10 DEF ServePing, Missing
<1>11. CASE RefusePing
  <2>1. upFor' = upFor /\ upFor + ToRecover <= Recovery
    BY <1>11, LoopStep DEF IInv, RefusePing
  <2>2. ToRecover' = ToRecover
    <3>1. ToRecover = ToAnswer + ToRegister
      BY <1>11 DEF RefusePing, ToRecover
    <3>2. ToRecover' = ToAnswer' + ToRegister'
      BY <1>11 DEF RefusePing, ToRecover
    <3>3. QED
      BY <1>11, <3>1, <3>2 DEF RefusePing, options, ToAnswer, ToRegister
  <2>3. QED
    BY <1>11, <2>1, <2>2 DEF RefusePing, options
<1>12. CASE Down
  <2>1. upFor' = 0 /\ latency' = latency /\ Recovery' = Recovery
        /\ UNCHANGED <<pc, elapsed, next, wait>>
    BY <1>12 DEF Down, options, ticker, backoff
  <2>2. CASE request = "none"
    <3>1. request' = "none" /\ pc \in {"ticker", "backoff"}
      BY <1>12, <2>2 DEF IInv, TypeOK, Down, Missing
    <3>2. CASE pc = "ticker"
      <4>1. next' <= Interval
        BY <2>1 DEF IInv, TypeOK
      <4>2. ToRecover' = (IF fired' THEN 0 ELSE next') + latency + ToRegister
        BY <2>1, <3>1, <3>2 DEF ToRecover, ToRegister
      <4>3. QED
        BY <2>1, <4>1, <4>2 DEF ToRegister
    <3>3. CASE pc = "backoff"
      <4>1. wait' <= RetryMax
        BY <2>1 DEF IInv, TypeOK
      <4>2. ToRecover' = wait' + 2 * latency
        BY <2>1, <3>1, <3>3 DEF ToRecover
      <4>3. QED
        BY <2>1, <4>1, <4>2 DEF ToRegister
    <3>4. QED
      BY <3>1, <3>2, <3>3
  <2>3. CASE request # "none"
    <3>1. request' = "lost"
      BY <1>12, <2>3 DEF Down
    <3>2. pc' \in {"registering", "pinging"}
      BY <3>1 DEF TypeOK
    <3>3. ToRecover' = RequestTimeout - elapsed' + ToRegister'
      BY <3>1, <3>2 DEF ToRecover
    <3>4. QED
      BY <2>1, <3>3 DEF ToRegister
  <2>4. QED
    BY <2>2, <2>3
<1>13. CASE Up
  <2>1. pc \notin {"off", "done"} /\ Missing
    <3>1. UNCHANGED <<options, pc, status, outage>>
      BY <1>13 DEF Up
    <3>2. QED
      BY <1>a, <3>1 DEF Missing
  <2>2. ToRecover' = ToRecover
    BY <1>13 DEF Up, options, ticker, backoff, ToRecover, ToRegister, ToAnswer
  <2>3. QED
    BY <1>13, <2>1, <2>2 DEF Up, options, IInv, Recovering
<1>14. CASE Tick
  <2>1. pc \notin {"off", "done"} /\ Ample
    BY <1>14 DEF Tick, Missing, options
  <2>2. Missing
    <3>1. ~(status = "passing" /\ ~outage)
      <4>1. SUFFICES ASSUME status = "passing", ~outage PROVE FALSE
        OBVIOUS
      <4>2. Counting'
        BY <1>14, <2>1, <4>1 DEF Tick, Missing, Counting, Vouched
      <4>3. QED
        BY <1>14, <4>1, <4>2 DEF Alive, Tick, Missing
    <3>2. QED
      BY <2>1, <3>1 DEF Missing
  <2>3. ToRecover \in Int /\ ToRecover' \in Int /\ ToRecover' <= ToRecover - 1
    BY <1>14, <2>1, TickToRecover DEF IInv
  <2>4. upFor' <= upFor + 1 /\ Recovery' = Recovery
    BY <1>14 DEF Tick, options
  <2>5. upFor + ToRecover <= Recovery
    BY <2>2 DEF IInv, Recovering
  <2>6. PICK before \in Int, after \in Int, bound \in Int, up0 \in Int, up1 \in Int :
          /\ before = ToRecover /\ after = ToRecover' /\ bound = Recovery
          /\ up0 = upFor /\ up1 = upFor'
    BY <2>3
  <2>7. after <= before - 1 /\ up0 + before <= bound /\ up1 <= up0 + 1
    BY <2>3, <2>4, <2>5, <2>6
  <2>8. up1 + after <= bound
    BY <2>6, <2>7, OneForOne, Zenon
  <2>9. QED
    BY <2>4, <2>6, <2>8
<1>15. CASE UNCHANGED vars
  <2>1. pc \notin {"off", "done"} /\ Ample
    BY <1>15 DEF vars, options, Missing
  <2>2. upFor' = upFor /\ upFor + ToRecover <= Recovery
    BY <1>15, <2>1, LoopStep DEF IInv, vars, options, agent
  <2>3. ToRecover' = ToRecover
    BY <1>15 DEF vars, ToRecover, ToRegister, ToAnswer
  <2>4. QED
    BY <1>15, <2>2, <2>3 DEF vars, options
<1>16. QED
  BY <1>1, <1>2, <1>3, <1>4, <1>5, <1>6, <1>7, <1>8, <1>9, <1>10, <1>11,
     <1>12, <1>13, <1>14, <1>15 DEF Next

-----------------------------------------------------------------------------

(* Before Maintain runs nothing is registered and nothing is counted.      *)
LEMMA Initially == Init => IInv
<1> SUFFICES ASSUME Init PROVE IInv
  OBVIOUS
<1>1. /\ Interval \in Nat /\ Recovery \in Nat /\ RequestTimeout \in Nat
      /\ RetryBase \in Nat /\ RetryMax \in Nat /\ RetryBase <= RetryMax
  BY Durations DEF Init
<1>2. TypeOK
  <2>1. fired \in BOOLEAN /\ up \in BOOLEAN /\ outage \in BOOLEAN
    BY DEF Init
  <2>2. QED
    BY <1>1, <2>1 DEF Init, TypeOK
<1>3. Accepted /\ Clocks /\ Uninterrupted
  BY DEF Init, Accepted, Clocks, Uninterrupted, Vouched
<1>4. Alive /\ Recovering
  BY DEF Init, Alive, Counting, Vouched, Recovering, Missing
<1>5. QED
  BY <1>2, <1>3, <1>4 DEF IInv

(* Every step keeps the bounds.                                            *)
LEMMA InvariantStep == IInv /\ [Next]_vars => IInv'
  BY TypeStep, UninterruptedStep, AliveStep, RecoveringStep DEF IInv

(* So they hold throughout.                                                *)
LEMMA Invariance == Spec => []IInv
  BY Initially, InvariantStep, PTL DEF Spec

(* Every duration stays within what the options and Maintain allow it.     *)
THEOREM TypeCorrect == Spec => []TypeOK
<1>1. IInv => TypeOK
  BY DEF IInv
<1>2. QED
  BY <1>1, Invariance, PTL

(* With options validateAndNormalizeOptions accepts, a heartbeat lasts     *)
(* until the next one unless the agent goes down: the check does not       *)
(* expire while Maintain runs.                                             *)
THEOREM HeartbeatLasts == Spec => []NeverExpires
<1>1. IInv => NeverExpires
  BY DEF IInv, Alive, Counting, Vouched, NeverExpires
<1>2. QED
  BY <1>1, Invariance, PTL

(* An agent that has been up for Recovery has the service's heartbeat,     *)
(* whatever Maintain was doing when it came up: a request that times out,  *)
(* the ticker or a retry delay of any length doubled so far.               *)
THEOREM RecoversWithin == Spec => []RecoversInTime
<1>1. ASSUME IInv PROVE RecoversInTime
  <2> SUFFICES ASSUME upFor > Recovery, Ample, pc # "done" PROVE status = "passing"
    BY DEF RecoversInTime
  <2>1. Recovery \in Nat /\ upFor \in Nat
    BY <1>1, Durations DEF IInv, TypeOK
  <2>2. pc # "off"
    BY <1>1, <2>1 DEF IInv, Clocks
  <2>3. ~Missing
    <3>1. ToRecover \in Int /\ ToRecover >= 0
      <4>1. /\ latency \in Nat /\ RetryMax \in Nat /\ RequestTimeout \in Nat
            /\ elapsed \in Nat /\ elapsed <= RequestTimeout
            /\ wait \in Nat /\ next \in Nat
            /\ request \in {"sent", "served", "refused"} => elapsed <= latency
        BY <1>1, Durations DEF IInv, TypeOK, Clocks
      <4>2. QED
        BY <4>1 DEF ToRecover, ToRegister, ToAnswer
    <3>2. QED
      BY <1>1, <2>1, <3>1 DEF IInv, Recovering
  <2>4. QED
    BY <2>2, <2>3 DEF Missing
<1>2. QED
  BY <1>1, Invariance, PTL

=============================================================================
