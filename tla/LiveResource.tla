---------------------------- MODULE LiveResource ----------------------------
(***************************************************************************)
(* A connection pool or client that follows the configuration:             *)
(* pgpool.Live and redisclient.Live, their newLive constructors, the       *)
(* callback each subscribes, Build, and the stale.State beside them.       *)
(*                                                                         *)
(* A handle is one *pgxpool.Pool or *redis.Client.  built[h] is the        *)
(* options an open handle was created with and None once it is closed (or  *)
(* before it exists), so "h is open" reads built[h] # None.  Whether a     *)
(* server answers a ping is the environment's choice.                      *)
(***************************************************************************)
CONSTANTS
  Resources,  \* the Live holders of the process
  Probing,    \* those whose Build pings with a throwaway client (redisclient)
  Options,    \* what a Projector can return
  Handles,    \* pools and clients; a bound on how many exist at a time
  None

ASSUME ResourceAssumption ==
  /\ Probing \subseteq Resources
  /\ None \notin Options
  /\ None \notin Handles

VARIABLES
  life,       \* life[r]: absent, built, up, detached, down or failed
  phase,      \* phase[r]: where the callback of r is
  applied,    \* applied[r]: the options in use
  current,    \* current[r]: the handle behind Live.p / Live.c
  next,       \* next[r]: the options the callback is building with
  candidate,  \* candidate[r]: the handle being built
  prev,       \* prev[r]: the handle just replaced
  draining,   \* handles waiting for their drainTimeout
  stale,      \* stale[r]: stale.State holds an error
  built,      \* built[h]
  overlapped  \* overlapped[r]: history, a callback ran past unsubscribe

rvars == <<life, phase, applied, current, next, candidate, prev, draining,
           stale, built, overlapped>>

Open == {h \in Handles : built[h] # None}

TypeOK ==
  /\ life \in [Resources ->
                 {"absent", "built", "up", "detached", "down", "failed"}]
  /\ phase \in [Resources ->
                 {"idle", "build", "ping", "client", "swap", "settle", "done"}]
  /\ applied \in [Resources -> Options \cup {None}]
  /\ current \in [Resources -> Handles \cup {None}]
  /\ next \in [Resources -> Options \cup {None}]
  /\ candidate \in [Resources -> Handles \cup {None}]
  /\ prev \in [Resources -> Handles \cup {None}]
  /\ draining \in SUBSET Handles
  /\ stale \in [Resources -> BOOLEAN]
  /\ built \in [Handles -> Options \cup {None}]
  /\ overlapped \in [Resources -> BOOLEAN]

-----------------------------------------------------------------------------

Init ==
  /\ life = [r \in Resources |-> "absent"]
  /\ phase = [r \in Resources |-> "idle"]
  /\ applied = [r \in Resources |-> None]
  /\ current = [r \in Resources |-> None]
  /\ next = [r \in Resources |-> None]
  /\ candidate = [r \in Resources |-> None]
  /\ prev = [r \in Resources |-> None]
  /\ draining = {}
  /\ stale = [r \in Resources |-> FALSE]
  /\ built = [h \in Handles |-> None]
  /\ overlapped = [r \in Resources |-> FALSE]

Go(r, p) == phase' = [phase EXCEPT ![r] = p]

\* A handle nobody refers to stands for one that does not exist yet.
Fresh(h) ==
  /\ built[h] = None
  /\ h \notin draining
  /\ \A r \in Resources : h \notin {current[r], candidate[r], prev[r]}

Close(hs) == built' = [h \in Handles |-> IF h \in hs THEN None ELSE built[h]]

(* newLive up to Subscribe: Build answered a ping and the gauges are       *)
(* registered.  Redis' throwaway client is gone before its Build returns.  *)
Construct(r, o, h) ==
  /\ life[r] = "absent"
  /\ Fresh(h)
  /\ life' = [life EXCEPT ![r] = "built"]
  /\ applied' = [applied EXCEPT ![r] = o]
  /\ current' = [current EXCEPT ![r] = h]
  /\ built' = [built EXCEPT ![h] = o]
  /\ UNCHANGED <<phase, next, candidate, prev, draining, stale, overlapped>>

(* Build failed, or a registration did and the new handle was closed.      *)
ConstructFails(r) ==
  /\ life[r] = "absent"
  /\ life' = [life EXCEPT ![r] = "failed"]
  /\ UNCHANGED <<phase, applied, current, next, candidate, prev, draining,
                 stale, built, overlapped>>

(* live.Subscribe, and the holder is handed out.                           *)
Attach(r) ==
  /\ life[r] = "built"
  /\ life' = [life EXCEPT ![r] = "up"]
  /\ UNCHANGED <<phase, applied, current, next, candidate, prev, draining,
                 stale, built, overlapped>>

Constructed(r) == life[r] \in {"up", "detached", "down"}

Begun(r) ==
  /\ Constructed(r)
  /\ phase[r] = "idle"
  /\ overlapped' = [overlapped EXCEPT ![r] = @ \/ life[r] # "up"]

\* Mutant of NotifiedSame: a reverted push leaves the reason behind.
NotifiedSameStale(r, o) ==
  /\ Begun(r)
  /\ o = applied[r]
  /\ Go(r, "done")
  /\ UNCHANGED <<life, applied, current, next, candidate, prev, draining,
                 stale, built>>

(* The callback's comparison with the options in use.  A Set that copied   *)
(* the callback before unsubscribe still runs it, whatever OnStop did.     *)
NotifiedSame(r, o) ==
  /\ Begun(r)
  /\ o = applied[r]
  /\ stale' = [stale EXCEPT ![r] = FALSE]
  /\ Go(r, "done")
  /\ UNCHANGED <<life, applied, current, next, candidate, prev, draining,
                 built>>

\* Mutant of NotifiedChanged: every push rebuilds.
NotifiedAlways(r, o) ==
  /\ Begun(r)
  /\ next' = [next EXCEPT ![r] = o]
  /\ Go(r, "build")
  /\ UNCHANGED <<life, applied, current, candidate, prev, draining, stale,
                 built>>

NotifiedChanged(r, o) ==
  /\ Begun(r)
  /\ o # applied[r]
  /\ next' = [next EXCEPT ![r] = o]
  /\ Go(r, "build")
  /\ UNCHANGED <<life, applied, current, candidate, prev, draining, stale,
                 built>>

Notified(r, o) == NotifiedSame(r, o) \/ NotifiedChanged(r, o)

\* The callback's error branch: the previous handle stays in use.
KeepPrevious(r) ==
  /\ stale' = [stale EXCEPT ![r] = TRUE]
  /\ next' = [next EXCEPT ![r] = None]
  /\ Go(r, "done")
  /\ UNCHANGED <<life, applied, current, prev, draining, overlapped>>

(* Build: the options do not make a configuration.                         *)
BuildFails(r) ==
  /\ phase[r] = "build"
  /\ KeepPrevious(r)
  /\ UNCHANGED <<candidate, built>>

(* Build: the pool, or Redis' probe client, is created.                    *)
Create(r, h) ==
  /\ phase[r] = "build"
  /\ Fresh(h)
  /\ candidate' = [candidate EXCEPT ![r] = h]
  /\ built' = [built EXCEPT ![h] = next[r]]
  /\ Go(r, "ping")
  /\ UNCHANGED <<life, applied, current, next, prev, draining, stale,
                 overlapped>>

\* Mutants of PingFails: nothing is closed; the callback tries again until it
\* succeeds.
PingFailsOpen(r) ==
  /\ phase[r] = "ping"
  /\ candidate' = [candidate EXCEPT ![r] = None]
  /\ KeepPrevious(r)
  /\ UNCHANGED built

PingRetried(r) ==
  /\ phase[r] = "ping"
  /\ Close({candidate[r]})
  /\ candidate' = [candidate EXCEPT ![r] = None]
  /\ Go(r, "build")
  /\ UNCHANGED <<life, applied, current, next, prev, draining, stale,
                 overlapped>>

(* Build: no answer within the ping timeout.  What was created is closed.  *)
PingFails(r) ==
  /\ phase[r] = "ping"
  /\ Close({candidate[r]})
  /\ candidate' = [candidate EXCEPT ![r] = None]
  /\ KeepPrevious(r)

(* Build: the pool answered and is what Build returns...                   *)
PoolAnswers(r) ==
  /\ phase[r] = "ping"
  /\ r \notin Probing
  /\ Go(r, "swap")
  /\ UNCHANGED <<life, applied, current, next, candidate, prev, draining,
                 stale, built, overlapped>>

(* ...or the probe answered and is closed, and the client Build returns is *)
(* created after it.                                                       *)
ProbeAnswers(r) ==
  /\ phase[r] = "ping"
  /\ r \in Probing
  /\ Close({candidate[r]})
  /\ candidate' = [candidate EXCEPT ![r] = None]
  /\ Go(r, "client")
  /\ UNCHANGED <<life, applied, current, next, prev, draining, stale,
                 overlapped>>

CreateClient(r, h) ==
  /\ phase[r] = "client"
  /\ Fresh(h)
  /\ candidate' = [candidate EXCEPT ![r] = h]
  /\ built' = [built EXCEPT ![h] = next[r]]
  /\ Go(r, "swap")
  /\ UNCHANGED <<life, applied, current, next, prev, draining, stale,
                 overlapped>>

(* prev := holder.swap(new); applied = next                                *)
SwapIn(r) ==
  /\ phase[r] = "swap"
  /\ prev' = [prev EXCEPT ![r] = current[r]]
  /\ current' = [current EXCEPT ![r] = candidate[r]]
  /\ applied' = [applied EXCEPT ![r] = next[r]]
  /\ candidate' = [candidate EXCEPT ![r] = None]
  /\ next' = [next EXCEPT ![r] = None]
  /\ Go(r, "settle")
  /\ UNCHANGED <<life, draining, stale, built, overlapped>>

\* The end of a rebuild; drained get a drain timer.
SettleWith(r, drained) ==
  /\ phase[r] = "settle"
  /\ stale' = [stale EXCEPT ![r] = FALSE]
  /\ draining' = draining \cup drained
  /\ prev' = [prev EXCEPT ![r] = None]
  /\ Go(r, "done")
  /\ UNCHANGED <<life, applied, current, next, candidate, built, overlapped>>

\* Mutants of Settle: the timer closes what the holder shows, or nothing.
SettleCurrent(r) == SettleWith(r, {current[r]})
SettleNothing(r) == SettleWith(r, {})

(* stale.Set(nil), and the replaced handle's AfterFunc.                    *)
Settle(r) == SettleWith(r, {prev[r]})

(* The callback returns.                                                   *)
Finish(r) ==
  /\ phase[r] = "done"
  /\ Go(r, "idle")
  /\ UNCHANGED <<life, applied, current, next, candidate, prev, draining,
                 stale, built, overlapped>>

(* A drain timer fires; closing a closed handle changes nothing.           *)
Drain(h) ==
  /\ h \in draining
  /\ draining' = draining \ {h}
  /\ Close({h})
  /\ UNCHANGED <<life, phase, applied, current, next, candidate, prev, stale,
                 overlapped>>

(* OnStop, first half: unsubscribe.                                        *)
Detach(r) ==
  /\ life[r] = "up"
  /\ life' = [life EXCEPT ![r] = "detached"]
  /\ overlapped' = [overlapped EXCEPT ![r] = phase[r] # "idle"]
  /\ UNCHANGED <<phase, applied, current, next, candidate, prev, draining,
                 stale, built>>

(* OnStop, second half: close whatever the holder shows at this moment.    *)
StopClose(r) ==
  /\ life[r] = "detached"
  /\ life' = [life EXCEPT ![r] = "down"]
  /\ Close({current[r]})
  /\ UNCHANGED <<phase, applied, current, next, candidate, prev, draining,
                 stale, overlapped>>

\* What the callback does between its comparison and its return.
Rebuild(r) ==
  \/ BuildFails(r) \/ PingFails(r) \/ PoolAnswers(r) \/ ProbeAnswers(r)
  \/ \E h \in Handles : Create(r, h) \/ CreateClient(r, h)
  \/ SwapIn(r) \/ Settle(r)

(* By itself: the configuration calls back with any options, at any time   *)
(* but never twice at once.                                                *)
Next ==
  \/ \E r \in Resources :
       \/ \E o \in Options :
            \/ \E h \in Handles : Construct(r, o, h)
            \/ Notified(r, o)
       \/ ConstructFails(r) \/ Attach(r)
       \/ Rebuild(r) \/ Finish(r)
       \/ Detach(r) \/ StopClose(r)
  \/ \E h \in Handles : Drain(h)

Spec == Init /\ [][Next]_rvars

-----------------------------------------------------------------------------

(* Until OnStop closes it, the handle callers get is open and was built    *)
(* with the options in use; no failed rebuild, drain timer or other        *)
(* resource ever closes it (pgpool.go: "the visible pool always works").   *)
VisibleWorks ==
  \A r \in Resources :
    life[r] \in {"built", "up", "detached"} =>
      /\ current[r] # None
      /\ applied[r] # None
      /\ built[current[r]] = applied[r]

\* The handles somebody is going to close.  OnStop closes the visible one, so
\* a rebuild that overlapped OnStop may leave its own behind.
Owned(r) ==
  {candidate[r], prev[r]}
    \cup (IF life[r] = "down" /\ ~overlapped[r] THEN {} ELSE {current[r]})

(* Every open handle will be closed by somebody: it is visible, being      *)
(* built, just replaced, or has a drain timer.  A failed ping leaks none,  *)
(* and OnStop leaves none behind unless a callback outlived unsubscribe.   *)
NoOrphan == Open \subseteq draining \cup UNION {Owned(r) : r \in Resources}

(* Callers are moved to a new handle before the old one can close: what    *)
(* drains, was just replaced or is still unproven is nobody's current, and *)
(* two holders never share a handle.                                       *)
Exclusive ==
  \A r \in Resources :
    current[r] # None =>
      /\ current[r] \notin draining
      /\ \A q \in Resources : current[r] \notin {candidate[q], prev[q]}
      /\ \A q \in Resources \ {r} : current[r] # current[q]

(* The visible handle is replaced only when the options in use change with *)
(* it, by an open handle built for the new ones, and while callers of the  *)
(* old one can still use it (until OnStop has closed it).                  *)
SwapsHandOver ==
  [][\A r \in Resources :
       current'[r] # current[r] /\ current[r] # None =>
         /\ applied'[r] # applied[r]
         /\ built[current'[r]] = applied'[r]
         /\ life[r] # "down" => built'[current[r]] # None]_rvars

=============================================================================
