----------------------------- MODULE ConfigLive -----------------------------
(***************************************************************************)
(* config.Live: the current configuration snapshot, replaced as a whole    *)
(* and announced synchronously to subscribers (config/live.go), and the    *)
(* handler startWatch installs on the configuration source                 *)
(* (config/config.go).                                                     *)
(*                                                                         *)
(* Two mutexes guard a Live.  applyMu is held for a whole Set; mu only     *)
(* while the subscriber table is touched, so every section under mu is one *)
(* step.  Set itself is six steps, because readers, subscribers and other  *)
(* setters run between any two of them.                                    *)
(***************************************************************************)
EXTENDS Naturals

CONSTANTS
  Documents,    \* configuration documents a source can deliver
  Decodable,    \* the documents decodeConfig accepts
  Valid,        \* the documents live.validate accepts
  Initial,      \* the document the first Load returned
  Writers,      \* goroutines that run the watch handler or call Set
  Subscribers,  \* subscriptions made in one run; Subscribe hands out fresh ids
  None          \* no document, no subscriber (Go's nil)

ASSUME DocumentAssumption ==
  /\ Decodable \subseteq Documents
  /\ Valid \subseteq Documents
  /\ Initial \in Decodable \cap Valid
  /\ None \notin Documents
  /\ None \notin Subscribers

VARIABLES
  latest,   \* the last document the source reported, None when it was deleted
  ptr,      \* Live.ptr
  subs,     \* keys of Live.subs
  ended,    \* subscriptions whose cancel function has returned
  pc,       \* pc[w]: where writer w is in Set
  arg,      \* arg[w]: the value w publishes (cur)
  old,      \* old[w]: the value w's swap replaced
  todo,     \* todo[w]: callbacks w copied and has not called yet
  inside,   \* inside[w]: the subscriber whose callback w is running
  known,    \* known[s]: history, the newest value s was told or could read
  late      \* late[s]: history, calls of s begun after its cancel returned

vars == <<latest, ptr, subs, ended, pc, arg, old, todo, inside, known, late>>

Accepted == Decodable \cap Valid

TypeOK ==
  /\ latest \in Documents \cup {None}
  /\ ptr \in Documents
  /\ subs \in SUBSET Subscribers
  /\ ended \in SUBSET Subscribers
  /\ pc \in [Writers -> {"idle", "lock", "swap", "copy", "notify", "call"}]
  /\ arg \in [Writers -> Documents \cup {None}]
  /\ old \in [Writers -> Documents \cup {None}]
  /\ todo \in [Writers -> SUBSET Subscribers]
  /\ inside \in [Writers -> Subscribers \cup {None}]
  /\ known \in [Subscribers -> Documents \cup {None}]
  /\ late \in [Subscribers -> Nat]

-----------------------------------------------------------------------------

(* NewWithOptions: the first document was loaded, decoded and validated.   *)
Init ==
  /\ latest = Initial
  /\ ptr = Initial
  /\ subs = {}
  /\ ended = {}
  /\ pc = [w \in Writers |-> "idle"]
  /\ arg = [w \in Writers |-> None]
  /\ old = [w \in Writers |-> None]
  /\ todo = [w \in Writers |-> {}]
  /\ inside = [w \in Writers |-> None]
  /\ known = [s \in Subscribers |-> None]
  /\ late = [s \in Subscribers |-> 0]

Goto(w, label) == pc' = [pc EXCEPT ![w] = label]

(* Set's entry: a nil snapshot is ignored, anything else queues on applyMu. *)
CallSet(w, d) ==
  /\ pc[w] = "idle"
  /\ d # None
  /\ arg' = [arg EXCEPT ![w] = d]
  /\ Goto(w, "lock")

(* What the watch handler lets through: decodable and valid documents.     *)
Applies(d) == d \in Decodable /\ d \in Valid

(* The default branch of the handler's switch, for an update it applies... *)
ApplyUpdate(w, d) ==
  /\ Applies(d)
  /\ CallSet(w, d)
  /\ latest' = d
  /\ UNCHANGED <<ptr, subs, ended, old, todo, inside, known, late>>

(* ...and for one that fails to decode or to validate.                     *)
RejectUpdate(w, d) ==
  /\ pc[w] = "idle"
  /\ ~Applies(d)
  /\ latest' = d
  /\ UNCHANGED <<ptr, subs, ended, pc, arg, old, todo, inside, known, late>>

(* The Deleted branch (the source has no document) and, with latest left   *)
(* as it is, the Err branch: both keep the current configuration.          *)
KeepCurrent(w) ==
  /\ pc[w] = "idle"
  /\ latest' \in {latest, None}
  /\ UNCHANGED <<ptr, subs, ended, pc, arg, old, todo, inside, known, late>>

(* Set called by other code, with an already validated snapshot.           *)
SetDirectly(w, d) ==
  /\ CallSet(w, d)
  /\ UNCHANGED <<latest, ptr, subs, ended, old, todo, inside, known, late>>

\* The labels between applyMu.Lock() and applyMu.Unlock().
Holding == {"swap", "copy", "notify", "call"}

\* Mutant of Lock: no applyMu.
LockUnguarded(w) ==
  /\ pc[w] = "lock"
  /\ Goto(w, "swap")
  /\ UNCHANGED <<latest, ptr, subs, ended, arg, old, todo, inside, known, late>>

(* applyMu.Lock()                                                          *)
Lock(w) ==
  /\ pc[w] = "lock"
  /\ \A v \in Writers : pc[v] \notin Holding
  /\ Goto(w, "swap")
  /\ UNCHANGED <<latest, ptr, subs, ended, arg, old, todo, inside, known, late>>

\* Mutant of Swap: old is read after the store.
SwapThenRead(w) ==
  /\ pc[w] = "swap"
  /\ old' = [old EXCEPT ![w] = arg[w]]
  /\ ptr' = arg[w]
  /\ Goto(w, "copy")
  /\ UNCHANGED <<latest, subs, ended, arg, todo, inside, known, late>>

(* old := ptr.Swap(cur)                                                    *)
Swap(w) ==
  /\ pc[w] = "swap"
  /\ old' = [old EXCEPT ![w] = ptr]
  /\ ptr' = arg[w]
  /\ Goto(w, "copy")
  /\ UNCHANGED <<latest, subs, ended, arg, todo, inside, known, late>>

(* The callbacks are copied under mu, and called after mu is released.     *)
Copy(w) ==
  /\ pc[w] = "copy"
  /\ todo' = [todo EXCEPT ![w] = subs]
  /\ Goto(w, "notify")
  /\ UNCHANGED <<latest, ptr, subs, ended, arg, old, inside, known, late>>

\* Mutant of Invoke: the loop does not get past a callback.
InvokeAgain(w, s) ==
  /\ pc[w] = "notify"
  /\ s \in todo[w]
  /\ inside' = [inside EXCEPT ![w] = s]
  /\ known' = [known EXCEPT ![s] = arg[w]]
  /\ late' = [late EXCEPT ![s] = IF s \in ended THEN 1 ELSE 0]
  /\ Goto(w, "call")
  /\ UNCHANGED <<latest, ptr, subs, ended, arg, old, todo>>

(* callback(old, cur): map iteration order is random.                      *)
Invoke(w, s) ==
  /\ pc[w] = "notify"
  /\ s \in todo[w]
  /\ todo' = [todo EXCEPT ![w] = @ \ {s}]
  /\ inside' = [inside EXCEPT ![w] = s]
  /\ known' = [known EXCEPT ![s] = arg[w]]
  /\ late' = [late EXCEPT ![s] = IF s \in ended THEN @ + 1 ELSE @]
  /\ Goto(w, "call")
  /\ UNCHANGED <<latest, ptr, subs, ended, arg, old>>

(* The callback returns to Set's loop.                                     *)
Return(w) ==
  /\ pc[w] = "call"
  /\ inside' = [inside EXCEPT ![w] = None]
  /\ Goto(w, "notify")
  /\ UNCHANGED <<latest, ptr, subs, ended, arg, old, todo, known, late>>

\* Mutant of Unlock: out of the loop after any callback.
UnlockEarly(w) ==
  /\ pc[w] = "notify"
  /\ arg' = [arg EXCEPT ![w] = None]
  /\ old' = [old EXCEPT ![w] = None]
  /\ todo' = [todo EXCEPT ![w] = {}]
  /\ Goto(w, "idle")
  /\ UNCHANGED <<latest, ptr, subs, ended, inside, known, late>>

(* The deferred applyMu.Unlock(): Set returns.                             *)
Unlock(w) ==
  /\ pc[w] = "notify"
  /\ todo[w] = {}
  /\ arg' = [arg EXCEPT ![w] = None]
  /\ old' = [old EXCEPT ![w] = None]
  /\ Goto(w, "idle")
  /\ UNCHANGED <<latest, ptr, subs, ended, todo, inside, known, late>>

(* Subscribe: one section under mu.  The subscriber may read Get() any     *)
(* time from here on, so what it knows is the snapshot of this moment.     *)
Subscribe(s) ==
  /\ s \notin subs \cup ended
  /\ subs' = subs \cup {s}
  /\ known' = [known EXCEPT ![s] = ptr]
  /\ UNCHANGED <<latest, ptr, ended, pc, arg, old, todo, inside, late>>

\* Mutant of Cancel: the callback stays in the table.
CancelForgets(s) ==
  /\ s \in subs \ ended
  /\ ended' = ended \cup {s}
  /\ UNCHANGED <<latest, ptr, subs, pc, arg, old, todo, inside, known, late>>

(* The cancel function; a second call is absorbed by its sync.Once.        *)
Cancel(s) ==
  /\ s \in subs
  /\ subs' = subs \ {s}
  /\ ended' = ended \cup {s}
  /\ UNCHANGED <<latest, ptr, pc, arg, old, todo, inside, known, late>>

SetStep(w) ==
  \/ Lock(w) \/ Swap(w) \/ Copy(w)
  \/ \E s \in Subscribers : Invoke(w, s)
  \/ Return(w) \/ Unlock(w)

Next ==
  \/ \E w \in Writers :
       \/ \E d \in Documents : ApplyUpdate(w, d) \/ RejectUpdate(w, d)
       \/ \E d \in Accepted : SetDirectly(w, d)
       \/ KeepCurrent(w)
       \/ SetStep(w)
  \/ \E s \in Subscribers : Subscribe(s) \/ Cancel(s)

Spec == Init /\ [][Next]_vars

(***************************************************************************)
(* A goroutine inside Set keeps running and callbacks return (a rebuild is *)
(* bounded by its ping timeout).  sync.Mutex hands the lock to a waiter    *)
(* that has starved for a millisecond, hence strong fairness on Lock.      *)
(***************************************************************************)
Fairness ==
  \A w \in Writers :
    /\ SF_vars(Lock(w))
    /\ WF_vars(Swap(w) \/ Copy(w) \/ Return(w) \/ Unlock(w)
               \/ \E s \in Subscribers : Invoke(w, s))

FairSpec == Spec /\ Fairness

-----------------------------------------------------------------------------

\* No Set is running (one may be waiting for the lock).
Quiet == \A w \in Writers : pc[w] \notin Holding

(* During a callback Get() returns the value the callback was handed: no   *)
(* later Set can replace it before every subscriber has been told.         *)
CallbackSeesPublished ==
  \A w \in Writers : pc[w] \in {"notify", "call"} => ptr = arg[w]

(* A subscriber that subscribes first and reads Get() afterwards never     *)
(* misses an update: once no Set is running it knows the current value,    *)
(* however Subscribe interleaved with the Sets before.                     *)
NoMissedUpdate == Quiet => \A s \in subs : known[s] = ptr

(* Updates reach a subscriber in publication order without gaps: the old   *)
(* value of a pending callback is the one the subscriber already has, or   *)
(* the callback repeats a value read between the swap and the copy.        *)
ChainedUpdates ==
  \A w \in Writers : \A s \in todo[w] : known[s] \in {old[w], arg[w]}

(* Cancel does not wait for a Set in progress, so a callback may still     *)
(* start after cancel has returned, but at most once.                      *)
AtMostOneLateCall == \A s \in Subscribers : late[s] <= 1

(* Every Set returns: no interleaving with other Sets, with Subscribe or   *)
(* with cancel blocks it for ever.                                         *)
SetReturns == \A w \in Writers : pc[w] = "lock" ~> pc[w] = "idle"

=============================================================================
