-------------------------- MODULE ConfigLiveProofs --------------------------
(***************************************************************************)
(* Safety of config.Live for any number of writers, subscribers and        *)
(* documents.  The properties are not inductive: what a subscriber knows   *)
(* is right between Sets because the Set before told it, so the invariant  *)
(* says what is true at every line of Set.                                 *)
(***************************************************************************)
EXTENDS ConfigLive, TLAPS

Publishing == {"copy", "notify", "call"}

\* applyMu has one holder.
Exclusion ==
  \A v, w \in Writers : pc[v] \in Holding /\ pc[w] \in Holding => v = w

\* Set has something to publish...
Arguments == \A w \in Writers : pc[w] # "idle" => arg[w] \in Documents

\* ...and it is ptr once swapped.
Published == \A w \in Writers : pc[w] \in Publishing => ptr = arg[w]

\* Only the loop of Set has callbacks to call.
Pending ==
  \A w \in Writers :
    /\ todo[w] \subseteq subs \cup ended
    /\ pc[w] \notin {"notify", "call"} => todo[w] = {}

\* Nobody publishes: the subscribers know.
Settled ==
  (\A w \in Writers : pc[w] \notin Publishing) => \A s \in subs : known[s] = ptr

\* Somebody does: who still has a call coming may know the old value.
Telling ==
  \A w \in Writers :
    /\ pc[w] = "copy" => \A s \in subs : known[s] \in {old[w], arg[w]}
    /\ pc[w] \in {"notify", "call"} =>
         /\ \A s \in subs \ todo[w] : known[s] = ptr
         /\ \A s \in todo[w] : known[s] \in {old[w], arg[w]}

\* A late call is the last one.
Lateness ==
  /\ subs \cap ended = {}
  /\ \A s \in Subscribers :
       /\ late[s] \in {0, 1}
       /\ late[s] = 1 => s \in ended /\ \A w \in Writers : s \notin todo[w]

IInv ==
  /\ TypeOK /\ Arguments
  /\ Exclusion /\ Published /\ Pending
  /\ Settled /\ Telling /\ Lateness

-----------------------------------------------------------------------------

(* Every step keeps the variables in their types: Swap does because Set    *)
(* refuses a nil argument.                                                 *)
LEMMA TypeStep ==
  TypeOK /\ Arguments /\ [Next]_vars => TypeOK' /\ Arguments'
<1> SUFFICES ASSUME TypeOK, Arguments, [Next]_vars PROVE TypeOK' /\ Arguments'
  OBVIOUS
<1> USE DocumentAssumption DEF TypeOK, Arguments, Goto
<1>1. ASSUME NEW w \in Writers, NEW d \in Documents, ApplyUpdate(w, d)
      PROVE  TypeOK' /\ Arguments'
  BY <1>1 DEF ApplyUpdate, CallSet
<1>2. ASSUME NEW w \in Writers, NEW d \in Documents, RejectUpdate(w, d)
      PROVE  TypeOK' /\ Arguments'
  BY <1>2 DEF RejectUpdate
<1>3. ASSUME NEW w \in Writers, NEW d \in Accepted, SetDirectly(w, d)
      PROVE  TypeOK' /\ Arguments'
  BY <1>3 DEF SetDirectly, CallSet, Accepted
<1>4. ASSUME NEW w \in Writers, KeepCurrent(w) PROVE TypeOK' /\ Arguments'
  BY <1>4 DEF KeepCurrent
<1>5. ASSUME NEW w \in Writers, Lock(w) PROVE TypeOK' /\ Arguments'
  BY <1>5 DEF Lock
<1>6. ASSUME NEW w \in Writers, Swap(w) PROVE TypeOK' /\ Arguments'
  BY <1>6 DEF Swap
<1>7. ASSUME NEW w \in Writers, Copy(w) PROVE TypeOK' /\ Arguments'
  BY <1>7 DEF Copy
<1>8. ASSUME NEW w \in Writers, NEW s \in Subscribers, Invoke(w, s)
      PROVE  TypeOK' /\ Arguments'
  BY <1>8 DEF Invoke
<1>9. ASSUME NEW w \in Writers, Return(w) PROVE TypeOK' /\ Arguments'
  BY <1>9 DEF Return
<1>10. ASSUME NEW w \in Writers, Unlock(w) PROVE TypeOK' /\ Arguments'
  BY <1>10 DEF Unlock
<1>11. ASSUME NEW s \in Subscribers, Subscribe(s) PROVE TypeOK' /\ Arguments'
  BY <1>11 DEF Subscribe
<1>12. ASSUME NEW s \in Subscribers, Cancel(s) PROVE TypeOK' /\ Arguments'
  BY <1>12 DEF Cancel
<1>13. CASE UNCHANGED vars
  BY <1>13 DEF vars
<1>14. QED
  BY <1>1, <1>2, <1>3, <1>4, <1>5, <1>6, <1>7, <1>8, <1>9, <1>10, <1>11,
     <1>12, <1>13 DEF Next, SetStep

-----------------------------------------------------------------------------

Guarded == Exclusion /\ Pending
Informed == Published /\ Settled /\ Telling

(* Every step of Set, of Subscribe and of cancel keeps the invariant.      *)
LEMMA InvariantStep == IInv /\ [Next]_vars => IInv'
<1> SUFFICES ASSUME IInv, [Next]_vars PROVE IInv'
  OBVIOUS
<1>1. TypeOK' /\ Arguments'
  BY TypeStep DEF IInv
<1> USE DEF TypeOK, Goto, Holding, Publishing
<1>2. ASSUME NEW w \in Writers, NEW d \in Documents, ApplyUpdate(w, d)
      PROVE  Guarded' /\ Informed' /\ Lateness'
  <2>1. Guarded'
    BY <1>2 DEF IInv, Guarded, Exclusion, Pending, ApplyUpdate, CallSet
  <2>2. Informed'
    BY <1>2
       DEF IInv, Informed, Published, Settled, Telling, ApplyUpdate, CallSet
  <2>3. Lateness'
    BY <1>2 DEF IInv, Lateness, ApplyUpdate
  <2>4. QED
    BY <2>1, <2>2, <2>3
<1>3. ASSUME NEW w \in Writers, NEW d \in Documents, RejectUpdate(w, d)
      PROVE  Guarded' /\ Informed' /\ Lateness'
  <2>1. Guarded'
    BY <1>3 DEF IInv, Guarded, Exclusion, Pending, RejectUpdate
  <2>2. Informed'
    BY <1>3 DEF IInv, Informed, Published, Settled, Telling, RejectUpdate
  <2>3. Lateness'
    BY <1>3 DEF IInv, Lateness, RejectUpdate
  <2>4. QED
    BY <2>1, <2>2, <2>3
<1>4. ASSUME NEW w \in Writers, NEW d \in Accepted, SetDirectly(w, d)
      PROVE  Guarded' /\ Informed' /\ Lateness'
  <2>1. Guarded'
    BY <1>4 DEF IInv, Guarded, Exclusion, Pending, SetDirectly, CallSet
  <2>2. Informed'
    BY <1>4
       DEF IInv, Informed, Published, Settled, Telling, SetDirectly, CallSet
  <2>3. Lateness'
    BY <1>4 DEF IInv, Lateness, SetDirectly
  <2>4. QED
    BY <2>1, <2>2, <2>3
<1>5. ASSUME NEW w \in Writers, KeepCurrent(w)
      PROVE  Guarded' /\ Informed' /\ Lateness'
  <2>1. Guarded'
    BY <1>5 DEF IInv, Guarded, Exclusion, Pending, KeepCurrent
  <2>2. Informed'
    BY <1>5 DEF IInv, Informed, Published, Settled, Telling, KeepCurrent
  <2>3. Lateness'
    BY <1>5 DEF IInv, Lateness, KeepCurrent
  <2>4. QED
    BY <2>1, <2>2, <2>3
<1>6. ASSUME NEW w \in Writers, Lock(w)
      PROVE  Guarded' /\ Informed' /\ Lateness'
  <2>1. Guarded'
    BY <1>6 DEF IInv, Guarded, Exclusion, Pending, Lock
  <2>2. Informed'
    BY <1>6 DEF IInv, Informed, Published, Settled, Telling, Lock
  <2>3. Lateness'
    BY <1>6 DEF IInv, Lateness, Lock
  <2>4. QED
    BY <2>1, <2>2, <2>3
<1>7. ASSUME NEW w \in Writers, Swap(w)
      PROVE  Guarded' /\ Informed' /\ Lateness'
  <2>1. Guarded'
    BY <1>7 DEF IInv, Guarded, Exclusion, Pending, Swap
  <2>2. Informed'
    BY <1>7 DEF IInv, Informed, Exclusion, Published, Settled, Telling, Swap
  <2>3. Lateness'
    BY <1>7 DEF IInv, Lateness, Swap
  <2>4. QED
    BY <2>1, <2>2, <2>3
<1>8. ASSUME NEW w \in Writers, Copy(w)
      PROVE  Guarded' /\ Informed' /\ Lateness'
  <2>1. Guarded'
    BY <1>8 DEF IInv, Guarded, Exclusion, Pending, Copy
  <2>2. Informed'
    BY <1>8 DEF IInv, Informed, Published, Settled, Telling, Copy
  <2>3. Lateness'
    BY <1>8 DEF IInv, Lateness, Copy
  <2>4. QED
    BY <2>1, <2>2, <2>3
<1>9. ASSUME NEW w \in Writers, NEW s \in Subscribers, Invoke(w, s)
      PROVE  Guarded' /\ Informed' /\ Lateness'
  <2>1. Guarded'
    BY <1>9 DEF IInv, Guarded, Exclusion, Pending, Invoke
  <2>2. Informed'
    BY <1>9 DEF IInv, Informed, Published, Settled, Telling, Invoke
  <2>3. Lateness'
    BY <1>9 DEF IInv, Exclusion, Pending, Lateness, Invoke
  <2>4. QED
    BY <2>1, <2>2, <2>3
<1>10. ASSUME NEW w \in Writers, Return(w)
      PROVE  Guarded' /\ Informed' /\ Lateness'
  <2>1. Guarded'
    BY <1>10 DEF IInv, Guarded, Exclusion, Pending, Return
  <2>2. Informed'
    BY <1>10 DEF IInv, Informed, Published, Settled, Telling, Return
  <2>3. Lateness'
    BY <1>10 DEF IInv, Lateness, Return
  <2>4. QED
    BY <2>1, <2>2, <2>3
<1>11. ASSUME NEW w \in Writers, Unlock(w)
      PROVE  Guarded' /\ Informed' /\ Lateness'
  <2>1. Guarded'
    BY <1>11 DEF IInv, Guarded, Exclusion, Pending, Unlock
  <2>2. Informed'
    BY <1>11 DEF IInv, Informed, Published, Settled, Telling, Unlock
  <2>3. Lateness'
    BY <1>11 DEF IInv, Lateness, Unlock
  <2>4. QED
    BY <2>1, <2>2, <2>3
<1>12. ASSUME NEW s \in Subscribers, Subscribe(s)
      PROVE  Guarded' /\ Informed' /\ Lateness'
  <2>1. Guarded'
    BY <1>12 DEF IInv, Guarded, Exclusion, Pending, Subscribe
  <2>2. Informed'
    BY <1>12 DEF IInv, Informed, Published, Settled, Telling, Subscribe
  <2>3. Lateness'
    BY <1>12 DEF IInv, Lateness, Subscribe
  <2>4. QED
    BY <2>1, <2>2, <2>3
<1>13. ASSUME NEW s \in Subscribers, Cancel(s)
      PROVE  Guarded' /\ Informed' /\ Lateness'
  <2>1. Guarded'
    BY <1>13 DEF IInv, Guarded, Exclusion, Pending, Cancel
  <2>2. Informed'
    BY <1>13 DEF IInv, Informed, Published, Settled, Telling, Cancel
  <2>3. Lateness'
    BY <1>13 DEF IInv, Lateness, Cancel
  <2>4. QED
    BY <2>1, <2>2, <2>3
<1>14. ASSUME UNCHANGED vars PROVE Guarded' /\ Informed' /\ Lateness'
  <2>1. Guarded'
    BY <1>14 DEF IInv, Guarded, Exclusion, Pending, vars
  <2>2. Informed'
    BY <1>14 DEF IInv, Informed, Published, Settled, Telling, vars
  <2>3. Lateness'
    BY <1>14 DEF IInv, Lateness, vars
  <2>4. QED
    BY <2>1, <2>2, <2>3
<1>15. QED
  BY <1>1, <1>2, <1>3, <1>4, <1>5, <1>6, <1>7, <1>8, <1>9, <1>10, <1>11,
     <1>12, <1>13, <1>14 DEF Next, SetStep, IInv, Guarded, Informed

(* Init establishes it: nobody subscribed, nobody in Set.                  *)
LEMMA Initially == Init => IInv
BY DocumentAssumption
   DEF Init, IInv, TypeOK, Arguments, Exclusion, Published, Pending, Settled,
       Telling, Lateness, Holding, Publishing

LEMMA Invariance == Spec => []IInv
BY Initially, InvariantStep, PTL DEF Spec

-----------------------------------------------------------------------------

(* Whatever the source delivers and however Sets interleave, the variables *)
(* keep their types; a nil snapshot is never stored in Live.ptr.           *)
THEOREM TypeCorrect == Spec => []TypeOK
<1>1. IInv => TypeOK
  BY DEF IInv
<1>2. QED
  BY <1>1, Invariance, PTL

(* Every callback of every Set finds in Get() the value it was handed.     *)
THEOREM CallbacksSeePublished == Spec => []CallbackSeesPublished
<1>1. IInv => CallbackSeesPublished
  BY DEF IInv, Published, Publishing, CallbackSeesPublished
<1>2. QED
  BY <1>1, Invariance, PTL

(* Subscribing before reading Get() is enough, for any number of           *)
(* subscribers and concurrent Sets: no update is lost in between.          *)
THEOREM NoUpdateMissed == Spec => []NoMissedUpdate
<1>1. IInv => NoMissedUpdate
  BY DEF IInv, Settled, Publishing, Holding, NoMissedUpdate, Quiet
<1>2. QED
  BY <1>1, Invariance, PTL

(* The old value a callback is handed continues what its subscriber knew.  *)
THEOREM UpdatesChained == Spec => []ChainedUpdates
<1>1. IInv => ChainedUpdates
  BY DEF IInv, Pending, Telling, ChainedUpdates
<1>2. QED
  BY <1>1, Invariance, PTL

(* No subscription is called twice after its cancel function returned.     *)
THEOREM LateCallsBounded == Spec => []AtMostOneLateCall
<1>1. IInv => AtMostOneLateCall
  BY DEF IInv, Lateness, AtMostOneLateCall
<1>2. QED
  BY <1>1, Invariance, PTL

=============================================================================
