------------------------- MODULE LiveResourceProofs -------------------------
(***************************************************************************)
(* Safety of the live connection holders for any number of resources and   *)
(* handles.  "The visible handle works" is not inductive: it holds because *)
(* whoever closes a handle (a failed ping, a drain timer, OnStop) holds    *)
(* another one, and because what is swapped in is open and new.            *)
(***************************************************************************)
EXTENDS LiveResource, TLAPS

Building == {"build", "ping", "client", "swap"}

\* Before the constructor has returned there is nothing.
Begins ==
  \A r \in Resources :
    /\ life[r] \in {"absent", "built", "failed"} => phase[r] = "idle"
    /\ life[r] \in {"absent", "failed"} <=> current[r] = None

\* The callback's local variables, by its place in the code.
Locals ==
  \A r \in Resources :
    /\ phase[r] \in Building => next[r] \in Options /\ next[r] # applied[r]
    /\ phase[r] \in {"ping", "swap"} =>
         candidate[r] \in Handles /\ built[candidate[r]] = next[r]
    /\ phase[r] \notin {"ping", "swap"} => candidate[r] = None
    /\ phase[r] # "settle" <=> prev[r] = None

\* One handle, one role.
Roles ==
  \A r, q \in Resources :
    /\ current[r] # None =>
         /\ current[r] \notin draining \cup {candidate[q], prev[q]}
         /\ r # q => current[r] # current[q]
    /\ candidate[r] # None =>
         /\ candidate[r] \notin draining \cup {prev[q]}
         /\ r # q => candidate[r] # candidate[q]
    /\ prev[r] # None =>
         /\ prev[r] \notin draining
         /\ r # q => prev[r] # prev[q]

IInv == TypeOK /\ Begins /\ Locals /\ Roles /\ VisibleWorks

-----------------------------------------------------------------------------

(* Every step of a constructor, a callback, a timer or OnStop keeps it.    *)
LEMMA InvariantStep == IInv /\ [Next]_rvars => IInv'
<1> SUFFICES ASSUME IInv, [Next]_rvars PROVE IInv'
  OBVIOUS
<1> USE ResourceAssumption DEF IInv, TypeOK
<1>1. ASSUME NEW r \in Resources, NEW o \in Options, NEW h \in Handles,
             Construct(r, o, h)
      PROVE  IInv'
  <2>1. TypeOK'
    BY <1>1 DEF Construct, Fresh
  <2>2. Begins'
    BY <1>1 DEF Begins, Construct, Fresh
  <2>3. Locals'
    BY <1>1 DEF Begins, Locals, Building, Construct, Fresh
  <2>4. Roles'
    BY <1>1 DEF Roles, Construct, Fresh
  <2>5. VisibleWorks'
    BY <1>1 DEF VisibleWorks, Construct, Fresh
  <2>6. QED
    BY <2>1, <2>2, <2>3, <2>4, <2>5
<1>2. ASSUME NEW r \in Resources, ConstructFails(r) PROVE IInv'
  <2>1. TypeOK'
    BY <1>2 DEF ConstructFails
  <2>2. Begins'
    BY <1>2 DEF Begins, ConstructFails
  <2>3. Locals'
    BY <1>2 DEF Locals, ConstructFails
  <2>4. Roles'
    BY <1>2 DEF Roles, ConstructFails
  <2>5. VisibleWorks'
    BY <1>2 DEF VisibleWorks, ConstructFails
  <2>6. QED
    BY <2>1, <2>2, <2>3, <2>4, <2>5
<1>3. ASSUME NEW r \in Resources, Attach(r) PROVE IInv'
  <2>1. TypeOK'
    BY <1>3 DEF Attach
  <2>2. Begins'
    BY <1>3 DEF Begins, Attach
  <2>3. Locals'
    BY <1>3 DEF Locals, Attach
  <2>4. Roles'
    BY <1>3 DEF Roles, Attach
  <2>5. VisibleWorks'
    BY <1>3 DEF VisibleWorks, Attach
  <2>6. QED
    BY <2>1, <2>2, <2>3, <2>4, <2>5
<1>4. ASSUME NEW r \in Resources, NEW o \in Options, NotifiedSame(r, o)
      PROVE  IInv'
  <2>1. TypeOK'
    BY <1>4 DEF NotifiedSame, Begun, Constructed, Go
  <2>2. Begins'
    BY <1>4 DEF Begins, NotifiedSame, Begun, Constructed, Go
  <2>3. Locals'
    BY <1>4 DEF Locals, Building, NotifiedSame, Begun, Constructed, Go
  <2>4. Roles'
    BY <1>4 DEF Roles, NotifiedSame, Begun, Constructed, Go
  <2>5. VisibleWorks'
    BY <1>4 DEF VisibleWorks, NotifiedSame, Begun, Constructed, Go
  <2>6. QED
    BY <2>1, <2>2, <2>3, <2>4, <2>5
<1>5. ASSUME NEW r \in Resources, NEW o \in Options, NotifiedChanged(r, o)
      PROVE  IInv'
  <2>1. TypeOK'
    BY <1>5 DEF NotifiedChanged, Begun, Constructed, Go
  <2>2. Begins'
    BY <1>5 DEF Begins, NotifiedChanged, Begun, Constructed, Go
  <2>3. Locals'
    BY <1>5 DEF Locals, NotifiedChanged, Begun, Constructed, Go
  <2>4. Roles'
    BY <1>5 DEF Roles, NotifiedChanged, Begun, Constructed, Go
  <2>5. VisibleWorks'
    BY <1>5 DEF VisibleWorks, NotifiedChanged, Begun, Constructed, Go
  <2>6. QED
    BY <2>1, <2>2, <2>3, <2>4, <2>5
<1>6. ASSUME NEW r \in Resources, BuildFails(r) PROVE IInv'
  <2>1. TypeOK'
    BY <1>6 DEF BuildFails, KeepPrevious, Go
  <2>2. Begins'
    BY <1>6 DEF Begins, BuildFails, KeepPrevious, Go
  <2>3. Locals'
    BY <1>6 DEF Locals, Building, BuildFails, KeepPrevious, Go
  <2>4. Roles'
    BY <1>6 DEF Roles, BuildFails, KeepPrevious, Go
  <2>5. VisibleWorks'
    BY <1>6 DEF VisibleWorks, BuildFails, KeepPrevious, Go
  <2>6. QED
    BY <2>1, <2>2, <2>3, <2>4, <2>5
<1>7. ASSUME NEW r \in Resources, NEW h \in Handles, Create(r, h) PROVE IInv'
  <2>1. TypeOK'
    BY <1>7 DEF Create, Fresh, Go
  <2>2. Begins'
    BY <1>7 DEF Begins, Create, Fresh, Go
  <2>3. Locals'
    BY <1>7 DEF Locals, Building, Create, Fresh, Go
  <2>4. Roles'
    BY <1>7 DEF Roles, Create, Fresh, Go
  <2>5. VisibleWorks'
    BY <1>7 DEF VisibleWorks, Create, Fresh, Go
  <2>6. QED
    BY <2>1, <2>2, <2>3, <2>4, <2>5
<1>8. ASSUME NEW r \in Resources, PingFails(r) PROVE IInv'
  <2>1. TypeOK'
    BY <1>8 DEF PingFails, Close, KeepPrevious, Go
  <2>2. Begins'
    BY <1>8 DEF Begins, PingFails, Close, KeepPrevious, Go
  <2>3. Locals'
    BY <1>8 DEF Locals, Roles, Building, PingFails, Close, KeepPrevious, Go
  <2>4. Roles'
    BY <1>8 DEF Roles, PingFails, Close, KeepPrevious, Go
  <2>5. VisibleWorks'
    BY <1>8 DEF Roles, VisibleWorks, PingFails, Close, KeepPrevious, Go
  <2>6. QED
    BY <2>1, <2>2, <2>3, <2>4, <2>5
<1>9. ASSUME NEW r \in Resources, PoolAnswers(r) PROVE IInv'
  <2>1. TypeOK'
    BY <1>9 DEF PoolAnswers, Go
  <2>2. Begins'
    BY <1>9 DEF Begins, PoolAnswers, Go
  <2>3. Locals'
    BY <1>9 DEF Locals, Building, PoolAnswers, Go
  <2>4. Roles'
    BY <1>9 DEF Roles, PoolAnswers, Go
  <2>5. VisibleWorks'
    BY <1>9 DEF VisibleWorks, PoolAnswers, Go
  <2>6. QED
    BY <2>1, <2>2, <2>3, <2>4, <2>5
<1>10. ASSUME NEW r \in Resources, ProbeAnswers(r) PROVE IInv'
  <2>1. TypeOK'
    BY <1>10 DEF ProbeAnswers, Close, Go
  <2>2. Begins'
    BY <1>10 DEF Begins, ProbeAnswers, Close, Go
  <2>3. Locals'
    BY <1>10 DEF Locals, Roles, Building, ProbeAnswers, Close, Go
  <2>4. Roles'
    BY <1>10 DEF Roles, ProbeAnswers, Close, Go
  <2>5. VisibleWorks'
    BY <1>10 DEF Roles, VisibleWorks, ProbeAnswers, Close, Go
  <2>6. QED
    BY <2>1, <2>2, <2>3, <2>4, <2>5
<1>11. ASSUME NEW r \in Resources, NEW h \in Handles, CreateClient(r, h)
      PROVE  IInv'
  <2>1. TypeOK'
    BY <1>11 DEF CreateClient, Fresh, Go
  <2>2. Begins'
    BY <1>11 DEF Begins, CreateClient, Fresh, Go
  <2>3. Locals'
    BY <1>11 DEF Locals, Building, CreateClient, Fresh, Go
  <2>4. Roles'
    BY <1>11 DEF Roles, CreateClient, Fresh, Go
  <2>5. VisibleWorks'
    BY <1>11 DEF VisibleWorks, CreateClient, Fresh, Go
  <2>6. QED
    BY <2>1, <2>2, <2>3, <2>4, <2>5
<1>12. ASSUME NEW r \in Resources, SwapIn(r) PROVE IInv'
  <2>1. TypeOK'
    BY <1>12 DEF SwapIn, Go
  <2>2. Begins'
    BY <1>12 DEF Begins, Locals, SwapIn, Go
  <2>3. Locals'
    BY <1>12 DEF Begins, Locals, Building, SwapIn, Go
  <2>4. Roles'
    BY <1>12 DEF Roles, SwapIn, Go
  <2>5. VisibleWorks'
    BY <1>12 DEF Locals, VisibleWorks, Building, SwapIn, Go
  <2>6. QED
    BY <2>1, <2>2, <2>3, <2>4, <2>5
<1>13. ASSUME NEW r \in Resources, Settle(r) PROVE IInv'
  <2>1. TypeOK'
    BY <1>13 DEF Locals, Settle, SettleWith, Go
  <2>2. Begins'
    BY <1>13 DEF Begins, Settle, SettleWith, Go
  <2>3. Locals'
    BY <1>13 DEF Locals, Building, Settle, SettleWith, Go
  <2>4. Roles'
    BY <1>13 DEF Roles, Settle, SettleWith, Go
  <2>5. VisibleWorks'
    BY <1>13 DEF VisibleWorks, Settle, SettleWith, Go
  <2>6. QED
    BY <2>1, <2>2, <2>3, <2>4, <2>5
<1>14. ASSUME NEW r \in Resources, Finish(r) PROVE IInv'
  <2>1. TypeOK'
    BY <1>14 DEF Finish, Go
  <2>2. Begins'
    BY <1>14 DEF Begins, Finish, Go
  <2>3. Locals'
    BY <1>14 DEF Locals, Building, Finish, Go
  <2>4. Roles'
    BY <1>14 DEF Roles, Finish, Go
  <2>5. VisibleWorks'
    BY <1>14 DEF VisibleWorks, Finish, Go
  <2>6. QED
    BY <2>1, <2>2, <2>3, <2>4, <2>5
<1>15. ASSUME NEW h \in Handles, Drain(h) PROVE IInv'
  <2>1. TypeOK'
    BY <1>15 DEF Drain, Close
  <2>2. Begins'
    BY <1>15 DEF Begins, Drain, Close
  <2>3. Locals'
    BY <1>15 DEF Locals, Roles, Building, Drain, Close
  <2>4. Roles'
    BY <1>15 DEF Roles, Drain, Close
  <2>5. VisibleWorks'
    BY <1>15 DEF Roles, VisibleWorks, Drain, Close
  <2>6. QED
    BY <2>1, <2>2, <2>3, <2>4, <2>5
<1>16. ASSUME NEW r \in Resources, Detach(r) PROVE IInv'
  <2>1. TypeOK'
    BY <1>16 DEF Detach
  <2>2. Begins'
    BY <1>16 DEF Begins, Detach
  <2>3. Locals'
    BY <1>16 DEF Locals, Detach
  <2>4. Roles'
    BY <1>16 DEF Roles, Detach
  <2>5. VisibleWorks'
    BY <1>16 DEF VisibleWorks, Detach
  <2>6. QED
    BY <2>1, <2>2, <2>3, <2>4, <2>5
<1>17. ASSUME NEW r \in Resources, StopClose(r) PROVE IInv'
  <2>1. TypeOK'
    BY <1>17 DEF StopClose, Close
  <2>2. Begins'
    BY <1>17 DEF Begins, StopClose, Close
  <2>3. Locals'
    BY <1>17 DEF Locals, Roles, Building, StopClose, Close
  <2>4. Roles'
    BY <1>17 DEF Roles, StopClose, Close
  <2>5. VisibleWorks'
    BY <1>17 DEF Roles, VisibleWorks, StopClose, Close
  <2>6. QED
    BY <2>1, <2>2, <2>3, <2>4, <2>5
<1>18. CASE UNCHANGED rvars
  BY <1>18 DEF rvars, Begins, Locals, Roles, VisibleWorks
<1>19. QED
  BY <1>1, <1>2, <1>3, <1>4, <1>5, <1>6, <1>7, <1>8, <1>9, <1>10, <1>11,
     <1>12, <1>13, <1>14, <1>15, <1>16, <1>17, <1>18
     DEF Next, Notified, Rebuild

(* Nothing exists at first.                                                *)
LEMMA Initially == Init => IInv
BY ResourceAssumption
   DEF Init, IInv, TypeOK, Begins, Locals, Roles, Building, VisibleWorks

LEMMA Invariance == Spec => []IInv
BY Initially, InvariantStep, PTL DEF Spec

-----------------------------------------------------------------------------

(* Failed rebuilds, drains and hooks leave the variables in their types: a *)
(* drain timer is never set for a handle that does not exist.              *)
THEOREM TypeCorrect == Spec => []TypeOK
<1>1. IInv => TypeOK
  BY DEF IInv
<1>2. QED
  BY <1>1, Invariance, PTL

(* Until its OnStop, a holder shows an open handle built for the options   *)
(* in use, however many holders share the process.                         *)
THEOREM VisibleAlwaysWorks == Spec => []VisibleWorks
<1>1. IInv => VisibleWorks
  BY DEF IInv
<1>2. QED
  BY <1>1, Invariance, PTL

(* What callers use is never what somebody is about to close.              *)
THEOREM ExclusiveHandles == Spec => []Exclusive
<1>1. IInv => Exclusive
  BY DEF IInv, Roles, Exclusive
<1>2. QED
  BY <1>1, Invariance, PTL

(* The visible handle changes only with the options, to an open handle,    *)
(* and before the replaced one is closed.                                  *)
THEOREM HandsOver == Spec => SwapsHandOver
<1> DEFINE HandOver ==
      \A r \in Resources :
        current'[r] # current[r] /\ current[r] # None =>
          /\ applied'[r] # applied[r]
          /\ built[current'[r]] = applied'[r]
          /\ life[r] # "down" => built'[current[r]] # None
<1>1. IInv /\ [Next]_rvars => [HandOver]_rvars
  <2> SUFFICES ASSUME IInv, Next PROVE HandOver
    BY DEF rvars
  <2>1. CASE \E r \in Resources, o \in Options, h \in Handles :
              Construct(r, o, h)
    BY <2>1 DEF Construct, IInv, TypeOK, Begins
  <2>2. CASE \E r \in Resources : SwapIn(r)
    BY <2>2, ResourceAssumption
       DEF SwapIn, Go, IInv, TypeOK, Begins, Locals, Building, VisibleWorks
  <2>3. CASE UNCHANGED current
    BY <2>3
  <2>4. QED
    BY <2>1, <2>2, <2>3
       DEF Next, Notified, NotifiedSame, NotifiedChanged, ConstructFails,
           Attach, Rebuild, BuildFails, PingFails, KeepPrevious, PoolAnswers,
           ProbeAnswers, Create, CreateClient, Settle, SettleWith, Finish,
           Detach, StopClose, Drain
<1>2. QED
  BY <1>1, Invariance, PTL DEF Spec, SwapsHandOver

-----------------------------------------------------------------------------

\* A callback that runs past unsubscribe is recorded as such.
Recorded ==
  \A r \in Resources :
    life[r] \in {"detached", "down"} /\ ~overlapped[r] => phase[r] = "idle"

\* NoOrphan, handle by handle.
Kept(h) ==
  \/ h \in draining
  \/ \E r \in Resources :
       \/ h \in {candidate[r], prev[r]}
       \/ h = current[r] /\ (life[r] # "down" \/ overlapped[r])

OInv == IInv /\ Recorded /\ \A h \in Open : Kept(h)

(* Every step that drops a reference to an open handle closes the handle,  *)
(* hands it to a drain timer or moves it to another role.                  *)
LEMMA OwnerStep == OInv /\ [Next]_rvars => OInv'
<1> SUFFICES ASSUME OInv, [Next]_rvars
             PROVE  Recorded' /\ (\A k \in Open : Kept(k))'
  BY InvariantStep DEF OInv
<1> USE ResourceAssumption DEF OInv, IInv, TypeOK
<1>1. ASSUME NEW r \in Resources, NEW o \in Options, NEW h \in Handles,
             Construct(r, o, h)
      PROVE  Recorded' /\ (\A k \in Open : Kept(k))'
  <2>1. Recorded'
    BY <1>1 DEF Recorded, Construct, Fresh
  <2>2. ASSUME NEW k \in Open' PROVE Kept(k)'
    BY <1>1, <2>2 DEF Begins, Kept, Open, Construct, Fresh
  <2>3. QED
    BY <2>1, <2>2
<1>2. ASSUME NEW r \in Resources, ConstructFails(r)
      PROVE  Recorded' /\ (\A k \in Open : Kept(k))'
  <2>1. Recorded'
    BY <1>2 DEF Recorded, ConstructFails
  <2>2. ASSUME NEW k \in Open' PROVE Kept(k)'
    BY <1>2, <2>2 DEF Kept, Open, ConstructFails
  <2>3. QED
    BY <2>1, <2>2
<1>3. ASSUME NEW r \in Resources, Attach(r)
      PROVE  Recorded' /\ (\A k \in Open : Kept(k))'
  <2>1. Recorded'
    BY <1>3 DEF Recorded, Attach
  <2>2. ASSUME NEW k \in Open' PROVE Kept(k)'
    BY <1>3, <2>2 DEF Kept, Open, Attach
  <2>3. QED
    BY <2>1, <2>2
<1>4. ASSUME NEW r \in Resources, NEW o \in Options, NotifiedSame(r, o)
      PROVE  Recorded' /\ (\A k \in Open : Kept(k))'
  <2>1. Recorded'
    BY <1>4 DEF Recorded, NotifiedSame, Begun, Constructed, Go
  <2>2. ASSUME NEW k \in Open' PROVE Kept(k)'
    BY <1>4, <2>2 DEF Kept, Open, NotifiedSame, Begun, Constructed, Go
  <2>3. QED
    BY <2>1, <2>2
<1>5. ASSUME NEW r \in Resources, NEW o \in Options, NotifiedChanged(r, o)
      PROVE  Recorded' /\ (\A k \in Open : Kept(k))'
  <2>1. Recorded'
    BY <1>5 DEF Recorded, NotifiedChanged, Begun, Constructed, Go
  <2>2. ASSUME NEW k \in Open' PROVE Kept(k)'
    BY <1>5, <2>2 DEF Kept, Open, NotifiedChanged, Begun, Constructed, Go
  <2>3. QED
    BY <2>1, <2>2
<1>6. ASSUME NEW r \in Resources, BuildFails(r)
      PROVE  Recorded' /\ (\A k \in Open : Kept(k))'
  <2>1. Recorded'
    BY <1>6 DEF Recorded, BuildFails, KeepPrevious, Go
  <2>2. ASSUME NEW k \in Open' PROVE Kept(k)'
    BY <1>6, <2>2 DEF Kept, Open, BuildFails, KeepPrevious, Go
  <2>3. QED
    BY <2>1, <2>2
<1>7. ASSUME NEW r \in Resources, NEW h \in Handles, Create(r, h)
      PROVE  Recorded' /\ (\A k \in Open : Kept(k))'
  <2>1. Recorded'
    BY <1>7 DEF Recorded, Create, Fresh, Go
  <2>2. ASSUME NEW k \in Open' PROVE Kept(k)'
    BY <1>7, <2>2 DEF Locals, Kept, Open, Create, Fresh, Go
  <2>3. QED
    BY <2>1, <2>2
<1>8. ASSUME NEW r \in Resources, PingFails(r)
      PROVE  Recorded' /\ (\A k \in Open : Kept(k))'
  <2>1. Recorded'
    BY <1>8 DEF Recorded, PingFails, Close, KeepPrevious, Go
  <2>2. ASSUME NEW k \in Open' PROVE Kept(k)'
    BY <1>8, <2>2 DEF Kept, Open, PingFails, Close, KeepPrevious, Go
  <2>3. QED
    BY <2>1, <2>2
<1>9. ASSUME NEW r \in Resources, PoolAnswers(r)
      PROVE  Recorded' /\ (\A k \in Open : Kept(k))'
  <2>1. Recorded'
    BY <1>9 DEF Recorded, PoolAnswers, Go
  <2>2. ASSUME NEW k \in Open' PROVE Kept(k)'
    BY <1>9, <2>2 DEF Kept, Open, PoolAnswers, Go
  <2>3. QED
    BY <2>1, <2>2
<1>10. ASSUME NEW r \in Resources, ProbeAnswers(r)
      PROVE  Recorded' /\ (\A k \in Open : Kept(k))'
  <2>1. Recorded'
    BY <1>10 DEF Recorded, ProbeAnswers, Close, Go
  <2>2. ASSUME NEW k \in Open' PROVE Kept(k)'
    BY <1>10, <2>2 DEF Kept, Open, ProbeAnswers, Close, Go
  <2>3. QED
    BY <2>1, <2>2
<1>11. ASSUME NEW r \in Resources, NEW h \in Handles, CreateClient(r, h)
      PROVE  Recorded' /\ (\A k \in Open : Kept(k))'
  <2>1. Recorded'
    BY <1>11 DEF Recorded, CreateClient, Fresh, Go
  <2>2. ASSUME NEW k \in Open' PROVE Kept(k)'
    BY <1>11, <2>2 DEF Locals, Kept, Open, CreateClient, Fresh, Go
  <2>3. QED
    BY <2>1, <2>2
<1>12. ASSUME NEW r \in Resources, SwapIn(r)
      PROVE  Recorded' /\ (\A k \in Open : Kept(k))'
  <2>1. Recorded'
    BY <1>12 DEF Recorded, SwapIn, Go
  <2>2. ASSUME NEW k \in Open' PROVE Kept(k)'
    BY <1>12, <2>2 DEF Recorded, Locals, Kept, Open, SwapIn, Go
  <2>3. QED
    BY <2>1, <2>2
<1>13. ASSUME NEW r \in Resources, Settle(r)
      PROVE  Recorded' /\ (\A k \in Open : Kept(k))'
  <2>1. Recorded'
    BY <1>13 DEF Recorded, Settle, SettleWith, Go
  <2>2. ASSUME NEW k \in Open' PROVE Kept(k)'
    BY <1>13, <2>2 DEF Kept, Open, Settle, SettleWith, Go
  <2>3. QED
    BY <2>1, <2>2
<1>14. ASSUME NEW r \in Resources, Finish(r)
      PROVE  Recorded' /\ (\A k \in Open : Kept(k))'
  <2>1. Recorded'
    BY <1>14 DEF Recorded, Finish, Go
  <2>2. ASSUME NEW k \in Open' PROVE Kept(k)'
    BY <1>14, <2>2 DEF Kept, Open, Finish, Go
  <2>3. QED
    BY <2>1, <2>2
<1>15. ASSUME NEW h \in Handles, Drain(h)
      PROVE  Recorded' /\ (\A k \in Open : Kept(k))'
  <2>1. Recorded'
    BY <1>15 DEF Recorded, Drain, Close
  <2>2. ASSUME NEW k \in Open' PROVE Kept(k)'
    BY <1>15, <2>2 DEF Kept, Open, Drain, Close
  <2>3. QED
    BY <2>1, <2>2
<1>16. ASSUME NEW r \in Resources, Detach(r)
      PROVE  Recorded' /\ (\A k \in Open : Kept(k))'
  <2>1. Recorded'
    BY <1>16 DEF Recorded, Detach
  <2>2. ASSUME NEW k \in Open' PROVE Kept(k)'
    BY <1>16, <2>2 DEF Kept, Open, Detach
  <2>3. QED
    BY <2>1, <2>2
<1>17. ASSUME NEW r \in Resources, StopClose(r)
      PROVE  Recorded' /\ (\A k \in Open : Kept(k))'
  <2>1. Recorded'
    BY <1>17 DEF Recorded, StopClose, Close
  <2>2. ASSUME NEW k \in Open' PROVE Kept(k)'
    BY <1>17, <2>2 DEF Kept, Open, StopClose, Close
  <2>3. QED
    BY <2>1, <2>2
<1>18. CASE UNCHANGED rvars
  BY <1>18 DEF rvars, Recorded, Kept, Open
<1>19. QED
  BY <1>1, <1>2, <1>3, <1>4, <1>5, <1>6, <1>7, <1>8, <1>9, <1>10, <1>11,
     <1>12, <1>13, <1>14, <1>15, <1>16, <1>17, <1>18
     DEF Next, Notified, Rebuild

(* No handle is leaked: an open one is visible, in the making, or has a    *)
(* timer, except where a rebuild outlives OnStop.                          *)
THEOREM NothingLeaks == Spec => []NoOrphan
<1>1. Init => OInv
  BY Initially DEF Init, OInv, Recorded, Open
<1>2. OInv => NoOrphan
  <2> SUFFICES ASSUME OInv, NEW h \in Open
               PROVE  h \in draining \/ \E r \in Resources : h \in Owned(r)
    BY DEF NoOrphan
  <2>1. Kept(h)
    BY DEF OInv
  <2>2. QED
    BY <2>1 DEF Kept, Owned
<1>3. QED
  BY <1>1, <1>2, OwnerStep, PTL DEF Spec

=============================================================================
