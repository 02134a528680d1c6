--------------------------- MODULE OsObjectsProofs ---------------------------
(***************************************************************************)
(* Proofs about the objects a task can wait for: queues, mailboxes and     *)
(* mutexes (OsObjects) and event flags (OsFlag), for every number of tasks *)
(* and event blocks, every queue size and every set of messages and flags. *)
(* First the part of the kernel they share (OsEvent), then the rings of    *)
(* the queues, the event flags, and last who owns a mutex and who waits    *)
(* for what.                                                               *)
(***************************************************************************)
EXTENDS OsObjects, OsFlag, NumberSets, SequenceTheorems, TLAPS

Kind == {"Q", "MBOX", "MUTEX", "FLAG"}

CoreTypes ==
  /\ OSTCBPrio \in [Tcb -> Prio] /\ OSTCBPrioTbl \in [Prio -> Tcb \cup {Null, Reserved}]
  /\ OSRdyTbl \subseteq Prio /\ OSTCBCur \in Tcb /\ OSPrioCur \in Prio
  /\ OSTCBStat \in [Tcb -> Kind \cup {"RDY"}]
  /\ OSTCBStatPend \in [Tcb -> {"OK", "TO", "ABORT"}]
  /\ OSTCBDly \in [Tcb -> Nat] /\ OSTCBEventPtr \in [Tcb -> Event \cup {Null}]
  /\ OSEventType \in [Event -> Kind \cup {"UNUSED"}] /\ OSEventTbl \in [Event -> SUBSET Prio]
  /\ pc \in [Tcb -> Kind \cup {"run"}] /\ pevent \in [Tcb -> Event \cup {Null}]

\* A priority is in the table for the task that has it, and for the one created with it.
PrioRight(prio, tbl) ==
  /\ \A t \in Tcb : tbl[prio[t]] = t /\ tbl[BasePrio[t]] = t
  /\ prio[Idle] = BasePrio[Idle]

\* The ready list holds the priorities of the tasks that wait for nothing, and a wait list
\* those of the tasks whose blocks point at it.
ReadyRight(prio, rdy, dly, stat) ==
  /\ \A t \in Tcb : prio[t] \in rdy <=> dly[t] = 0 /\ stat[t] = "RDY"
  /\ \A p \in rdy : \E t \in Tcb : prio[t] = p
ListsRight(prio, etbl, eptr) ==
  /\ \A e \in Event, t \in Tcb : prio[t] \in etbl[e] <=> eptr[t] = e
  /\ \A e \in Event : \A p \in etbl[e] : \E t \in Tcb : prio[t] = p

\* The task on the CPU is ready.
CpuRight(prio, rdy, cur, pcur) == prio[cur] = pcur /\ pcur \in rdy

\* What the block of a task says outside and inside a service that waits: it waits, its time
\* is over, or somebody has woken it.
Free(stat, pend, eptr, pe) == stat = "RDY" /\ pend = "OK" /\ eptr = Null /\ pe = Null
Waits(k, stat, pend, eptr, pe) == stat = k /\ pend = "OK" /\ eptr = pe
Late(stat, pend, dly, eptr, pe) == stat = "RDY" /\ pend = "TO" /\ dly = 0 /\ eptr = pe
Answered(stat, pend, dly, eptr) == stat = "RDY" /\ pend \in {"OK", "ABORT"} /\ dly = 0 /\ eptr = Null
BlockRight(k, stat, pend, dly, eptr, pe) ==
  IF k = "run" THEN Free(stat, pend, eptr, pe)
  ELSE /\ pe \in Event
       /\ \/ Waits(k, stat, pend, eptr, pe) \/ Late(stat, pend, dly, eptr, pe)
          \/ Answered(stat, pend, dly, eptr)
BlocksRight(k, stat, pend, dly, eptr, pe) ==
  /\ \A t \in Tcb : BlockRight(k[t], stat[t], pend[t], dly[t], eptr[t], pe[t])
  /\ k[Idle] = "run" /\ dly[Idle] = 0

\* A task waits for an event of the type its service is for.
TypesMatch(k, eptr, type) == \A t \in Tcb : eptr[t] \in Event => type[eptr[t]] = k[t]

CoreInv ==
  /\ CoreTypes /\ PrioRight(OSTCBPrio, OSTCBPrioTbl)
  /\ ReadyRight(OSTCBPrio, OSRdyTbl, OSTCBDly, OSTCBStat)
  /\ ListsRight(OSTCBPrio, OSEventTbl, OSTCBEventPtr)
  /\ CpuRight(OSTCBPrio, OSRdyTbl, OSTCBCur, OSPrioCur)
  /\ BlocksRight(pc, OSTCBStat, OSTCBStatPend, OSTCBDly, OSTCBEventPtr, pevent)
  /\ TypesMatch(pc, OSTCBEventPtr, OSEventType)

-----------------------------------------------------------------------------
LEMMA CorePrimed ==
  ASSUME CoreTypes', PrioRight(OSTCBPrio', OSTCBPrioTbl'),
         ReadyRight(OSTCBPrio', OSRdyTbl', OSTCBDly', OSTCBStat'),
         ListsRight(OSTCBPrio', OSEventTbl', OSTCBEventPtr'),
         CpuRight(OSTCBPrio', OSRdyTbl', OSTCBCur', OSPrioCur'),
         BlocksRight(pc', OSTCBStat', OSTCBStatPend', OSTCBDly', OSTCBEventPtr', pevent'),
         TypesMatch(pc', OSTCBEventPtr', OSEventType')
  PROVE  CoreInv'
  BY DEF CoreInv, PrioRight, ReadyRight, ListsRight, CpuRight, BlocksRight, BlockRight, Free, Waits,
         Late, Answered, TypesMatch

LEMMA PrioNat == Prio \subseteq Nat /\ Idle \in Tcb /\ \A t \in Tcb : BasePrio[t] \in Prio
<1>1. \A t \in Tcb : BasePrio[t] \in Nat /\ BasePrio[t] <= BasePrio[Idle]
  BY EventAssumption DEF Tcb
<1> QED
  BY <1>1 DEF Prio, Tcb

LEMMA OneEach ==
  ASSUME NEW prio, NEW tbl, PrioRight(prio, tbl)
  PROVE  /\ \A t, u \in Tcb : prio[t] = prio[u] => t = u
         /\ \A t, u \in Tcb : prio[t] = BasePrio[u] => t = u
  BY DEF PrioRight

LEMMA IdleReady ==
  ASSUME CoreInv
  PROVE  BasePrio[Idle] \in OSRdyTbl /\ OSTCBPrio[Idle] = BasePrio[Idle]
  BY PrioNat DEF CoreInv, PrioRight, ReadyRight, BlocksRight, BlockRight, Free

\* After a switch the most urgent task of rdy has the CPU, or the one that had it.
LEMMA Dispatched ==
  ASSUME NEW prio, NEW tbl, PrioRight(prio, tbl), NEW rdy \in SUBSET Prio, rdy # {},
         \A p \in rdy : \E t \in Tcb : prio[t] = p, OSTCBCur \in Tcb,
         NEW pcur, pcur \in Prio, prio[OSTCBCur] = pcur, Dispatch(rdy, tbl, pcur)
  PROVE  OSTCBCur' \in Tcb /\ OSPrioCur' \in Prio /\ CpuRight(prio, rdy, OSTCBCur', OSPrioCur')
<1>1. PICK h : h = Min(rdy)
  OBVIOUS
<1>2. h \in rdy /\ h \in Prio
  BY <1>1, MinOf, PrioNat
<1>3. PICK t \in Tcb : prio[t] = h
  BY <1>2
<1>4. tbl[h] = t
  BY <1>3 DEF PrioRight
<1>5. CASE h # pcur
  BY <1>1, <1>2, <1>3, <1>4, <1>5 DEF Dispatch, CpuRight
<1>6. CASE h = pcur
  BY <1>1, <1>2, <1>6 DEF Dispatch, CpuRight
<1> QED
  BY <1>5, <1>6

\* A task that is on no wait list gets another priority, one that nobody has.
Nobodys(prio, o, p) == p = prio[o] \/ \A t \in Tcb : prio[t] # p
With(prio, o, p) == [prio EXCEPT ![o] = p]
Moved(prio, o, rdy, p) == IF prio[o] \in rdy THEN (rdy \ {prio[o]}) \cup {p} ELSE rdy
LEMMA PrioChange ==
  ASSUME NEW prio \in [Tcb -> Prio], NEW tbl, PrioRight(prio, tbl), NEW o \in Tcb, NEW p \in Prio,
         Nobodys(prio, o, p), NEW q, q = With(prio, o, p),
         NEW rdy, NEW dly, NEW stat, ReadyRight(prio, rdy, dly, stat),
         NEW etbl, NEW eptr, ListsRight(prio, etbl, eptr), eptr[o] \notin Event,
         NEW rdyq, rdyq = Moved(prio, o, rdy, p)
  PROVE  ReadyRight(q, rdyq, dly, stat) /\ ListsRight(q, etbl, eptr)
<1>1. q[o] = p /\ \A t \in Tcb : t # o => q[t] = prio[t]
  BY DEF With
<1>2. \A t \in Tcb : t # o => prio[t] # p /\ prio[t] # prio[o]
  BY OneEach DEF Nobodys
<1>3. \A t \in Tcb : q[t] \in rdyq <=> dly[t] = 0 /\ stat[t] = "RDY"
  <2> TAKE t \in Tcb
  <2>1. CASE t = o
    <3>1. p \in rdyq <=> prio[o] \in rdy
      BY DEF ReadyRight, Moved, Nobodys
    <3> QED
      BY <1>1, <2>1, <3>1 DEF ReadyRight, Moved, Nobodys
  <2>2. CASE t # o
    BY <1>1, <1>2, <2>2 DEF ReadyRight, Moved, Nobodys
  <2> QED
    BY <2>1, <2>2
<1>4. \A r \in rdyq : \E t \in Tcb : q[t] = r
  BY <1>1 DEF ReadyRight, Moved, Nobodys
<1>5. \A e \in Event, t \in Tcb : q[t] \in etbl[e] <=> eptr[t] = e
  <2> TAKE e \in Event, t \in Tcb
  <2>1. CASE t = o
    <3>1. prio[o] \notin etbl[e]
      BY DEF ListsRight
    <3>2. p \notin etbl[e]
      BY <3>1 DEF ListsRight, Nobodys
    <3> QED
      BY <1>1, <2>1, <3>2
  <2>2. CASE t # o
    BY <1>1, <2>2 DEF ListsRight
  <2> QED
    BY <2>1, <2>2
<1>6. \A e \in Event : \A r \in etbl[e] : \E t \in Tcb : q[t] = r
  <2> TAKE e \in Event
  <2> TAKE r \in etbl[e]
  <2>1. PICK t \in Tcb : prio[t] = r
    BY DEF ListsRight
  <2>2. t # o
    BY <2>1 DEF ListsRight
  <2> QED
    BY <1>1, <2>1, <2>2
<1> QED
  BY <1>3, <1>4, <1>5, <1>6 DEF ReadyRight, ListsRight

Having(w, tbl, ps) == w = {tbl[p] : p \in ps}
Their(z, prio, tbl, ps) == z = {prio[tbl[p]] : p \in ps}

LEMMA WokenTasks ==
  ASSUME NEW prio, NEW tbl, PrioRight(prio, tbl), NEW etbl, NEW eptr, ListsRight(prio, etbl, eptr),
         NEW e \in Event, NEW ps \in SUBSET etbl[e], NEW w, Having(w, tbl, ps), NEW z, Their(z, prio, tbl, ps)
  PROVE  /\ w \subseteq Tcb /\ \A t \in Tcb : t \in w <=> prio[t] \in ps
         /\ \A t \in w : eptr[t] = e
         /\ z = ps
<1>1. \A p \in ps : tbl[p] \in Tcb /\ prio[tbl[p]] = p
  <2> TAKE p \in ps
  <2>1. PICK t \in Tcb : prio[t] = p
    BY DEF ListsRight
  <2> QED
    BY <2>1 DEF PrioRight
<1>2. \A t \in Tcb : prio[t] \in ps => tbl[prio[t]] = t
  BY DEF PrioRight
<1>3. \A t \in w : eptr[t] = e
  BY <1>1 DEF ListsRight, Having
<1> QED
  BY <1>1, <1>2, <1>3 DEF Having, Their

TcbTypes(stat, pend, dly, eptr) ==
  /\ stat \in [Tcb -> Kind \cup {"RDY"}] /\ pend \in [Tcb -> {"OK", "TO", "ABORT"}]
  /\ dly \in [Tcb -> Nat] /\ eptr \in [Tcb -> Event \cup {Null}]

LEMMA CoreParts ==
  ASSUME CoreInv
  PROVE  /\ TcbTypes(OSTCBStat, OSTCBStatPend, OSTCBDly, OSTCBEventPtr)
         /\ OSTCBPrio \in [Tcb -> Prio] /\ OSRdyTbl \in SUBSET Prio /\ OSTCBCur \in Tcb
         /\ OSPrioCur \in Prio /\ OSEventTbl \in [Event -> SUBSET Prio]
         /\ PrioRight(OSTCBPrio, OSTCBPrioTbl)
         /\ ReadyRight(OSTCBPrio, OSRdyTbl, OSTCBDly, OSTCBStat)
         /\ ListsRight(OSTCBPrio, OSEventTbl, OSTCBEventPtr)
         /\ OSTCBPrio[OSTCBCur] = OSPrioCur /\ OSPrioCur \in OSRdyTbl
         /\ OSTCBDly[OSTCBCur] = 0 /\ OSTCBStat[OSTCBCur] = "RDY"
         /\ BlocksRight(pc, OSTCBStat, OSTCBStatPend, OSTCBDly, OSTCBEventPtr, pevent)
         /\ TypesMatch(pc, OSTCBEventPtr, OSEventType)
         /\ Null \notin Event
  BY EventAssumption DEF CoreInv, CoreTypes, TcbTypes, CpuRight, ReadyRight

\* The tasks at ps leave the wait list of e with outcome st, and no others.
Wakes(e, ps, st) ==
  /\ OSEventTbl' = [OSEventTbl EXCEPT ![e] = @ \ ps]
  /\ \A t \in Tcb : IF OSTCBPrio[t] \in ps
       THEN /\ OSTCBEventPtr[t] = e
            /\ OSTCBEventPtr'[t] = Null /\ OSTCBStatPend'[t] = st
       ELSE /\ OSTCBEventPtr'[t] = OSTCBEventPtr[t] /\ OSTCBStatPend'[t] = OSTCBStatPend[t]

\* What a wake-up does to the blocks of the tasks it wakes, and to the lists.
LEMMA WakeCore ==
  ASSUME CoreInv, NEW e \in Event, NEW ps \in SUBSET OSEventTbl[e], NEW m,
         NEW st \in {"OK", "ABORT"}, EventTaskRdy(e, ps, m, st), UNCHANGED <<pc, pevent>>
  PROVE  /\ TcbTypes(OSTCBStat', OSTCBStatPend', OSTCBDly', OSTCBEventPtr')
         /\ OSEventTbl' \in [Event -> SUBSET Prio]
         /\ BlocksRight(pc', OSTCBStat', OSTCBStatPend', OSTCBDly', OSTCBEventPtr', pevent')
         /\ TypesMatch(pc', OSTCBEventPtr', OSEventType)
         /\ ListsRight(OSTCBPrio, OSEventTbl', OSTCBEventPtr')
         /\ ReadyRight(OSTCBPrio, OSRdyTbl \cup ps, OSTCBDly', OSTCBStat')
         /\ Woken(ps) = ps /\ Wakes(e, ps, st)
<1>1. /\ TcbTypes(OSTCBStat, OSTCBStatPend, OSTCBDly, OSTCBEventPtr)
      /\ OSTCBPrio \in [Tcb -> Prio] /\ OSEventTbl \in [Event -> SUBSET Prio]
      /\ PrioRight(OSTCBPrio, OSTCBPrioTbl)
      /\ ReadyRight(OSTCBPrio, OSRdyTbl, OSTCBDly, OSTCBStat)
      /\ ListsRight(OSTCBPrio, OSEventTbl, OSTCBEventPtr)
      /\ BlocksRight(pc, OSTCBStat, OSTCBStatPend, OSTCBDly, OSTCBEventPtr, pevent)
      /\ TypesMatch(pc, OSTCBEventPtr, OSEventType) /\ Null \notin Event
  BY CoreParts
<1>2. PICK w, z : w = {OSTCBPrioTbl[p] : p \in ps} /\ z = {OSTCBPrio[OSTCBPrioTbl[p]] : p \in ps}
  OBVIOUS
<1>3. /\ w \subseteq Tcb /\ \A t \in Tcb : t \in w <=> OSTCBPrio[t] \in ps
      /\ \A t \in w : OSTCBEventPtr[t] = e
      /\ z = ps
  <2>1. Having(w, OSTCBPrioTbl, ps) /\ Their(z, OSTCBPrio, OSTCBPrioTbl, ps)
    BY <1>2 DEF Having, Their
  <2>3. PrioRight(OSTCBPrio, OSTCBPrioTbl) /\ ListsRight(OSTCBPrio, OSEventTbl, OSTCBEventPtr)
    BY <1>1
  <2> QED
    BY <2>1, <2>3, WokenTasks
<1>4. /\ OSTCBDly' = [t \in Tcb |-> IF t \in w THEN 0 ELSE OSTCBDly[t]]
      /\ OSTCBStat' = [t \in Tcb |-> IF t \in w THEN "RDY" ELSE OSTCBStat[t]]
      /\ OSTCBStatPend' = [t \in Tcb |-> IF t \in w THEN st ELSE OSTCBStatPend[t]]
      /\ OSTCBEventPtr' = [t \in Tcb |-> IF t \in w THEN Null ELSE OSTCBEventPtr[t]]
      /\ OSEventTbl' = [OSEventTbl EXCEPT ![e] = @ \ ps]
  BY <1>2 DEF EventTaskRdy
<1>5. TcbTypes(OSTCBStat', OSTCBStatPend', OSTCBDly', OSTCBEventPtr')
  BY <1>1, <1>4 DEF TcbTypes
<1>6. OSEventTbl' \in [Event -> SUBSET Prio]
  BY <1>1, <1>4
<1>7. BlocksRight(pc', OSTCBStat', OSTCBStatPend', OSTCBDly', OSTCBEventPtr', pevent')
  <2>1. ASSUME NEW t \in Tcb
        PROVE  BlockRight(pc[t], OSTCBStat'[t], OSTCBStatPend'[t], OSTCBDly'[t], OSTCBEventPtr'[t], pevent[t])
    <3>1. CASE t \in w
      <4>1. OSTCBEventPtr[t] = e
        BY <1>3, <3>1
      <4>2. pc[t] # "run" /\ pevent[t] \in Event
        BY <1>1, <4>1 DEF BlocksRight, BlockRight, Free
      <4> QED
        BY <1>4, <3>1, <4>2 DEF BlockRight, Answered
    <3>2. CASE t \notin w
      BY <1>1, <1>4, <3>2 DEF BlocksRight
    <3> QED
      BY <3>1, <3>2
  <2>2. pc[Idle] = "run" /\ OSTCBDly'[Idle] = 0
    BY <1>1, <1>4, PrioNat DEF BlocksRight
  <2> QED
    BY <2>1, <2>2 DEF BlocksRight
<1>8. TypesMatch(pc', OSTCBEventPtr', OSEventType)
  BY <1>1, <1>4 DEF TypesMatch
<1>9. ListsRight(OSTCBPrio, OSEventTbl', OSTCBEventPtr')
  <2>1. ASSUME NEW f \in Event, NEW t \in Tcb
        PROVE  OSTCBPrio[t] \in OSEventTbl'[f] <=> OSTCBEventPtr'[t] = f
    <3>1. CASE t \in w
      <4>1. OSTCBEventPtr[t] = e /\ OSTCBPrio[t] \in ps
        BY <1>3, <3>1
      <4>2. OSTCBPrio[t] \in OSEventTbl[f] <=> f = e
        BY <1>1, <4>1 DEF ListsRight
      <4> QED
        BY <1>1, <1>4, <3>1, <4>1, <4>2
    <3>2. CASE t \notin w
      <4>1. OSTCBPrio[t] \notin ps /\ OSTCBEventPtr'[t] = OSTCBEventPtr[t]
        BY <1>3, <1>4, <3>2
      <4>2. OSTCBPrio[t] \in OSEventTbl[f] <=> OSTCBEventPtr[t] = f
        BY <1>1 DEF ListsRight
      <4> QED
        BY <1>1, <1>4, <4>1, <4>2
    <3> QED
      BY <3>1, <3>2
  <2>2. ASSUME NEW f \in Event, NEW p \in OSEventTbl'[f] PROVE \E t \in Tcb : OSTCBPrio[t] = p
    <3>1. p \in OSEventTbl[f]
      BY <1>1, <1>4, <2>2
    <3> QED
      BY <1>1, <3>1 DEF ListsRight
  <2> QED
    BY <2>1, <2>2 DEF ListsRight
<1>10. ReadyRight(OSTCBPrio, OSRdyTbl \cup ps, OSTCBDly', OSTCBStat')
  <2>1. \A t \in Tcb : OSTCBPrio[t] \in OSRdyTbl \cup ps <=> OSTCBDly'[t] = 0 /\ OSTCBStat'[t] = "RDY"
    BY <1>1, <1>3, <1>4 DEF ReadyRight
  <2>2. \A p \in OSRdyTbl \cup ps : \E t \in Tcb : OSTCBPrio[t] = p
    BY <1>1 DEF ReadyRight, ListsRight
  <2> QED
    BY <2>1, <2>2 DEF ReadyRight
<1>11. Woken(ps) = ps
  BY <1>2, <1>3 DEF Woken
<1>12. Wakes(e, ps, st)
  BY <1>3, <1>4 DEF Wakes
<1> QED
  BY <1>5, <1>6, <1>7, <1>8, <1>9, <1>10, <1>11, <1>12

\* A task begins to wait, where q are the priorities and rdy is the ready list before that.
LEMMA WaitCore ==
  ASSUME CoreInv, NEW e \in Event, NEW k \in Kind, OSEventType[e] = k, OSTCBCur # Idle,
         NEW q \in [Tcb -> Prio], q[OSTCBCur] = OSTCBPrio[OSTCBCur],
         \A t, u \in Tcb : q[t] = q[u] => t = u,
         NEW rdy \in SUBSET Prio, ReadyRight(q, rdy, OSTCBDly, OSTCBStat),
         ListsRight(q, OSEventTbl, OSTCBEventPtr), pc[OSTCBCur] = "run",
         Wait(e, k, rdy), OSEventTbl' = [OSEventTbl EXCEPT ![e] = @ \cup {OSTCBPrio[OSTCBCur]}]
  PROVE  /\ TcbTypes(OSTCBStat', OSTCBStatPend', OSTCBDly', OSTCBEventPtr')
         /\ OSEventTbl' \in [Event -> SUBSET Prio] /\ OSRdyTbl' \in SUBSET Prio
         /\ pc' = [pc EXCEPT ![OSTCBCur] = k] /\ pevent' = [pevent EXCEPT ![OSTCBCur] = e]
         /\ BlocksRight(pc', OSTCBStat', OSTCBStatPend', OSTCBDly', OSTCBEventPtr', pevent')
         /\ TypesMatch(pc', OSTCBEventPtr', OSEventType)
         /\ ListsRight(q, OSEventTbl', OSTCBEventPtr')
         /\ ReadyRight(q, OSRdyTbl', OSTCBDly', OSTCBStat')
<1>1. /\ TcbTypes(OSTCBStat, OSTCBStatPend, OSTCBDly, OSTCBEventPtr)
      /\ OSTCBPrio \in [Tcb -> Prio] /\ OSEventTbl \in [Event -> SUBSET Prio]
      /\ BlocksRight(pc, OSTCBStat, OSTCBStatPend, OSTCBDly, OSTCBEventPtr, pevent)
      /\ TypesMatch(pc, OSTCBEventPtr, OSEventType) /\ Null \notin Event /\ OSTCBCur \in Tcb
      /\ pc \in [Tcb -> Kind \cup {"run"}] /\ pevent \in [Tcb -> Event \cup {Null}]
  BY CoreParts DEF CoreInv, CoreTypes
<1>2. PICK c \in Tcb : c = OSTCBCur
  BY <1>1
<1>3. PICK timeout \in Nat : OSTCBDly' = [OSTCBDly EXCEPT ![c] = timeout]
  <2>1. PICK timeout \in 0 .. MaxDly : OSTCBDly' = [OSTCBDly EXCEPT ![OSTCBCur] = timeout]
    BY DEF Wait
  <2>2. MaxDly \in Nat
    BY EventAssumption
  <2>3. timeout \in Nat
    BY <2>1, <2>2
  <2> QED
    BY <1>2, <2>1, <2>3
<1>4. /\ OSTCBStat' = [OSTCBStat EXCEPT ![c] = k] /\ OSTCBStatPend' = [OSTCBStatPend EXCEPT ![c] = "OK"]
      /\ OSTCBEventPtr' = [OSTCBEventPtr EXCEPT ![c] = e]
      /\ pc' = [pc EXCEPT ![c] = k] /\ pevent' = [pevent EXCEPT ![c] = e]
      /\ OSRdyTbl' = rdy \ {q[c]} /\ OSEventTbl' = [OSEventTbl EXCEPT ![e] = @ \cup {q[c]}]
  BY <1>2 DEF Wait
<1>5. k # "RDY" /\ k # "run" /\ c # Idle
  BY <1>2 DEF Kind
<1>6. TcbTypes(OSTCBStat', OSTCBStatPend', OSTCBDly', OSTCBEventPtr')
  BY <1>1, <1>3, <1>4 DEF TcbTypes
<1>7. OSEventTbl' \in [Event -> SUBSET Prio] /\ OSRdyTbl' \in SUBSET Prio
  BY <1>1, <1>4
<1>8. BlocksRight(pc', OSTCBStat', OSTCBStatPend', OSTCBDly', OSTCBEventPtr', pevent')
  <2>1. ASSUME NEW t \in Tcb
        PROVE  BlockRight(pc'[t], OSTCBStat'[t], OSTCBStatPend'[t], OSTCBDly'[t], OSTCBEventPtr'[t], pevent'[t])
    <3>1. CASE t = c
      BY <1>1, <1>4, <1>5, <3>1 DEF BlockRight, Waits, TcbTypes
    <3>2. CASE t # c
      <4>1. /\ pc'[t] = pc[t] /\ OSTCBStat'[t] = OSTCBStat[t] /\ OSTCBStatPend'[t] = OSTCBStatPend[t]
            /\ OSTCBDly'[t] = OSTCBDly[t] /\ OSTCBEventPtr'[t] = OSTCBEventPtr[t] /\ pevent'[t] = pevent[t]
        BY <1>1, <1>3, <1>4, <3>2 DEF TcbTypes
      <4> QED
        BY <1>1, <4>1 DEF BlocksRight
    <3> QED
      BY <3>1, <3>2
  <2>2. pc'[Idle] = "run" /\ OSTCBDly'[Idle] = 0
    BY <1>1, <1>3, <1>4, <1>5, PrioNat DEF BlocksRight, TcbTypes
  <2> QED
    BY <2>1, <2>2 DEF BlocksRight
<1>9. TypesMatch(pc', OSTCBEventPtr', OSEventType)
  BY <1>1, <1>4 DEF TypesMatch, TcbTypes
<1>10. ListsRight(q, OSEventTbl', OSTCBEventPtr')
  <2>1. OSTCBEventPtr[c] = Null
    BY <1>1, <1>2 DEF BlocksRight, BlockRight, Free
  <2>2. ASSUME NEW f \in Event, NEW t \in Tcb
        PROVE  q[t] \in OSEventTbl'[f] <=> OSTCBEventPtr'[t] = f
    <3>1. q[t] \in OSEventTbl[f] <=> OSTCBEventPtr[t] = f
      BY DEF ListsRight
    <3>2. CASE t = c
      BY <1>1, <1>4, <2>1, <3>1, <3>2 DEF TcbTypes
    <3>3. CASE t # c
      <4>1. q[t] # q[c] /\ OSTCBEventPtr'[t] = OSTCBEventPtr[t]
        BY <1>1, <1>2, <1>4, <3>3 DEF TcbTypes
      <4> QED
        BY <1>1, <1>4, <3>1, <4>1
    <3> QED
      BY <3>2, <3>3
  <2>3. ASSUME NEW f \in Event, NEW p \in OSEventTbl'[f] PROVE \E t \in Tcb : q[t] = p
    <3>1. p \in OSEventTbl[f] \/ p = q[c]
      BY <1>1, <1>4, <2>3
    <3> QED
      BY <1>2, <3>1 DEF ListsRight
  <2> QED
    BY <2>2, <2>3 DEF ListsRight
<1>11. ReadyRight(q, OSRdyTbl', OSTCBDly', OSTCBStat')
  <2>1. ASSUME NEW t \in Tcb
        PROVE  q[t] \in OSRdyTbl' <=> OSTCBDly'[t] = 0 /\ OSTCBStat'[t] = "RDY"
    <3>1. CASE t = c
      BY <1>1, <1>4, <1>5, <3>1 DEF TcbTypes
    <3>2. CASE t # c
      <4>1. q[t] # q[c] /\ OSTCBDly'[t] = OSTCBDly[t] /\ OSTCBStat'[t] = OSTCBStat[t]
        BY <1>1, <1>2, <1>3, <1>4, <3>2 DEF TcbTypes
      <4> QED
        BY <1>4, <4>1 DEF ReadyRight
    <3> QED
      BY <3>1, <3>2
  <2>2. \A p \in OSRdyTbl' : \E t \in Tcb : q[t] = p
    BY <1>4 DEF ReadyRight
  <2> QED
    BY <2>1, <2>2 DEF ReadyRight
<1> QED
  BY <1>2, <1>4, <1>6, <1>7, <1>8, <1>9, <1>10, <1>11

\* A task that waited goes on.
LEMMA EndsCore ==
  ASSUME CoreInv, WaitEnds(OSTCBCur), pc[OSTCBCur] # "run"
  PROVE  /\ CoreInv' /\ pevent[OSTCBCur] \in Event
         /\ \A e \in Event : OSEventTbl'[e] \subseteq OSEventTbl[e]
         /\ OSTCBEventPtr[OSTCBCur] = Null \/ OSTCBStatPend[OSTCBCur] = "TO"
         /\ \A t \in Tcb : /\ OSTCBEventPtr'[t] = IF t = OSTCBCur THEN Null ELSE OSTCBEventPtr[t]
                           /\ OSTCBStatPend'[t] = IF t = OSTCBCur THEN "OK" ELSE OSTCBStatPend[t]
                           /\ pc'[t] = IF t = OSTCBCur THEN "run" ELSE pc[t]
                           /\ pevent'[t] = IF t = OSTCBCur THEN Null ELSE pevent[t]
<1>1. /\ TcbTypes(OSTCBStat, OSTCBStatPend, OSTCBDly, OSTCBEventPtr)
      /\ OSTCBPrio \in [Tcb -> Prio] /\ OSEventTbl \in [Event -> SUBSET Prio]
      /\ PrioRight(OSTCBPrio, OSTCBPrioTbl)
      /\ ReadyRight(OSTCBPrio, OSRdyTbl, OSTCBDly, OSTCBStat)
      /\ ListsRight(OSTCBPrio, OSEventTbl, OSTCBEventPtr)
      /\ BlocksRight(pc, OSTCBStat, OSTCBStatPend, OSTCBDly, OSTCBEventPtr, pevent)
      /\ TypesMatch(pc, OSTCBEventPtr, OSEventType) /\ Null \notin Event /\ OSTCBCur \in Tcb
      /\ pc \in [Tcb -> Kind \cup {"run"}] /\ pevent \in [Tcb -> Event \cup {Null}]
      /\ OSTCBDly[OSTCBCur] = 0 /\ OSTCBStat[OSTCBCur] = "RDY"
  BY CoreParts DEF CoreInv, CoreTypes
<1>2. PICK c \in Tcb : c = OSTCBCur
  BY <1>1
<1>3. PICK e \in Event : e = pevent[c]
  BY <1>1, <1>2 DEF BlocksRight, BlockRight
<1>4. \/ OSTCBStatPend[c] = "TO" /\ OSTCBEventPtr[c] = e
      \/ OSTCBStatPend[c] \in {"OK", "ABORT"} /\ OSTCBEventPtr[c] = Null
  <2>1. pc[c] # "RDY"
    BY <1>1 DEF Kind
  <2>2. OSTCBEventPtr[c] \in Event => OSTCBEventPtr[c] = e
    BY <1>1, <1>2, <1>3 DEF BlocksRight, BlockRight, Waits, Late, Answered
  <2>3. \/ OSTCBStatPend[c] = "TO" /\ OSTCBEventPtr[c] = pevent[c]
        \/ OSTCBStatPend[c] \in {"OK", "ABORT"} /\ OSTCBEventPtr[c] = Null
    BY <1>1, <1>2, <2>1 DEF BlocksRight, BlockRight, Waits, Late, Answered
  <2> QED
    BY <1>3, <2>3
<1>5. /\ OSTCBStat' = [OSTCBStat EXCEPT ![c] = "RDY"] /\ OSTCBStatPend' = [OSTCBStatPend EXCEPT ![c] = "OK"]
      /\ OSTCBEventPtr' = [OSTCBEventPtr EXCEPT ![c] = Null]
      /\ pc' = [pc EXCEPT ![c] = "run"] /\ pevent' = [pevent EXCEPT ![c] = Null]
      /\ OSTCBDly' = OSTCBDly /\ OSTCBPrio' = OSTCBPrio /\ OSTCBPrioTbl' = OSTCBPrioTbl
      /\ OSRdyTbl' = OSRdyTbl /\ OSTCBCur' = OSTCBCur /\ OSPrioCur' = OSPrioCur
      /\ OSEventType' = OSEventType
  BY <1>2 DEF WaitEnds, prioVars, cpuVars
<1>6. OSEventTbl' = [OSEventTbl EXCEPT ![e] = @ \ {OSTCBPrio[c]}]
  <2>1. CASE OSTCBStatPend[c] = "TO"
    BY <1>2, <1>3, <2>1 DEF WaitEnds, AfterWait
  <2>2. CASE OSTCBStatPend[c] # "TO"
    <3>1. OSTCBPrio[c] \notin OSEventTbl[e]
      BY <1>1, <1>4, <2>2 DEF ListsRight
    <3>2. OSEventTbl' = OSEventTbl
      BY <1>2, <1>4, <2>2 DEF WaitEnds, AfterWait
    <3>3. OSEventTbl[e] \ {OSTCBPrio[c]} = OSEventTbl[e]
      BY <3>1
    <3> QED
      BY <1>1, <3>2, <3>3
  <2> QED
    BY <2>1, <2>2
<1>7. \A t \in Tcb : /\ OSTCBEventPtr'[t] = IF t = c THEN Null ELSE OSTCBEventPtr[t]
                     /\ OSTCBStatPend'[t] = IF t = c THEN "OK" ELSE OSTCBStatPend[t]
                     /\ OSTCBStat'[t] = IF t = c THEN "RDY" ELSE OSTCBStat[t]
                     /\ pc'[t] = IF t = c THEN "run" ELSE pc[t]
                     /\ pevent'[t] = IF t = c THEN Null ELSE pevent[t]
  BY <1>1, <1>5 DEF TcbTypes
<1>8. CoreTypes'
  BY <1>1, <1>5, <1>6 DEF CoreInv, CoreTypes, TcbTypes
<1>9. BlocksRight(pc', OSTCBStat', OSTCBStatPend', OSTCBDly', OSTCBEventPtr', pevent')
  <2>1. ASSUME NEW t \in Tcb
        PROVE  BlockRight(pc'[t], OSTCBStat'[t], OSTCBStatPend'[t], OSTCBDly'[t], OSTCBEventPtr'[t], pevent'[t])
    <3>1. CASE t = c
      BY <1>7, <3>1 DEF BlockRight, Free
    <3>2. CASE t # c
      BY <1>1, <1>5, <1>7, <3>2 DEF BlocksRight
    <3> QED
      BY <3>1, <3>2
  <2>2. pc'[Idle] = "run" /\ OSTCBDly'[Idle] = 0
    BY <1>1, <1>5, <1>7, PrioNat DEF BlocksRight
  <2> QED
    BY <2>1, <2>2 DEF BlocksRight
<1>10. TypesMatch(pc', OSTCBEventPtr', OSEventType')
  BY <1>1, <1>5, <1>7 DEF TypesMatch
<1>11. ListsRight(OSTCBPrio', OSEventTbl', OSTCBEventPtr')
  <2>1. ASSUME NEW f \in Event, NEW t \in Tcb
        PROVE  OSTCBPrio[t] \in OSEventTbl'[f] <=> OSTCBEventPtr'[t] = f
    <3>1. OSTCBPrio[t] \in OSEventTbl[f] <=> OSTCBEventPtr[t] = f
      BY <1>1 DEF ListsRight
    <3>2. CASE t = c
      <4>1. OSTCBEventPtr[c] = f => f = e
        BY <1>1, <1>4
      <4> QED
        BY <1>1, <1>6, <1>7, <3>1, <3>2, <4>1
    <3>3. CASE t # c
      <4>1. OSTCBPrio[t] # OSTCBPrio[c]
        BY <1>1, <3>3, OneEach
      <4> QED
        BY <1>1, <1>6, <1>7, <3>1, <3>3, <4>1
    <3> QED
      BY <3>2, <3>3
  <2>2. ASSUME NEW f \in Event, NEW p \in OSEventTbl'[f] PROVE \E t \in Tcb : OSTCBPrio[t] = p
    <3>1. p \in OSEventTbl[f]
      BY <1>1, <1>6, <2>2
    <3> QED
      BY <1>1, <3>1 DEF ListsRight
  <2>3. ListsRight(OSTCBPrio, OSEventTbl', OSTCBEventPtr')
    BY <2>1, <2>2 DEF ListsRight
  <2> QED
    BY <1>5, <2>3
<1>12. ReadyRight(OSTCBPrio', OSRdyTbl', OSTCBDly', OSTCBStat')
  <2>1. \A t \in Tcb : OSTCBStat'[t] = "RDY" <=> OSTCBStat[t] = "RDY"
    BY <1>1, <1>2, <1>7
  <2>2. ReadyRight(OSTCBPrio, OSRdyTbl, OSTCBDly, OSTCBStat')
    BY <1>1, <2>1 DEF ReadyRight
  <2> QED
    BY <1>5, <2>2
<1>13. CoreInv'
  <2>1. PrioRight(OSTCBPrio', OSTCBPrioTbl') /\ CpuRight(OSTCBPrio', OSRdyTbl', OSTCBCur', OSPrioCur')
    BY <1>5 DEF CoreInv
  <2> QED
    BY <1>8, <1>9, <1>10, <1>11, <1>12, <2>1, CorePrimed
<1>14. \A f \in Event : OSEventTbl'[f] \subseteq OSEventTbl[f]
  BY <1>1, <1>6
<1> QED
  BY <1>2, <1>3, <1>4, <1>7, <1>13, <1>14

\* The tick: tasks whose time runs out become ready, and late if they wait.
LEMMA TickCore ==
  ASSUME CoreInv, TimeTick
  PROVE  /\ CoreInv'
         /\ \A t \in Tcb : \/ OSTCBStatPend'[t] = OSTCBStatPend[t]
                           \/ OSTCBStatPend'[t] = "TO" /\ OSTCBEventPtr[t] # Null
<1>1. /\ TcbTypes(OSTCBStat, OSTCBStatPend, OSTCBDly, OSTCBEventPtr)
      /\ OSTCBPrio \in [Tcb -> Prio] /\ OSRdyTbl \in SUBSET Prio
      /\ PrioRight(OSTCBPrio, OSTCBPrioTbl)
      /\ ReadyRight(OSTCBPrio, OSRdyTbl, OSTCBDly, OSTCBStat)
      /\ ListsRight(OSTCBPrio, OSEventTbl, OSTCBEventPtr)
      /\ BlocksRight(pc, OSTCBStat, OSTCBStatPend, OSTCBDly, OSTCBEventPtr, pevent)
      /\ TypesMatch(pc, OSTCBEventPtr, OSEventType) /\ Null \notin Event /\ OSTCBCur \in Tcb
      /\ OSTCBPrio[OSTCBCur] = OSPrioCur /\ OSPrioCur \in OSRdyTbl /\ OSPrioCur \in Prio
  BY CoreParts
<1>2. PICK due \in SUBSET Tcb : due = {t \in Task : OSTCBDly[t] = 1}
  BY DEF Tcb
<1>3. PICK woken : woken = {OSTCBPrio[t] : t \in due}
  OBVIOUS
<1>4. PICK rdy : rdy = OSRdyTbl \cup woken
  OBVIOUS
<1>5. /\ OSTCBDly' = [t \in Tcb |-> IF OSTCBDly[t] > 0 THEN OSTCBDly[t] - 1 ELSE 0]
      /\ OSTCBStatPend' = [t \in Tcb |->
           IF t \in due THEN IF OSTCBStat[t] # "RDY" THEN "TO" ELSE "OK" ELSE OSTCBStatPend[t]]
      /\ OSTCBStat' = [t \in Tcb |-> IF t \in due THEN "RDY" ELSE OSTCBStat[t]]
      /\ OSRdyTbl' = rdy /\ Dispatch(rdy, OSTCBPrioTbl, OSPrioCur)
      /\ OSTCBEventPtr' = OSTCBEventPtr /\ OSTCBPrio' = OSTCBPrio /\ OSTCBPrioTbl' = OSTCBPrioTbl
      /\ OSEventType' = OSEventType /\ OSEventTbl' = OSEventTbl /\ pc' = pc /\ pevent' = pevent
  BY <1>2, <1>3, <1>4 DEF TimeTick, prioVars
<1>6. \A t \in Tcb : (t \in due <=> OSTCBDly[t] = 1) /\ OSTCBDly[t] \in Nat
  BY <1>1, <1>2 DEF BlocksRight, Tcb, TcbTypes
<1>7. \A t \in Tcb : OSTCBPrio[t] \in woken <=> t \in due
  BY <1>1, <1>3, OneEach
<1>8. rdy \in SUBSET Prio /\ \A p \in rdy : \E t \in Tcb : OSTCBPrio[t] = p
  BY <1>1, <1>3, <1>4 DEF ReadyRight
<1>9. ASSUME NEW t \in Tcb
      PROVE  /\ OSTCBDly'[t] \in Nat
             /\ t \in due => OSTCBDly'[t] = 0
             /\ t \notin due => (OSTCBDly'[t] = 0 <=> OSTCBDly[t] = 0) /\ OSTCBStatPend'[t] = OSTCBStatPend[t]
  BY <1>5, <1>6
<1>10. ReadyRight(OSTCBPrio', OSRdyTbl', OSTCBDly', OSTCBStat')
  <2>1. ASSUME NEW t \in Tcb
        PROVE  OSTCBPrio[t] \in rdy <=> OSTCBDly'[t] = 0 /\ OSTCBStat'[t] = "RDY"
    <3>1. CASE t \in due
      BY <1>4, <1>5, <1>7, <1>9, <3>1
    <3>2. CASE t \notin due
      BY <1>1, <1>4, <1>5, <1>7, <1>9, <3>2 DEF ReadyRight
    <3> QED
      BY <3>1, <3>2
  <2> QED
    BY <1>5, <1>8, <2>1 DEF ReadyRight
<1>11. ASSUME NEW t \in Tcb
       PROVE  BlockRight(pc[t], OSTCBStat'[t], OSTCBStatPend'[t], OSTCBDly'[t], OSTCBEventPtr[t], pevent[t])
  <2>1. BlockRight(pc[t], OSTCBStat[t], OSTCBStatPend[t], OSTCBDly[t], OSTCBEventPtr[t], pevent[t])
    BY <1>1 DEF BlocksRight
  <2>2. CASE t \notin due
    <3>1. OSTCBStat'[t] = OSTCBStat[t] /\ OSTCBStatPend'[t] = OSTCBStatPend[t]
      BY <1>5, <2>2
    <3>2. OSTCBDly[t] = 0 => OSTCBDly'[t] = 0
      BY <1>9, <2>2
    <3> QED
      BY <2>1, <3>1, <3>2 DEF BlockRight, Free, Waits, Late, Answered
  <2>3. CASE t \in due
    <3>1. OSTCBStat'[t] = "RDY" /\ OSTCBDly'[t] = 0 /\ OSTCBDly[t] # 0
      BY <1>5, <1>6, <1>9, <2>3
    <3>2. OSTCBStatPend'[t] = IF OSTCBStat[t] # "RDY" THEN "TO" ELSE "OK"
      BY <1>5, <2>3
    <3>3. CASE pc[t] = "run"
      BY <2>1, <3>1, <3>2, <3>3 DEF BlockRight, Free
    <3>4. CASE pc[t] # "run"
      <4>1. pc[t] \in Kind
        BY <3>4 DEF CoreInv, CoreTypes
      <4>2. pevent[t] \in Event /\ OSTCBEventPtr[t] = pevent[t] /\ OSTCBStat[t] # "RDY"
        BY <2>1, <3>1, <3>4, <4>1 DEF BlockRight, Waits, Late, Answered, Kind
      <4> QED
        BY <3>1, <3>2, <3>4, <4>2 DEF BlockRight, Late
    <3> QED
      BY <3>3, <3>4
  <2> QED
    BY <2>2, <2>3
<1>12. BlocksRight(pc', OSTCBStat', OSTCBStatPend', OSTCBDly', OSTCBEventPtr', pevent')
  <2>1. pc[Idle] = "run" /\ OSTCBDly'[Idle] = 0
    BY <1>1, <1>5, PrioNat DEF BlocksRight
  <2> QED
    BY <1>5, <1>11, <2>1 DEF BlocksRight
<1>13. OSTCBCur' \in Tcb /\ OSPrioCur' \in Prio /\ CpuRight(OSTCBPrio, rdy, OSTCBCur', OSPrioCur')
  <2>1. rdy # {} /\ Dispatch(rdy, OSTCBPrioTbl, OSPrioCur)
    BY <1>1, <1>4, <1>5
  <2> QED
    BY <1>1, <1>8, <2>1, Dispatched
<1>14. CoreTypes'
  <2>1. /\ OSTCBStat' \in [Tcb -> Kind \cup {"RDY"}] /\ OSTCBStatPend' \in [Tcb -> {"OK", "TO", "ABORT"}]
        /\ OSTCBDly' \in [Tcb -> Nat]
    BY <1>1, <1>5, <1>9 DEF TcbTypes
  <2> QED
    BY <1>5, <1>8, <1>13, <2>1 DEF CoreInv, CoreTypes
<1>15. CoreInv'
  <2>1. /\ PrioRight(OSTCBPrio', OSTCBPrioTbl') /\ ListsRight(OSTCBPrio', OSEventTbl', OSTCBEventPtr')
        /\ CpuRight(OSTCBPrio', OSRdyTbl', OSTCBCur', OSPrioCur')
        /\ TypesMatch(pc', OSTCBEventPtr', OSEventType')
    BY <1>1, <1>5, <1>13
  <2> QED
    BY <1>10, <1>12, <1>14, <2>1, CorePrimed
<1>16. ASSUME NEW t \in Tcb
       PROVE  \/ OSTCBStatPend'[t] = OSTCBStatPend[t]
              \/ OSTCBStatPend'[t] = "TO" /\ OSTCBEventPtr[t] # Null
  <2>1. CASE t \notin due
    BY <1>9, <2>1
  <2>2. CASE t \in due
    <3>1. BlockRight(pc[t], OSTCBStat[t], OSTCBStatPend[t], OSTCBDly[t], OSTCBEventPtr[t], pevent[t])
      BY <1>1 DEF BlocksRight
    <3>2. OSTCBDly[t] # 0 /\ OSTCBStatPend'[t] = IF OSTCBStat[t] # "RDY" THEN "TO" ELSE "OK"
      BY <1>5, <1>6, <2>2
    <3>3. \/ Free(OSTCBStat[t], OSTCBStatPend[t], OSTCBEventPtr[t], pevent[t])
          \/ pc[t] \in Kind /\ pevent[t] \in Event /\ Waits(pc[t], OSTCBStat[t], OSTCBStatPend[t], OSTCBEventPtr[t], pevent[t])
      BY <3>1, <3>2 DEF BlockRight, Late, Answered, CoreInv, CoreTypes
    <3> QED
      BY <1>1, <3>2, <3>3 DEF Free, Waits, Kind
  <2> QED
    BY <2>1, <2>2
<1> QED
  BY <1>15, <1>16

LEMMA DlyCore ==
  ASSUME CoreInv, TimeDly
  PROVE  CoreInv'
<1>1. /\ TcbTypes(OSTCBStat, OSTCBStatPend, OSTCBDly, OSTCBEventPtr)
      /\ OSTCBPrio \in [Tcb -> Prio] /\ OSRdyTbl \in SUBSET Prio
      /\ PrioRight(OSTCBPrio, OSTCBPrioTbl)
      /\ ReadyRight(OSTCBPrio, OSRdyTbl, OSTCBDly, OSTCBStat)
      /\ ListsRight(OSTCBPrio, OSEventTbl, OSTCBEventPtr)
      /\ BlocksRight(pc, OSTCBStat, OSTCBStatPend, OSTCBDly, OSTCBEventPtr, pevent)
      /\ TypesMatch(pc, OSTCBEventPtr, OSEventType) /\ OSTCBCur \in Tcb
      /\ OSTCBPrio[OSTCBCur] = OSPrioCur /\ OSPrioCur \in Prio
  BY CoreParts
<1>2. PICK c \in Tcb : c = OSTCBCur /\ c # Idle /\ pc[c] = "run"
  BY <1>1 DEF TimeDly, Caller
<1>3. PICK ticks \in Nat : ticks # 0 /\ OSTCBDly' = [OSTCBDly EXCEPT ![c] = ticks]
  <2>1. PICK ticks \in 1 .. MaxDly : OSTCBDly' = [OSTCBDly EXCEPT ![OSTCBCur] = ticks]
    BY DEF TimeDly
  <2>2. MaxDly \in Nat
    BY EventAssumption
  <2>3. ticks \in Nat /\ ticks # 0
    BY <2>1, <2>2
  <2> QED
    BY <1>2, <2>1, <2>3
<1>4. /\ OSRdyTbl' = OSRdyTbl \ {OSTCBPrio[c]} /\ Dispatch(OSRdyTbl', OSTCBPrioTbl, OSPrioCur)
      /\ OSTCBEventPtr' = OSTCBEventPtr /\ OSTCBPrio' = OSTCBPrio /\ OSTCBPrioTbl' = OSTCBPrioTbl
      /\ OSTCBStat' = OSTCBStat /\ OSTCBStatPend' = OSTCBStatPend
      /\ OSEventType' = OSEventType /\ OSEventTbl' = OSEventTbl /\ pc' = pc /\ pevent' = pevent
  BY <1>2 DEF TimeDly, prioVars
<1>5. /\ OSTCBDly' \in [Tcb -> Nat] /\ OSTCBDly'[c] # 0 /\ \A t \in Tcb : t # c => OSTCBDly'[t] = OSTCBDly[t]
  BY <1>1, <1>3 DEF TcbTypes
<1>6. PICK rdy \in SUBSET Prio : rdy = OSRdyTbl'
  BY <1>1, <1>4
<1>7. ReadyRight(OSTCBPrio, rdy, OSTCBDly', OSTCBStat)
  <2>1. \A t \in Tcb : OSTCBPrio[t] = OSTCBPrio[c] => t = c
    BY <1>1, OneEach
  <2> QED
    BY <1>1, <1>4, <1>5, <1>6, <2>1 DEF ReadyRight
<1>8. BlocksRight(pc, OSTCBStat, OSTCBStatPend, OSTCBDly', OSTCBEventPtr, pevent)
  <2>1. ASSUME NEW t \in Tcb
        PROVE  BlockRight(pc[t], OSTCBStat[t], OSTCBStatPend[t], OSTCBDly'[t], OSTCBEventPtr[t], pevent[t])
    BY <1>1, <1>2, <1>5 DEF BlocksRight, BlockRight
  <2> QED
    BY <1>1, <1>2, <1>5, <2>1, PrioNat DEF BlocksRight
<1>9. OSTCBCur' \in Tcb /\ OSPrioCur' \in Prio /\ CpuRight(OSTCBPrio, rdy, OSTCBCur', OSPrioCur')
  <2>1. rdy # {}
    <3>1. OSTCBPrio[c] # OSTCBPrio[Idle]
      BY <1>1, <1>2, PrioNat, OneEach
    <3> QED
      BY <1>4, <1>6, <3>1, IdleReady
  <2>2. Dispatch(rdy, OSTCBPrioTbl, OSPrioCur) /\ \A p \in rdy : \E t \in Tcb : OSTCBPrio[t] = p
    BY <1>4, <1>6, <1>7 DEF ReadyRight
  <2> QED
    BY <1>1, <2>1, <2>2, Dispatched
<1>10. CoreTypes'
  BY <1>4, <1>5, <1>6, <1>9 DEF CoreInv, CoreTypes
<1>11. /\ PrioRight(OSTCBPrio', OSTCBPrioTbl') /\ ListsRight(OSTCBPrio', OSEventTbl', OSTCBEventPtr')
       /\ ReadyRight(OSTCBPrio', OSRdyTbl', OSTCBDly', OSTCBStat')
       /\ CpuRight(OSTCBPrio', OSRdyTbl', OSTCBCur', OSPrioCur')
       /\ BlocksRight(pc', OSTCBStat', OSTCBStatPend', OSTCBDly', OSTCBEventPtr', pevent')
       /\ TypesMatch(pc', OSTCBEventPtr', OSEventType')
  BY <1>1, <1>4, <1>6, <1>7, <1>8, <1>9
<1> QED
  BY <1>10, <1>11, CorePrimed

-----------------------------------------------------------------------------
\* A block that nobody waits at may become one of another type.
LEMMA TypeChange ==
  ASSUME NEW prio, NEW etbl, NEW eptr, ListsRight(prio, etbl, eptr),
         NEW k, NEW type, TypesMatch(k, eptr, type), NEW type2,
         \A f \in Event : type2[f] = type[f] \/ etbl[f] = {}
  PROVE  TypesMatch(k, eptr, type2)
<1>1. \A t \in Tcb : eptr[t] \in Event => etbl[eptr[t]] # {}
  BY DEF ListsRight
<1> QED
  BY <1>1 DEF TypesMatch

Retyped ==
  /\ OSEventType' \in [Event -> Kind \cup {"UNUSED"}]
  /\ \A f \in Event : OSEventType'[f] = OSEventType[f] \/ OSEventTbl'[f] = {}

LEMMA QuietCore ==
  ASSUME CoreInv, Retyped, UNCHANGED <<tcbVars, prioVars, cpuVars, OSRdyTbl, OSEventTbl, pc, pevent>>
  PROVE  CoreInv'
<1>1. /\ OSTCBStat' = OSTCBStat /\ OSTCBStatPend' = OSTCBStatPend /\ OSTCBDly' = OSTCBDly
      /\ OSTCBEventPtr' = OSTCBEventPtr /\ OSTCBPrio' = OSTCBPrio /\ OSTCBPrioTbl' = OSTCBPrioTbl
      /\ OSTCBCur' = OSTCBCur /\ OSPrioCur' = OSPrioCur /\ OSRdyTbl' = OSRdyTbl
      /\ OSEventTbl' = OSEventTbl /\ pc' = pc /\ pevent' = pevent
  BY DEF tcbVars, prioVars, cpuVars
<1>2. CoreTypes'
  BY <1>1 DEF CoreInv, CoreTypes, Retyped
<1>3. /\ PrioRight(OSTCBPrio', OSTCBPrioTbl') /\ ListsRight(OSTCBPrio', OSEventTbl', OSTCBEventPtr')
      /\ ReadyRight(OSTCBPrio', OSRdyTbl', OSTCBDly', OSTCBStat')
      /\ CpuRight(OSTCBPrio', OSRdyTbl', OSTCBCur', OSPrioCur')
      /\ BlocksRight(pc', OSTCBStat', OSTCBStatPend', OSTCBDly', OSTCBEventPtr', pevent')
      /\ TypesMatch(pc', OSTCBEventPtr', OSEventType)
  BY <1>1 DEF CoreInv
<1>4. TypesMatch(pc', OSTCBEventPtr', OSEventType')
  BY <1>3, TypeChange DEF Retyped
<1> QED
  BY <1>2, <1>3, <1>4, CorePrimed

\* Some waiters of e are woken.
LEMMA WakeUpCore ==
  ASSUME CoreInv, Retyped, NEW e \in Event, NEW ps \in SUBSET OSEventTbl[e], NEW m,
         NEW st \in {"OK", "ABORT"}, EventTaskRdy(e, ps, m, st), UNCHANGED <<pc, pevent, prioVars>>,
         OSRdyTbl' = OSRdyTbl \cup Woken(ps),
         Dispatch(OSRdyTbl', OSTCBPrioTbl, OSPrioCur) \/ UNCHANGED cpuVars
  PROVE  CoreInv' /\ Wakes(e, ps, st)
<1>1. /\ TcbTypes(OSTCBStat', OSTCBStatPend', OSTCBDly', OSTCBEventPtr')
      /\ OSEventTbl' \in [Event -> SUBSET Prio]
      /\ BlocksRight(pc', OSTCBStat', OSTCBStatPend', OSTCBDly', OSTCBEventPtr', pevent')
      /\ TypesMatch(pc', OSTCBEventPtr', OSEventType)
      /\ ListsRight(OSTCBPrio, OSEventTbl', OSTCBEventPtr')
      /\ ReadyRight(OSTCBPrio, OSRdyTbl \cup ps, OSTCBDly', OSTCBStat')
      /\ Woken(ps) = ps /\ Wakes(e, ps, st)
  <2>1. UNCHANGED <<pc, pevent>>
    OBVIOUS
  <2> QED
    BY <2>1, WakeCore
<1>2. /\ OSTCBPrio' = OSTCBPrio /\ OSTCBPrioTbl' = OSTCBPrioTbl /\ pc' = pc /\ pevent' = pevent
  BY DEF prioVars
<1>3. PICK rdy : rdy = OSRdyTbl \cup ps
  OBVIOUS
<1>4. OSRdyTbl' = rdy
  BY <1>1, <1>3
<1>5. rdy \in SUBSET Prio /\ rdy # {} /\ ps \in SUBSET Prio
  BY <1>3, CoreParts
<1>6. OSTCBCur' \in Tcb /\ OSPrioCur' \in Prio /\ CpuRight(OSTCBPrio, rdy, OSTCBCur', OSPrioCur')
  <2>1. CASE UNCHANGED cpuVars
    BY <1>3, <2>1, CoreParts DEF cpuVars, CpuRight
  <2>2. CASE Dispatch(OSRdyTbl', OSTCBPrioTbl, OSPrioCur)
    <3>1. \A p \in rdy : \E t \in Tcb : OSTCBPrio[t] = p
      BY <1>1, <1>3 DEF ReadyRight
    <3>2. /\ PrioRight(OSTCBPrio, OSTCBPrioTbl) /\ OSTCBCur \in Tcb /\ OSPrioCur \in Prio
          /\ OSTCBPrio[OSTCBCur] = OSPrioCur
      BY CoreParts
    <3>3. Dispatch(rdy, OSTCBPrioTbl, OSPrioCur)
      BY <1>4, <2>2
    <3> QED
      BY <1>5, <3>1, <3>2, <3>3, Dispatched
  <2> QED
    BY <2>1, <2>2
<1>7. CoreTypes'
  BY <1>1, <1>2, <1>4, <1>5, <1>6 DEF CoreInv, CoreTypes, TcbTypes, Retyped
<1>8. TypesMatch(pc', OSTCBEventPtr', OSEventType')
  BY <1>1, TypeChange DEF Retyped
<1>9. /\ PrioRight(OSTCBPrio', OSTCBPrioTbl') /\ ListsRight(OSTCBPrio', OSEventTbl', OSTCBEventPtr')
      /\ ReadyRight(OSTCBPrio', OSRdyTbl', OSTCBDly', OSTCBStat')
      /\ CpuRight(OSTCBPrio', OSRdyTbl', OSTCBCur', OSPrioCur')
  BY <1>1, <1>2, <1>3, <1>4, <1>6 DEF CoreInv
<1> QED
  BY <1>1, <1>7, <1>8, <1>9, CorePrimed

\* The task on the CPU begins to wait, and nobody's priority changes.
LEMMA GoWaitCore ==
  ASSUME CoreInv, NEW e \in Event, NEW k \in Kind, OSEventType[e] = k, OSTCBCur # Idle,
         pc[OSTCBCur] = "run", Wait(e, k, OSRdyTbl),
         OSEventTbl' = [OSEventTbl EXCEPT ![e] = @ \cup {OSTCBPrio[OSTCBCur]}],
         Dispatch(OSRdyTbl', OSTCBPrioTbl, OSPrioCur), UNCHANGED <<prioVars, OSEventType>>
  PROVE  /\ CoreInv' /\ pc' = [pc EXCEPT ![OSTCBCur] = k]
         /\ pevent' = [pevent EXCEPT ![OSTCBCur] = e]
<1>1. /\ OSTCBPrio \in [Tcb -> Prio] /\ OSRdyTbl \in SUBSET Prio /\ OSTCBCur \in Tcb
      /\ OSPrioCur \in Prio /\ PrioRight(OSTCBPrio, OSTCBPrioTbl)
      /\ ReadyRight(OSTCBPrio, OSRdyTbl, OSTCBDly, OSTCBStat)
      /\ ListsRight(OSTCBPrio, OSEventTbl, OSTCBEventPtr) /\ OSTCBPrio[OSTCBCur] = OSPrioCur
  BY CoreParts
<1>2. PICK q \in [Tcb -> Prio] : q = OSTCBPrio
  BY <1>1
<1>3. /\ q[OSTCBCur] = OSTCBPrio[OSTCBCur] /\ \A t, u \in Tcb : q[t] = q[u] => t = u
      /\ ReadyRight(q, OSRdyTbl, OSTCBDly, OSTCBStat) /\ ListsRight(q, OSEventTbl, OSTCBEventPtr)
  BY <1>1, <1>2, OneEach
<1>4. /\ TcbTypes(OSTCBStat', OSTCBStatPend', OSTCBDly', OSTCBEventPtr')
      /\ OSEventTbl' \in [Event -> SUBSET Prio] /\ OSRdyTbl' \in SUBSET Prio
      /\ pc' = [pc EXCEPT ![OSTCBCur] = k] /\ pevent' = [pevent EXCEPT ![OSTCBCur] = e]
      /\ BlocksRight(pc', OSTCBStat', OSTCBStatPend', OSTCBDly', OSTCBEventPtr', pevent')
      /\ TypesMatch(pc', OSTCBEventPtr', OSEventType)
      /\ ListsRight(q, OSEventTbl', OSTCBEventPtr')
      /\ ReadyRight(q, OSRdyTbl', OSTCBDly', OSTCBStat')
  BY <1>1, <1>3, WaitCore
<1>5. OSTCBPrio' = q /\ OSTCBPrioTbl' = OSTCBPrioTbl /\ OSEventType' = OSEventType
  BY <1>2 DEF prioVars
<1>6. PICK rdy \in SUBSET Prio : rdy = OSRdyTbl'
  BY <1>4
<1>7. OSTCBCur' \in Tcb /\ OSPrioCur' \in Prio /\ CpuRight(OSTCBPrio, rdy, OSTCBCur', OSPrioCur')
  <2>1. rdy # {}
    <3>1. OSTCBPrio[OSTCBCur] # OSTCBPrio[Idle]
      BY <1>1, PrioNat, OneEach
    <3>2. OSRdyTbl' = OSRdyTbl \ {OSTCBPrio[OSTCBCur]}
      BY DEF Wait
    <3> QED
      BY <1>6, <3>1, <3>2, IdleReady
  <2>2. Dispatch(rdy, OSTCBPrioTbl, OSPrioCur) /\ \A p \in rdy : \E t \in Tcb : OSTCBPrio[t] = p
    BY <1>2, <1>4, <1>6 DEF ReadyRight
  <2> QED
    BY <1>1, <2>1, <2>2, Dispatched
<1>8. CoreTypes'
  <2>1. pc' \in [Tcb -> Kind \cup {"run"}] /\ pevent' \in [Tcb -> Event \cup {Null}]
    BY <1>4 DEF CoreInv, CoreTypes
  <2> QED
    BY <1>2, <1>4, <1>5, <1>6, <1>7, <2>1 DEF CoreInv, CoreTypes, TcbTypes
<1>9. /\ PrioRight(OSTCBPrio', OSTCBPrioTbl') /\ ListsRight(OSTCBPrio', OSEventTbl', OSTCBEventPtr')
      /\ ReadyRight(OSTCBPrio', OSRdyTbl', OSTCBDly', OSTCBStat')
      /\ CpuRight(OSTCBPrio', OSRdyTbl', OSTCBCur', OSPrioCur')
      /\ TypesMatch(pc', OSTCBEventPtr', OSEventType')
  BY <1>1, <1>2, <1>4, <1>5, <1>6, <1>7
<1> QED
  BY <1>4, <1>8, <1>9, CorePrimed

LEMMA InitCore ==
  ASSUME EventInit
  PROVE  CoreInv
<1>1. \A t \in Tcb : BasePrio[t] \in Prio
  BY PrioNat
<1>2. /\ OSTCBPrio = BasePrio /\ OSRdyTbl = {BasePrio[t] : t \in Tcb} /\ BasePrio \in [Tcb -> Prio]
  BY <1>1, EventAssumption DEF EventInit
<1>3. OSTCBPrioTbl \in [Prio -> Tcb \cup {Null, Reserved}] /\ \A t \in Tcb : OSTCBPrioTbl[BasePrio[t]] = t
  <2>1. \A t, u \in Tcb : BasePrio[t] = BasePrio[u] => t = u
    BY EventAssumption
  <2>2. ASSUME NEW p \in Prio, \E t \in Tcb : BasePrio[t] = p
        PROVE  (CHOOSE t \in Tcb : BasePrio[t] = p) \in Tcb
    BY <2>2
  <2>3. OSTCBPrioTbl = [p \in Prio |-> IF \E t \in Tcb : BasePrio[t] = p
                                       THEN CHOOSE t \in Tcb : BasePrio[t] = p ELSE Null]
    BY DEF EventInit
  <2>4. ASSUME NEW t \in Tcb
        PROVE  OSTCBPrioTbl[BasePrio[t]] = t
    <3>1. PICK p \in Prio : p = BasePrio[t]
      BY <1>1
    <3>2. OSTCBPrioTbl[p] = CHOOSE u \in Tcb : BasePrio[u] = p
      BY <2>3, <3>1
    <3>3. (CHOOSE u \in Tcb : BasePrio[u] = p) = t
      BY <2>1, <3>1
    <3> QED
      BY <3>1, <3>2, <3>3
  <2>5. ASSUME NEW p \in Prio
        PROVE  (IF \E t \in Tcb : BasePrio[t] = p THEN CHOOSE t \in Tcb : BasePrio[t] = p ELSE Null)
                 \in Tcb \cup {Null, Reserved}
    BY <2>2
  <2> QED
    BY <2>3, <2>4, <2>5
<1>4. OSPrioCur \in OSRdyTbl /\ OSRdyTbl \in SUBSET Prio
  <2>1. OSRdyTbl \in SUBSET Nat /\ OSRdyTbl # {}
    BY <1>1, <1>2, PrioNat
  <2>2. OSPrioCur = Min(OSRdyTbl)
    BY DEF EventInit
  <2> QED
    BY <1>1, <1>2, <2>1, <2>2, MinOf
<1>5. PICK c \in Tcb : BasePrio[c] = OSPrioCur
  BY <1>2, <1>4
<1>6. OSTCBCur = c
  BY <1>3, <1>5 DEF EventInit
<1>7. /\ OSTCBStat = [t \in Tcb |-> "RDY"] /\ OSTCBStatPend = [t \in Tcb |-> "OK"]
      /\ OSTCBDly = [t \in Tcb |-> 0] /\ OSTCBEventPtr = [t \in Tcb |-> Null]
      /\ OSEventType = [e \in Event |-> "UNUSED"] /\ OSEventTbl = [e \in Event |-> {}]
      /\ pc = [t \in Tcb |-> "run"] /\ pevent = [t \in Tcb |-> Null]
  BY DEF EventInit
<1>8. CoreTypes
  BY <1>2, <1>3, <1>4, <1>6, <1>7 DEF CoreTypes
<1>9. PrioRight(OSTCBPrio, OSTCBPrioTbl) /\ ReadyRight(OSTCBPrio, OSRdyTbl, OSTCBDly, OSTCBStat)
  BY <1>2, <1>3, <1>7 DEF PrioRight, ReadyRight
<1>10. ListsRight(OSTCBPrio, OSEventTbl, OSTCBEventPtr) /\ TypesMatch(pc, OSTCBEventPtr, OSEventType)
  <2>1. Null \notin Event
    BY EventAssumption
  <2> QED
    BY <1>7, <2>1 DEF ListsRight, TypesMatch
<1>11. CpuRight(OSTCBPrio, OSRdyTbl, OSTCBCur, OSPrioCur)
  BY <1>2, <1>4, <1>5, <1>6 DEF CpuRight
<1>12. BlocksRight(pc, OSTCBStat, OSTCBStatPend, OSTCBDly, OSTCBEventPtr, pevent)
  BY <1>7, PrioNat DEF BlocksRight, BlockRight, Free
<1> QED
  BY <1>8, <1>9, <1>10, <1>11, <1>12 DEF CoreInv

\* Who is on a wait list.
LEMMA ListedTask ==
  ASSUME CoreInv, NEW e \in Event, NEW p \in OSEventTbl[e]
  PROVE  /\ OSTCBPrioTbl[p] \in Task /\ OSTCBPrio[OSTCBPrioTbl[p]] = p
         /\ OSTCBEventPtr[OSTCBPrioTbl[p]] = e /\ pevent[OSTCBPrioTbl[p]] = e
         /\ pc[OSTCBPrioTbl[p]] = OSEventType[e] /\ pc[OSTCBPrioTbl[p]] # "run"
<1>1. PICK t \in Tcb : OSTCBPrio[t] = p
  BY CoreParts DEF ListsRight
<1>2. OSTCBPrioTbl[p] = t
  BY <1>1, CoreParts DEF PrioRight
<1>3. OSTCBEventPtr[t] = e
  BY <1>1, CoreParts DEF ListsRight
<1>4. BlockRight(pc[t], OSTCBStat[t], OSTCBStatPend[t], OSTCBDly[t], OSTCBEventPtr[t], pevent[t])
  BY CoreParts DEF BlocksRight
<1>5. Null \notin Event /\ pc[t] = OSEventType[e]
  BY <1>3, CoreParts DEF TypesMatch
<1>6. pc[t] # "run" /\ pevent[t] = e
  BY <1>3, <1>4, <1>5 DEF BlockRight, Free, Waits, Late, Answered
<1>7. t # Idle
  BY <1>6, CoreParts DEF BlocksRight
<1> QED
  BY <1>1, <1>2, <1>3, <1>5, <1>6, <1>7 DEF Tcb

LEMMA CoreConsistent == CoreInv => TasksConsistent
<1> SUFFICES ASSUME CoreInv PROVE TasksConsistent
  OBVIOUS
<1>1. \A t \in Tcb : OSTCBPrioTbl[OSTCBPrio[t]] = t
  BY CoreParts DEF PrioRight
<1>2. \A t \in Tcb : OSTCBPrio[t] \in OSRdyTbl <=> OSTCBDly[t] = 0 /\ OSTCBStat[t] = "RDY"
  BY CoreParts DEF ReadyRight
<1>3. \A e \in Event : \A p \in OSEventTbl[e] : \E t \in Task : OSTCBPrio[t] = p /\ pevent[t] = e
  BY ListedTask
<1> QED
  BY <1>1, <1>2, <1>3 DEF TasksConsistent

-----------------------------------------------------------------------------
(* The rings of the queues.  The messages of a ring lie in the slots from  *)
(* out on, around the end.                                                 *)

Slots == 0 .. QSize - 1
Rings == [tbl : [Slots -> Msg \cup {Null}], in : Slots, out : Slots, entries : 0 .. QSize]
At(x) == x % QSize
Ring(q) == q \in Rings /\ q.in = At(q.out + q.entries)
Items(q) == [i \in 1 .. q.entries |-> q.tbl[At(q.out + i - 1)]]

LEMMA SlotOf ==
  ASSUME NEW x \in Nat, x < 2 * QSize
  PROVE  At(x) = (IF x < QSize THEN x ELSE x - QSize) /\ At(x) \in Slots
<1>1. QSize \in Nat \ {0}
  BY ObjectAssumption
<1>2. At(x) = IF x < QSize THEN x ELSE x - QSize
  BY <1>1, Remainder DEF At
<1> QED
  BY <1>1, <1>2 DEF Slots

\* The next slot and the one before, and slots a step further on.
LEMMA Neighbours ==
  ASSUME NEW a \in Slots
  PROVE  /\ Next1(a) = At(a + 1) /\ Next1(a) \in Slots
         /\ Prev1(a) \in Slots /\ At(Prev1(a) + 1) = a
<1>1. QSize \in Nat \ {0} /\ a \in Nat /\ a < QSize
  BY ObjectAssumption DEF Slots
<1>2. Next1(a) = At(a + 1) /\ Next1(a) \in Slots
  <2>1. At(a + 1) = (IF a + 1 < QSize THEN a + 1 ELSE a + 1 - QSize) /\ At(a + 1) \in Slots
    BY <1>1, SlotOf
  <2> QED
    BY <1>1, <2>1 DEF Next1
<1>3. Prev1(a) \in Nat /\ Prev1(a) < QSize /\ (IF a = 0 THEN Prev1(a) = QSize - 1 ELSE Prev1(a) = a - 1)
  BY <1>1 DEF Prev1
<1>4. At(Prev1(a) + 1) = IF Prev1(a) + 1 < QSize THEN Prev1(a) + 1 ELSE Prev1(a) + 1 - QSize
  BY <1>1, <1>3, SlotOf
<1> QED
  BY <1>1, <1>2, <1>3, <1>4 DEF Slots

LEMMA Shifted ==
  ASSUME NEW a \in Slots, NEW n \in 0 .. QSize - 1
  PROVE  At(At(a + 1) + n) = At(a + 1 + n)
<1>1. QSize \in Nat \ {0} /\ a \in Nat /\ a < QSize /\ n \in Nat /\ n < QSize
  BY ObjectAssumption DEF Slots
<1>2. PICK b \in Nat : b = At(a + 1) /\ b < QSize /\ (b = a + 1 \/ b = a + 1 - QSize)
  <2>1. At(a + 1) = (IF a + 1 < QSize THEN a + 1 ELSE a + 1 - QSize) /\ At(a + 1) \in Slots
    BY <1>1, SlotOf
  <2> QED
    BY <1>1, <2>1 DEF Slots
<1>3. At(b + n) = IF b + n < QSize THEN b + n ELSE b + n - QSize
  BY <1>1, <1>2, SlotOf
<1>4. At(a + 1 + n) = IF a + 1 + n < QSize THEN a + 1 + n ELSE a + 1 + n - QSize
  BY <1>1, SlotOf
<1>5. At(b + n) = At(a + 1 + n)
  BY <1>1, <1>2, <1>3, <1>4
<1> QED
  BY <1>2, <1>5

LEMMA Window ==
  ASSUME NEW a \in Slots, NEW i \in 0 .. QSize - 1, NEW j \in 0 .. QSize - 1, At(a + i) = At(a + j)
  PROVE  i = j
<1>1. QSize \in Nat \ {0} /\ a \in Nat /\ a < QSize /\ i \in Nat /\ i < QSize /\ j \in Nat /\ j < QSize
  BY ObjectAssumption DEF Slots
<1>2. /\ At(a + i) = (IF a + i < QSize THEN a + i ELSE a + i - QSize)
      /\ At(a + j) = (IF a + j < QSize THEN a + j ELSE a + j - QSize)
  BY <1>1, SlotOf
<1> QED
  BY <1>1, <1>2

LEMMA RingFields ==
  ASSUME NEW q, Ring(q)
  PROVE  /\ q \in Rings /\ q.in = At(q.out + q.entries) /\ QSize \in Nat \ {0}
         /\ q.entries \in Nat /\ q.entries <= QSize /\ q.out \in Slots /\ q.in \in Slots
         /\ q.out \in Nat /\ q.out < QSize /\ q.tbl \in [Slots -> Msg \cup {Null}]
  BY ObjectAssumption DEF Ring, Rings, Slots

LEMMA ItemsSeq ==
  ASSUME NEW q, Ring(q)
  PROVE  /\ Items(q) \in Seq(Msg \cup {Null}) /\ Len(Items(q)) = q.entries
         /\ \A i \in 1 .. q.entries : Items(q)[i] = q.tbl[At(q.out + i - 1)]
<1>1. /\ q.entries \in Nat /\ q.entries <= QSize /\ q.out \in Nat /\ q.out < QSize
      /\ QSize \in Nat \ {0} /\ q.tbl \in [Slots -> Msg \cup {Null}]
  BY RingFields
<1>2. PICK n \in Nat : n = q.entries
  BY <1>1
<1>3. \A i \in 1 .. n : q.tbl[At(q.out + i - 1)] \in Msg \cup {Null}
  <2> TAKE i \in 1 .. n
  <2>1. PICK x \in Nat : x = q.out + i - 1 /\ x < 2 * QSize
    BY <1>1, <1>2
  <2>2. At(x) \in Slots
    BY <2>1, SlotOf
  <2>3. q.tbl[At(x)] \in Msg \cup {Null}
    BY <1>1, <2>2
  <2> QED
    BY <2>1, <2>3
<1>4. Items(q) = [i \in 1 .. n |-> q.tbl[At(q.out + i - 1)]]
  BY <1>2 DEF Items
<1>5. Items(q) \in [1 .. n -> Msg \cup {Null}]
  BY <1>3, <1>4
<1>6. Items(q) \in Seq(Msg \cup {Null}) /\ Len(Items(q)) = n
  BY <1>5
<1> QED
  BY <1>2, <1>4, <1>6

LEMMA RingStarts == Ring(EmptyRing) /\ Items(EmptyRing) = <<>>
<1>1. QSize \in Nat \ {0}
  BY ObjectAssumption
<1>2. EmptyRing \in Rings /\ EmptyRing.in = 0 /\ EmptyRing.out = 0 /\ EmptyRing.entries = 0
  BY <1>1 DEF EmptyRing, Rings, Slots
<1>3. At(0) = 0
  BY <1>1, SlotOf
<1>4. Ring(EmptyRing)
  BY <1>2, <1>3 DEF Ring
<1>5. Len(Items(EmptyRing)) = 0 /\ Items(EmptyRing) \in Seq(Msg \cup {Null})
  BY <1>2, <1>4, ItemsSeq
<1> QED
  BY <1>4, <1>5

\* Two rings with the same messages where one says the other has them.
LEMMA SameItems ==
  ASSUME NEW q, Ring(q), NEW s \in Seq(Msg \cup {Null}), Len(s) = q.entries,
         \A i \in 1 .. q.entries : s[i] = q.tbl[At(q.out + i - 1)]
  PROVE  Items(q) = s
<1>1. /\ Items(q) \in Seq(Msg \cup {Null}) /\ Len(Items(q)) = q.entries
      /\ \A i \in 1 .. q.entries : Items(q)[i] = q.tbl[At(q.out + i - 1)]
  BY ItemsSeq
<1>2. \A i \in 1 .. Len(s) : Items(q)[i] = s[i]
  BY <1>1
<1> QED
  BY <1>1, <1>2, SeqEqual

\* The fields of a ring from which a message is taken, and of one that gets one.
TakenOff(r, q, o, n) == r = [q EXCEPT !.out = o, !.entries = n]
PutBehind(r, q, m, i, n) == r = [q EXCEPT !.tbl[q.in] = m, !.in = i, !.entries = n]
PutBefore(r, q, m, o, n) == r = [q EXCEPT !.tbl[o] = m, !.out = o, !.entries = n]
LEMMA OutMoves ==
  ASSUME NEW q \in Rings, NEW o \in Slots, NEW n \in 0 .. QSize,
         NEW r, TakenOff(r, q, o, n)
  PROVE  r \in Rings /\ r.tbl = q.tbl /\ r.in = q.in /\ r.out = o /\ r.entries = n
<1>1. r \in [tbl : {q.tbl}, in : {q.in}, out : {o}, entries : {n}]
  BY DEF Rings, TakenOff
<1>2. q.tbl \in [Slots -> Msg \cup {Null}] /\ q.in \in Slots
  BY DEF Rings
<1> QED
  BY <1>1, <1>2 DEF Rings

LEMMA InMoves ==
  ASSUME NEW q \in Rings, NEW m \in Msg, NEW i \in Slots, NEW n \in 0 .. QSize,
         NEW r, PutBehind(r, q, m, i, n)
  PROVE  /\ r \in Rings /\ r.tbl = [q.tbl EXCEPT ![q.in] = m] /\ r.in = i /\ r.out = q.out
         /\ r.entries = n
<1>1. q.tbl \in [Slots -> Msg \cup {Null}] /\ q.out \in Slots
  BY DEF Rings
<1>2. r \in [tbl : {[q.tbl EXCEPT ![q.in] = m]}, in : {i}, out : {q.out}, entries : {n}]
  BY DEF Rings, PutBehind
<1>3. [q.tbl EXCEPT ![q.in] = m] \in [Slots -> Msg \cup {Null}]
  BY <1>1
<1> QED
  BY <1>1, <1>2, <1>3 DEF Rings

LEMMA FrontMoves ==
  ASSUME NEW q \in Rings, NEW m \in Msg, NEW o \in Slots, NEW n \in 0 .. QSize,
         NEW r, PutBefore(r, q, m, o, n)
  PROVE  /\ r \in Rings /\ r.tbl = [q.tbl EXCEPT ![o] = m] /\ r.in = q.in /\ r.out = o
         /\ r.entries = n
<1>1. q.tbl \in [Slots -> Msg \cup {Null}] /\ q.in \in Slots
  BY DEF Rings
<1>2. r \in [tbl : {[q.tbl EXCEPT ![o] = m]}, in : {q.in}, out : {o}, entries : {n}]
  BY DEF Rings, PutBefore
<1>3. [q.tbl EXCEPT ![o] = m] \in [Slots -> Msg \cup {Null}]
  BY <1>1
<1> QED
  BY <1>1, <1>2, <1>3 DEF Rings

LEMMA RingTakes ==
  ASSUME NEW q, Ring(q), q.entries > 0
  PROVE  /\ Ring(Dequeued(q)) /\ Items(q) # <<>> /\ Items(Dequeued(q)) = Tail(Items(q))
<1>1. /\ q \in Rings /\ q.in = At(q.out + q.entries) /\ QSize \in Nat \ {0}
      /\ q.entries \in Nat /\ q.entries <= QSize /\ q.out \in Slots /\ q.in \in Slots
      /\ q.out \in Nat /\ q.out < QSize /\ q.tbl \in [Slots -> Msg \cup {Null}]
  BY RingFields
<1>2. PICK n \in 0 .. QSize - 1 : q.entries = n + 1
  BY <1>1
<1>3. PICK r : r = Dequeued(q)
  OBVIOUS
<1>4. Next1(q.out) = At(q.out + 1) /\ Next1(q.out) \in Slots
  BY <1>1, Neighbours
<1>5. r = [q EXCEPT !.out = Next1(q.out), !.entries = q.entries - 1]
  BY <1>3 DEF Dequeued
<1>6. /\ r \in Rings /\ r.tbl = q.tbl /\ r.in = q.in /\ r.out = Next1(q.out) /\ r.entries = n
  <2>1. n \in 0 .. QSize /\ q.entries - 1 = n
    BY <1>1, <1>2
  <2>2. TakenOff(r, q, Next1(q.out), n)
    BY <1>5, <2>1 DEF TakenOff
  <2>3. q \in Rings /\ Next1(q.out) \in Slots
    BY <1>1, <1>4
  <2> QED
    BY <2>1, <2>2, <2>3, OutMoves
<1>7. Ring(r)
  <2>1. At(At(q.out + 1) + n) = At(q.out + 1 + n)
    BY <1>1, <1>2, Shifted
  <2>2. q.out + 1 + n = q.out + (n + 1)
    BY <1>1, <1>2
  <2> QED
    BY <1>1, <1>2, <1>4, <1>6, <2>1, <2>2 DEF Ring
<1>8. PICK s \in Seq(Msg \cup {Null}) : s = Items(q) /\ Len(s) = n + 1
  BY <1>2, ItemsSeq
<1>9. \A i \in 1 .. n : Tail(s)[i] = r.tbl[At(r.out + i - 1)]
  <2> TAKE i \in 1 .. n
  <2>1. PICK k \in 0 .. QSize - 1 : k = i - 1
    BY <1>1, <1>2
  <2>2. At(At(q.out + 1) + k) = At(q.out + 1 + k)
    BY <1>1, Shifted
  <2>3. i + 1 \in 1 .. q.entries
    BY <1>2
  <2>4. s[i + 1] = q.tbl[At(q.out + (i + 1) - 1)]
    BY <1>8, <2>3, ItemsSeq
  <2>5. q.out + (i + 1) - 1 = q.out + 1 + k /\ r.out + i - 1 = At(q.out + 1) + k
    <3>1. At(q.out + 1) \in Nat
      BY <1>1, <1>4 DEF Slots
    <3> QED
      BY <1>1, <1>2, <1>4, <1>6, <2>1, <3>1
  <2>6. Tail(s)[i] = s[i + 1]
    BY <1>2, <1>8
  <2> QED
    BY <1>6, <2>2, <2>4, <2>5, <2>6
<1>10. Tail(s) \in Seq(Msg \cup {Null}) /\ Len(Tail(s)) = n /\ s # <<>>
  BY <1>2, <1>8
<1>11. Items(r) = Tail(s)
  BY <1>6, <1>7, <1>9, <1>10, SameItems
<1> QED
  BY <1>3, <1>7, <1>8, <1>10, <1>11

LEMMA RingStores ==
  ASSUME NEW q, Ring(q), q.entries < QSize, NEW m \in Msg
  PROVE  Ring(Enqueued(q, m)) /\ Items(Enqueued(q, m)) = Append(Items(q), m)
<1>1. /\ q \in Rings /\ q.in = At(q.out + q.entries) /\ QSize \in Nat \ {0}
      /\ q.entries \in Nat /\ q.entries <= QSize /\ q.out \in Slots /\ q.in \in Slots
      /\ q.out \in Nat /\ q.out < QSize /\ q.tbl \in [Slots -> Msg \cup {Null}]
  BY RingFields
<1>2. PICK n \in 0 .. QSize - 1 : q.entries = n
  BY <1>1
<1>3. PICK r : r = Enqueued(q, m)
  OBVIOUS
<1>4. Next1(q.in) = At(q.in + 1) /\ Next1(q.in) \in Slots
  BY <1>1, Neighbours
<1>5. /\ r \in Rings /\ r.tbl = [q.tbl EXCEPT ![q.in] = m] /\ r.in = Next1(q.in) /\ r.out = q.out
      /\ r.entries = n + 1
  <2>1. n + 1 \in 0 .. QSize /\ q.entries + 1 = n + 1
    BY <1>1, <1>2
  <2>2. PutBehind(r, q, m, Next1(q.in), n + 1)
    BY <1>3, <2>1 DEF Enqueued, PutBehind
  <2>3. q \in Rings /\ Next1(q.in) \in Slots
    BY <1>1, <1>4
  <2> QED
    BY <2>1, <2>2, <2>3, InMoves
<1>6. Ring(r)
  <2>1. PICK x \in Nat : x = q.out + n /\ x < 2 * QSize
    BY <1>1, <1>2
  <2>2. At(x) = (IF x < QSize THEN x ELSE x - QSize) /\ q.in = At(x)
    BY <1>1, <1>2, <2>1, SlotOf
  <2>3. PICK y \in Nat : y = q.in + 1 /\ y < 2 * QSize
    BY <1>1 DEF Slots
  <2>4. PICK z \in Nat : z = x + 1 /\ z < 2 * QSize
    BY <1>1, <1>2, <2>1
  <2>5. /\ At(y) = IF y < QSize THEN y ELSE y - QSize
        /\ At(z) = IF z < QSize THEN z ELSE z - QSize
    BY <2>3, <2>4, SlotOf
  <2>6. At(y) = At(z)
    BY <1>1, <1>2, <2>1, <2>2, <2>3, <2>4, <2>5
  <2>7. r.out + r.entries = z /\ Next1(q.in) = At(y)
    BY <1>1, <1>2, <1>4, <1>5, <2>1, <2>3, <2>4
  <2> QED
    BY <1>5, <2>6, <2>7 DEF Ring
<1>7. PICK s \in Seq(Msg \cup {Null}) : s = Items(q) /\ Len(s) = n
  BY <1>2, ItemsSeq
<1>8. \A i \in 1 .. n + 1 : Append(s, m)[i] = r.tbl[At(r.out + i - 1)]
  <2> TAKE i \in 1 .. n + 1
  <2>1. CASE i = n + 1
    <3>1. r.out + i - 1 = q.out + q.entries
      BY <1>1, <1>2, <1>5, <2>1
    <3>2. Append(s, m)[i] = m
      BY <1>7, <2>1
    <3> QED
      BY <1>1, <1>5, <3>1, <3>2
  <2>2. CASE i # n + 1
    <3>1. PICK k \in 0 .. QSize - 1 : k = i - 1 /\ k # n /\ i \in 1 .. q.entries
      BY <1>1, <1>2, <2>2
    <3>2. At(q.out + k) # q.in
      BY <1>1, <1>2, <3>1, Window
    <3>3. s[i] = q.tbl[At(q.out + i - 1)]
      BY <1>7, <3>1, ItemsSeq
    <3>4. q.out + i - 1 = q.out + k
      BY <1>1, <1>2, <3>1
    <3>5. Append(s, m)[i] = s[i]
      BY <1>2, <1>7, <3>1
    <3>6. At(q.out + k) \in Slots
      <4>1. q.out + k \in Nat /\ q.out + k < 2 * QSize
        BY <1>1
      <4> QED
        BY <4>1, SlotOf
    <3>7. r.tbl[At(q.out + k)] = q.tbl[At(q.out + k)]
      BY <1>1, <1>5, <3>2, <3>6
    <3> QED
      BY <1>5, <3>3, <3>4, <3>5, <3>7
  <2> QED
    BY <2>1, <2>2
<1>9. Append(s, m) \in Seq(Msg \cup {Null}) /\ Len(Append(s, m)) = n + 1
  BY <1>7
<1>10. Items(r) = Append(s, m)
  BY <1>5, <1>6, <1>8, <1>9, SameItems
<1> QED
  BY <1>3, <1>6, <1>7, <1>10

LEMMA RingPushes ==
  ASSUME NEW q, Ring(q), q.entries < QSize, NEW m \in Msg
  PROVE  Ring(EnqueuedFront(q, m)) /\ Items(EnqueuedFront(q, m)) = <<m>> \o Items(q)
<1>1. /\ q \in Rings /\ q.in = At(q.out + q.entries) /\ QSize \in Nat \ {0}
      /\ q.entries \in Nat /\ q.entries <= QSize /\ q.out \in Slots /\ q.in \in Slots
      /\ q.out \in Nat /\ q.out < QSize /\ q.tbl \in [Slots -> Msg \cup {Null}]
  BY RingFields
<1>2. PICK n \in 0 .. QSize - 1 : q.entries = n
  BY <1>1
<1>3. PICK r : r = EnqueuedFront(q, m)
  OBVIOUS
<1>4. PICK o \in Slots : o = Prev1(q.out) /\ At(o + 1) = q.out
  BY <1>1, Neighbours
<1>5. /\ r \in Rings /\ r.tbl = [q.tbl EXCEPT ![o] = m] /\ r.in = q.in /\ r.out = o
      /\ r.entries = n + 1
  <2>1. n + 1 \in 0 .. QSize /\ q.entries + 1 = n + 1
    BY <1>1, <1>2
  <2>2. PutBefore(r, q, m, o, n + 1)
    BY <1>3, <1>4, <2>1 DEF EnqueuedFront, PutBefore
  <2>3. q \in Rings
    BY <1>1
  <2> QED
    BY <2>1, <2>2, <2>3, FrontMoves
<1>6. \A k \in 0 .. QSize - 1 : At(q.out + k) = At(o + 1 + k)
  BY <1>4, Shifted
<1>7. o \in Nat /\ o < QSize /\ At(o) = o
  <2>1. o \in Nat /\ o < QSize /\ o < 2 * QSize
    BY <1>1 DEF Slots
  <2> QED
    BY <2>1, SlotOf
<1>8. Ring(r)
  <2>1. At(q.out + n) = At(o + 1 + n)
    BY <1>6
  <2>2. r.out + r.entries = o + 1 + n
    BY <1>2, <1>5, <1>7
  <2> QED
    BY <1>1, <1>2, <1>5, <2>1, <2>2 DEF Ring
<1>9. PICK s \in Seq(Msg \cup {Null}) : s = Items(q) /\ Len(s) = n
  BY <1>2, ItemsSeq
<1>10. PICK z \in Seq(Msg \cup {Null}) : z = <<m>> \o s /\ Len(z) = n + 1
  <2>1. <<m>> \in Seq(Msg \cup {Null}) /\ Len(<<m>>) = 1
    OBVIOUS
  <2>2. <<m>> \o s \in Seq(Msg \cup {Null}) /\ Len(<<m>> \o s) = 1 + n
    BY <1>9, <2>1
  <2>3. 1 + n = n + 1
    BY <1>1, <1>2
  <2> QED
    BY <2>2, <2>3
<1>11. z[1] = m /\ \A k \in 1 .. n : z[k + 1] = s[k]
  BY <1>9, <1>10
<1>12. \A i \in 1 .. n + 1 : z[i] = r.tbl[At(r.out + i - 1)]
  <2> TAKE i \in 1 .. n + 1
  <2>1. CASE i = 1
    <3>1. r.out + i - 1 = o /\ At(o) = o
      BY <1>5, <1>7, <2>1
    <3> QED
      BY <1>1, <1>5, <1>11, <2>1, <3>1
  <2>2. CASE i # 1
    <3>1. PICK k \in 0 .. QSize - 1 : i = k + 2 /\ k + 1 \in 1 .. n /\ k + 1 \in 0 .. QSize - 1
      <4>1. i - 2 \in 0 .. QSize - 1 /\ i = (i - 2) + 2 /\ (i - 2) + 1 \in 1 .. n /\ (i - 2) + 1 \in 0 .. QSize - 1
        BY <1>1, <1>2, <2>2
      <4> QED
        BY <4>1
    <3>2. z[i] = s[k + 1]
      <4>1. i = (k + 1) + 1
        BY <3>1
      <4> QED
        BY <1>11, <3>1, <4>1
    <3>3. s[k + 1] = q.tbl[At(q.out + (k + 1) - 1)]
      BY <1>2, <1>9, <3>1, ItemsSeq
    <3>4. q.out + (k + 1) - 1 = q.out + k /\ r.out + i - 1 = o + 1 + k
      BY <1>1, <1>5, <1>7, <3>1
    <3>5. At(q.out + k) = At(o + 1 + k)
      BY <1>6
    <3>6. At(q.out + k) \in Slots /\ At(q.out + k) # o
      <4>1. q.out + k \in Nat /\ q.out + k < 2 * QSize
        BY <1>1
      <4>2. o + 0 = o
        BY <1>7
      <4>3. At(o + (k + 1)) # At(o + 0)
        <5>1. 0 \in 0 .. QSize - 1 /\ k + 1 # 0
          BY <1>1
        <5> QED
          BY <3>1, <5>1, Window
      <4>4. o + (k + 1) = o + 1 + k
        BY <1>7
      <4> QED
        BY <1>7, <3>5, <4>1, <4>2, <4>3, <4>4, SlotOf
    <3>7. r.tbl[At(q.out + k)] = q.tbl[At(q.out + k)]
      BY <1>1, <1>5, <3>6
    <3> QED
      BY <3>2, <3>3, <3>4, <3>5, <3>7
  <2> QED
    BY <2>1, <2>2
<1>13. Items(r) = z
  BY <1>5, <1>8, <1>10, <1>12, SameItems, ZenonT(60)
<1> QED
  BY <1>3, <1>8, <1>9, <1>10, <1>13

\* OSQFlush.
LEMMA RingEmptied ==
  ASSUME NEW q, Ring(q)
  PROVE  LET r == [q EXCEPT !.in = 0, !.out = 0, !.entries = 0] IN Ring(r) /\ Items(r) = <<>> /\ r.entries = 0
<1>1. /\ q \in Rings /\ QSize \in Nat \ {0}
  BY RingFields
<1>2. PICK r : r = [q EXCEPT !.in = 0, !.out = 0, !.entries = 0]
  OBVIOUS
<1>3. q.tbl \in [Slots -> Msg \cup {Null}] /\ 0 \in Slots
  BY <1>1 DEF Rings, Slots
<1>4. r \in [tbl : {q.tbl}, in : {0}, out : {0}, entries : {0}]
  BY <1>1, <1>2 DEF Rings
<1>5. r \in Rings /\ r.in = 0 /\ r.out = 0 /\ r.entries = 0
  BY <1>1, <1>3, <1>4 DEF Rings
<1>6. At(0) = 0
  BY <1>1, SlotOf
<1>7. Ring(r)
  BY <1>5, <1>6 DEF Ring
<1>8. Len(Items(r)) = 0 /\ Items(r) \in Seq(Msg \cup {Null})
  BY <1>5, <1>7, ItemsSeq
<1>9. Items(r) = <<>>
  BY <1>8
<1> QED
  BY <1>2, <1>5, <1>7, <1>9

-----------------------------------------------------------------------------
(* The messages of a block, and what a step may do to them.                *)

Holding(type, ptr, q) ==
  IF type = "Q" THEN Items(q) ELSE IF type = "MBOX" /\ ptr # Null THEN <<ptr>> ELSE <<>>
Messages == [e \in Event |-> Holding(OSEventType[e], OSEventPtr[e], OSQ[e])]

On(f, S) == f = [x \in S |-> f[x]]
RingIInv ==
  /\ On(OSEventType, Event) /\ On(OSEventPtr, Event) /\ On(OSQ, Event)
  /\ \A e \in Event : Ring(OSQ[e])

Refines == RingIInv' /\ (Deque!Next \/ Messages' = Messages)

\* A step that concerns one block, and what may become of its messages.
Leaves(e) ==
  /\ On(OSEventType', Event) /\ On(OSEventPtr', Event) /\ On(OSQ', Event)
  /\ \A f \in Event : f # e => /\ OSEventType'[f] = OSEventType[f]
                               /\ OSEventPtr'[f] = OSEventPtr[f] /\ OSQ'[f] = OSQ[f]
Follows(old, new) ==
  \/ new = old \/ new = <<>>
  \/ old # <<>> /\ new = Tail(old)
  \/ \E m \in Msg : Len(old) < QSize /\ (new = Append(old, m) \/ new = <<m>> \o old)

LEMMA Emptied == ASSUME NEW old PROVE Follows(old, <<>>)
  BY Zenon DEF Follows

LEMMA WhatIsHeld == [e \in Event |-> Contents(e)] = Messages
<1>1. \A e \in Event : Contents(e) = Holding(OSEventType[e], OSEventPtr[e], OSQ[e])
  BY DEF Contents, Holding, Items, At, Is
<1> QED
  BY <1>1 DEF Messages

LEMMA WhatIsHeldNext == [e \in Event |-> Contents(e)]' = Messages'
<1>1. \A e \in Event : Contents(e)' = Holding(OSEventType'[e], OSEventPtr'[e], OSQ'[e])
  BY DEF Contents, Holding, Items, At, Is
<1> QED
  BY <1>1 DEF Messages

LEMMA OneBlock ==
  ASSUME RingIInv, NEW e \in Event, Leaves(e), Ring(OSQ'[e]),
         Follows(Holding(OSEventType[e], OSEventPtr[e], OSQ[e]),
                 Holding(OSEventType'[e], OSEventPtr'[e], OSQ'[e]))
  PROVE  Refines
<1>1. RingIInv'
  <2>1. \A f \in Event : Ring(OSQ'[f])
    BY DEF RingIInv, Leaves
  <2> QED
    BY <2>1 DEF RingIInv, Leaves, On, Ring
<1>2. PICK d : d = [f \in Event |-> Contents(f)]
  OBVIOUS
<1>3. PICK old, new : /\ old = Holding(OSEventType[e], OSEventPtr[e], OSQ[e])
                      /\ new = Holding(OSEventType'[e], OSEventPtr'[e], OSQ'[e])
  OBVIOUS
<1>4. Messages' = [Messages EXCEPT ![e] = new] /\ Messages[e] = old /\ On(Messages, Event)
  BY <1>3 DEF Messages, Leaves, On
<1>5. /\ [f \in Event |-> Contents(f)] = Messages
      /\ [f \in Event |-> Contents(f)]' = Messages'
  BY WhatIsHeld, WhatIsHeldNext
<1>6. Follows(old, new)
  BY <1>3
<1>7. CASE new = old
  BY <1>1, <1>4, <1>7 DEF Refines, On
<1>8. CASE new = <<>>
  <2>1. Deque!Clear(e)
    BY <1>4, <1>5, <1>8 DEF Deque!Clear
  <2> QED
    BY <1>1, <2>1 DEF Refines, Deque!Next
<1>9. CASE old # <<>> /\ new = Tail(old)
  <2>1. Deque!Get(e)
    BY <1>4, <1>5, <1>9 DEF Deque!Get
  <2> QED
    BY <1>1, <2>1 DEF Refines, Deque!Next
<1>10. ASSUME NEW m \in Msg, Len(old) < QSize, new = Append(old, m) PROVE Refines
  <2>1. Deque!PutBack(e, m)
    BY <1>4, <1>5, <1>10 DEF Deque!PutBack
  <2> QED
    BY <1>1, <2>1 DEF Refines, Deque!Next
<1>11. ASSUME NEW m \in Msg, Len(old) < QSize, new = <<m>> \o old PROVE Refines
  <2>1. Deque!PutFront(e, m)
    BY <1>4, <1>5, <1>11 DEF Deque!PutFront
  <2> QED
    BY <1>1, <2>1 DEF Refines, Deque!Next
<1> QED
  BY <1>6, <1>7, <1>8, <1>9, <1>10, <1>11 DEF Follows

LEMMA NothingHeld ==
  ASSUME RingIInv, UNCHANGED <<OSEventType, OSEventPtr, OSQ>>
  PROVE  Refines
<1>1. OSEventType' = OSEventType /\ OSEventPtr' = OSEventPtr /\ OSQ' = OSQ
  OBVIOUS
<1>2. RingIInv' /\ Messages' = Messages
  BY <1>1 DEF RingIInv, Messages, On, Ring
<1> QED
  BY <1>2 DEF Refines

\* The ring of a queue changes.
LEMMA RingChanges ==
  ASSUME RingIInv, NEW e \in Event, OSEventType[e] = "Q", UNCHANGED <<OSEventType, OSEventPtr>>,
         On(OSQ', Event), \A f \in Event : f # e => OSQ'[f] = OSQ[f],
         Ring(OSQ'[e]), Follows(Items(OSQ[e]), Items(OSQ'[e]))
  PROVE  Refines
<1>1. OSEventType' = OSEventType /\ OSEventPtr' = OSEventPtr
  OBVIOUS
<1>2. Leaves(e)
  BY <1>1 DEF Leaves, RingIInv
<1>3. Follows(Holding(OSEventType[e], OSEventPtr[e], OSQ[e]), Holding(OSEventType'[e], OSEventPtr'[e], OSQ'[e]))
  BY <1>1 DEF Holding
<1> QED
  BY <1>2, <1>3, OneBlock

\* The message of a mailbox comes or goes.
LEMMA PointerChanges ==
  ASSUME RingIInv, NEW e \in Event, OSEventType'[e] = "MBOX", UNCHANGED OSQ,
         On(OSEventType', Event), On(OSEventPtr', Event),
         \A f \in Event : f # e => OSEventType'[f] = OSEventType[f] /\ OSEventPtr'[f] = OSEventPtr[f],
         \/ OSEventPtr'[e] = Null
         \/ OSEventPtr'[e] \in Msg /\ Holding(OSEventType[e], OSEventPtr[e], OSQ[e]) = <<>>
  PROVE  Refines
<1>1. OSQ' = OSQ
  OBVIOUS
<1>2. Leaves(e)
  BY <1>1 DEF Leaves, RingIInv
<1>3. CASE OSEventPtr'[e] = Null
  <2>1. Holding(OSEventType'[e], OSEventPtr'[e], OSQ'[e]) = <<>>
    BY <1>3 DEF Holding
  <2>2. Follows(Holding(OSEventType[e], OSEventPtr[e], OSQ[e]), Holding(OSEventType'[e], OSEventPtr'[e], OSQ'[e]))
    BY <2>1, Emptied
  <2>3. Ring(OSQ'[e])
    BY <1>1 DEF RingIInv
  <2> QED
    BY <1>2, <2>2, <2>3, OneBlock
<1>4. CASE OSEventPtr'[e] \in Msg /\ Holding(OSEventType[e], OSEventPtr[e], OSQ[e]) = <<>>
  <2>1. PICK m \in Msg : m = OSEventPtr'[e]
    BY <1>4
  <2>2. m # Null /\ QSize \in Nat \ {0}
    BY ObjectAssumption
  <2>3. Holding(OSEventType'[e], OSEventPtr'[e], OSQ'[e]) = <<m>>
    BY <2>1, <2>2 DEF Holding
  <2>4. Append(<<>>, m) = <<m>> /\ Len(<<>>) < QSize
    BY <2>2
  <2>5. Follows(<<>>, <<m>>)
    BY <2>4 DEF Follows
  <2>6. Follows(Holding(OSEventType[e], OSEventPtr[e], OSQ[e]), Holding(OSEventType'[e], OSEventPtr'[e], OSQ'[e]))
    BY <1>4, <2>3, <2>5
  <2>7. Ring(OSQ'[e])
    BY <1>1 DEF RingIInv
  <2> QED
    BY <1>2, <2>6, <2>7, OneBlock
<1> QED
  BY <1>3, <1>4

\* A block that holds no messages afterwards, because it is a free block, a mutex or an
\* empty queue.
LEMMA NoMessages ==
  ASSUME RingIInv, NEW e \in Event, Leaves(e), Ring(OSQ'[e]),
         \/ OSEventType'[e] \notin {"Q", "MBOX"}
         \/ OSEventType'[e] = "Q" /\ OSQ'[e] = EmptyRing
  PROVE  Refines
<1>1. Holding(OSEventType'[e], OSEventPtr'[e], OSQ'[e]) = <<>>
  <2>1. CASE OSEventType'[e] \notin {"Q", "MBOX"}
    BY <2>1 DEF Holding
  <2>2. CASE OSEventType'[e] = "Q" /\ OSQ'[e] = EmptyRing
    BY <2>2, RingStarts DEF Holding
  <2> QED
    BY <2>1, <2>2
<1>2. Follows(Holding(OSEventType[e], OSEventPtr[e], OSQ[e]), Holding(OSEventType'[e], OSEventPtr'[e], OSQ'[e]))
  BY <1>1, Emptied
<1> QED
  BY <1>2, OneBlock

\* A function after one of its values has changed.
Set1(g, f, x, v) == g = [f EXCEPT ![x] = v]
LEMMA SetOne ==
  ASSUME NEW S, NEW f, On(f, S), NEW x \in S, NEW v, NEW g, Set1(g, f, x, v)
  PROVE  On(g, S) /\ g[x] = v /\ \A y \in S : y # x => g[y] = f[y]
  BY DEF On, Set1

LEMMA RingSet ==
  ASSUME RingIInv, NEW e \in Event, OSEventType[e] = "Q", UNCHANGED <<OSEventType, OSEventPtr>>,
         NEW r, Ring(r), Set1(OSQ', OSQ, e, r), Follows(Items(OSQ[e]), Items(r))
  PROVE  Refines
<1>1. On(OSQ', Event) /\ OSQ'[e] = r /\ \A f \in Event : f # e => OSQ'[f] = OSQ[f]
  BY SetOne DEF RingIInv
<1> QED
  BY <1>1, RingChanges

LEMMA CreateKeeps ==
  ASSUME RingIInv, NEW e \in Event, NEW type, Set1(OSEventType', OSEventType, e, type),
         On(OSEventPtr', Event), \A f \in Event : f # e => OSEventPtr'[f] = OSEventPtr[f],
         NEW r, Ring(r), Set1(OSQ', OSQ, e, r) \/ UNCHANGED OSQ,
         \/ type \notin {"Q", "MBOX"}
         \/ type = "Q" /\ r = EmptyRing /\ Set1(OSQ', OSQ, e, r)
  PROVE  Refines
<1>1. On(OSEventType', Event) /\ OSEventType'[e] = type /\ \A f \in Event : f # e => OSEventType'[f] = OSEventType[f]
  BY SetOne DEF RingIInv
<1>2. On(OSQ', Event) /\ Ring(OSQ'[e]) /\ \A f \in Event : f # e => OSQ'[f] = OSQ[f]
  <2>1. CASE Set1(OSQ', OSQ, e, r)
    BY <2>1, SetOne DEF RingIInv
  <2>2. CASE UNCHANGED OSQ
    BY <2>2 DEF RingIInv
  <2> QED
    BY <2>1, <2>2
<1>3. Set1(OSQ', OSQ, e, r) => OSQ'[e] = r
  BY SetOne DEF RingIInv
<1>4. Leaves(e)
  BY <1>1, <1>2 DEF Leaves
<1> QED
  BY <1>1, <1>2, <1>3, <1>4, NoMessages

LEMMA DelKeeps ==
  ASSUME RingIInv, NEW e \in Event, NEW op, NEW type, Del(op, e, type)
  PROVE  Refines
<1>1. /\ Set1(OSEventType', OSEventType, e, "UNUSED") /\ Set1(OSEventPtr', OSEventPtr, e, Null)
      /\ Set1(OSQ', OSQ, e, EmptyRing)
  BY DEF Del, Set1
<1>2. On(OSEventPtr', Event) /\ \A f \in Event : f # e => OSEventPtr'[f] = OSEventPtr[f]
  BY <1>1, SetOne DEF RingIInv
<1>3. Ring(EmptyRing) /\ "UNUSED" \notin {"Q", "MBOX"}
  BY RingStarts
<1>4. PICK type2 : type2 = "UNUSED"
  OBVIOUS
<1>5. Set1(OSEventType', OSEventType, e, type2) /\ type2 \notin {"Q", "MBOX"}
  BY <1>1, <1>3, <1>4
<1> QED
  BY <1>1, <1>2, <1>3, <1>5, CreateKeeps

LEMMA QueueKeeps ==
  ASSUME RingIInv, NEW e \in Event, Queues(e)
  PROVE  Refines
<1>1. Ring(OSQ[e])
  BY DEF RingIInv
<1>2. ASSUME OSQ[e].entries > 0, Is(e, "Q"), OSQ' = [OSQ EXCEPT ![e] = Dequeued(@)],
             UNCHANGED <<OSEventType, OSEventPtr>>
      PROVE  Refines
  <2>1. PICK r : r = Dequeued(OSQ[e])
    OBVIOUS
  <2>2. Ring(r) /\ Items(OSQ[e]) # <<>> /\ Items(r) = Tail(Items(OSQ[e]))
    BY <1>1, <1>2, <2>1, RingTakes
  <2>3. Follows(Items(OSQ[e]), Items(r)) /\ Set1(OSQ', OSQ, e, r) /\ OSEventType[e] = "Q"
    BY <1>2, <2>1, <2>2 DEF Follows, Set1, Is
  <2>4. UNCHANGED <<OSEventType, OSEventPtr>>
    BY <1>2
  <2> QED
    BY <2>2, <2>3, <2>4, RingSet
<1>3. ASSUME NEW m \in Msg, NEW ps, NEW front \in BOOLEAN, NEW sched, QPost(e, m, ps, front, sched)
      PROVE  Refines
  <2>1. CASE UNCHANGED OSQ
    <3>1. UNCHANGED <<OSEventType, OSEventPtr, OSQ>>
      BY <1>3, <2>1 DEF QPost
    <3> QED
      BY <3>1, NothingHeld
  <2>2. CASE ~Full(e) /\ OSQ' = [OSQ EXCEPT ![e] = IF front THEN EnqueuedFront(@, m) ELSE Enqueued(@, m)]
    <3>1. PICK q : q = OSQ[e]
      OBVIOUS
    <3>2. Ring(q) /\ q.entries < QSize /\ Len(Items(q)) < QSize
      <4>1. q.entries \in Nat /\ QSize \in Nat /\ Ring(q) /\ Len(Items(q)) = q.entries
        BY <1>1, <3>1, RingFields, ItemsSeq
      <4> QED
        BY <2>2, <3>1, <4>1 DEF Full
    <3>3. PICK r : r = IF front THEN EnqueuedFront(q, m) ELSE Enqueued(q, m)
      OBVIOUS
    <3>4. Ring(r) /\ (Items(r) = <<m>> \o Items(q) \/ Items(r) = Append(Items(q), m))
      BY <3>2, <3>3, RingStores, RingPushes
    <3>5. Follows(Items(q), Items(r))
      BY <3>2, <3>4 DEF Follows
    <3>6. Set1(OSQ', OSQ, e, r) /\ OSEventType[e] = "Q"
      BY <1>3, <2>2, <3>1, <3>3 DEF Set1, QPost, Is
    <3>7. UNCHANGED <<OSEventType, OSEventPtr>>
      BY <1>3 DEF QPost
    <3> QED
      BY <3>1, <3>4, <3>5, <3>6, <3>7, RingSet
  <2> QED
    BY <1>3, <2>1, <2>2 DEF QPost
<1>4. CASE OSQCreate(e)
  <2>1. PICK type : type = "Q"
    OBVIOUS
  <2>2. Set1(OSEventType', OSEventType, e, type) /\ Set1(OSQ', OSQ, e, EmptyRing) /\ OSEventPtr' = OSEventPtr
    BY <1>4, <2>1 DEF OSQCreate, Set1
  <2>3. On(OSEventPtr', Event) /\ \A f \in Event : f # e => OSEventPtr'[f] = OSEventPtr[f]
    BY <2>2 DEF RingIInv
  <2> QED
    BY <2>1, <2>2, <2>3, RingStarts, CreateKeeps
<1>5. CASE OSQPend(e)
  <2>1. CASE OSQ[e].entries > 0
    <3>1. OSQ' = [OSQ EXCEPT ![e] = Dequeued(@)] /\ Is(e, "Q") /\ UNCHANGED <<OSEventType, OSEventPtr>>
      <4>1. OSQ[e].entries # 0
        BY <1>1, <2>1, RingFields
      <4> QED
        BY <1>5, <4>1 DEF OSQPend
    <3> QED
      BY <1>2, <2>1, <3>1
  <2>2. CASE ~(OSQ[e].entries > 0)
    <3>1. UNCHANGED <<OSEventType, OSEventPtr, OSQ>>
      BY <1>5, <2>2 DEF OSQPend
    <3> QED
      BY <3>1, NothingHeld
  <2> QED
    BY <2>1, <2>2
<1>6. CASE OSQAccept(e)
  <2>1. /\ OSQ[e].entries > 0 /\ Is(e, "Q") /\ OSQ' = [OSQ EXCEPT ![e] = Dequeued(@)]
        /\ UNCHANGED <<OSEventType, OSEventPtr>>
    BY <1>6 DEF OSQAccept
  <2> QED
    BY <1>2, <2>1
<1>7. CASE OSQFlush(e)
  <2>1. PICK r : r = [OSQ[e] EXCEPT !.in = 0, !.out = 0, !.entries = 0]
    OBVIOUS
  <2>2. Ring(r) /\ Items(r) = <<>>
    BY <1>1, <2>1, RingEmptied
  <2>3. OSQ' = [OSQ EXCEPT ![e] = r]
    BY <1>7, <2>1 DEF OSQFlush, RingIInv, On
  <2>4. OSEventType[e] = "Q" /\ Set1(OSQ', OSQ, e, r) /\ UNCHANGED <<OSEventType, OSEventPtr>>
    BY <1>7, <2>3 DEF OSQFlush, Set1, Is
  <2>5. Follows(Items(OSQ[e]), Items(r))
    BY <2>2, Emptied
  <2> QED
    BY <2>2, <2>4, <2>5, RingSet
<1>8. CASE OSQPendAbort(e)
  <2>1. UNCHANGED <<OSEventType, OSEventPtr, OSQ>>
    BY <1>8 DEF OSQPendAbort, PendAbort, objVars
  <2> QED
    BY <2>1, NothingHeld
<1>9. CASE OSQDel(e)
  BY <1>9, DelKeeps DEF OSQDel
<1>10. ASSUME NEW m \in Msg, OSQPost(e, m) \/ OSQPostFront(e, m) \/ OSQPostOpt(e, m) PROVE Refines
  BY <1>3, <1>10 DEF OSQPost, OSQPostFront, OSQPostOpt
<1> QED
  BY <1>4, <1>5, <1>6, <1>7, <1>8, <1>9, <1>10 DEF Queues

LEMMA MailboxKeeps ==
  ASSUME RingIInv, NEW e \in Event, Mailboxes(e)
  PROVE  Refines
<1>1. ASSUME UNCHANGED <<OSEventType, OSEventPtr, OSQ>> PROVE Refines
  BY <1>1, NothingHeld
<1>2. ASSUME Is(e, "MBOX"), NEW p, Set1(OSEventPtr', OSEventPtr, e, p), UNCHANGED <<OSEventType, OSQ>>,
             p = Null \/ (p \in Msg /\ OSEventPtr[e] = Null)
      PROVE  Refines
  <2>1. On(OSEventPtr', Event) /\ OSEventPtr'[e] = p /\ \A f \in Event : f # e => OSEventPtr'[f] = OSEventPtr[f]
    BY <1>2, SetOne DEF RingIInv
  <2>2. OSEventType' = OSEventType /\ OSEventType[e] = "MBOX" /\ UNCHANGED OSQ
    BY <1>2 DEF Is
  <2>3. On(OSEventType', Event)
    BY <2>2 DEF RingIInv
  <2>4. OSEventPtr[e] = Null => Holding(OSEventType[e], OSEventPtr[e], OSQ[e]) = <<>>
    BY <2>2 DEF Holding
  <2> QED
    BY <1>2, <2>1, <2>2, <2>3, <2>4, PointerChanges
<1>3. ASSUME NEW m \in Msg, NEW ps, NEW sched, MboxPost(e, m, ps, sched) PROVE Refines
  <2>1. CASE UNCHANGED OSEventPtr
    <3>1. UNCHANGED <<OSEventType, OSEventPtr, OSQ>>
      BY <1>3, <2>1 DEF MboxPost
    <3> QED
      BY <1>1, <3>1
  <2>2. CASE OSEventPtr[e] = Null /\ OSEventPtr' = [OSEventPtr EXCEPT ![e] = m]
    <3>1. Is(e, "MBOX") /\ Set1(OSEventPtr', OSEventPtr, e, m) /\ UNCHANGED <<OSEventType, OSQ>>
      BY <1>3, <2>2 DEF MboxPost, Set1
    <3> QED
      BY <1>2, <2>2, <3>1
  <2> QED
    BY <1>3, <2>1, <2>2 DEF MboxPost
<1>4. CASE OSMboxCreate(e)
  <2>1. PICK p \in Msg \cup {Null} : Set1(OSEventPtr', OSEventPtr, e, p)
    BY <1>4 DEF OSMboxCreate, Set1
  <2>2. On(OSEventPtr', Event) /\ OSEventPtr'[e] = p /\ \A f \in Event : f # e => OSEventPtr'[f] = OSEventPtr[f]
    BY <2>1, SetOne DEF RingIInv
  <2>3. /\ On(OSEventType', Event) /\ OSEventType'[e] = "MBOX"
        /\ \A f \in Event : f # e => OSEventType'[f] = OSEventType[f]
    <3>1. PICK type : type = "MBOX"
      OBVIOUS
    <3>2. Set1(OSEventType', OSEventType, e, type)
      BY <1>4, <3>1 DEF OSMboxCreate, Set1
    <3> QED
      BY <3>1, <3>2, SetOne DEF RingIInv
  <2>4. Holding(OSEventType[e], OSEventPtr[e], OSQ[e]) = <<>> /\ UNCHANGED OSQ
    BY <1>4 DEF OSMboxCreate, Holding, Is
  <2>5. p = Null \/ p \in Msg
    BY <2>1
  <2> QED
    BY <2>2, <2>3, <2>4, <2>5, PointerChanges
<1>5. CASE OSMboxPend(e) \/ OSMboxAccept(e)
  <2>1. CASE UNCHANGED OSEventPtr
    <3>1. UNCHANGED <<OSEventType, OSEventPtr, OSQ>>
      BY <1>5, <2>1 DEF OSMboxPend, OSMboxAccept
    <3> QED
      BY <1>1, <3>1
  <2>2. CASE OSEventPtr' = [OSEventPtr EXCEPT ![e] = Null]
    <3>1. Is(e, "MBOX") /\ Set1(OSEventPtr', OSEventPtr, e, Null) /\ UNCHANGED <<OSEventType, OSQ>>
      BY <1>5, <2>2 DEF OSMboxPend, OSMboxAccept, Set1
    <3> QED
      BY <1>2, <3>1
  <2> QED
    BY <1>5, <2>1, <2>2 DEF OSMboxPend, OSMboxAccept
<1>6. CASE OSMboxPendAbort(e)
  BY <1>1, <1>6 DEF OSMboxPendAbort, PendAbort, objVars
<1>7. CASE OSMboxDel(e)
  BY <1>7, DelKeeps DEF OSMboxDel
<1>8. ASSUME NEW m \in Msg, OSMboxPost(e, m) \/ OSMboxPostOpt(e, m) PROVE Refines
  BY <1>3, <1>8 DEF OSMboxPost, OSMboxPostOpt
<1> QED
  BY <1>4, <1>5, <1>6, <1>7, <1>8 DEF Mailboxes

LEMMA MutexKeeps ==
  ASSUME RingIInv, NEW e \in Event, Mutexes(e)
  PROVE  Refines
<1>1. Ring(OSQ[e])
  BY DEF RingIInv
<1>2. ASSUME NEW type \in {"MUTEX", "UNUSED"}, Set1(OSEventType', OSEventType, e, type),
             NEW p, Set1(OSEventPtr', OSEventPtr, e, p), UNCHANGED OSQ
      PROVE  Refines
  <2>1. On(OSEventPtr', Event) /\ \A f \in Event : f # e => OSEventPtr'[f] = OSEventPtr[f]
    BY <1>2, SetOne DEF RingIInv
  <2>2. type \notin {"Q", "MBOX"}
    OBVIOUS
  <2> QED
    BY <1>1, <1>2, <2>1, <2>2, CreateKeeps
<1>3. ASSUME Is(e, "MUTEX"), NEW p, Set1(OSEventPtr', OSEventPtr, e, p) \/ UNCHANGED OSEventPtr,
             UNCHANGED <<OSEventType, OSQ>>
      PROVE  Refines
  <2>1. CASE UNCHANGED OSEventPtr
    <3>1. UNCHANGED <<OSEventType, OSEventPtr, OSQ>>
      BY <1>3, <2>1
    <3> QED
      BY <3>1, NothingHeld
  <2>2. CASE Set1(OSEventPtr', OSEventPtr, e, p)
    <3>1. PICK type \in {"MUTEX", "UNUSED"} : type = "MUTEX"
      OBVIOUS
    <3>2. Set1(OSEventType', OSEventType, e, type) /\ UNCHANGED OSQ
      BY <1>3, <3>1 DEF Set1, Is, RingIInv, On
    <3> QED
      BY <1>2, <2>2, <3>2
  <2> QED
    BY <1>3, <2>1, <2>2
<1>4. CASE OSMutexCreate(e)
  <2>1. PICK type \in {"MUTEX", "UNUSED"} : type = "MUTEX"
    OBVIOUS
  <2>2. Set1(OSEventType', OSEventType, e, type) /\ Set1(OSEventPtr', OSEventPtr, e, Null) /\ UNCHANGED OSQ
    BY <1>4, <2>1 DEF OSMutexCreate, Set1
  <2> QED
    BY <1>2, <2>2
<1>5. CASE OSMutexDel(e)
  <2>1. PICK type \in {"MUTEX", "UNUSED"} : type = "UNUSED"
    OBVIOUS
  <2>2. Set1(OSEventType', OSEventType, e, type) /\ Set1(OSEventPtr', OSEventPtr, e, Null) /\ UNCHANGED OSQ
    BY <1>5, <2>1 DEF OSMutexDel, Set1
  <2> QED
    BY <1>2, <2>2
<1>6. CASE OSMutexPend(e) \/ OneAtATime(e)
  <2>1. Is(e, "MUTEX") /\ UNCHANGED <<OSEventType, OSQ>>
    BY <1>6 DEF OSMutexPend, OneAtATime, OSMutexAccept
  <2>2. Set1(OSEventPtr', OSEventPtr, e, OSTCBCur) \/ UNCHANGED OSEventPtr
    BY <1>6 DEF OSMutexPend, OneAtATime, OSMutexAccept, Acquire, Set1
  <2> QED
    BY <1>3, <2>1, <2>2
<1>7. CASE OSMutexPost(e)
  <2>1. Is(e, "MUTEX") /\ UNCHANGED <<OSEventType, OSQ>>
    BY <1>7 DEF OSMutexPost
  <2>2. Set1(OSEventPtr', OSEventPtr, e, NewOwner(e)) \/ Set1(OSEventPtr', OSEventPtr, e, Null)
    BY <1>7 DEF OSMutexPost, HandOver, Release, Set1
  <2> QED
    BY <1>3, <2>1, <2>2
<1> QED
  BY <1>4, <1>5, <1>6, <1>7 DEF Mutexes

\* Queues and mailboxes are bounded double-ended queues (os_q.c, os_mbox.c): whatever the
\* order of posts at either end, pends, flushes and deletions, and also when a post meets a
\* wait that has just timed out, no message is lost, copied or overwritten.
THEOREM QueuesKeepMessages == Spec => MessagesKept
<1>1. Init => RingIInv /\ Deque!Init
  <2> SUFFICES ASSUME Init PROVE RingIInv /\ Deque!Init
    OBVIOUS
  <2>1. /\ OSEventType = [e \in Event |-> "UNUSED"] /\ OSEventPtr = [e \in Event |-> Null]
        /\ OSQ = [e \in Event |-> EmptyRing]
    BY DEF Init, EventInit
  <2>2. RingIInv
    BY <2>1, RingStarts DEF RingIInv, On
  <2>3. Messages = [e \in Event |-> <<>>]
    BY <2>1 DEF Messages, Holding
  <2> QED
    BY <2>2, <2>3, WhatIsHeld DEF Deque!Init
<1>2. RingIInv /\ [Next]_vars => RingIInv' /\ [Deque!Next]_([e \in Event |-> Contents(e)])
  <2> SUFFICES ASSUME RingIInv, [Next]_vars PROVE Refines
    BY WhatIsHeld, WhatIsHeldNext DEF Refines
  <2>1. CASE UNCHANGED vars
    <3>1. UNCHANGED <<OSEventType, OSEventPtr, OSQ>>
      BY <2>1 DEF vars, coreVars
    <3> QED
      BY <3>1, NothingHeld
  <2>2. CASE Tick \/ OSTimeDly \/ MsgPendRet \/ MutexPendRet
    <3>1. UNCHANGED <<OSEventType, OSEventPtr, OSQ>>
      BY <2>2 DEF Tick, OSTimeDly, MsgPendRet, MutexPendRet, TimeTick, TimeDly, WaitEnds, objVars
    <3> QED
      BY <3>1, NothingHeld
  <2>3. ASSUME NEW e \in Event, Queues(e) \/ Mailboxes(e) \/ Mutexes(e) PROVE Refines
    BY <2>3, QueueKeeps, MailboxKeeps, MutexKeeps
  <2> QED
    BY <2>1, <2>2, <2>3 DEF Next
<1> QED
  BY <1>1, <1>2, PTL DEF Spec, MessagesKept, Deque!Spec

-----------------------------------------------------------------------------
(* Event flags.                                                            *)

AllNodes == [flags : SUBSET Flag, type : SetTypes \cup ClrTypes, consume : BOOLEAN]
FlagTypes ==
  /\ OSFlagFlags \in [Event -> SUBSET Flag] /\ OSTCBFlagsRdy \in [Tcb -> SUBSET Flag]
  /\ node \in [Tcb -> AllNodes] /\ polarity \in [Event -> {SetTypes, ClrTypes}]

\* A task in OSFlagPend waits for what its group is waited on for, and while it is on the wait
\* list for something the group's flags do not give it.
SidesMatch(pe, nd, type, side) ==
  \A t \in Tcb : pe[t] \in Event => type[pe[t]] = "FLAG" /\ nd[t].type \in side[pe[t]]
Unsatisfied(eptr, flags, nd) ==
  \A t \in Tcb : eptr[t] \in Event => ~Satisfied(flags[eptr[t]], nd[t])

FlagIInv ==
  /\ CoreInv /\ FlagTypes /\ SidesMatch(pevent, node, OSEventType, polarity)
  /\ Unsatisfied(OSTCBEventPtr, OSFlagFlags, node)

LEMMA FlagPrimed ==
  ASSUME CoreInv', FlagTypes', SidesMatch(pevent', node', OSEventType', polarity'),
         Unsatisfied(OSTCBEventPtr', OSFlagFlags', node')
  PROVE  FlagIInv'
  BY DEF FlagIInv, SidesMatch, Unsatisfied, Satisfied, FlagsReady, SetTypes

\* Consuming flags for one node of a group satisfies no other: all wait for the same polarity.
LEMMA ConsumedHelpsNobody ==
  ASSUME NEW n \in AllNodes, NEW m \in AllNodes, NEW side \in {SetTypes, ClrTypes},
         n.type \in side, m.type \in side, NEW cur, NEW rdy, ~Satisfied(cur, m)
  PROVE  ~Satisfied(Consumed(cur, n, rdy), m)
<1>1. PICK new : new = Consumed(cur, n, rdy)
  OBVIOUS
<1>2. CASE side = SetTypes
  <2>1. new \subseteq cur
    BY <1>1, <1>2 DEF Consumed
  <2>2. FlagsReady(cur, m) = m.flags \cap cur /\ FlagsReady(new, m) = m.flags \cap new
    BY <1>2 DEF FlagsReady
  <2> QED
    BY <1>1, <2>1, <2>2 DEF Satisfied
<1>3. CASE side = ClrTypes
  <2>1. n.type \notin SetTypes /\ m.type \notin SetTypes
    BY <1>3 DEF SetTypes, ClrTypes
  <2>2. cur \subseteq new
    BY <1>1, <2>1 DEF Consumed
  <2>3. FlagsReady(cur, m) = m.flags \ cur /\ FlagsReady(new, m) = m.flags \ new
    BY <2>1 DEF FlagsReady
  <2> QED
    BY <1>1, <2>2, <2>3 DEF Satisfied
<1> QED
  BY <1>2, <1>3

LEMMA ConsumedTypes ==
  ASSUME NEW n \in AllNodes, NEW cur \in SUBSET Flag, NEW rdy \in SUBSET Flag
  PROVE  Consumed(cur, n, rdy) \in SUBSET Flag /\ FlagsReady(cur, n) \in SUBSET Flag
  BY DEF Consumed, FlagsReady, AllNodes

\* Where the pointer of a waiting task leads.
LEMMA Pointed ==
  ASSUME CoreInv
  PROVE  /\ \A t \in Tcb : OSTCBEventPtr[t] \in Event => pevent[t] = OSTCBEventPtr[t]
         /\ pevent[Idle] \notin Event /\ Null \notin Event
         /\ \A t \in Tcb : pc[t] = "run" => pevent[t] = Null /\ OSTCBEventPtr[t] = Null
<1>1. Null \notin Event /\ BlocksRight(pc, OSTCBStat, OSTCBStatPend, OSTCBDly, OSTCBEventPtr, pevent)
  BY CoreParts
<1>2. ASSUME NEW t \in Tcb, OSTCBEventPtr[t] \in Event PROVE pevent[t] = OSTCBEventPtr[t]
  BY <1>1, <1>2 DEF BlocksRight, BlockRight, Free, Waits, Late, Answered
<1>3. \A t \in Tcb : pc[t] = "run" => pevent[t] = Null /\ OSTCBEventPtr[t] = Null
  BY <1>1 DEF BlocksRight, BlockRight, Free
<1> QED
  BY <1>1, <1>2, <1>3, PrioNat DEF BlocksRight

\* Consuming at e, while everybody who waits keeps waiting, keeps them waiting rightly.
LEMMA FlagsConsumed ==
  ASSUME FlagIInv, NEW e \in Event, OSEventType[e] = "FLAG",
         NEW n \in AllNodes, n.type \in polarity[e],
         NEW rdy, NEW flags, Set1(flags, OSFlagFlags, e, Consumed(OSFlagFlags[e], n, rdy)),
         NEW eptr, \A t \in Tcb : eptr[t] \in Event => eptr[t] = OSTCBEventPtr[t],
         NEW nd, \A t \in Tcb : eptr[t] \in Event => nd[t] = node[t]
  PROVE  Unsatisfied(eptr, flags, nd)
<1>1. On(OSFlagFlags, Event) /\ polarity[e] \in {SetTypes, ClrTypes} /\ node \in [Tcb -> AllNodes]
  BY DEF FlagIInv, FlagTypes, On
<1>2. flags[e] = Consumed(OSFlagFlags[e], n, rdy) /\ \A f \in Event : f # e => flags[f] = OSFlagFlags[f]
  BY <1>1, SetOne
<1>3. ASSUME NEW t \in Tcb, eptr[t] \in Event PROVE ~Satisfied(flags[eptr[t]], nd[t])
  <2>1. eptr[t] = OSTCBEventPtr[t] /\ nd[t] = node[t] /\ ~Satisfied(OSFlagFlags[eptr[t]], node[t])
    BY <1>3 DEF FlagIInv, Unsatisfied
  <2>2. pevent[t] = eptr[t] /\ node[t].type \in polarity[pevent[t]] /\ node[t] \in AllNodes
    BY <1>1, <1>3, <2>1, Pointed DEF FlagIInv, SidesMatch
  <2>3. CASE eptr[t] = e
    <3>1. ~Satisfied(OSFlagFlags[e], node[t]) /\ node[t].type \in polarity[e]
      BY <2>1, <2>2, <2>3
    <3>2. ~Satisfied(Consumed(OSFlagFlags[e], n, rdy), node[t])
      BY <1>1, <2>2, <3>1, ConsumedHelpsNobody
    <3> QED
      BY <1>2, <2>1, <2>3, <3>2
  <2>4. CASE eptr[t] # e
    BY <1>2, <1>3, <2>1, <2>4
  <2> QED
    BY <2>3, <2>4
<1> QED
  BY <1>3 DEF Unsatisfied

\* Steps that leave the flags alone, and in which nobody begins to wait.
LEMMA FlagStutters ==
  ASSUME FlagIInv, CoreInv', UNCHANGED <<flagVars, OSEventType, OSTCBEventPtr, pevent>>
  PROVE  FlagIInv'
<1>1. /\ OSFlagFlags' = OSFlagFlags /\ OSTCBFlagsRdy' = OSTCBFlagsRdy /\ node' = node
      /\ polarity' = polarity /\ OSEventType' = OSEventType /\ OSTCBEventPtr' = OSTCBEventPtr
      /\ pevent' = pevent
  BY DEF flagVars
<1>2. /\ FlagTypes' /\ SidesMatch(pevent', node', OSEventType', polarity')
      /\ Unsatisfied(OSTCBEventPtr', OSFlagFlags', node')
  BY <1>1 DEF FlagIInv, FlagTypes
<1> QED
  BY <1>2, FlagPrimed

LEMMA FlagClock ==
  ASSUME FlagIInv, FlagTick \/ FlagTimeDly
  PROVE  FlagIInv'
<1>1. CoreInv'
  BY TickCore, DlyCore DEF FlagTick, FlagTimeDly, FlagIInv
<1>2. UNCHANGED <<flagVars, OSEventType, OSTCBEventPtr, pevent>>
  BY DEF FlagTick, FlagTimeDly, TimeTick, TimeDly
<1> QED
  BY <1>1, <1>2, FlagStutters

LEMMA FlagCreates ==
  ASSUME FlagIInv, NEW e \in Event, OSFlagCreate(e)
  PROVE  FlagIInv'
<1>1. PICK flags \in SUBSET Flag : OSFlagFlags' = [OSFlagFlags EXCEPT ![e] = flags]
  BY DEF OSFlagCreate
<1>2. PICK types \in {SetTypes, ClrTypes} : polarity' = [polarity EXCEPT ![e] = types]
  BY DEF OSFlagCreate
<1>3. /\ OSEventType[e] = "UNUSED" /\ OSEventType' = [OSEventType EXCEPT ![e] = "FLAG"]
      /\ OSTCBFlagsRdy' = OSTCBFlagsRdy /\ node' = node /\ Same
  BY DEF OSFlagCreate
<1>4. OSTCBEventPtr' = OSTCBEventPtr /\ pevent' = pevent
  BY <1>3 DEF Same, tcbVars
<1>5. \A t \in Tcb : pevent[t] # e /\ OSTCBEventPtr[t] # e
  BY <1>3, Pointed DEF FlagIInv, SidesMatch
<1>6. CoreInv'
  <2>1. OSEventTbl'[e] = {}
    <3>1. \A p \in OSEventTbl[e] : FALSE
      BY <1>5, CoreParts DEF FlagIInv, ListsRight
    <3> QED
      BY <1>3, <3>1 DEF Same
  <2>2. Retyped
    BY <1>3, <2>1 DEF Retyped, FlagIInv, CoreInv, CoreTypes, Kind
  <2> QED
    BY <1>3, <2>2, QuietCore DEF Same, FlagIInv
<1>7. FlagTypes'
  BY <1>1, <1>2, <1>3 DEF FlagIInv, FlagTypes
<1>8. SidesMatch(pevent', node', OSEventType', polarity')
  <2>1. \A f \in Event : f # e => OSEventType'[f] = OSEventType[f] /\ polarity'[f] = polarity[f]
    BY <1>2, <1>3 DEF FlagIInv, FlagTypes, CoreInv, CoreTypes
  <2> QED
    BY <1>3, <1>4, <1>5, <2>1 DEF FlagIInv, SidesMatch
<1>9. Unsatisfied(OSTCBEventPtr', OSFlagFlags', node')
  <2>1. \A f \in Event : f # e => OSFlagFlags'[f] = OSFlagFlags[f]
    BY <1>1 DEF FlagIInv, FlagTypes
  <2> QED
    BY <1>3, <1>4, <1>5, <2>1 DEF FlagIInv, Unsatisfied
<1> QED
  BY <1>6, <1>7, <1>8, <1>9, FlagPrimed

LEMMA FlagDeletes ==
  ASSUME FlagIInv, NEW e \in Event, OSFlagDel(e)
  PROVE  FlagIInv'
<1>1. /\ OSFlagFlags' = [OSFlagFlags EXCEPT ![e] = {}] /\ polarity' = polarity
      /\ OSEventType' = [OSEventType EXCEPT ![e] = "UNUSED"] /\ OSEventTbl[e] = {}
      /\ OSTCBFlagsRdy' = OSTCBFlagsRdy /\ node' = node /\ Same /\ \A t \in Task : pevent[t] # e
  BY DEF OSFlagDel
<1>2. OSTCBEventPtr' = OSTCBEventPtr /\ pevent' = pevent
  BY <1>1 DEF Same, tcbVars
<1>3. \A t \in Tcb : pevent[t] # e /\ OSTCBEventPtr[t] # e
  <2>1. pevent[Idle] # e
    BY Pointed DEF FlagIInv
  <2> QED
    BY <1>1, <2>1, Pointed DEF FlagIInv, Tcb
<1>4. CoreInv'
  <2>1. Retyped
    BY <1>1 DEF Retyped, FlagIInv, CoreInv, CoreTypes, Same
  <2> QED
    BY <1>1, <2>1, QuietCore DEF Same, FlagIInv
<1>5. FlagTypes'
  BY <1>1 DEF FlagIInv, FlagTypes
<1>6. SidesMatch(pevent', node', OSEventType', polarity')
  <2>1. \A f \in Event : f # e => OSEventType'[f] = OSEventType[f]
    BY <1>1 DEF FlagIInv, CoreInv, CoreTypes
  <2> QED
    BY <1>1, <1>2, <1>3, <2>1 DEF FlagIInv, SidesMatch
<1>7. Unsatisfied(OSTCBEventPtr', OSFlagFlags', node')
  <2>1. \A f \in Event : f # e => OSFlagFlags'[f] = OSFlagFlags[f]
    BY <1>1 DEF FlagIInv, FlagTypes
  <2> QED
    BY <1>1, <1>2, <1>3, <2>1 DEF FlagIInv, Unsatisfied
<1> QED
  BY <1>4, <1>5, <1>6, <1>7, FlagPrimed

LEMMA NodesAre ==
  ASSUME FlagTypes, NEW e \in Event, NEW n \in Nodes(e)
  PROVE  n \in AllNodes /\ n.type \in polarity[e]
<1>1. polarity[e] \subseteq SetTypes \cup ClrTypes
  BY DEF FlagTypes
<1> QED
  BY <1>1 DEF Nodes, AllNodes

LEMMA FlagAccepts ==
  ASSUME FlagIInv, NEW e \in Event, OSFlagAccept(e)
  PROVE  FlagIInv'
<1>1. PICK n \in Nodes(e) :
        OSFlagFlags' = [OSFlagFlags EXCEPT ![e] = Consumed(@, n, FlagsReady(@, n))]
  BY DEF OSFlagAccept
<1>2. n \in AllNodes /\ n.type \in polarity[e]
  BY NodesAre DEF FlagIInv
<1>3. PICK rdy : rdy = FlagsReady(OSFlagFlags[e], n)
  OBVIOUS
<1>4. Set1(OSFlagFlags', OSFlagFlags, e, Consumed(OSFlagFlags[e], n, rdy))
  BY <1>1, <1>3 DEF Set1
<1>5. /\ OSEventType' = OSEventType /\ OSTCBFlagsRdy' = OSTCBFlagsRdy /\ node' = node
      /\ polarity' = polarity /\ Same /\ OSEventType[e] = "FLAG"
  BY DEF OSFlagAccept, Group
<1>6. OSTCBEventPtr' = OSTCBEventPtr /\ pevent' = pevent
  BY <1>5 DEF Same, tcbVars
<1>7. CoreInv'
  <2>1. Retyped
    BY <1>5 DEF Retyped, FlagIInv, CoreInv, CoreTypes
  <2> QED
    BY <1>5, <2>1, QuietCore DEF Same, FlagIInv
<1>8. FlagTypes'
  <2>1. Consumed(OSFlagFlags[e], n, rdy) \in SUBSET Flag
    BY <1>2, <1>3, ConsumedTypes DEF FlagIInv, FlagTypes
  <2> QED
    BY <1>4, <1>5, <2>1 DEF FlagIInv, FlagTypes, Set1
<1>9. SidesMatch(pevent', node', OSEventType', polarity')
  BY <1>5, <1>6 DEF FlagIInv
<1>10. Unsatisfied(OSTCBEventPtr', OSFlagFlags', node')
  BY <1>2, <1>4, <1>5, <1>6, FlagsConsumed
<1> QED
  BY <1>7, <1>8, <1>9, <1>10, FlagPrimed

LEMMA FlagPends ==
  ASSUME FlagIInv, NEW e \in Event, OSFlagPend(e)
  PROVE  FlagIInv'
<1>1. PICK n \in Nodes(e) : ~Satisfied(OSFlagFlags[e], n) /\ node' = [node EXCEPT ![OSTCBCur] = n]
  BY DEF OSFlagPend
<1>2. n \in AllNodes /\ n.type \in polarity[e]
  BY NodesAre DEF FlagIInv
<1>3. PICK c \in Tcb : c = OSTCBCur
  BY CoreParts DEF FlagIInv
<1>4. /\ OSFlagFlags' = OSFlagFlags /\ OSTCBFlagsRdy' = OSTCBFlagsRdy /\ polarity' = polarity
      /\ OSEventType' = OSEventType /\ OSEventType[e] = "FLAG" /\ pc[c] = "run" /\ c # Idle
      /\ OSTCBEventPtr' = [OSTCBEventPtr EXCEPT ![c] = e] /\ node' = [node EXCEPT ![c] = n]
  BY <1>1, <1>3 DEF OSFlagPend, Group, Caller, Wait
<1>5. PICK k \in Kind : k = "FLAG"
  BY DEF Kind
<1>6. CoreInv' /\ pevent' = [pevent EXCEPT ![c] = e]
  <2>1. /\ OSEventType[e] = k /\ OSTCBCur # Idle /\ pc[OSTCBCur] = "run" /\ Wait(e, k, OSRdyTbl)
        /\ OSEventTbl' = [OSEventTbl EXCEPT ![e] = @ \cup {OSTCBPrio[OSTCBCur]}]
        /\ Dispatch(OSRdyTbl', OSTCBPrioTbl, OSPrioCur) /\ UNCHANGED <<prioVars, OSEventType>>
    BY <1>5 DEF OSFlagPend, Group, Caller
  <2> QED
    BY <1>3, <2>1, GoWaitCore DEF FlagIInv
<1>7. /\ pevent \in [Tcb -> Event \cup {Null}] /\ OSTCBEventPtr \in [Tcb -> Event \cup {Null}]
      /\ node \in [Tcb -> AllNodes]
  BY DEF FlagIInv, FlagTypes, CoreInv, CoreTypes
<1>8. FlagTypes'
  BY <1>2, <1>4, <1>7 DEF FlagIInv, FlagTypes
<1>9. SidesMatch(pevent', node', OSEventType', polarity')
  BY <1>2, <1>4, <1>6, <1>7 DEF FlagIInv, SidesMatch
<1>10. Unsatisfied(OSTCBEventPtr', OSFlagFlags', node')
  <2>1. ASSUME NEW t \in Tcb, OSTCBEventPtr'[t] \in Event
        PROVE  ~Satisfied(OSFlagFlags[OSTCBEventPtr'[t]], node'[t])
    <3>1. CASE t = c
      BY <1>1, <1>4, <1>7, <3>1
    <3>2. CASE t # c
      BY <1>4, <1>7, <2>1, <3>2 DEF FlagIInv, Unsatisfied
    <3> QED
      BY <3>1, <3>2
  <2> QED
    BY <1>4, <2>1 DEF Unsatisfied
<1> QED
  BY <1>6, <1>8, <1>9, <1>10, FlagPrimed

LEMMA FlagReturns ==
  ASSUME FlagIInv, FlagPendRet
  PROVE  FlagIInv'
<1>1. PICK c \in Tcb : c = OSTCBCur
  BY CoreParts DEF FlagIInv
<1>2. WaitEnds(c) /\ pc[c] # "run"
  BY <1>1 DEF FlagPendRet
<1>3. /\ CoreInv' /\ pevent[c] \in Event
      /\ \A t \in Tcb : /\ OSTCBEventPtr'[t] = IF t = c THEN Null ELSE OSTCBEventPtr[t]
                        /\ pevent'[t] = IF t = c THEN Null ELSE pevent[t]
  BY <1>1, <1>2, EndsCore DEF FlagIInv
<1>4. PICK e \in Event : e = pevent[c]
  BY <1>3
<1>5. PICK n \in AllNodes : n = node[c] /\ n.type \in polarity[e] /\ OSEventType[e] = "FLAG"
  BY <1>4 DEF FlagIInv, FlagTypes, SidesMatch
<1>6. PICK rdy \in SUBSET Flag : rdy = OSTCBFlagsRdy[c]
  BY DEF FlagIInv, FlagTypes
<1>7. /\ OSEventType' = OSEventType /\ polarity' = polarity
      /\ node' = [node EXCEPT ![c] = NoNode] /\ OSTCBFlagsRdy' = [OSTCBFlagsRdy EXCEPT ![c] = {}]
      /\ \/ OSFlagFlags' = OSFlagFlags
         \/ OSFlagFlags' = [OSFlagFlags EXCEPT ![e] = Consumed(@, n, rdy)]
  BY <1>1, <1>4, <1>5, <1>6 DEF FlagPendRet, WaitEnds
<1>8. OSFlagFlags' = OSFlagFlags \/ Set1(OSFlagFlags', OSFlagFlags, e, Consumed(OSFlagFlags[e], n, rdy))
  BY <1>7 DEF Set1
<1>9. node \in [Tcb -> AllNodes] /\ Null \notin Event /\ \A t \in Tcb : t # c => node'[t] = node[t]
  BY <1>7, CoreParts DEF FlagIInv, FlagTypes
<1>10. FlagTypes'
  <2>1. NoNode \in AllNodes
    BY DEF NoNode, AllNodes, SetTypes
  <2>2. OSFlagFlags' \in [Event -> SUBSET Flag]
    <3>1. Consumed(OSFlagFlags[e], n, rdy) \in SUBSET Flag
      BY ConsumedTypes DEF FlagIInv, FlagTypes
    <3> QED
      BY <1>8, <3>1 DEF FlagIInv, FlagTypes, Set1
  <2> QED
    BY <1>7, <2>1, <2>2 DEF FlagIInv, FlagTypes
<1>11. SidesMatch(pevent', node', OSEventType', polarity')
  BY <1>3, <1>7, <1>9 DEF FlagIInv, SidesMatch
<1>12. Unsatisfied(OSTCBEventPtr', OSFlagFlags', node')
  <2>1. \A t \in Tcb : OSTCBEventPtr'[t] \in Event => OSTCBEventPtr'[t] = OSTCBEventPtr[t] /\ node'[t] = node[t]
    BY <1>3, <1>9
  <2>2. CASE OSFlagFlags' = OSFlagFlags
    BY <2>1, <2>2 DEF FlagIInv, Unsatisfied
  <2>3. CASE Set1(OSFlagFlags', OSFlagFlags, e, Consumed(OSFlagFlags[e], n, rdy))
    BY <1>5, <2>1, <2>3, FlagsConsumed
  <2> QED
    BY <1>8, <2>2, <2>3
<1> QED
  BY <1>3, <1>10, <1>11, <1>12, FlagPrimed

LEMMA FlagPosts ==
  ASSUME FlagIInv, NEW e \in Event, OSFlagPost(e)
  PROVE  FlagIInv'
<1>1. PICK flags \in SUBSET Flag \ {{}}, set \in BOOLEAN :
        LET cur == IF set THEN OSFlagFlags[e] \cup flags ELSE OSFlagFlags[e] \ flags
            ps == SatisfiedWaiters(e, cur)
        IN
        /\ OSFlagFlags' = [OSFlagFlags EXCEPT ![e] = cur]
        /\ EventTaskRdy(e, ps, Null, "OK")
        /\ OSTCBFlagsRdy' = [t \in Tcb |->
             IF OSTCBPrio[t] \in ps THEN FlagsReady(cur, node[t]) ELSE OSTCBFlagsRdy[t]]
        /\ OSRdyTbl' = OSRdyTbl \cup Woken(ps)
        /\ Dispatch(OSRdyTbl', OSTCBPrioTbl, OSPrioCur)
  BY DEF OSFlagPost
<1>2. PICK cur \in SUBSET Flag : cur = IF set THEN OSFlagFlags[e] \cup flags ELSE OSFlagFlags[e] \ flags
  BY DEF FlagIInv, FlagTypes
<1>3. PICK ps : ps = SatisfiedWaiters(e, cur)
  OBVIOUS
<1>4. /\ OSFlagFlags' = [OSFlagFlags EXCEPT ![e] = cur]
      /\ EventTaskRdy(e, ps, Null, "OK")
      /\ OSTCBFlagsRdy' = [t \in Tcb |->
           IF OSTCBPrio[t] \in ps THEN FlagsReady(cur, node[t]) ELSE OSTCBFlagsRdy[t]]
      /\ OSRdyTbl' = OSRdyTbl \cup Woken(ps)
      /\ Dispatch(OSRdyTbl', OSTCBPrioTbl, OSPrioCur)
  BY <1>1, <1>2, <1>3
<1>5. /\ ps \in SUBSET OSEventTbl[e]
      /\ \A p \in OSEventTbl[e] : p \notin ps => ~Satisfied(cur, node[OSTCBPrioTbl[p]])
  BY <1>3 DEF SatisfiedWaiters
<1>6. /\ UNCHANGED prioVars /\ OSEventType' = OSEventType /\ pc' = pc /\ pevent' = pevent /\ node' = node
      /\ polarity' = polarity /\ OSEventType[e] = "FLAG"
  BY DEF OSFlagPost, Group
<1>7. PICK st \in {"OK", "ABORT"} : st = "OK"
  OBVIOUS
<1>8. CoreInv' /\ Wakes(e, ps, st)
  <2>1. Retyped
    BY <1>6 DEF Retyped, FlagIInv, CoreInv, CoreTypes
  <2>2. EventTaskRdy(e, ps, Null, st) /\ UNCHANGED <<pc, pevent, prioVars>>
    BY <1>4, <1>6, <1>7
  <2> QED
    BY <1>4, <1>5, <2>1, <2>2, WakeUpCore DEF FlagIInv
<1>9. FlagTypes'
  <2>1. \A t \in Tcb : FlagsReady(cur, node[t]) \in SUBSET Flag
    BY ConsumedTypes DEF FlagIInv, FlagTypes
  <2> QED
    BY <1>4, <1>6, <2>1 DEF FlagIInv, FlagTypes
<1>10. SidesMatch(pevent', node', OSEventType', polarity')
  BY <1>6 DEF FlagIInv
<1>11. Unsatisfied(OSTCBEventPtr', OSFlagFlags', node')
  <2>1. ASSUME NEW t \in Tcb, OSTCBEventPtr'[t] \in Event
        PROVE  ~Satisfied(OSFlagFlags'[OSTCBEventPtr'[t]], node[t])
    <3>1. OSTCBPrio[t] \notin ps /\ OSTCBEventPtr'[t] = OSTCBEventPtr[t]
      BY <1>8, <2>1, CoreParts DEF Wakes, FlagIInv
    <3>2. CASE OSTCBEventPtr[t] = e
      <4>1. OSTCBPrio[t] \in OSEventTbl[e] /\ OSTCBPrioTbl[OSTCBPrio[t]] = t
        BY <3>2, CoreParts DEF ListsRight, PrioRight, FlagIInv
      <4>2. ~Satisfied(cur, node[t])
        BY <1>5, <3>1, <4>1
      <4>3. OSFlagFlags'[e] = cur
        BY <1>4 DEF FlagIInv, FlagTypes
      <4> QED
        BY <3>1, <3>2, <4>2, <4>3
    <3>3. CASE OSTCBEventPtr[t] # e
      <4>1. OSFlagFlags'[OSTCBEventPtr[t]] = OSFlagFlags[OSTCBEventPtr[t]]
        BY <1>4, <2>1, <3>1, <3>3 DEF FlagIInv, FlagTypes
      <4> QED
        BY <2>1, <3>1, <4>1 DEF FlagIInv, Unsatisfied
    <3> QED
      BY <3>2, <3>3
  <2> QED
    BY <1>6, <2>1 DEF Unsatisfied
<1> QED
  BY <1>8, <1>9, <1>10, <1>11, FlagPrimed

\* No task waits for flags that are as it wants them (os_flag.c): a post wakes everybody it
\* satisfies, also those whose time is up and who have not run, and what a woken task consumes
\* later, when it runs, helps no other.  And the tasks, their priorities and the lists agree.
THEOREM NoFlagWaitIsVain == FlagSpec => [](NoFlagWaitInVain /\ TasksConsistent)
<1>1. FlagStart => FlagIInv
  <2> SUFFICES ASSUME FlagStart PROVE FlagIInv
    OBVIOUS
  <2>1. CoreInv
    BY InitCore DEF FlagStart
  <2>2. NoNode \in AllNodes
    BY DEF NoNode, AllNodes, SetTypes
  <2>3. FlagTypes
    BY <2>2 DEF FlagStart, FlagInit, FlagTypes
  <2>4. \A t \in Tcb : pevent[t] \notin Event /\ OSTCBEventPtr[t] \notin Event
    BY <2>1, CoreParts DEF FlagStart, EventInit
  <2> QED
    BY <2>1, <2>3, <2>4 DEF FlagIInv, SidesMatch, Unsatisfied
<1>2. FlagIInv /\ [FlagNext]_flagAll => FlagIInv'
  <2> SUFFICES ASSUME FlagIInv, [FlagNext]_flagAll PROVE FlagIInv'
    OBVIOUS
  <2>1. CASE UNCHANGED flagAll
    <3>1. Same /\ OSEventType' = OSEventType /\ UNCHANGED <<flagVars, OSEventType, OSTCBEventPtr, pevent>>
      BY <2>1 DEF flagAll, coreVars, Same, tcbVars
    <3>2. Retyped
      BY <3>1 DEF Retyped, FlagIInv, CoreInv, CoreTypes
    <3>3. CoreInv'
      BY <3>1, <3>2, QuietCore DEF Same, FlagIInv
    <3> QED
      BY <3>1, <3>3, FlagStutters
  <2>2. CASE FlagTick \/ FlagTimeDly
    BY <2>2, FlagClock
  <2>3. CASE FlagPendRet
    BY <2>3, FlagReturns
  <2>4. ASSUME NEW e \in Event, OSFlagCreate(e) \/ OSFlagDel(e) \/ OSFlagAccept(e) \/ OSFlagPend(e) \/ OSFlagPost(e)
        PROVE  FlagIInv'
    BY <2>4, FlagCreates, FlagDeletes, FlagAccepts, FlagPends, FlagPosts
  <2> QED
    BY <2>1, <2>2, <2>3, <2>4 DEF FlagNext
<1>3. FlagIInv => NoFlagWaitInVain /\ TasksConsistent
  <2> SUFFICES ASSUME FlagIInv PROVE NoFlagWaitInVain /\ TasksConsistent
    OBVIOUS
  <2>1. ASSUME NEW e \in Event, NEW p \in OSEventTbl[e]
        PROVE  ~Satisfied(OSFlagFlags[e], node[OSTCBPrioTbl[p]])
    <3>1. OSTCBPrioTbl[p] \in Tcb /\ OSTCBEventPtr[OSTCBPrioTbl[p]] = e
      BY ListedTask DEF FlagIInv, Tcb
    <3> QED
      BY <3>1 DEF FlagIInv, Unsatisfied
  <2> QED
    BY <2>1, CoreConsistent DEF FlagIInv, NoFlagWaitInVain
<1> QED
  BY <1>1, <1>2, <1>3, PTL DEF FlagSpec

-----------------------------------------------------------------------------
(* Who owns a mutex.                                                       *)

CntTypes == OSEventCnt \in [Event -> [pcp : Prio \cup {CeilDis}, prio : Prio \cup {Avail}]]

\* The tasks that have a mutex: those that are back with it, and one that has been given it and
\* has not run since.
Coming(k, pe, eptr, pend, e) == k = "MUTEX" /\ pe = e /\ eptr = Null /\ pend = "OK"
Got == holds \cup {h \in Task \X Event :
                     Coming(pc[h[1]], pevent[h[1]], OSTCBEventPtr[h[1]], OSTCBStatPend[h[1]], h[2])}

\* The owner has the mutex, nobody else has, and its own priority is kept.
OwnerRight(e, cnt, ptr, got) ==
  /\ \/ ptr = Null /\ cnt.prio = Avail
     \/ ptr \in Task /\ cnt.prio = BasePrio[ptr] /\ <<ptr, e>> \in got
  /\ \A t \in Task : <<t, e>> \in got => t = ptr

\* Nobody but the owner ever has the ceiling, and a more urgent waiter has raised the owner.
CeilingRight(cnt, ptr, prio, tbl) ==
  cnt.pcp # CeilDis =>
    /\ \A t \in Tcb : BasePrio[t] # cnt.pcp
    /\ \/ tbl[cnt.pcp] = Reserved
       \/ ptr \in Task /\ tbl[cnt.pcp] = ptr /\ prio[ptr] = cnt.pcp
InheritRight(cnt, ptr, list, prio) ==
  cnt.pcp # CeilDis /\ ptr \in Task => \A p \in list : p < BasePrio[ptr] => prio[ptr] <= cnt.pcp

PtrRight(type, ptr) == ptr \in IF type = "MBOX" THEN Msg \cup {Null} ELSE {Null}
MutexRight(e, type, cnt, ptr, list, prio, tbl, got) ==
  IF type = "MUTEX"
  THEN OwnerRight(e, cnt, ptr, got) /\ CeilingRight(cnt, ptr, prio, tbl) /\ InheritRight(cnt, ptr, list, prio)
  ELSE (\A t \in Task : <<t, e>> \notin got) /\ PtrRight(type, ptr)

\* Mutexes with a ceiling have one each, and only owners have a priority that is not their own.
CeilingsApart(type, cnt) ==
  \A e, f \in Event : type[e] = "MUTEX" /\ type[f] = "MUTEX" /\ cnt[e].pcp = cnt[f].pcp
                        => e = f \/ cnt[e].pcp = CeilDis
OthersOwn(prio, type, cnt, ptr) ==
  \A t \in Tcb : prio[t] # BasePrio[t] =>
    \E e \in Event : type[e] = "MUTEX" /\ ptr[e] = t /\ cnt[e].pcp = prio[t]

HoldsRight(h, k) ==
  /\ h \subseteq Task \X Event
  /\ \A t \in Task, e, f \in Event : <<t, e>> \in h /\ <<t, f>> \in h => e = f
  /\ \A t \in Task, e \in Event : <<t, e>> \in h => k[t] = "run"

\* There is nothing to be had where a task waits.
Deserved(type, list, ptr, q, cnt) ==
  list # {} => \/ type = "Q" /\ q.entries = 0
               \/ type = "MBOX" /\ ptr = Null
               \/ type = "MUTEX" /\ cnt.prio # Avail
               \/ type = "FLAG"

ObjIInv ==
  /\ CoreInv /\ RingIInv /\ CntTypes
  /\ \A e \in Event : Deserved(OSEventType[e], OSEventTbl[e], OSEventPtr[e], OSQ[e], OSEventCnt[e])
  /\ \A e \in Event : MutexRight(e, OSEventType[e], OSEventCnt[e], OSEventPtr[e], OSEventTbl[e],
                                 OSTCBPrio, OSTCBPrioTbl, Got)
  /\ CeilingsApart(OSEventType, OSEventCnt)
  /\ OthersOwn(OSTCBPrio, OSEventType, OSEventCnt, OSEventPtr)
  /\ HoldsRight(holds, pc)

\* Nothing that concerns the owner of f changes, and nobody new waits there.
Kept(f, prio, prio2, tbl, tbl2) ==
  /\ OSEventType'[f] = "MUTEX" <=> OSEventType[f] = "MUTEX"
  /\ OSEventType[f] = "MUTEX" =>
       /\ OSEventCnt'[f] = OSEventCnt[f] /\ OSEventPtr'[f] = OSEventPtr[f]
       /\ OSEventTbl'[f] \subseteq OSEventTbl[f]
       /\ OSEventCnt[f].pcp # CeilDis => tbl2[OSEventCnt[f].pcp] = tbl[OSEventCnt[f].pcp]
       /\ OSEventPtr[f] \in Task => prio2[OSEventPtr[f]] = prio[OSEventPtr[f]]
  /\ OSEventType'[f] # "MUTEX" => PtrRight(OSEventType'[f], OSEventPtr'[f])
  /\ \A t \in Task : <<t, f>> \in Got' <=> <<t, f>> \in Got

LEMMA StillRight ==
  ASSUME NEW f \in Event, NEW prio, NEW prio2, NEW tbl, NEW tbl2, Kept(f, prio, prio2, tbl, tbl2),
         MutexRight(f, OSEventType[f], OSEventCnt[f], OSEventPtr[f], OSEventTbl[f], prio, tbl, Got)
  PROVE  MutexRight(f, OSEventType'[f], OSEventCnt'[f], OSEventPtr'[f], OSEventTbl'[f], prio2, tbl2, Got')
<1>1. CASE OSEventType[f] = "MUTEX"
  <2>1. OwnerRight(f, OSEventCnt'[f], OSEventPtr'[f], Got')
    BY <1>1 DEF Kept, MutexRight, OwnerRight
  <2>2. CeilingRight(OSEventCnt'[f], OSEventPtr'[f], prio2, tbl2)
    BY <1>1 DEF Kept, MutexRight, CeilingRight
  <2>3. InheritRight(OSEventCnt'[f], OSEventPtr'[f], OSEventTbl'[f], prio2)
    BY <1>1 DEF Kept, MutexRight, InheritRight
  <2> QED
    BY <1>1, <2>1, <2>2, <2>3 DEF Kept, MutexRight
<1>2. CASE OSEventType[f] # "MUTEX"
  BY <1>2 DEF Kept, MutexRight
<1> QED
  BY <1>1, <1>2

LEMMA ObjParts ==
  ASSUME ObjIInv
  PROVE  /\ CoreInv /\ RingIInv /\ CntTypes
         /\ \A e \in Event : Deserved(OSEventType[e], OSEventTbl[e], OSEventPtr[e], OSQ[e], OSEventCnt[e])
         /\ \A e \in Event : MutexRight(e, OSEventType[e], OSEventCnt[e], OSEventPtr[e], OSEventTbl[e],
                                        OSTCBPrio, OSTCBPrioTbl, Got)
         /\ CeilingsApart(OSEventType, OSEventCnt)
         /\ OthersOwn(OSTCBPrio, OSEventType, OSEventCnt, OSEventPtr)
         /\ HoldsRight(holds, pc)
  BY DEF ObjIInv

DeservedNext ==
  \A e \in Event : Deserved(OSEventType'[e], OSEventTbl'[e], OSEventPtr'[e], OSQ'[e], OSEventCnt'[e])
MutexesNext ==
  \A e \in Event : MutexRight(e, OSEventType'[e], OSEventCnt'[e], OSEventPtr'[e], OSEventTbl'[e],
                              OSTCBPrio', OSTCBPrioTbl', Got')

LEMMA ObjPrimed ==
  ASSUME CoreInv', RingIInv', CntTypes', DeservedNext, MutexesNext,
         CeilingsApart(OSEventType', OSEventCnt'),
         OthersOwn(OSTCBPrio', OSEventType', OSEventCnt', OSEventPtr'), HoldsRight(holds', pc')
  PROVE  ObjIInv'
  BY DEF ObjIInv, DeservedNext, MutexesNext, Deserved, MutexRight, OwnerRight, CeilingRight, InheritRight,
         PtrRight, CeilingsApart, OthersOwn, HoldsRight

GotSame == \A t \in Task, f \in Event : <<t, f>> \in Got' <=> <<t, f>> \in Got

\* A task that is not coming with a mutex, before or after.
NotComing(k, eptr, pend) == k # "MUTEX" \/ eptr # Null \/ pend # "OK"
Unmoved(t) ==
  \/ pc'[t] = pc[t] /\ pevent'[t] = pevent[t] /\ OSTCBEventPtr'[t] = OSTCBEventPtr[t]
       /\ OSTCBStatPend'[t] = OSTCBStatPend[t]
  \/ NotComing(pc[t], OSTCBEventPtr[t], OSTCBStatPend[t]) /\ NotComing(pc'[t], OSTCBEventPtr'[t], OSTCBStatPend'[t])
LEMMA GotKept ==
  ASSUME holds' = holds, \A t \in Task : Unmoved(t)
  PROVE  GotSame
<1>1. \A t \in Task, f \in Event : <<t, f>> \in Got <=>
        <<t, f>> \in holds \/ Coming(pc[t], pevent[t], OSTCBEventPtr[t], OSTCBStatPend[t], f)
  BY DEF Got
<1>2. \A t \in Task, f \in Event : <<t, f>> \in Got' <=>
        <<t, f>> \in holds' \/ Coming(pc'[t], pevent'[t], OSTCBEventPtr'[t], OSTCBStatPend'[t], f)
  BY DEF Got, Coming
<1>3. \A t \in Task, f \in Event : Coming(pc'[t], pevent'[t], OSTCBEventPtr'[t], OSTCBStatPend'[t], f)
        <=> Coming(pc[t], pevent[t], OSTCBEventPtr[t], OSTCBStatPend[t], f)
  BY DEF Unmoved, NotComing, Coming
<1> QED
  BY <1>1, <1>2, <1>3 DEF GotSame

\* A step after which every block is what it was and holds what it held.
LEMMA Undisturbed ==
  ASSUME ObjIInv, CoreInv', RingIInv', UNCHANGED <<OSEventType, OSEventCnt, OSEventPtr, OSQ, prioVars>>,
         \A f \in Event : OSEventTbl'[f] \subseteq OSEventTbl[f], GotSame, HoldsRight(holds', pc')
  PROVE  ObjIInv'
<1>1. /\ OSEventType' = OSEventType /\ OSEventCnt' = OSEventCnt /\ OSEventPtr' = OSEventPtr /\ OSQ' = OSQ
      /\ OSTCBPrio' = OSTCBPrio /\ OSTCBPrioTbl' = OSTCBPrioTbl
  BY DEF prioVars
<1>2. CntTypes'
  BY <1>1, ObjParts DEF CntTypes
<1>3. DeservedNext
  BY <1>1, ObjParts DEF DeservedNext, Deserved
<1>4. MutexesNext
  <2>1. ASSUME NEW f \in Event
        PROVE  Kept(f, OSTCBPrio, OSTCBPrio', OSTCBPrioTbl, OSTCBPrioTbl')
    <3>1. OSEventType[f] # "MUTEX" => PtrRight(OSEventType[f], OSEventPtr[f])
      BY ObjParts DEF MutexRight
    <3> QED
      BY <1>1, <3>1 DEF Kept, GotSame
  <2> QED
    BY <2>1, StillRight, ObjParts DEF MutexesNext
<1>5. /\ CeilingsApart(OSEventType', OSEventCnt')
      /\ OthersOwn(OSTCBPrio', OSEventType', OSEventCnt', OSEventPtr')
  BY <1>1, ObjParts
<1> QED
  BY <1>2, <1>3, <1>4, <1>5, ObjPrimed

\* A step that changes one block, and takes waiters from the others at most.
OnlyAt(e) ==
  \A f \in Event : f # e =>
    /\ OSEventTbl'[f] \subseteq OSEventTbl[f]
    /\ OSEventType'[f] = OSEventType[f] /\ OSEventCnt'[f] = OSEventCnt[f]
    /\ OSEventPtr'[f] = OSEventPtr[f] /\ OSQ'[f] = OSQ[f]

\* ... and that block is no mutex.
AtOther(e) ==
  /\ OSEventType[e] # "MUTEX" /\ OSEventType'[e] # "MUTEX" /\ OnlyAt(e)
  /\ PtrRight(OSEventType'[e], OSEventPtr'[e])
  /\ Deserved(OSEventType'[e], OSEventTbl'[e], OSEventPtr'[e], OSQ'[e], OSEventCnt'[e])

LEMMA OneOther ==
  ASSUME ObjIInv, CoreInv', RingIInv', CntTypes', NEW e \in Event, AtOther(e), UNCHANGED prioVars,
         GotSame, HoldsRight(holds', pc')
  PROVE  ObjIInv'
<1>1. OSTCBPrio' = OSTCBPrio /\ OSTCBPrioTbl' = OSTCBPrioTbl
  BY DEF prioVars
<1>2. DeservedNext
  <2>1. ASSUME NEW f \in Event
        PROVE  Deserved(OSEventType'[f], OSEventTbl'[f], OSEventPtr'[f], OSQ'[f], OSEventCnt'[f])
    <3>1. CASE f = e
      BY <3>1 DEF AtOther
    <3>2. CASE f # e
      BY <3>2, ObjParts DEF AtOther, OnlyAt, Deserved
    <3> QED
      BY <3>1, <3>2
  <2> QED
    BY <2>1 DEF DeservedNext
<1>3. MutexesNext
  <2>1. ASSUME NEW f \in Event
        PROVE  Kept(f, OSTCBPrio, OSTCBPrio', OSTCBPrioTbl, OSTCBPrioTbl')
    <3>1. CASE f = e
      BY <3>1 DEF Kept, GotSame, AtOther
    <3>2. CASE f # e
      <4>1. OSEventType[f] # "MUTEX" => PtrRight(OSEventType[f], OSEventPtr[f])
        BY ObjParts DEF MutexRight
      <4> QED
        BY <1>1, <3>2, <4>1 DEF Kept, GotSame, AtOther, OnlyAt
    <3> QED
      BY <3>1, <3>2
  <2> QED
    BY <2>1, StillRight, ObjParts DEF MutexesNext
<1>4. \A f \in Event : OSEventType'[f] = "MUTEX" <=> OSEventType[f] = "MUTEX"
  BY DEF AtOther, OnlyAt
<1>5. \A f \in Event : OSEventType[f] = "MUTEX" => OSEventCnt'[f] = OSEventCnt[f] /\ OSEventPtr'[f] = OSEventPtr[f]
  BY DEF AtOther, OnlyAt
<1>6. CeilingsApart(OSEventType', OSEventCnt')
  BY <1>4, <1>5, ObjParts DEF CeilingsApart
<1>7. OthersOwn(OSTCBPrio', OSEventType', OSEventCnt', OSEventPtr')
  BY <1>1, <1>4, <1>5, ObjParts DEF OthersOwn
<1> QED
  BY <1>2, <1>3, <1>6, <1>7, ObjPrimed

-----------------------------------------------------------------------------
(* Queues and mailboxes, and the clock, leave the mutexes alone.           *)

\* A step at e that wakes nobody.
LEMMA QuietOther ==
  ASSUME ObjIInv, RingIInv', Retyped, NEW e \in Event, AtOther(e), Quiet, UNCHANGED <<OSEventCnt, holds>>
  PROVE  ObjIInv'
<1>1. CoreInv'
  BY QuietCore, ObjParts DEF Quiet
<1>2. /\ pc' = pc /\ pevent' = pevent /\ OSTCBEventPtr' = OSTCBEventPtr /\ OSTCBStatPend' = OSTCBStatPend
      /\ UNCHANGED prioVars /\ holds' = holds /\ OSEventCnt' = OSEventCnt
  BY DEF Quiet, tcbVars
<1>3. GotSame
  BY <1>2, GotKept DEF Unmoved
<1>4. HoldsRight(holds', pc') /\ CntTypes'
  BY <1>2, ObjParts DEF CntTypes
<1> QED
  BY <1>1, <1>2, <1>3, <1>4, OneOther

\* A step at e that wakes some of its waiters.
LEMMA WakeOther ==
  ASSUME ObjIInv, RingIInv', Retyped, NEW e \in Event, AtOther(e), NEW ps \in SUBSET OSEventTbl[e], NEW m,
         NEW st \in {"OK", "ABORT"}, NEW sched \in BOOLEAN, Wake(e, ps, m, st, sched),
         UNCHANGED <<OSEventCnt, holds>>
  PROVE  ObjIInv'
<1>1. CoreInv' /\ Wakes(e, ps, st)
  <2>1. /\ EventTaskRdy(e, ps, m, st) /\ UNCHANGED <<pc, pevent, prioVars>>
        /\ OSRdyTbl' = OSRdyTbl \cup Woken(ps)
        /\ Dispatch(OSRdyTbl', OSTCBPrioTbl, OSPrioCur) \/ UNCHANGED cpuVars
    BY DEF Wake
  <2> QED
    BY <2>1, WakeUpCore, ObjParts
<1>2. /\ pc' = pc /\ pevent' = pevent /\ UNCHANGED prioVars /\ holds' = holds /\ OSEventCnt' = OSEventCnt
  BY DEF Wake
<1>3. GotSame
  <2>1. ASSUME NEW t \in Task PROVE Unmoved(t)
    <3>1. t \in Tcb
      BY DEF Tcb
    <3>2. CASE OSTCBPrio[t] \in ps
      <4>1. OSTCBEventPtr[t] = e
        BY <1>1, <3>1, <3>2 DEF Wakes
      <4>2. pc[t] = OSEventType[e]
        BY <3>1, <4>1, ObjParts, CoreParts DEF TypesMatch
      <4> QED
        BY <1>2, <4>2 DEF Unmoved, NotComing, AtOther
    <3>3. CASE OSTCBPrio[t] \notin ps
      BY <1>1, <1>2, <3>1, <3>3 DEF Unmoved, Wakes
    <3> QED
      BY <3>2, <3>3
  <2> QED
    BY <1>2, <2>1, GotKept
<1>4. HoldsRight(holds', pc') /\ CntTypes'
  BY <1>2, ObjParts DEF CntTypes
<1> QED
  BY <1>1, <1>2, <1>3, <1>4, OneOther

\* A step in which the task on the CPU begins to wait at e.
LEMMA WaitOther ==
  ASSUME ObjIInv, RingIInv', NEW e \in Event, NEW k \in {"Q", "MBOX"}, OSEventType[e] = k,
         OSTCBCur # Idle, pc[OSTCBCur] = "run", OwnsNothing(OSTCBCur), Wait(e, k, OSRdyTbl),
         OSEventTbl' = [OSEventTbl EXCEPT ![e] = @ \cup {OSTCBPrio[OSTCBCur]}],
         Dispatch(OSRdyTbl', OSTCBPrioTbl, OSPrioCur), UNCHANGED <<prioVars, OSEventType>>,
         UNCHANGED objVars,
         \/ k = "Q" /\ OSQ[e].entries = 0
         \/ k = "MBOX" /\ OSEventPtr[e] = Null
  PROVE  ObjIInv'
<1>1. PICK c \in Tcb : c = OSTCBCur
  BY CoreParts, ObjParts
<1>2. CoreInv' /\ pc' = [pc EXCEPT ![c] = k] /\ pevent' = [pevent EXCEPT ![c] = e]
  <2>1. k \in Kind
    BY DEF Kind
  <2>2. UNCHANGED <<prioVars, OSEventType>>
    OBVIOUS
  <2> QED
    BY <1>1, <2>1, <2>2, GoWaitCore, ObjParts
<1>3. /\ OSEventType' = OSEventType /\ OSEventCnt' = OSEventCnt /\ OSEventPtr' = OSEventPtr /\ OSQ' = OSQ
      /\ holds' = holds
  BY DEF objVars
<1>4. AtOther(e)
  <2>1. OnlyAt(e)
    BY <1>3, ObjParts, CoreParts DEF OnlyAt
  <2>2. PtrRight(OSEventType[e], OSEventPtr[e])
    BY ObjParts DEF MutexRight
  <2>3. Deserved(OSEventType'[e], OSEventTbl'[e], OSEventPtr'[e], OSQ'[e], OSEventCnt'[e])
    BY <1>3 DEF Deserved
  <2> QED
    BY <1>3, <2>1, <2>2, <2>3 DEF AtOther
<1>5. /\ OSTCBStatPend' = [OSTCBStatPend EXCEPT ![c] = "OK"]
      /\ OSTCBEventPtr' = [OSTCBEventPtr EXCEPT ![c] = e]
  BY <1>1 DEF Wait
<1>6. GotSame
  <2>1. ASSUME NEW t \in Task PROVE Unmoved(t)
    <3>1. t \in Tcb
      BY DEF Tcb
    <3>2. CASE t = c
      <4>1. pc'[c] = k /\ pc[c] = "run"
        BY <1>1, <1>2, ObjParts DEF CoreInv, CoreTypes
      <4> QED
        BY <3>2, <4>1 DEF Unmoved, NotComing
    <3>3. CASE t # c
      BY <1>2, <1>5, <3>1, <3>3, ObjParts DEF Unmoved, CoreInv, CoreTypes
    <3> QED
      BY <3>2, <3>3
  <2> QED
    BY <1>3, <2>1, GotKept
<1>7. HoldsRight(holds', pc')
  <2>1. \A t \in Task, f \in Event : <<t, f>> \in holds => t # c
    BY <1>1 DEF OwnsNothing
  <2>2. \A t \in Task : t # c => pc'[t] = pc[t]
    BY <1>2, ObjParts DEF CoreInv, CoreTypes, Tcb
  <2> QED
    BY <1>3, <2>1, <2>2, ObjParts DEF HoldsRight
<1>8. CntTypes'
  BY <1>3, ObjParts DEF CntTypes
<1> QED
  BY <1>2, <1>4, <1>6, <1>7, <1>8, OneOther

\* Blocks that keep their type.
LEMMA SameType ==
  ASSUME ObjIInv, OSEventType' = OSEventType
  PROVE  Retyped
  BY ObjParts DEF Retyped, CoreInv, CoreTypes

\* OSxxxPendAbort and OSxxxDel.
LEMMA AbortRight ==
  ASSUME ObjIInv, RingIInv', NEW e \in Event, NEW op, NEW k \in {"Q", "MBOX"}, PendAbort(op, e, k)
  PROVE  ObjIInv'
<1>1. PICK ps \in {First(e), OSEventTbl[e]} : Wake(e, ps, Null, "ABORT", TRUE)
  BY DEF PendAbort
<1>2. ps \in SUBSET OSEventTbl[e]
  BY DEF First
<1>3. /\ OSEventType' = OSEventType /\ OSEventCnt' = OSEventCnt /\ OSEventPtr' = OSEventPtr /\ OSQ' = OSQ
      /\ holds' = holds /\ OSEventType[e] = k /\ OSEventTbl[e] # {}
  BY DEF PendAbort, objVars, Is
<1>4. OSEventTbl' = [OSEventTbl EXCEPT ![e] = @ \ ps]
  BY <1>1 DEF Wake, EventTaskRdy
<1>5. AtOther(e)
  <2>1. OnlyAt(e) /\ OSEventTbl'[e] \subseteq OSEventTbl[e]
    BY <1>3, <1>4, ObjParts, CoreParts DEF OnlyAt
  <2>2. PtrRight(OSEventType[e], OSEventPtr[e])
    BY <1>3, ObjParts DEF MutexRight
  <2>3. Deserved(OSEventType'[e], OSEventTbl'[e], OSEventPtr'[e], OSQ'[e], OSEventCnt'[e])
    BY <1>3, <2>1, ObjParts DEF Deserved
  <2> QED
    BY <1>3, <2>1, <2>2, <2>3 DEF AtOther
<1>6. PICK st \in {"OK", "ABORT"}, sched \in BOOLEAN : st = "ABORT" /\ sched = TRUE
  OBVIOUS
<1>7. Wake(e, ps, Null, st, sched)
  BY <1>1, <1>6
<1>8. Retyped
  BY <1>3, SameType
<1>9. UNCHANGED <<OSEventCnt, holds>>
  BY <1>3
<1> QED
  BY <1>2, <1>5, <1>7, <1>8, <1>9, WakeOther

LEMMA DelRight ==
  ASSUME ObjIInv, RingIInv', NEW e \in Event, NEW op, NEW k \in {"Q", "MBOX"}, Del(op, e, k)
  PROVE  ObjIInv'
<1>1. /\ OSEventType' = [OSEventType EXCEPT ![e] = "UNUSED"] /\ OSEventPtr' = [OSEventPtr EXCEPT ![e] = Null]
      /\ OSQ' = [OSQ EXCEPT ![e] = EmptyRing] /\ OSEventCnt' = OSEventCnt /\ holds' = holds
      /\ OSEventType[e] = k
  BY DEF Del, Is
<1>2. /\ On(OSEventType, Event) /\ On(OSEventPtr, Event) /\ On(OSQ, Event)
  BY ObjParts DEF RingIInv
<1>3. OSEventType'[e] = "UNUSED" /\ OSEventPtr'[e] = Null
  BY <1>1, <1>2 DEF On
<1>4. ASSUME OSEventTbl'[e] = {}, \A f \in Event : f # e => OSEventTbl'[f] = OSEventTbl[f]
      PROVE  AtOther(e) /\ Retyped
  <2>1. OnlyAt(e)
    BY <1>1, <1>2, <1>4 DEF OnlyAt, On
  <2>2. PtrRight(OSEventType'[e], OSEventPtr'[e])
    BY <1>3 DEF PtrRight
  <2>3. Deserved(OSEventType'[e], OSEventTbl'[e], OSEventPtr'[e], OSQ'[e], OSEventCnt'[e])
    BY <1>4 DEF Deserved
  <2>4. Retyped
    BY <1>1, <1>4, ObjParts DEF Retyped, CoreInv, CoreTypes
  <2> QED
    BY <1>1, <1>3, <2>1, <2>2, <2>3, <2>4 DEF AtOther
<1>5. UNCHANGED <<OSEventCnt, holds>>
  BY <1>1
<1>6. CASE OSEventTbl[e] = {} /\ Quiet
  <2>1. AtOther(e) /\ Retyped
    BY <1>4, <1>6 DEF Quiet
  <2> QED
    BY <1>5, <1>6, <2>1, QuietOther
<1>7. CASE OSEventTbl[e] # {} /\ Wake(e, OSEventTbl[e], Null, "ABORT", TRUE)
  <2>1. OSEventTbl' = [OSEventTbl EXCEPT ![e] = @ \ OSEventTbl[e]]
    BY <1>7 DEF Wake, EventTaskRdy
  <2>2. OSEventTbl'[e] = {} /\ \A f \in Event : f # e => OSEventTbl'[f] = OSEventTbl[f]
    BY <2>1, ObjParts, CoreParts
  <2>3. PICK st \in {"OK", "ABORT"}, sched \in BOOLEAN, ps \in SUBSET OSEventTbl[e] :
          st = "ABORT" /\ sched = TRUE /\ ps = OSEventTbl[e]
    OBVIOUS
  <2>4. Wake(e, ps, Null, st, sched)
    BY <1>7, <2>3
  <2> QED
    BY <1>4, <1>5, <2>2, <2>4, WakeOther
<1> QED
  BY <1>6, <1>7 DEF Del

\* A free block has no waiters.
LEMMA NoBlock ==
  ASSUME ObjIInv, NEW e \in Event, OSEventType[e] = "UNUSED"
  PROVE  OSEventTbl[e] = {} /\ OSEventPtr[e] = Null /\ \A t \in Task : <<t, e>> \notin Got
<1>1. /\ Deserved(OSEventType[e], OSEventTbl[e], OSEventPtr[e], OSQ[e], OSEventCnt[e])
      /\ MutexRight(e, OSEventType[e], OSEventCnt[e], OSEventPtr[e], OSEventTbl[e], OSTCBPrio, OSTCBPrioTbl, Got)
  BY ObjParts
<1> QED
  BY <1>1 DEF Deserved, MutexRight, PtrRight

\* A step that wakes nobody and changes the messages at e: there is nobody who could be woken,
\* or still nothing for him.
Fills(e) ==
  /\ OSEventType[e] # "MUTEX" /\ OSEventType'[e] # "MUTEX" /\ PtrRight(OSEventType'[e], OSEventPtr'[e])
  /\ \A f \in Event : f # e => /\ OSEventType'[f] = OSEventType[f] /\ OSEventPtr'[f] = OSEventPtr[f]
                               /\ OSQ'[f] = OSQ[f]
  /\ OSEventTbl[e] # {} => \/ OSEventType'[e] = "Q" /\ OSQ'[e].entries = 0
                           \/ OSEventType'[e] = "MBOX" /\ OSEventPtr'[e] = Null
LEMMA FillRight ==
  ASSUME ObjIInv, RingIInv', Retyped, NEW e \in Event, Fills(e), Quiet, UNCHANGED <<OSEventCnt, holds>>
  PROVE  ObjIInv'
<1>1. OSEventTbl' = OSEventTbl /\ OSEventCnt' = OSEventCnt
  BY DEF Quiet
<1>2. AtOther(e)
  BY <1>1 DEF Fills, AtOther, OnlyAt, Deserved
<1> QED
  BY <1>2, QuietOther

LEMMA FreshType ==
  ASSUME ObjIInv, NEW e \in Event, OSEventType[e] = "UNUSED", NEW type \in Kind,
         Set1(OSEventType', OSEventType, e, type), OSEventTbl' = OSEventTbl
  PROVE  Retyped /\ OSEventType'[e] = type /\ \A f \in Event : f # e => OSEventType'[f] = OSEventType[f]
<1>1. OSEventType \in [Event -> Kind \cup {"UNUSED"}] /\ OSEventTbl[e] = {}
  BY ObjParts, NoBlock DEF CoreInv, CoreTypes
<1> QED
  BY <1>1 DEF Retyped, Set1

LEMMA QPostRight ==
  ASSUME ObjIInv, RingIInv', NEW e \in Event, NEW m \in Msg, NEW ps \in SUBSET OSEventTbl[e],
         NEW front \in BOOLEAN, NEW sched \in BOOLEAN, QPost(e, m, ps, front, sched)
  PROVE  ObjIInv'
<1>1. /\ OSEventType' = OSEventType /\ OSEventCnt' = OSEventCnt /\ OSEventPtr' = OSEventPtr
      /\ holds' = holds /\ OSEventType[e] = "Q"
  BY DEF QPost, Is
<1>2. UNCHANGED <<OSEventCnt, holds>> /\ Retyped /\ PtrRight(OSEventType[e], OSEventPtr[e])
  BY <1>1, SameType, ObjParts DEF MutexRight
<1>3. CASE Waiters(e) # {} /\ Wake(e, ps, m, "OK", sched) /\ UNCHANGED OSQ
  <2>1. OSEventTbl' = [OSEventTbl EXCEPT ![e] = @ \ ps] /\ OSQ' = OSQ /\ OSEventTbl[e] # {}
    BY <1>3 DEF Wake, EventTaskRdy, Waiters
  <2>2. OSQ[e].entries = 0
    BY <1>1, <2>1, ObjParts DEF Deserved
  <2>3. AtOther(e)
    <3>1. OnlyAt(e)
      BY <1>1, <2>1, ObjParts, CoreParts DEF OnlyAt
    <3>2. Deserved(OSEventType'[e], OSEventTbl'[e], OSEventPtr'[e], OSQ'[e], OSEventCnt'[e])
      BY <1>1, <2>1, <2>2 DEF Deserved
    <3> QED
      BY <1>1, <1>2, <3>1, <3>2 DEF AtOther
  <2>4. PICK st \in {"OK", "ABORT"} : st = "OK"
    OBVIOUS
  <2>5. Wake(e, ps, m, st, sched)
    BY <1>3, <2>4
  <2> QED
    BY <1>2, <2>3, <2>5, WakeOther
<1>4. CASE /\ Waiters(e) = {} /\ Quiet
           /\ OSQ' = [OSQ EXCEPT ![e] = IF front THEN EnqueuedFront(@, m) ELSE Enqueued(@, m)]
  <2>1. \A f \in Event : f # e => OSQ'[f] = OSQ[f]
    BY <1>4, ObjParts DEF RingIInv, On
  <2>2. Fills(e)
    BY <1>1, <1>2, <1>4, <2>1 DEF Fills, Waiters
  <2> QED
    BY <1>2, <1>4, <2>2, FillRight
<1> QED
  BY <1>3, <1>4 DEF QPost

LEMMA QueueRight ==
  ASSUME ObjIInv, NEW e \in Event, Queues(e)
  PROVE  ObjIInv'
<1>1. RingIInv' /\ On(OSQ, Event) /\ Ring(OSQ[e])
  BY QueueKeeps, ObjParts DEF Refines, RingIInv
<1>2. ASSUME Is(e, "Q"), OSQ[e].entries > 0, OSQ' = [OSQ EXCEPT ![e] = Dequeued(@)], Quiet,
             UNCHANGED <<OSEventType, OSEventCnt, OSEventPtr, holds>>
      PROVE  ObjIInv'
  <2>1. OSEventType[e] = "Q" /\ OSEventType' = OSEventType /\ OSEventPtr' = OSEventPtr
    BY <1>2 DEF Is
  <2>2. OSEventTbl[e] = {}
    <3>1. OSQ[e].entries # 0
      BY <1>1, <1>2, RingFields
    <3> QED
      BY <2>1, <3>1, ObjParts DEF Deserved
  <2>3. PtrRight(OSEventType[e], OSEventPtr[e])
    BY <2>1, ObjParts DEF MutexRight
  <2>4. Fills(e)
    BY <1>1, <1>2, <2>1, <2>2, <2>3 DEF Fills, On
  <2>5. Retyped /\ UNCHANGED <<OSEventCnt, holds>>
    BY <1>2, <2>1, SameType
  <2> QED
    BY <1>1, <1>2, <2>4, <2>5, FillRight
<1>3. CASE OSQCreate(e)
  <2>1. PICK type \in Kind : type = "Q"
    BY DEF Kind
  <2>2. /\ OSEventType[e] = "UNUSED" /\ Set1(OSEventType', OSEventType, e, type) /\ OSEventTbl' = OSEventTbl
        /\ OSEventPtr' = OSEventPtr /\ OSQ' = [OSQ EXCEPT ![e] = EmptyRing] /\ Quiet
        /\ UNCHANGED <<OSEventCnt, holds>>
    BY <1>3, <2>1 DEF OSQCreate, Set1, Is, Quiet
  <2>3. Retyped /\ OSEventType'[e] = type /\ \A f \in Event : f # e => OSEventType'[f] = OSEventType[f]
    BY <2>2, FreshType
  <2>4. Fills(e)
    BY <1>1, <2>1, <2>2, <2>3, NoBlock DEF Fills, On, PtrRight
  <2> QED
    BY <1>1, <2>2, <2>3, <2>4, FillRight
<1>4. CASE OSQPend(e)
  <2>1. CASE OSQ[e].entries > 0 /\ OSQ' = [OSQ EXCEPT ![e] = Dequeued(@)] /\ Quiet
    <3>1. Is(e, "Q") /\ UNCHANGED <<OSEventType, OSEventCnt, OSEventPtr, holds>>
      BY <1>4 DEF OSQPend
    <3> QED
      BY <1>2, <2>1, <3>1
  <2>2. CASE /\ OSQ[e].entries = 0 /\ Wait(e, "Q", OSRdyTbl)
             /\ OSEventTbl' = [OSEventTbl EXCEPT ![e] = @ \cup {OSTCBPrio[OSTCBCur]}]
             /\ Dispatch(OSRdyTbl', OSTCBPrioTbl, OSPrioCur) /\ UNCHANGED <<OSQ, prioVars>>
    <3>1. PICK k \in {"Q", "MBOX"} : k = "Q"
      OBVIOUS
    <3>2. /\ OSEventType[e] = k /\ OSTCBCur # Idle /\ pc[OSTCBCur] = "run" /\ OwnsNothing(OSTCBCur)
          /\ UNCHANGED <<prioVars, OSEventType>> /\ UNCHANGED objVars
      BY <1>4, <2>2, <3>1 DEF OSQPend, Caller, Is, objVars
    <3>3. Wait(e, k, OSRdyTbl)
      BY <2>2, <3>1
    <3> QED
      BY <1>1, <2>2, <3>1, <3>2, <3>3, WaitOther
  <2> QED
    BY <1>4, <2>1, <2>2 DEF OSQPend
<1>5. CASE OSQAccept(e)
  BY <1>2, <1>5 DEF OSQAccept
<1>6. CASE OSQFlush(e)
  <2>1. PICK r : r = [OSQ[e] EXCEPT !.in = 0, !.out = 0, !.entries = 0]
    OBVIOUS
  <2>2. r.entries = 0
    BY <1>1, <2>1, RingEmptied
  <2>3. OSQ' = [OSQ EXCEPT ![e] = r]
    BY <1>1, <1>6, <2>1 DEF OSQFlush, On
  <2>4. /\ OSEventType[e] = "Q" /\ OSEventType' = OSEventType /\ OSEventPtr' = OSEventPtr /\ Quiet
        /\ UNCHANGED <<OSEventCnt, holds>>
    BY <1>6 DEF OSQFlush, Is
  <2>5. OSQ'[e] = r /\ \A f \in Event : f # e => OSQ'[f] = OSQ[f]
    BY <1>1, <2>3 DEF On
  <2>6. PtrRight(OSEventType[e], OSEventPtr[e])
    BY <2>4, ObjParts DEF MutexRight
  <2>7. Fills(e)
    BY <2>2, <2>4, <2>5, <2>6 DEF Fills
  <2> QED
    BY <1>1, <2>4, <2>7, SameType, FillRight
<1>7. CASE OSQPendAbort(e) \/ OSQDel(e)
  <2>1. PICK k \in {"Q", "MBOX"} : k = "Q"
    OBVIOUS
  <2>2. PendAbort("OSQ", e, k) \/ Del("OSQDel", e, k)
    BY <1>7, <2>1 DEF OSQPendAbort, OSQDel
  <2> QED
    BY <1>1, <2>2, AbortRight, DelRight
<1>8. ASSUME NEW m \in Msg, OSQPost(e, m) \/ OSQPostFront(e, m) \/ OSQPostOpt(e, m)
      PROVE  ObjIInv'
  <2>1. PICK ps \in SUBSET OSEventTbl[e], front \in BOOLEAN, sched \in BOOLEAN : QPost(e, m, ps, front, sched)
    <3>1. First(e) \in SUBSET OSEventTbl[e] /\ OSEventTbl[e] \in SUBSET OSEventTbl[e]
      BY DEF First
    <3> QED
      BY <1>8, <3>1 DEF OSQPost, OSQPostFront, OSQPostOpt
  <2> QED
    BY <1>1, <2>1, QPostRight
<1> QED
  BY <1>3, <1>4, <1>5, <1>6, <1>7, <1>8 DEF Queues

LEMMA MboxPostRight ==
  ASSUME ObjIInv, RingIInv', NEW e \in Event, NEW m \in Msg, NEW ps \in SUBSET OSEventTbl[e],
         NEW sched \in BOOLEAN, MboxPost(e, m, ps, sched)
  PROVE  ObjIInv'
<1>1. /\ OSEventType' = OSEventType /\ OSEventCnt' = OSEventCnt /\ OSQ' = OSQ /\ holds' = holds
      /\ OSEventType[e] = "MBOX"
  BY DEF MboxPost, Is
<1>2. UNCHANGED <<OSEventCnt, holds>> /\ Retyped /\ PtrRight(OSEventType[e], OSEventPtr[e])
  BY <1>1, SameType, ObjParts DEF MutexRight
<1>3. CASE Waiters(e) # {} /\ Wake(e, ps, m, "OK", sched) /\ UNCHANGED OSEventPtr
  <2>1. OSEventTbl' = [OSEventTbl EXCEPT ![e] = @ \ ps] /\ OSEventPtr' = OSEventPtr /\ OSEventTbl[e] # {}
    BY <1>3 DEF Wake, EventTaskRdy, Waiters
  <2>2. OSEventPtr[e] = Null
    BY <1>1, <2>1, ObjParts DEF Deserved
  <2>3. AtOther(e)
    <3>1. OnlyAt(e)
      BY <1>1, <2>1, ObjParts, CoreParts DEF OnlyAt
    <3>2. Deserved(OSEventType'[e], OSEventTbl'[e], OSEventPtr'[e], OSQ'[e], OSEventCnt'[e])
      BY <1>1, <2>1, <2>2 DEF Deserved
    <3> QED
      BY <1>1, <1>2, <2>1, <3>1, <3>2 DEF AtOther
  <2>4. PICK st \in {"OK", "ABORT"} : st = "OK"
    OBVIOUS
  <2>5. Wake(e, ps, m, st, sched)
    BY <1>3, <2>4
  <2> QED
    BY <1>2, <2>3, <2>5, WakeOther
<1>4. CASE Waiters(e) = {} /\ OSEventPtr' = [OSEventPtr EXCEPT ![e] = m] /\ Quiet
  <2>1. OSEventPtr'[e] = m /\ \A f \in Event : f # e => OSEventPtr'[f] = OSEventPtr[f]
    BY <1>4, ObjParts DEF RingIInv, On
  <2>2. Fills(e)
    BY <1>1, <1>4, <2>1 DEF Fills, Waiters, PtrRight
  <2> QED
    BY <1>2, <1>4, <2>2, FillRight
<1> QED
  BY <1>3, <1>4 DEF MboxPost

LEMMA MailboxRight ==
  ASSUME ObjIInv, NEW e \in Event, Mailboxes(e)
  PROVE  ObjIInv'
<1>1. RingIInv' /\ On(OSEventPtr, Event)
  BY MailboxKeeps, ObjParts DEF Refines, RingIInv
<1>2. ASSUME Is(e, "MBOX"), OSEventPtr' = [OSEventPtr EXCEPT ![e] = Null], Quiet,
             UNCHANGED <<OSEventType, OSEventCnt, OSQ, holds>>
      PROVE  ObjIInv'
  <2>1. OSEventType[e] = "MBOX" /\ OSEventType' = OSEventType /\ OSQ' = OSQ
    BY <1>2 DEF Is
  <2>2. OSEventPtr'[e] = Null /\ \A f \in Event : f # e => OSEventPtr'[f] = OSEventPtr[f]
    BY <1>1, <1>2 DEF On
  <2>3. Fills(e)
    BY <2>1, <2>2 DEF Fills, PtrRight
  <2>4. Retyped /\ UNCHANGED <<OSEventCnt, holds>>
    BY <1>2, <2>1, SameType
  <2> QED
    BY <1>1, <1>2, <2>3, <2>4, FillRight
<1>3. CASE OSMboxCreate(e)
  <2>1. PICK type \in Kind : type = "MBOX"
    BY DEF Kind
  <2>2. /\ OSEventType[e] = "UNUSED" /\ Set1(OSEventType', OSEventType, e, type) /\ OSEventTbl' = OSEventTbl
        /\ OSQ' = OSQ /\ Quiet /\ UNCHANGED <<OSEventCnt, holds>>
    BY <1>3, <2>1 DEF OSMboxCreate, Set1, Is, Quiet
  <2>3. PICK p \in Msg \cup {Null} : OSEventPtr' = [OSEventPtr EXCEPT ![e] = p]
    BY <1>3 DEF OSMboxCreate
  <2>4. OSEventPtr'[e] = p /\ \A f \in Event : f # e => OSEventPtr'[f] = OSEventPtr[f]
    BY <1>1, <2>3 DEF On
  <2>5. Retyped /\ OSEventType'[e] = type /\ \A f \in Event : f # e => OSEventType'[f] = OSEventType[f]
    BY <2>2, FreshType
  <2>6. Fills(e)
    BY <2>1, <2>2, <2>4, <2>5, NoBlock DEF Fills, PtrRight
  <2> QED
    BY <1>1, <2>2, <2>5, <2>6, FillRight
<1>4. CASE OSMboxPend(e)
  <2>1. CASE OSEventPtr' = [OSEventPtr EXCEPT ![e] = Null] /\ Quiet
    BY <1>2, <1>4, <2>1 DEF OSMboxPend
  <2>2. CASE /\ OSEventPtr[e] = Null /\ Wait(e, "MBOX", OSRdyTbl)
             /\ OSEventTbl' = [OSEventTbl EXCEPT ![e] = @ \cup {OSTCBPrio[OSTCBCur]}]
             /\ Dispatch(OSRdyTbl', OSTCBPrioTbl, OSPrioCur) /\ UNCHANGED <<OSEventPtr, prioVars>>
    <3>1. PICK k \in {"Q", "MBOX"} : k = "MBOX"
      OBVIOUS
    <3>2. /\ OSEventType[e] = k /\ OSTCBCur # Idle /\ pc[OSTCBCur] = "run" /\ OwnsNothing(OSTCBCur)
          /\ UNCHANGED <<prioVars, OSEventType>> /\ UNCHANGED objVars
      BY <1>4, <2>2, <3>1 DEF OSMboxPend, Caller, Is, objVars
    <3>3. Wait(e, k, OSRdyTbl)
      BY <2>2, <3>1
    <3> QED
      BY <1>1, <2>2, <3>1, <3>2, <3>3, WaitOther
  <2> QED
    BY <1>4, <2>1, <2>2 DEF OSMboxPend
<1>5. CASE OSMboxAccept(e)
  BY <1>2, <1>5 DEF OSMboxAccept
<1>6. CASE OSMboxPendAbort(e) \/ OSMboxDel(e)
  <2>1. PICK k \in {"Q", "MBOX"} : k = "MBOX"
    OBVIOUS
  <2>2. PendAbort("OSMbox", e, k) \/ Del("OSMboxDel", e, k)
    BY <1>6, <2>1 DEF OSMboxPendAbort, OSMboxDel
  <2> QED
    BY <1>1, <2>2, AbortRight, DelRight
<1>7. ASSUME NEW m \in Msg, OSMboxPost(e, m) \/ OSMboxPostOpt(e, m)
      PROVE  ObjIInv'
  <2>1. PICK ps \in SUBSET OSEventTbl[e], sched \in BOOLEAN : MboxPost(e, m, ps, sched)
    <3>1. First(e) \in SUBSET OSEventTbl[e] /\ OSEventTbl[e] \in SUBSET OSEventTbl[e]
      BY DEF First
    <3> QED
      BY <1>7, <3>1 DEF OSMboxPost, OSMboxPostOpt
  <2> QED
    BY <1>1, <2>1, MboxPostRight
<1> QED
  BY <1>3, <1>4, <1>5, <1>6, <1>7 DEF Mailboxes

\* The end of a pend.  A task that was given a mutex has it before and after.
LEMMA ReturnRight ==
  ASSUME ObjIInv, MsgPendRet \/ MutexPendRet
  PROVE  ObjIInv'
<1>1. PICK c \in Tcb : c = OSTCBCur
  BY ObjParts, CoreParts
<1>2. WaitEnds(OSTCBCur) /\ pc[c] # "run" /\ UNCHANGED <<OSEventCnt, OSEventPtr, OSQ>>
  BY <1>1 DEF MsgPendRet, MutexPendRet, objVars
<1>3. /\ CoreInv' /\ pevent[c] \in Event /\ \A e \in Event : OSEventTbl'[e] \subseteq OSEventTbl[e]
      /\ OSTCBEventPtr[c] = Null \/ OSTCBStatPend[c] = "TO"
      /\ \A t \in Tcb : /\ OSTCBEventPtr'[t] = IF t = c THEN Null ELSE OSTCBEventPtr[t]
                        /\ OSTCBStatPend'[t] = IF t = c THEN "OK" ELSE OSTCBStatPend[t]
                        /\ pc'[t] = IF t = c THEN "run" ELSE pc[t]
                        /\ pevent'[t] = IF t = c THEN Null ELSE pevent[t]
  BY <1>1, <1>2, ObjParts, EndsCore
<1>4. UNCHANGED <<OSEventType, OSEventCnt, OSEventPtr, OSQ, prioVars>>
  BY <1>2 DEF WaitEnds
<1>5. RingIInv'
  BY <1>4, ObjParts, NothingHeld DEF Refines
<1>6. \A e \in Event : <<c, e>> \notin holds
  BY <1>2, ObjParts DEF HoldsRight
<1>7. CASE holds' = holds /\ (pc[c] = "MUTEX" => OSTCBStatPend[c] # "OK")
  <2>1. GotSame
    <3>1. \A t \in Task : Unmoved(t)
      BY <1>3, <1>7 DEF Unmoved, NotComing, Tcb
    <3> QED
      BY <1>7, <3>1, GotKept
  <2>2. HoldsRight(holds', pc')
    BY <1>3, <1>6, <1>7, ObjParts DEF HoldsRight, Tcb
  <2> QED
    BY <1>3, <1>4, <1>5, <2>1, <2>2, Undisturbed
<1>8. CASE pc[c] = "MUTEX" /\ OSTCBStatPend[c] = "OK" /\ holds' = holds \cup {<<c, pevent[c]>>}
  <2>1. c \in Task
    BY <1>2, ObjParts, CoreParts DEF BlocksRight, Tcb
  <2>2. OSTCBEventPtr[c] = Null
    BY <1>3, <1>8
  <2>3. ASSUME NEW t \in Task, NEW f \in Event PROVE <<t, f>> \in Got' <=> <<t, f>> \in Got
    <3>1. /\ <<t, f>> \in Got <=>
               <<t, f>> \in holds \/ Coming(pc[t], pevent[t], OSTCBEventPtr[t], OSTCBStatPend[t], f)
          /\ <<t, f>> \in Got' <=>
               <<t, f>> \in holds' \/ Coming(pc'[t], pevent'[t], OSTCBEventPtr'[t], OSTCBStatPend'[t], f)
      BY DEF Got, Coming
    <3>2. CASE t = c
      <4>1. Coming(pc[t], pevent[t], OSTCBEventPtr[t], OSTCBStatPend[t], f) <=> f = pevent[c]
        BY <1>8, <2>2, <3>2 DEF Coming
      <4>2. ~Coming(pc'[t], pevent'[t], OSTCBEventPtr'[t], OSTCBStatPend'[t], f)
        BY <1>3, <3>2 DEF Coming
      <4>3. <<t, f>> \in holds' <=> <<t, f>> \in holds \/ f = pevent[c]
        BY <1>8, <3>2
      <4> QED
        BY <3>1, <4>1, <4>2, <4>3
    <3>3. CASE t # c
      BY <1>3, <1>8, <3>1, <3>3 DEF Coming, Tcb
    <3> QED
      BY <3>2, <3>3
  <2>4. GotSame
    BY <2>3 DEF GotSame
  <2>5. HoldsRight(holds', pc')
    <3>1. PICK e \in Event : e = pevent[c]
      BY <1>3
    <3>2. holds' \subseteq Task \X Event
      BY <1>8, <2>1, <3>1, ObjParts DEF HoldsRight
    <3>3. ASSUME NEW t \in Task, NEW f \in Event, <<t, f>> \in holds'
          PROVE  pc'[t] = "run" /\ (t = c => f = e) /\ (t # c => <<t, f>> \in holds)
      BY <1>3, <1>6, <1>8, <3>1, <3>3, ObjParts DEF HoldsRight, Tcb
    <3>4. ASSUME NEW t \in Task, NEW f \in Event, NEW g \in Event, <<t, f>> \in holds', <<t, g>> \in holds'
          PROVE  f = g
      <4>1. /\ t = c => f = e /\ g = e
            /\ t # c => <<t, f>> \in holds /\ <<t, g>> \in holds
        BY <3>3, <3>4
      <4> QED
        BY <4>1, ObjParts DEF HoldsRight
    <3> QED
      BY <3>2, <3>3, <3>4 DEF HoldsRight
  <2> QED
    BY <1>3, <1>4, <1>5, <2>4, <2>5, Undisturbed
<1> QED
  BY <1>1, <1>7, <1>8 DEF MsgPendRet, MutexPendRet, objVars

LEMMA ClockRight ==
  ASSUME ObjIInv, Tick \/ OSTimeDly
  PROVE  ObjIInv'
<1>1. /\ OSEventType' = OSEventType /\ OSEventTbl' = OSEventTbl /\ OSEventCnt' = OSEventCnt
      /\ OSEventPtr' = OSEventPtr /\ OSQ' = OSQ /\ holds' = holds /\ UNCHANGED prioVars
      /\ pc' = pc /\ pevent' = pevent /\ OSTCBEventPtr' = OSTCBEventPtr
  BY DEF Tick, OSTimeDly, TimeTick, TimeDly, objVars
<1>2. /\ CoreInv'
      /\ \A t \in Tcb : \/ OSTCBStatPend'[t] = OSTCBStatPend[t]
                        \/ OSTCBStatPend'[t] = "TO" /\ OSTCBEventPtr[t] # Null
  <2>1. CASE TimeTick
    BY <2>1, ObjParts, TickCore
  <2>2. CASE TimeDly
    BY <2>2, ObjParts, DlyCore DEF TimeDly
  <2> QED
    BY <2>1, <2>2 DEF Tick, OSTimeDly
<1>3. GotSame
  <2>1. \A t \in Task : Unmoved(t)
    BY <1>1, <1>2 DEF Unmoved, NotComing, Tcb
  <2> QED
    BY <1>1, <2>1, GotKept
<1>4. RingIInv'
  <2>1. UNCHANGED <<OSEventType, OSEventPtr, OSQ>>
    BY <1>1
  <2> QED
    BY <2>1, ObjParts, NothingHeld DEF Refines
<1>5. HoldsRight(holds', pc') /\ UNCHANGED <<OSEventType, OSEventCnt, OSEventPtr, OSQ, prioVars>>
  BY <1>1, ObjParts
<1>6. \A f \in Event : OSEventTbl'[f] \subseteq OSEventTbl[f]
  BY <1>1
<1> QED
  BY <1>2, <1>3, <1>4, <1>5, <1>6, Undisturbed

-----------------------------------------------------------------------------
(* What is known of a mutex and of those who have one.                     *)

LEMMA GotOnce ==
  ASSUME ObjIInv, NEW t \in Task, NEW e \in Event, NEW f \in Event, <<t, e>> \in Got, <<t, f>> \in Got
  PROVE  e = f
<1>1. \A g \in Event : <<t, g>> \in Got <=>
        <<t, g>> \in holds \/ Coming(pc[t], pevent[t], OSTCBEventPtr[t], OSTCBStatPend[t], g)
  BY DEF Got
<1>2. HoldsRight(holds, pc)
  BY ObjParts
<1>3. \A g, h \in Event : <<t, g>> \in holds /\ <<t, h>> \in holds => g = h
  BY <1>2 DEF HoldsRight
<1>4. \A g, h \in Event : ~(<<t, g>> \in holds /\
        Coming(pc[t], pevent[t], OSTCBEventPtr[t], OSTCBStatPend[t], h))
  BY <1>2 DEF HoldsRight, Coming
<1>5. \A g, h \in Event : Coming(pc[t], pevent[t], OSTCBEventPtr[t], OSTCBStatPend[t], g)
        /\ Coming(pc[t], pevent[t], OSTCBEventPtr[t], OSTCBStatPend[t], h) => g = h
  BY DEF Coming
<1> QED
  BY <1>1, <1>3, <1>4, <1>5

LEMMA MutexKnown ==
  ASSUME ObjIInv, NEW e \in Event, OSEventType[e] = "MUTEX"
  PROVE  /\ OwnerRight(e, OSEventCnt[e], OSEventPtr[e], Got)
         /\ CeilingRight(OSEventCnt[e], OSEventPtr[e], OSTCBPrio, OSTCBPrioTbl)
         /\ InheritRight(OSEventCnt[e], OSEventPtr[e], OSEventTbl[e], OSTCBPrio)
         /\ OSEventCnt[e] \in [pcp : Prio \cup {CeilDis}, prio : Prio \cup {Avail}]
         /\ OSEventPtr[e] = Null <=> OSEventCnt[e].prio = Avail
         /\ OSEventPtr[e] # Null => OSEventPtr[e] \in Task
<1>1. MutexRight(e, OSEventType[e], OSEventCnt[e], OSEventPtr[e], OSEventTbl[e], OSTCBPrio, OSTCBPrioTbl, Got)
  BY ObjParts
<1>2. OSEventCnt[e] \in [pcp : Prio \cup {CeilDis}, prio : Prio \cup {Avail}]
  BY ObjParts DEF CntTypes
<1>3. \A t \in Task : BasePrio[t] # Avail /\ t # Null
  <2>1. \A p \in Prio : p # Avail
    BY EventAssumption, ObjectAssumption DEF Prio, Avail, Tcb
  <2> QED
    BY <2>1, PrioNat, EventAssumption DEF Tcb
<1> QED
  BY <1>1, <1>2, <1>3 DEF MutexRight, OwnerRight

\* A task is at its own priority, or at the ceiling of the mutex it has.
LEMMA WhosePrio ==
  ASSUME ObjIInv, NEW t \in Tcb, OSTCBPrio[t] # BasePrio[t]
  PROVE  /\ t \in Task
         /\ \E e \in Event : /\ OSEventType[e] = "MUTEX" /\ OSEventPtr[e] = t /\ <<t, e>> \in Got
                             /\ OSEventCnt[e].pcp = OSTCBPrio[t] /\ OSEventCnt[e].pcp # CeilDis
<1>1. PICK e \in Event : OSEventType[e] = "MUTEX" /\ OSEventPtr[e] = t /\ OSEventCnt[e].pcp = OSTCBPrio[t]
  BY ObjParts DEF OthersOwn
<1>2. t \in Task /\ <<t, e>> \in Got
  BY <1>1, MutexKnown, EventAssumption DEF OwnerRight
<1>3. CeilDis # OSTCBPrio[t]
  BY ObjParts, CoreParts, ObjectAssumption
<1> QED
  BY <1>1, <1>2, <1>3

LEMMA OwnerPrio ==
  ASSUME ObjIInv, NEW e \in Event, OSEventType[e] = "MUTEX", NEW t \in Task, OSEventPtr[e] = t
  PROVE  /\ <<t, e>> \in Got /\ OSEventCnt[e].prio = BasePrio[t]
         /\ \/ OSTCBPrio[t] = BasePrio[t]
            \/ OSTCBPrio[t] = OSEventCnt[e].pcp /\ OSEventCnt[e].pcp # CeilDis
         /\ \A f \in Event : OSEventType[f] = "MUTEX" /\ OSEventPtr[f] = t => f = e
<1>1. t # Null
  BY EventAssumption DEF Tcb
<1>2. \A f \in Event : OSEventType[f] = "MUTEX" /\ OSEventPtr[f] = t => <<t, f>> \in Got
  BY <1>1, MutexKnown DEF OwnerRight
<1>3. OSEventCnt[e].prio = BasePrio[t]
  BY <1>1, MutexKnown DEF OwnerRight
<1>4. \A f \in Event : OSEventType[f] = "MUTEX" /\ OSEventPtr[f] = t => f = e
  BY <1>2, GotOnce
<1>5. \/ OSTCBPrio[t] = BasePrio[t]
      \/ OSTCBPrio[t] = OSEventCnt[e].pcp /\ OSEventCnt[e].pcp # CeilDis
  <2>1. t \in Tcb
    BY DEF Tcb
  <2>2. CASE OSTCBPrio[t] # BasePrio[t]
    BY <1>4, <2>1, <2>2, WhosePrio
  <2> QED
    BY <2>2
<1> QED
  BY <1>2, <1>3, <1>4, <1>5

-----------------------------------------------------------------------------
(* Steps at one mutex.                                                     *)

AtMutex(e) ==
  /\ OSEventType[e] = "MUTEX" /\ OnlyAt(e)
  /\ OSEventType'[e] = "MUTEX" => OSEventCnt'[e].pcp = OSEventCnt[e].pcp
  /\ OSEventType'[e] # "MUTEX" => PtrRight(OSEventType'[e], OSEventPtr'[e])
  /\ \A p \in Prio : OSTCBPrioTbl'[p] # OSTCBPrioTbl[p] =>
       p = OSEventCnt[e].pcp \/ \E t \in Tcb : BasePrio[t] = p
  /\ \A t \in Tcb : t # OSEventPtr[e] => OSTCBPrio'[t] = OSTCBPrio[t]
  /\ \A t \in Tcb : t = OSEventPtr[e] /\ OSTCBPrio'[t] # BasePrio[t] =>
       OSEventType'[e] = "MUTEX" /\ OSEventPtr'[e] = t /\ OSEventCnt'[e].pcp = OSTCBPrio'[t]
  /\ \A t \in Task, f \in Event : f # e => (<<t, f>> \in Got' <=> <<t, f>> \in Got)

LEMMA OneMutex ==
  ASSUME ObjIInv, CoreInv', RingIInv', CntTypes', NEW e \in Event, AtMutex(e),
         OSEventTbl'[e] # {} => OSEventType'[e] = "MUTEX" /\ OSEventCnt'[e].prio # Avail,
         MutexRight(e, OSEventType'[e], OSEventCnt'[e], OSEventPtr'[e], OSEventTbl'[e],
                    OSTCBPrio', OSTCBPrioTbl', Got'),
         HoldsRight(holds', pc')
  PROVE  ObjIInv'
<1>1. DeservedNext
  <2>1. ASSUME NEW f \in Event
        PROVE  Deserved(OSEventType'[f], OSEventTbl'[f], OSEventPtr'[f], OSQ'[f], OSEventCnt'[f])
    <3>1. CASE f = e
      BY <3>1 DEF Deserved
    <3>2. CASE f # e
      BY <3>2, ObjParts DEF AtMutex, OnlyAt, Deserved
    <3> QED
      BY <3>1, <3>2
  <2> QED
    BY <2>1 DEF DeservedNext
<1>2. MutexesNext
  <2>1. ASSUME NEW f \in Event, f # e
        PROVE  Kept(f, OSTCBPrio, OSTCBPrio', OSTCBPrioTbl, OSTCBPrioTbl')
    <3>1. /\ OSEventTbl'[f] \subseteq OSEventTbl[f] /\ OSEventType'[f] = OSEventType[f]
          /\ OSEventCnt'[f] = OSEventCnt[f] /\ OSEventPtr'[f] = OSEventPtr[f]
      BY <2>1 DEF AtMutex, OnlyAt
    <3>2. OSEventType[f] # "MUTEX" => PtrRight(OSEventType[f], OSEventPtr[f])
      BY ObjParts DEF MutexRight
    <3>3. ASSUME OSEventType[f] = "MUTEX", OSEventCnt[f].pcp # CeilDis
          PROVE  OSTCBPrioTbl'[OSEventCnt[f].pcp] = OSTCBPrioTbl[OSEventCnt[f].pcp]
      <4>1. OSEventCnt[f].pcp \in Prio /\ \A t \in Tcb : BasePrio[t] # OSEventCnt[f].pcp
        BY <3>3, MutexKnown DEF CeilingRight
      <4>2. OSEventCnt[f].pcp # OSEventCnt[e].pcp
        BY <2>1, <3>3, ObjParts DEF CeilingsApart, AtMutex
      <4> QED
        BY <4>1, <4>2 DEF AtMutex
    <3>4. ASSUME OSEventType[f] = "MUTEX", OSEventPtr[f] \in Task
          PROVE  OSTCBPrio'[OSEventPtr[f]] = OSTCBPrio[OSEventPtr[f]]
      <4>1. PICK t \in Task : t = OSEventPtr[f]
        BY <3>4
      <4>2. t # OSEventPtr[e]
        BY <2>1, <3>4, <4>1, OwnerPrio DEF AtMutex
      <4> QED
        BY <4>1, <4>2 DEF AtMutex, Tcb
    <3>5. \A t \in Task : <<t, f>> \in Got' <=> <<t, f>> \in Got
      BY <2>1 DEF AtMutex
    <3> QED
      BY <3>1, <3>2, <3>3, <3>4, <3>5 DEF Kept
  <2> QED
    BY <2>1, StillRight, ObjParts DEF MutexesNext
<1>3. CeilingsApart(OSEventType', OSEventCnt')
  <2>1. \A f \in Event : OSEventType'[f] = "MUTEX" =>
          OSEventType[f] = "MUTEX" /\ OSEventCnt'[f].pcp = OSEventCnt[f].pcp
    BY DEF AtMutex, OnlyAt
  <2> QED
    BY <2>1, ObjParts DEF CeilingsApart
<1>4. OthersOwn(OSTCBPrio', OSEventType', OSEventCnt', OSEventPtr')
  <2>1. ASSUME NEW t \in Tcb, OSTCBPrio'[t] # BasePrio[t], t # OSEventPtr[e]
        PROVE  \E g \in Event : OSEventType'[g] = "MUTEX" /\ OSEventPtr'[g] = t /\ OSEventCnt'[g].pcp = OSTCBPrio'[t]
    <3>1. OSTCBPrio'[t] = OSTCBPrio[t]
      BY <2>1 DEF AtMutex
    <3>2. PICK g \in Event : OSEventType[g] = "MUTEX" /\ OSEventPtr[g] = t /\ OSEventCnt[g].pcp = OSTCBPrio[t]
      BY <2>1, <3>1, ObjParts DEF OthersOwn
    <3>3. g # e
      BY <2>1, <3>2
    <3> QED
      BY <3>1, <3>2, <3>3 DEF AtMutex, OnlyAt
  <2> QED
    BY <2>1 DEF OthersOwn, AtMutex
<1> QED
  BY <1>1, <1>2, <1>3, <1>4, ObjPrimed

LEMMA CallerKnown ==
  ASSUME ObjIInv, Caller("OSMutex")
  PROVE  /\ OSTCBCur \in Task /\ OSTCBCur \in Tcb /\ pc[OSTCBCur] = "run"
         /\ OSTCBEventPtr[OSTCBCur] = Null /\ pevent[OSTCBCur] = Null
         /\ OSTCBPrio[OSTCBCur] \in OSRdyTbl
<1>1. OSTCBCur \in Tcb /\ OSTCBCur # Idle /\ pc[OSTCBCur] = "run"
  BY ObjParts, CoreParts DEF Caller
<1> QED
  BY <1>1, ObjParts, CoreParts DEF BlocksRight, BlockRight, Free, Tcb

\* When nobody waits or is woken, those who are coming with a mutex stay the same.
LEMMA NothingWoke ==
  ASSUME Quiet
  PROVE  \A t \in Task, f \in Event :
           <<t, f>> \in Got' <=> <<t, f>> \in holds' \/
                                 Coming(pc[t], pevent[t], OSTCBEventPtr[t], OSTCBStatPend[t], f)
<1>1. pc' = pc /\ pevent' = pevent /\ OSTCBEventPtr' = OSTCBEventPtr /\ OSTCBStatPend' = OSTCBStatPend
  BY DEF Quiet, tcbVars
<1>2. \A t \in Task, f \in Event : <<t, f>> \in Got' <=>
        <<t, f>> \in holds' \/ Coming(pc'[t], pevent'[t], OSTCBEventPtr'[t], OSTCBStatPend'[t], f)
  BY DEF Got, Coming
<1> QED
  BY <1>1, <1>2

LEMMA NewCeiling ==
  ASSUME ObjIInv, NEW pcp \in Ceiling, pcp # CeilDis => OSTCBPrioTbl[pcp] = Null
  PROVE  /\ pcp \in Prio \cup {CeilDis}
         /\ \A t \in Tcb : pcp # OSTCBPrio[t] /\ pcp # BasePrio[t]
         /\ \A f \in Event : OSEventType[f] = "MUTEX" /\ OSEventCnt[f].pcp = pcp => pcp = CeilDis
<1>1. pcp \in Prio \cup {CeilDis} /\ CeilDis \notin Prio /\ Reserved # Null /\ Null \notin Tcb
  BY ObjectAssumption, EventAssumption
<1>2. \A t \in Tcb : pcp # OSTCBPrio[t] /\ pcp # BasePrio[t]
  BY <1>1, ObjParts, CoreParts, PrioNat DEF PrioRight
<1>3. ASSUME NEW f \in Event, OSEventType[f] = "MUTEX", OSEventCnt[f].pcp = pcp, pcp # CeilDis
      PROVE  FALSE
  <2>1. OSTCBPrioTbl[pcp] = Reserved \/ OSTCBPrioTbl[pcp] \in Task
    BY <1>3, MutexKnown DEF CeilingRight
  <2> QED
    BY <1>1, <1>3, <2>1 DEF Tcb
<1> QED
  BY <1>1, <1>2, <1>3

LEMMA CreateRight ==
  ASSUME ObjIInv, NEW e \in Event, OSMutexCreate(e)
  PROVE  ObjIInv'
<1>1. PICK pcp \in Ceiling :
        /\ pcp # CeilDis => OSTCBPrioTbl[pcp] = Null
        /\ OSTCBPrioTbl' = [p \in Prio |-> IF p = pcp THEN Reserved ELSE OSTCBPrioTbl[p]]
        /\ OSEventCnt' = [OSEventCnt EXCEPT ![e] = [pcp |-> pcp, prio |-> Avail]]
  BY DEF OSMutexCreate
<1>2. /\ pcp \in Prio \cup {CeilDis} /\ \A t \in Tcb : pcp # OSTCBPrio[t] /\ pcp # BasePrio[t]
      /\ \A f \in Event : OSEventType[f] = "MUTEX" /\ OSEventCnt[f].pcp = pcp => pcp = CeilDis
  BY <1>1, NewCeiling
<1>3. /\ OSTCBStat' = OSTCBStat /\ OSTCBStatPend' = OSTCBStatPend /\ OSTCBDly' = OSTCBDly
      /\ OSTCBEventPtr' = OSTCBEventPtr /\ OSTCBPrio' = OSTCBPrio
      /\ OSTCBCur' = OSTCBCur /\ OSPrioCur' = OSPrioCur /\ OSRdyTbl' = OSRdyTbl
      /\ OSEventTbl' = OSEventTbl /\ pc' = pc /\ pevent' = pevent /\ OSQ' = OSQ /\ holds' = holds
      /\ OSEventType[e] = "UNUSED"
  BY DEF OSMutexCreate, tcbVars, cpuVars, Is
<1>4. Retyped /\ OSEventType'[e] = "MUTEX" /\ \A f \in Event : f # e => OSEventType'[f] = OSEventType[f]
  <2>1. PICK type \in Kind : type = "MUTEX"
    BY DEF Kind
  <2>2. Set1(OSEventType', OSEventType, e, type)
    BY <2>1 DEF OSMutexCreate, Set1
  <2> QED
    BY <1>3, <2>1, <2>2, FreshType
<1>5. RingIInv'
  BY MutexKeeps, ObjParts DEF Mutexes, Refines
<1>6. OSEventPtr'[e] = Null /\ \A f \in Event : f # e => OSEventPtr'[f] = OSEventPtr[f]
  BY ObjParts DEF OSMutexCreate, RingIInv, On
<1>7. OSEventCnt'[e] = [pcp |-> pcp, prio |-> Avail] /\ \A f \in Event : f # e => OSEventCnt'[f] = OSEventCnt[f]
  BY <1>1, ObjParts DEF CntTypes
<1>8. OSTCBPrioTbl' \in [Prio -> Tcb \cup {Null, Reserved}]
  BY <1>1, ObjParts DEF CoreInv, CoreTypes
<1>9. \A p \in Prio : p # pcp => OSTCBPrioTbl'[p] = OSTCBPrioTbl[p]
  BY <1>1
<1>10. CoreInv'
  <2>1. CoreTypes'
    BY <1>3, <1>4, <1>8, ObjParts DEF CoreInv, CoreTypes, Retyped
  <2>2. PrioRight(OSTCBPrio', OSTCBPrioTbl')
    BY <1>2, <1>3, <1>9, ObjParts, CoreParts, PrioNat DEF PrioRight
  <2>3. /\ ReadyRight(OSTCBPrio', OSRdyTbl', OSTCBDly', OSTCBStat')
        /\ ListsRight(OSTCBPrio', OSEventTbl', OSTCBEventPtr')
        /\ CpuRight(OSTCBPrio', OSRdyTbl', OSTCBCur', OSPrioCur')
        /\ BlocksRight(pc', OSTCBStat', OSTCBStatPend', OSTCBDly', OSTCBEventPtr', pevent')
        /\ TypesMatch(pc', OSTCBEventPtr', OSEventType)
    BY <1>3, ObjParts DEF CoreInv
  <2>4. TypesMatch(pc', OSTCBEventPtr', OSEventType')
    BY <1>4, <2>3, TypeChange DEF Retyped
  <2> QED
    BY <2>1, <2>2, <2>3, <2>4, CorePrimed
<1>11. GotSame
  BY <1>3, GotKept DEF Unmoved
<1>12. OSEventTbl'[e] = {} /\ \A t \in Task : <<t, e>> \notin Got'
  BY <1>3, <1>11, NoBlock DEF GotSame
<1>13. CntTypes'
  <2>1. [pcp |-> pcp, prio |-> Avail] \in [pcp : Prio \cup {CeilDis}, prio : Prio \cup {Avail}]
    BY <1>2
  <2> QED
    BY <1>1, <2>1, ObjParts DEF CntTypes
<1>14. DeservedNext
  <2>1. ASSUME NEW f \in Event
        PROVE  Deserved(OSEventType'[f], OSEventTbl'[f], OSEventPtr'[f], OSQ'[f], OSEventCnt'[f])
    <3>1. CASE f = e
      BY <1>12, <3>1 DEF Deserved
    <3>2. CASE f # e
      BY <1>3, <1>4, <1>6, <1>7, <3>2, ObjParts DEF Deserved
    <3> QED
      BY <3>1, <3>2
  <2> QED
    BY <2>1 DEF DeservedNext
<1>15. MutexesNext
  <2>1. ASSUME NEW f \in Event, f # e
        PROVE  Kept(f, OSTCBPrio, OSTCBPrio', OSTCBPrioTbl, OSTCBPrioTbl')
    <3>1. OSEventType[f] # "MUTEX" => PtrRight(OSEventType[f], OSEventPtr[f])
      BY ObjParts DEF MutexRight
    <3>2. ASSUME OSEventType[f] = "MUTEX", OSEventCnt[f].pcp # CeilDis
          PROVE  OSTCBPrioTbl'[OSEventCnt[f].pcp] = OSTCBPrioTbl[OSEventCnt[f].pcp]
      BY <1>2, <1>9, <3>2, MutexKnown
    <3> QED
      BY <1>3, <1>4, <1>6, <1>7, <1>11, <2>1, <3>1, <3>2 DEF Kept, GotSame
  <2>2. MutexRight(e, OSEventType'[e], OSEventCnt'[e], OSEventPtr'[e], OSEventTbl'[e],
                   OSTCBPrio', OSTCBPrioTbl', Got')
    <3>1. OSEventCnt'[e].pcp = pcp /\ OSEventCnt'[e].prio = Avail
      BY <1>7
    <3>2. OwnerRight(e, OSEventCnt'[e], OSEventPtr'[e], Got')
      BY <1>6, <1>12, <3>1 DEF OwnerRight
    <3>3. CeilingRight(OSEventCnt'[e], OSEventPtr'[e], OSTCBPrio', OSTCBPrioTbl')
      BY <1>1, <1>2, <3>1 DEF CeilingRight
    <3>4. InheritRight(OSEventCnt'[e], OSEventPtr'[e], OSEventTbl'[e], OSTCBPrio')
      BY <1>12 DEF InheritRight
    <3> QED
      BY <1>4, <3>2, <3>3, <3>4 DEF MutexRight
  <2> QED
    BY <2>1, <2>2, StillRight, ObjParts DEF MutexesNext
<1>16. CeilingsApart(OSEventType', OSEventCnt')
  <2>1. OSEventCnt'[e].pcp = pcp
    BY <1>7
  <2> QED
    BY <1>2, <1>4, <1>7, <2>1, ObjParts DEF CeilingsApart
<1>17. OthersOwn(OSTCBPrio', OSEventType', OSEventCnt', OSEventPtr')
  <2>1. ASSUME NEW t \in Tcb, OSTCBPrio'[t] # BasePrio[t]
        PROVE  \E g \in Event : OSEventType'[g] = "MUTEX" /\ OSEventPtr'[g] = t /\ OSEventCnt'[g].pcp = OSTCBPrio'[t]
    <3>1. PICK g \in Event : OSEventType[g] = "MUTEX" /\ OSEventPtr[g] = t /\ OSEventCnt[g].pcp = OSTCBPrio[t]
      BY <1>3, <2>1, ObjParts DEF OthersOwn
    <3>2. g # e
      BY <1>3, <3>1
    <3> QED
      BY <1>3, <1>4, <1>6, <1>7, <3>1, <3>2
  <2> QED
    BY <2>1 DEF OthersOwn
<1>18. HoldsRight(holds', pc')
  BY <1>3, ObjParts
<1> QED
  BY <1>5, <1>10, <1>13, <1>14, <1>15, <1>16, <1>17, <1>18, ObjPrimed

\* The task on the CPU takes a free mutex.
LEMMA AcquireRight ==
  ASSUME ObjIInv, NEW e \in Event, OSEventType[e] = "MUTEX", OSEventCnt[e].prio = Avail, RingIInv',
         Caller("OSMutex"), OwnsNothing(OSTCBCur), Acquire(e), Quiet, UNCHANGED <<OSEventType, OSQ>>
  PROVE  ObjIInv'
<1>1. /\ OSTCBCur \in Task /\ OSTCBCur \in Tcb /\ pc[OSTCBCur] = "run" /\ OSTCBEventPtr[OSTCBCur] = Null
  BY CallerKnown
<1>2. PICK c \in Task : c = OSTCBCur
  BY <1>1
<1>3. /\ OSEventPtr[e] = Null /\ OSEventCnt[e] \in [pcp : Prio \cup {CeilDis}, prio : Prio \cup {Avail}]
      /\ CeilingRight(OSEventCnt[e], OSEventPtr[e], OSTCBPrio, OSTCBPrioTbl)
      /\ OwnerRight(e, OSEventCnt[e], OSEventPtr[e], Got)
  BY MutexKnown
<1>4. /\ pc' = pc /\ pevent' = pevent /\ OSTCBEventPtr' = OSTCBEventPtr /\ OSTCBStatPend' = OSTCBStatPend
      /\ OSTCBPrio' = OSTCBPrio /\ OSTCBPrioTbl' = OSTCBPrioTbl /\ OSEventTbl' = OSEventTbl
      /\ OSEventType' = OSEventType /\ OSQ' = OSQ
  BY DEF Quiet, tcbVars, prioVars
<1>5. CoreInv'
  <2>1. Retyped
    BY <1>4, SameType
  <2> QED
    BY <2>1, ObjParts, QuietCore DEF Quiet
<1>6. \A t \in Task, f \in Event : <<t, f>> \in Got' <=> <<t, f>> \in Got \/ (t = c /\ f = e)
  <2>1. holds' = holds \cup {<<c, e>>}
    BY <1>2 DEF Acquire
  <2>2. \A t \in Task, f \in Event : <<t, f>> \in Got <=>
          <<t, f>> \in holds \/ Coming(pc[t], pevent[t], OSTCBEventPtr[t], OSTCBStatPend[t], f)
    BY DEF Got
  <2> QED
    BY <2>1, <2>2, NothingWoke
<1>7. \A f \in Event : <<c, f>> \notin Got
  BY <1>1, <1>2 DEF Got, OwnsNothing, Coming
<1>8. OSTCBPrio[c] = BasePrio[c] /\ BasePrio[c] \in Prio
  <2>1. c \in Tcb
    BY DEF Tcb
  <2> QED
    BY <1>7, <2>1, WhosePrio, PrioNat
<1>9. /\ OSEventCnt' = [OSEventCnt EXCEPT ![e].prio = BasePrio[c]]
      /\ OSEventPtr' = [OSEventPtr EXCEPT ![e] = c]
  BY <1>2, <1>8 DEF Acquire
<1>10. /\ OSEventPtr'[e] = c /\ \A f \in Event : f # e => OSEventPtr'[f] = OSEventPtr[f]
       /\ OSEventCnt'[e].pcp = OSEventCnt[e].pcp /\ OSEventCnt'[e].prio = BasePrio[c]
       /\ \A f \in Event : f # e => OSEventCnt'[f] = OSEventCnt[f]
  BY <1>3, <1>9, ObjParts DEF CntTypes, RingIInv, On
<1>11. CntTypes'
  BY <1>8, <1>9, ObjParts DEF CntTypes
<1>12. OSEventTbl[e] = {}
  BY ObjParts DEF Deserved
<1>13. AtMutex(e)
  <2>1. OnlyAt(e)
    BY <1>4, <1>10 DEF OnlyAt
  <2>2. Null \notin Tcb
    BY EventAssumption
  <2> QED
    BY <1>3, <1>4, <1>6, <1>10, <2>1, <2>2 DEF AtMutex
<1>14. MutexRight(e, OSEventType'[e], OSEventCnt'[e], OSEventPtr'[e], OSEventTbl'[e],
                  OSTCBPrio', OSTCBPrioTbl', Got')
  <2>1. Null \notin Task
    BY EventAssumption DEF Tcb
  <2>2. OwnerRight(e, OSEventCnt'[e], OSEventPtr'[e], Got')
    BY <1>3, <1>6, <1>10, <2>1 DEF OwnerRight
  <2>3. CeilingRight(OSEventCnt'[e], OSEventPtr'[e], OSTCBPrio', OSTCBPrioTbl')
    BY <1>3, <1>4, <1>10, <2>1 DEF CeilingRight
  <2>4. InheritRight(OSEventCnt'[e], OSEventPtr'[e], OSEventTbl'[e], OSTCBPrio')
    BY <1>4, <1>12 DEF InheritRight
  <2> QED
    BY <1>4, <2>2, <2>3, <2>4 DEF MutexRight
<1>15. HoldsRight(holds', pc')
  <2>1. holds' = holds \cup {<<c, e>>}
    BY <1>2 DEF Acquire
  <2>2. \A f \in Event : <<c, f>> \notin holds
    BY <1>2 DEF OwnsNothing
  <2>3. pc'[c] = "run"
    BY <1>1, <1>2, <1>4
  <2>4. \A t \in Task, f \in Event : <<t, f>> \in holds' <=> <<t, f>> \in holds \/ (t = c /\ f = e)
    BY <2>1
  <2>5. holds' \subseteq Task \X Event
    BY <2>1, ObjParts DEF HoldsRight
  <2> QED
    BY <1>4, <2>2, <2>3, <2>4, <2>5, ObjParts DEF HoldsRight
<1>16. OSEventTbl'[e] # {} => OSEventType'[e] = "MUTEX" /\ OSEventCnt'[e].prio # Avail
  BY <1>4, <1>12
<1> QED
  BY <1>5, <1>11, <1>13, <1>14, <1>15, <1>16, OneMutex

LEMMA AcceptRight ==
  ASSUME ObjIInv, NEW e \in Event, OneAtATime(e)
  PROVE  ObjIInv'
<1>1. RingIInv'
  BY MutexKeeps, ObjParts DEF Mutexes, Refines
<1>2. /\ OSEventType[e] = "MUTEX" /\ OSEventCnt[e].prio = Avail /\ Caller("OSMutex")
      /\ OwnsNothing(OSTCBCur) /\ Acquire(e) /\ Quiet /\ UNCHANGED <<OSEventType, OSQ>>
  BY DEF OneAtATime, OSMutexAccept, Is
<1> QED
  BY <1>1, <1>2, AcquireRight

-----------------------------------------------------------------------------
(* OSMutexPend.                                                            *)

\* A task that has a mutex is on no wait list.
LEMMA HolderFree ==
  ASSUME ObjIInv, NEW t \in Task, NEW e \in Event, <<t, e>> \in Got
  PROVE  OSTCBEventPtr[t] = Null
<1>1. <<t, e>> \in holds \/ OSTCBEventPtr[t] = Null
  BY DEF Got, Coming
<1>2. CASE <<t, e>> \in holds
  <2>1. pc[t] = "run" /\ t \in Tcb
    BY <1>2, ObjParts DEF HoldsRight, Tcb
  <2> QED
    BY <2>1, ObjParts, CoreParts DEF BlocksRight, BlockRight, Free
<1> QED
  BY <1>1, <1>2

Raises(e, o) ==
  /\ OSTCBPrio[o] > OSEventCnt[e].pcp /\ OSEventCnt[e].pcp \in Prio
  /\ OSTCBPrio' = [OSTCBPrio EXCEPT ![o] = OSEventCnt[e].pcp]
  /\ OSTCBPrioTbl' = [OSTCBPrioTbl EXCEPT ![OSEventCnt[e].pcp] = o]
Spares(e, o) ==
  /\ \/ OSEventCnt[e].pcp = CeilDis \/ ~(OSTCBPrio[o] > OSEventCnt[e].pcp)
     \/ ~(BasePrio[o] > OSTCBPrio[OSTCBCur])
  /\ OSTCBPrio' = OSTCBPrio /\ OSTCBPrioTbl' = OSTCBPrioTbl

GoesWaiting(e, c) ==
  /\ pc' = [pc EXCEPT ![c] = "MUTEX"] /\ pevent' = [pevent EXCEPT ![c] = e]
  /\ OSTCBEventPtr' = [OSTCBEventPtr EXCEPT ![c] = e]
  /\ OSTCBStatPend' = [OSTCBStatPend EXCEPT ![c] = "OK"]
  /\ OSEventTbl' = [OSEventTbl EXCEPT ![e] = @ \cup {OSTCBPrio[c]}]

LEMMA MutexWaitRight ==
  ASSUME ObjIInv, CoreInv', RingIInv', NEW e \in Event, OSEventType[e] = "MUTEX", OSEventCnt[e].prio # Avail,
         NEW c \in Task, c = OSTCBCur, pc[c] = "run", OwnsNothing(c), GoesWaiting(e, c),
         NEW o \in Task, o = OSEventPtr[e], Raises(e, o) \/ Spares(e, o),
         UNCHANGED <<OSEventType, OSEventCnt, OSEventPtr, OSQ, holds>>
  PROVE  ObjIInv'
<1>1. /\ OwnerRight(e, OSEventCnt[e], OSEventPtr[e], Got)
      /\ CeilingRight(OSEventCnt[e], OSEventPtr[e], OSTCBPrio, OSTCBPrioTbl)
      /\ InheritRight(OSEventCnt[e], OSEventPtr[e], OSEventTbl[e], OSTCBPrio)
      /\ OSEventCnt[e] \in [pcp : Prio \cup {CeilDis}, prio : Prio \cup {Avail}]
  BY MutexKnown
<1>2. /\ <<o, e>> \in Got /\ OSEventCnt[e].prio = BasePrio[o]
      /\ \/ OSTCBPrio[o] = BasePrio[o]
         \/ OSTCBPrio[o] = OSEventCnt[e].pcp /\ OSEventCnt[e].pcp # CeilDis
  BY OwnerPrio
<1>3. /\ OSEventType' = OSEventType /\ OSEventCnt' = OSEventCnt /\ OSEventPtr' = OSEventPtr
      /\ OSQ' = OSQ /\ holds' = holds
  OBVIOUS
<1>4. /\ OSTCBPrio \in [Tcb -> Prio] /\ OSTCBPrioTbl \in [Prio -> Tcb \cup {Null, Reserved}]
      /\ OSEventTbl \in [Event -> SUBSET Prio] /\ pc \in [Tcb -> Kind \cup {"run"}]
      /\ pevent \in [Tcb -> Event \cup {Null}] /\ OSTCBEventPtr \in [Tcb -> Event \cup {Null}]
      /\ OSTCBStatPend \in [Tcb -> {"OK", "TO", "ABORT"}] /\ Null \notin Event
      /\ c \in Tcb /\ o \in Tcb
  BY ObjParts, EventAssumption DEF CoreInv, CoreTypes, Tcb
<1>5. GotSame
  <2>1. ASSUME NEW t \in Task PROVE Unmoved(t)
    <3>1. t \in Tcb
      BY DEF Tcb
    <3>2. CASE t = c
      BY <1>4, <3>2 DEF GoesWaiting, Unmoved, NotComing
    <3>3. CASE t # c
      BY <1>4, <3>1, <3>3 DEF GoesWaiting, Unmoved
    <3> QED
      BY <3>2, <3>3
  <2> QED
    BY <1>3, <2>1, GotKept
<1>6. OSTCBPrio'[o] = OSTCBPrio[o] \/ OSTCBPrio'[o] = OSEventCnt[e].pcp
  BY <1>4 DEF Raises, Spares
<1>7. AtMutex(e)
  <2>1. OnlyAt(e)
    BY <1>3, <1>4 DEF OnlyAt, GoesWaiting
  <2>2. \A p \in Prio : OSTCBPrioTbl'[p] # OSTCBPrioTbl[p] => p = OSEventCnt[e].pcp
    BY <1>4 DEF Raises, Spares
  <2>3. \A t \in Tcb : t # o => OSTCBPrio'[t] = OSTCBPrio[t]
    BY <1>4 DEF Raises, Spares
  <2> QED
    BY <1>2, <1>3, <1>5, <1>6, <2>1, <2>2, <2>3 DEF AtMutex, GotSame
<1>8. MutexRight(e, OSEventType'[e], OSEventCnt'[e], OSEventPtr'[e], OSEventTbl'[e],
                 OSTCBPrio', OSTCBPrioTbl', Got')
  <2>1. OwnerRight(e, OSEventCnt'[e], OSEventPtr'[e], Got')
    BY <1>1, <1>3, <1>5 DEF OwnerRight, GotSame
  <2>2. CeilingRight(OSEventCnt'[e], OSEventPtr'[e], OSTCBPrio', OSTCBPrioTbl')
    BY <1>1, <1>3, <1>4 DEF CeilingRight, Raises, Spares
  <2>3. InheritRight(OSEventCnt'[e], OSEventPtr'[e], OSEventTbl'[e], OSTCBPrio')
    <3>1. SUFFICES ASSUME OSEventCnt[e].pcp # CeilDis, NEW p \in OSEventTbl'[e], p < BasePrio[o]
                   PROVE  OSTCBPrio'[o] <= OSEventCnt[e].pcp
      BY <1>3 DEF InheritRight
    <3>2. OSEventCnt[e].pcp \in Nat /\ OSTCBPrio[o] \in Nat
      BY <1>1, <1>4, <3>1, PrioNat
    <3>3. CASE Raises(e, o)
      BY <1>4, <3>2, <3>3 DEF Raises
    <3>4. CASE Spares(e, o)
      <4>1. p \in OSEventTbl[e] \/ p = OSTCBPrio[c]
        BY <1>4, <3>1 DEF GoesWaiting
      <4>2. CASE p \in OSEventTbl[e]
        BY <1>1, <3>1, <3>4, <4>2 DEF InheritRight, Spares
      <4>3. CASE p = OSTCBPrio[c]
        <5>1. BasePrio[o] \in Nat /\ OSTCBPrio[c] \in Nat
          BY <1>4, PrioNat
        <5> QED
          BY <3>1, <3>2, <3>4, <4>3, <5>1 DEF Spares
      <4> QED
        BY <4>1, <4>2, <4>3
    <3> QED
      BY <3>3, <3>4
  <2> QED
    BY <1>3, <2>1, <2>2, <2>3 DEF MutexRight
<1>9. HoldsRight(holds', pc')
  <2>1. \A t \in Task, f \in Event : <<t, f>> \in holds => t # c
    BY DEF OwnsNothing
  <2>2. \A t \in Task : t # c => pc'[t] = pc[t]
    BY <1>4 DEF GoesWaiting, Tcb
  <2> QED
    BY <1>3, <2>1, <2>2, ObjParts DEF HoldsRight
<1>10. CntTypes'
  BY <1>3, ObjParts DEF CntTypes
<1>11. OSEventTbl'[e] # {} => OSEventType'[e] = "MUTEX" /\ OSEventCnt'[e].prio # Avail
  BY <1>3
<1> QED
  BY <1>7, <1>8, <1>9, <1>10, <1>11, OneMutex

\* The ceiling of a mutex whose owner is less urgent than that is nobody's priority.
LEMMA CeilingFree ==
  ASSUME ObjIInv, NEW e \in Event, OSEventType[e] = "MUTEX", OSEventCnt[e].pcp # CeilDis,
         NEW o \in Task, o = OSEventPtr[e], OSTCBPrio[o] # OSEventCnt[e].pcp
  PROVE  \A t \in Tcb : OSTCBPrio[t] # OSEventCnt[e].pcp /\ BasePrio[t] # OSEventCnt[e].pcp
<1>1. OSTCBPrioTbl[OSEventCnt[e].pcp] = Reserved /\ \A t \in Tcb : BasePrio[t] # OSEventCnt[e].pcp
  BY MutexKnown DEF CeilingRight
<1>2. Reserved \notin Tcb
  BY EventAssumption
<1> QED
  BY <1>1, <1>2, ObjParts, CoreParts DEF PrioRight

LEMMA RaiseCore ==
  ASSUME ObjIInv, NEW e \in Event, OSEventType[e] = "MUTEX", OSEventCnt[e].pcp # CeilDis,
         NEW c \in Task, c = OSTCBCur, pc[c] = "run", NEW o \in Task, o = OSEventPtr[e], o # c,
         OSTCBPrio[o] > OSEventCnt[e].pcp, RaiseOwner(e),
         Dispatch(OSRdyTbl', OSTCBPrioTbl', OSPrioCur), UNCHANGED OSEventType
  PROVE  CoreInv' /\ Raises(e, o) /\ GoesWaiting(e, c)
<1>1. /\ OSTCBPrio \in [Tcb -> Prio] /\ OSRdyTbl \in SUBSET Prio /\ OSTCBCur \in Tcb
      /\ OSPrioCur \in Prio /\ PrioRight(OSTCBPrio, OSTCBPrioTbl)
      /\ ReadyRight(OSTCBPrio, OSRdyTbl, OSTCBDly, OSTCBStat)
      /\ ListsRight(OSTCBPrio, OSEventTbl, OSTCBEventPtr) /\ OSTCBPrio[OSTCBCur] = OSPrioCur
      /\ Null \notin Event
  BY ObjParts, CoreParts
<1>2. PICK pcp \in Prio : pcp = OSEventCnt[e].pcp
  BY MutexKnown
<1>3. /\ o \in Tcb /\ c \in Tcb /\ o # Idle /\ c # Idle /\ OSTCBPrio[o] # pcp
  <2>1. pcp \in Nat /\ OSTCBPrio[o] > pcp
    BY <1>2, PrioNat
  <2> QED
    BY <2>1, EventAssumption DEF Tcb
<1>4. \A t \in Tcb : OSTCBPrio[t] # pcp /\ BasePrio[t] # pcp
  BY <1>2, <1>3, CeilingFree
<1>5. OSTCBEventPtr[o] = Null
  BY OwnerPrio, HolderFree
<1>6. PICK q \in [Tcb -> Prio] : q = [OSTCBPrio EXCEPT ![o] = pcp]
  BY <1>1
<1>7. PICK rdy : rdy = Moved(OSTCBPrio, o, OSRdyTbl, pcp)
  OBVIOUS
<1>8. /\ OSTCBPrio' = q /\ OSTCBPrioTbl' = [OSTCBPrioTbl EXCEPT ![pcp] = o]
      /\ OSEventTbl' = [OSEventTbl EXCEPT ![e] = @ \cup {OSTCBPrio[OSTCBCur]}]
      /\ Wait(e, "MUTEX", rdy)
  <2>1. /\ OSTCBPrio' = [OSTCBPrio EXCEPT ![OSEventPtr[e]] = OSEventCnt[e].pcp]
        /\ OSTCBPrioTbl' = [OSTCBPrioTbl EXCEPT ![OSEventCnt[e].pcp] = OSEventPtr[e]]
    BY DEF RaiseOwner
  <2>2. OSTCBEventPtr[OSEventPtr[e]] = Null
    BY <1>5
  <2>3. OSEventTbl' = [OSEventTbl EXCEPT ![e] = @ \cup {OSTCBPrio[OSTCBCur]}]
    BY <2>2 DEF RaiseOwner
  <2>4. rdy = IF OSTCBPrio[OSEventPtr[e]] \in OSRdyTbl
              THEN (OSRdyTbl \ {OSTCBPrio[OSEventPtr[e]]}) \cup {OSEventCnt[e].pcp} ELSE OSRdyTbl
    BY <1>2, <1>7 DEF Moved
  <2>5. Wait(e, "MUTEX", IF OSTCBPrio[OSEventPtr[e]] \in OSRdyTbl
              THEN (OSRdyTbl \ {OSTCBPrio[OSEventPtr[e]]}) \cup {OSEventCnt[e].pcp} ELSE OSRdyTbl)
    BY DEF RaiseOwner
  <2>6. Wait(e, "MUTEX", rdy)
    BY <2>4, <2>5
  <2> QED
    BY <1>2, <1>6, <2>1, <2>3, <2>6
<1>9. ReadyRight(q, rdy, OSTCBDly, OSTCBStat) /\ ListsRight(q, OSEventTbl, OSTCBEventPtr)
  <2>1. Nobodys(OSTCBPrio, o, pcp)
    BY <1>4 DEF Nobodys
  <2>2. OSTCBEventPtr[o] \notin Event
    BY <1>1, <1>5
  <2>3. q = With(OSTCBPrio, o, pcp)
    BY <1>6 DEF With
  <2> QED
    BY <1>1, <1>3, <1>7, <2>1, <2>2, <2>3, PrioChange
<1>10. q[o] = pcp /\ \A t \in Tcb : t # o => q[t] = OSTCBPrio[t]
  BY <1>1, <1>3, <1>6
<1>11. PrioRight(q, OSTCBPrioTbl')
  <2>1. OSTCBPrioTbl \in [Prio -> Tcb \cup {Null, Reserved}]
    BY ObjParts DEF CoreInv, CoreTypes
  <2>2. OSTCBPrioTbl'[pcp] = o /\ \A p \in Prio : p # pcp => OSTCBPrioTbl'[p] = OSTCBPrioTbl[p]
    BY <1>8, <2>1
  <2>3. ASSUME NEW t \in Tcb PROVE OSTCBPrioTbl'[q[t]] = t /\ OSTCBPrioTbl'[BasePrio[t]] = t
    <3>1. OSTCBPrio[t] \in Prio /\ BasePrio[t] \in Prio
      BY <1>1, PrioNat
    <3>2. OSTCBPrioTbl[OSTCBPrio[t]] = t /\ OSTCBPrioTbl[BasePrio[t]] = t
      BY <1>1 DEF PrioRight
    <3>3. OSTCBPrioTbl'[OSTCBPrio[t]] = t /\ OSTCBPrioTbl'[BasePrio[t]] = t
      BY <1>4, <2>2, <3>1, <3>2
    <3>4. (q[t] = pcp /\ t = o) \/ q[t] = OSTCBPrio[t]
      BY <1>10
    <3> QED
      BY <2>2, <3>3, <3>4
  <2>4. q[Idle] = BasePrio[Idle]
    BY <1>1, <1>3, <1>10, PrioNat DEF PrioRight
  <2> QED
    BY <2>3, <2>4 DEF PrioRight
<1>12. \A t, u \in Tcb : q[t] = q[u] => t = u
  BY <1>11, OneEach
<1>13. PICK k \in Kind : k = "MUTEX"
  BY DEF Kind
<1>14. /\ TcbTypes(OSTCBStat', OSTCBStatPend', OSTCBDly', OSTCBEventPtr')
       /\ OSEventTbl' \in [Event -> SUBSET Prio] /\ OSRdyTbl' \in SUBSET Prio
       /\ pc' = [pc EXCEPT ![OSTCBCur] = k] /\ pevent' = [pevent EXCEPT ![OSTCBCur] = e]
       /\ BlocksRight(pc', OSTCBStat', OSTCBStatPend', OSTCBDly', OSTCBEventPtr', pevent')
       /\ TypesMatch(pc', OSTCBEventPtr', OSEventType)
       /\ ListsRight(q, OSEventTbl', OSTCBEventPtr')
       /\ ReadyRight(q, OSRdyTbl', OSTCBDly', OSTCBStat')
  <2>1. rdy \in SUBSET Prio
    BY <1>1, <1>7 DEF Moved
  <2>2. q[OSTCBCur] = OSTCBPrio[OSTCBCur] /\ OSEventType[e] = k /\ Wait(e, k, rdy) /\ OSTCBCur # Idle
    BY <1>3, <1>8, <1>10, <1>13
  <2>3. CoreInv /\ pc[OSTCBCur] = "run"
    BY ObjParts
  <2> QED
    BY <1>8, <1>9, <1>12, <2>1, <2>2, <2>3, WaitCore
<1>15. PICK after \in SUBSET Prio : after = OSRdyTbl'
  BY <1>14
<1>16. OSTCBCur' \in Tcb /\ OSPrioCur' \in Prio /\ CpuRight(q, after, OSTCBCur', OSPrioCur')
  <2>1. \A p \in after : \E t \in Tcb : q[t] = p
    BY <1>14, <1>15 DEF ReadyRight
  <2>2. after # {}
    <3>1. q[Idle] # q[OSTCBCur] /\ q[Idle] = OSTCBPrio[Idle] /\ BasePrio[Idle] = OSTCBPrio[Idle]
      BY <1>1, <1>3, <1>10, <1>12, PrioNat, ObjParts, IdleReady
    <3>2. OSRdyTbl' = rdy \ {OSTCBPrio[OSTCBCur]}
      BY <1>8 DEF Wait
    <3>3. OSTCBPrio[Idle] \in rdy
      <4>1. OSTCBPrio[Idle] # OSTCBPrio[o] /\ OSTCBPrio[Idle] \in OSRdyTbl
        BY <1>1, <1>3, PrioNat, OneEach, ObjParts, IdleReady
      <4> QED
        BY <1>7, <4>1 DEF Moved
    <3>4. OSTCBPrio[OSTCBCur] # OSTCBPrio[Idle]
      BY <1>3, <1>10, <3>1
    <3> QED
      BY <1>15, <3>2, <3>3, <3>4
  <2>3. Dispatch(after, OSTCBPrioTbl', OSPrioCur)
    BY <1>15
  <2>4. q[OSTCBCur] = OSPrioCur
    BY <1>1, <1>3, <1>10
  <2> QED
    BY <1>1, <1>11, <2>1, <2>2, <2>3, <2>4, Dispatched
<1>17. CoreTypes'
  <2>1. pc' \in [Tcb -> Kind \cup {"run"}] /\ pevent' \in [Tcb -> Event \cup {Null}]
    BY <1>14, ObjParts DEF CoreInv, CoreTypes
  <2>2. OSTCBPrioTbl' \in [Prio -> Tcb \cup {Null, Reserved}]
    BY <1>3, <1>8, ObjParts DEF CoreInv, CoreTypes
  <2> QED
    BY <1>8, <1>14, <1>15, <1>16, <2>1, <2>2, ObjParts DEF CoreInv, CoreTypes, TcbTypes
<1>18. CoreInv'
  <2>1. OSEventType' = OSEventType /\ OSRdyTbl' = after /\ OSTCBPrio' = q
    BY <1>8, <1>15
  <2>2. /\ PrioRight(OSTCBPrio', OSTCBPrioTbl') /\ ListsRight(OSTCBPrio', OSEventTbl', OSTCBEventPtr')
        /\ ReadyRight(OSTCBPrio', OSRdyTbl', OSTCBDly', OSTCBStat')
        /\ CpuRight(OSTCBPrio', OSRdyTbl', OSTCBCur', OSPrioCur')
        /\ TypesMatch(pc', OSTCBEventPtr', OSEventType')
    BY <1>11, <1>14, <1>16, <2>1
  <2> QED
    BY <1>14, <1>17, <2>2, CorePrimed
<1>19. Raises(e, o)
  BY <1>2, <1>6, <1>8 DEF Raises
<1>20. GoesWaiting(e, c)
  BY <1>8 DEF GoesWaiting, Wait
<1> QED
  BY <1>18, <1>19, <1>20

LEMMA PendRight ==
  ASSUME ObjIInv, NEW e \in Event, OSMutexPend(e)
  PROVE  ObjIInv'
<1>1. RingIInv'
  BY MutexKeeps, ObjParts DEF Mutexes, Refines
<1>2. /\ OSEventType[e] = "MUTEX" /\ Caller("OSMutex") /\ OwnsNothing(OSTCBCur) /\ UNCHANGED <<OSEventType, OSQ>>
  BY DEF OSMutexPend, Is
<1>3. CASE OSEventCnt[e].prio = Avail /\ Acquire(e) /\ Quiet
  BY <1>1, <1>2, <1>3, AcquireRight
<1>4. CASE /\ OSEventCnt[e].prio # Avail
           /\ \/ MustRaise(e) /\ RaiseOwner(e)
              \/ /\ ~MustRaise(e)
                 /\ Wait(e, "MUTEX", OSRdyTbl)
                 /\ OSEventTbl' = [OSEventTbl EXCEPT ![e] = @ \cup {OSTCBPrio[OSTCBCur]}]
                 /\ UNCHANGED prioVars
           /\ Dispatch(OSRdyTbl', OSTCBPrioTbl', OSPrioCur)
           /\ UNCHANGED <<OSEventCnt, OSEventPtr, holds>>
  <2>1. /\ OSTCBCur \in Task /\ pc[OSTCBCur] = "run" /\ OSTCBCur # Idle
    BY <1>2, CallerKnown, EventAssumption
  <2>2. PICK c \in Task : c = OSTCBCur
    BY <2>1
  <2>3. PICK o \in Task : o = OSEventPtr[e]
    BY <1>2, <1>4, MutexKnown
  <2>4. <<o, e>> \in Got /\ OSEventCnt[e].prio = BasePrio[o]
    BY <1>2, <2>3, OwnerPrio
  <2>5. o # c
    BY <1>2, <2>1, <2>2, <2>4 DEF Got, OwnsNothing, Coming
  <2>6. CoreInv' /\ GoesWaiting(e, c) /\ (Raises(e, o) \/ Spares(e, o))
    <3>1. CASE MustRaise(e) /\ RaiseOwner(e)
      <4>1. OSEventCnt[e].pcp # CeilDis /\ OSTCBPrio[o] > OSEventCnt[e].pcp
        BY <2>3, <3>1 DEF MustRaise
      <4> QED
        BY <1>2, <1>4, <2>1, <2>2, <2>3, <2>5, <3>1, <4>1, RaiseCore
    <3>2. CASE /\ ~MustRaise(e) /\ Wait(e, "MUTEX", OSRdyTbl) /\ UNCHANGED prioVars
               /\ OSEventTbl' = [OSEventTbl EXCEPT ![e] = @ \cup {OSTCBPrio[OSTCBCur]}]
      <4>1. PICK k \in Kind : k = "MUTEX"
        BY DEF Kind
      <4>2. Wait(e, k, OSRdyTbl) /\ OSEventType[e] = k
        BY <1>2, <3>2, <4>1
      <4>3. OSTCBPrio' = OSTCBPrio /\ OSTCBPrioTbl' = OSTCBPrioTbl
        BY <3>2 DEF prioVars
      <4>4. Dispatch(OSRdyTbl', OSTCBPrioTbl, OSPrioCur) /\ UNCHANGED <<prioVars, OSEventType>>
        BY <1>2, <1>4, <3>2, <4>3
      <4>5. CoreInv'
        BY <2>1, <3>2, <4>2, <4>4, ObjParts, GoWaitCore
      <4>6. GoesWaiting(e, c)
        BY <2>2, <3>2 DEF GoesWaiting, Wait
      <4>7. Spares(e, o)
        BY <2>3, <2>4, <3>2, <4>3 DEF Spares, MustRaise
      <4> QED
        BY <4>5, <4>6, <4>7
    <3> QED
      BY <1>4, <3>1, <3>2
  <2>7. UNCHANGED <<OSEventType, OSEventCnt, OSEventPtr, OSQ, holds>>
    BY <1>2, <1>4
  <2>8. pc[c] = "run" /\ OwnsNothing(c) /\ OSEventCnt[e].prio # Avail
    BY <1>2, <1>4, <2>1, <2>2
  <2> QED
    BY <1>1, <1>2, <2>2, <2>3, <2>6, <2>7, <2>8, MutexWaitRight
<1> QED
  BY <1>3, <1>4 DEF OSMutexPend

-----------------------------------------------------------------------------
(* OSMutexPost and OSMutexDel: the task on the CPU goes back to its own    *)
(* priority, and waiters are woken.                                        *)

\* The priority of the task on the CPU becomes p.
Woke(ps) ==
  /\ TcbTypes(OSTCBStat', OSTCBStatPend', OSTCBDly', OSTCBEventPtr')
  /\ OSEventTbl' \in [Event -> SUBSET Prio]
  /\ BlocksRight(pc', OSTCBStat', OSTCBStatPend', OSTCBDly', OSTCBEventPtr', pevent')
  /\ TypesMatch(pc', OSTCBEventPtr', OSEventType)
  /\ ListsRight(OSTCBPrio, OSEventTbl', OSTCBEventPtr')
  /\ ReadyRight(OSTCBPrio, OSRdyTbl \cup ps, OSTCBDly', OSTCBStat') /\ ps \in SUBSET Prio
Switched(p) == Dispatch(OSRdyTbl', OSTCBPrioTbl', p) \/ (OSPrioCur' = p /\ OSTCBCur' = OSTCBCur)

LEMMA StepDownCore ==
  ASSUME CoreInv, UNCHANGED <<pc, pevent>>, NEW ps, Woke(ps), Retyped, NEW c \in Tcb, c = OSTCBCur,
         OSTCBEventPtr'[c] = Null, NEW p \in Prio, Nobodys(OSTCBPrio, c, p), OSTCBPrio' = With(OSTCBPrio, c, p),
         PrioRight(OSTCBPrio', OSTCBPrioTbl'), OSTCBPrioTbl' \in [Prio -> Tcb \cup {Null, Reserved}],
         OSRdyTbl' = ((OSRdyTbl \cup ps) \ {OSTCBPrio[c]}) \cup {p}, Switched(p)
  PROVE  CoreInv'
<1>1. /\ OSTCBPrio \in [Tcb -> Prio] /\ OSRdyTbl \in SUBSET Prio /\ PrioRight(OSTCBPrio, OSTCBPrioTbl)
      /\ OSTCBPrio[c] \in OSRdyTbl /\ Null \notin Event
  BY CoreParts
<1>2. PICK q : q = With(OSTCBPrio, c, p)
  OBVIOUS
<1>3. OSTCBPrio' = q /\ q \in [Tcb -> Prio] /\ q[c] = p
  BY <1>1, <1>2 DEF With
<1>4. PICK before, after, dly, stat, etbl, eptr :
        /\ before = OSRdyTbl \cup ps /\ after = Moved(OSTCBPrio, c, before, p) /\ dly = OSTCBDly'
        /\ stat = OSTCBStat' /\ etbl = OSEventTbl' /\ eptr = OSTCBEventPtr'
  OBVIOUS
<1>5. OSRdyTbl' = after /\ after \in SUBSET Prio /\ p \in after
  BY <1>1, <1>4 DEF Moved, Woke
<1>6. ReadyRight(q, after, dly, stat) /\ ListsRight(q, etbl, eptr)
  <2>1. ReadyRight(OSTCBPrio, before, dly, stat) /\ ListsRight(OSTCBPrio, etbl, eptr)
    BY <1>4 DEF Woke
  <2>2. eptr[c] \notin Event
    BY <1>1, <1>4
  <2> QED
    BY <1>1, <1>2, <1>4, <2>1, <2>2, PrioChange
<1>7. OSTCBCur' \in Tcb /\ OSPrioCur' \in Prio /\ CpuRight(q, after, OSTCBCur', OSPrioCur')
  <2>1. CASE OSPrioCur' = p /\ OSTCBCur' = OSTCBCur
    BY <1>3, <1>5, <2>1 DEF CpuRight
  <2>2. CASE Dispatch(OSRdyTbl', OSTCBPrioTbl', p)
    <3>1. \A r \in after : \E t \in Tcb : q[t] = r
      BY <1>6 DEF ReadyRight
    <3>2. PICK tbl : tbl = OSTCBPrioTbl'
      OBVIOUS
    <3>3. Dispatch(after, tbl, p) /\ PrioRight(q, tbl) /\ q[OSTCBCur] = p /\ OSTCBCur \in Tcb /\ after # {}
      BY <1>3, <1>5, <2>2, <3>2
    <3> QED
      BY <1>5, <3>1, <3>3, Dispatched
  <2> QED
    BY <2>1, <2>2 DEF Switched
<1>8. CoreTypes'
  <2>1. pc' \in [Tcb -> Kind \cup {"run"}] /\ pevent' \in [Tcb -> Event \cup {Null}]
    BY DEF CoreInv, CoreTypes
  <2> QED
    BY <1>3, <1>5, <1>7, <2>1 DEF CoreTypes, Woke, TcbTypes, Retyped
<1>9. TypesMatch(pc', OSTCBEventPtr', OSEventType')
  <2>1. TypesMatch(pc', OSTCBEventPtr', OSEventType) /\ ListsRight(OSTCBPrio, OSEventTbl', OSTCBEventPtr')
    BY DEF Woke
  <2> QED
    BY <2>1, TypeChange DEF Retyped
<1>10. /\ ListsRight(OSTCBPrio', OSEventTbl', OSTCBEventPtr')
       /\ ReadyRight(OSTCBPrio', OSRdyTbl', OSTCBDly', OSTCBStat')
       /\ CpuRight(OSTCBPrio', OSRdyTbl', OSTCBCur', OSPrioCur')
       /\ BlocksRight(pc', OSTCBStat', OSTCBStatPend', OSTCBDly', OSTCBEventPtr', pevent')
  BY <1>3, <1>4, <1>5, <1>6, <1>7 DEF Woke
<1> QED
  BY <1>8, <1>9, <1>10, CorePrimed

\* The table after task c has gone from mutex e, with p its priority then and r what is left
\* of the ceiling.
TableAfter(e, c, p, r) ==
  [x \in Prio |-> IF x = OSEventCnt[e].pcp THEN r ELSE IF x = p THEN c ELSE OSTCBPrioTbl[x]]
OwnAgain(e, c, p) ==
  (OSEventPtr[e] = c /\ p = BasePrio[c]) \/ (OSEventPtr[e] = Null /\ p = OSTCBPrio[c])

LEMMA TableRight ==
  ASSUME ObjIInv, NEW e \in Event, OSEventType[e] = "MUTEX", NEW c \in Task, NEW p, OwnAgain(e, c, p),
         NEW r \in {Null, Reserved}, NEW tbl, tbl = TableAfter(e, c, p, r), NEW q, q = With(OSTCBPrio, c, p)
  PROVE  /\ p \in Prio /\ Nobodys(OSTCBPrio, c, p)
         /\ PrioRight(q, tbl) /\ tbl \in [Prio -> Tcb \cup {Null, Reserved}]
         /\ OSEventCnt[e].pcp # CeilDis => tbl[OSEventCnt[e].pcp] = r
         /\ \A x \in Prio : tbl[x] # OSTCBPrioTbl[x] =>
              x = OSEventCnt[e].pcp \/ \E t \in Tcb : BasePrio[t] = x
         /\ \A t \in Tcb : t # OSEventPtr[e] => q[t] = OSTCBPrio[t]
         /\ \A t \in Tcb : t = OSEventPtr[e] => q[t] = BasePrio[t]
<1>1. /\ OSTCBPrio \in [Tcb -> Prio] /\ OSTCBPrioTbl \in [Prio -> Tcb \cup {Null, Reserved}]
      /\ PrioRight(OSTCBPrio, OSTCBPrioTbl) /\ c \in Tcb /\ c # Idle /\ c # Null
      /\ Reserved \notin Tcb /\ Null \notin Tcb /\ CeilDis \notin Prio
  BY ObjParts, CoreParts, EventAssumption, ObjectAssumption DEF CoreInv, CoreTypes, Tcb
<1>2. OSEventCnt[e].pcp \in Prio \cup {CeilDis} /\ CeilingRight(OSEventCnt[e], OSEventPtr[e], OSTCBPrio, OSTCBPrioTbl)
  BY MutexKnown
<1>3. p \in Prio /\ (p = OSTCBPrio[c] \/ p = BasePrio[c])
  BY <1>1, PrioNat DEF OwnAgain
<1>4. \A t \in Tcb : OSTCBPrio[t] = p \/ BasePrio[t] = p => t = c
  <2>1. \A t, u \in Tcb : BasePrio[t] = BasePrio[u] => t = u
    BY EventAssumption
  <2> QED
    BY <1>1, <1>3, <2>1, OneEach
<1>5. Nobodys(OSTCBPrio, c, p)
  BY <1>4 DEF Nobodys
<1>6. \A t \in Tcb : BasePrio[t] # OSEventCnt[e].pcp /\ (OSTCBPrio[t] = OSEventCnt[e].pcp => t = c /\ OSEventPtr[e] = c)
  <2>1. CASE OSEventCnt[e].pcp = CeilDis
    BY <1>1, <2>1, PrioNat
  <2>2. CASE OSEventCnt[e].pcp # CeilDis
    BY <1>1, <1>2, <2>2 DEF CeilingRight, PrioRight, OwnAgain
  <2> QED
    BY <2>1, <2>2
<1>7. p # OSEventCnt[e].pcp
  BY <1>1, <1>6 DEF OwnAgain
<1>8. tbl \in [Prio -> Tcb \cup {Null, Reserved}] /\ tbl[p] = c
      /\ \A x \in Prio : x # p /\ x # OSEventCnt[e].pcp => tbl[x] = OSTCBPrioTbl[x]
  BY <1>1, <1>3, <1>7 DEF TableAfter
<1>9. OSEventCnt[e].pcp # CeilDis => tbl[OSEventCnt[e].pcp] = r
  BY <1>2 DEF TableAfter
<1>10. q[c] = p /\ \A t \in Tcb : t # c => q[t] = OSTCBPrio[t]
  BY <1>1 DEF With
<1>11. PrioRight(q, tbl)
  <2>1. ASSUME NEW t \in Tcb PROVE tbl[q[t]] = t /\ tbl[BasePrio[t]] = t
    <3>1. OSTCBPrio[t] \in Prio /\ BasePrio[t] \in Prio
      BY <1>1, PrioNat
    <3>2. OSTCBPrioTbl[OSTCBPrio[t]] = t /\ OSTCBPrioTbl[BasePrio[t]] = t
      BY <1>1 DEF PrioRight
    <3>3. tbl[BasePrio[t]] = t
      BY <1>4, <1>6, <1>8, <3>1, <3>2
    <3>4. CASE t = c
      BY <1>8, <1>10, <3>3, <3>4
    <3>5. CASE t # c
      BY <1>4, <1>6, <1>8, <1>10, <3>1, <3>2, <3>3, <3>5
    <3> QED
      BY <3>4, <3>5
  <2>2. q[Idle] = BasePrio[Idle]
    BY <1>1, <1>10, PrioNat DEF PrioRight
  <2> QED
    BY <2>1, <2>2 DEF PrioRight
<1>12. \A x \in Prio : tbl[x] # OSTCBPrioTbl[x] => x = OSEventCnt[e].pcp \/ \E t \in Tcb : BasePrio[t] = x
  <2>1. OSTCBPrioTbl[OSTCBPrio[c]] = c
    BY <1>1 DEF PrioRight
  <2> QED
    BY <1>1, <1>3, <1>8, <2>1
<1>13. /\ \A t \in Tcb : t # OSEventPtr[e] => q[t] = OSTCBPrio[t]
       /\ \A t \in Tcb : t = OSEventPtr[e] => q[t] = BasePrio[t]
  BY <1>1, <1>10 DEF OwnAgain
<1> QED
  BY <1>3, <1>5, <1>8, <1>9, <1>11, <1>12, <1>13

\* The task c on the CPU goes from e, and the waiters at ps are woken, if there are any.
StepsDown(e, c, p, r, ps, st) ==
  /\ OwnAgain(e, c, p) /\ OSTCBPrio' = With(OSTCBPrio, c, p) /\ OSTCBPrioTbl' = TableAfter(e, c, p, r)
  /\ \/ EventTaskRdy(e, ps, Null, st)
     \/ UNCHANGED tcbVars /\ OSEventTbl' = OSEventTbl /\ ps = {}
  /\ OSRdyTbl' = ((OSRdyTbl \ {OSTCBPrio[c]}) \cup {p}) \cup ps
  /\ Switched(p) /\ UNCHANGED <<pc, pevent>>

LEMMA StepsDownCore ==
  ASSUME ObjIInv, Retyped, NEW e \in Event, OSEventType[e] = "MUTEX", Caller("OSMutex"),
         NEW c \in Task, c = OSTCBCur, NEW p, NEW r \in {Null, Reserved}, NEW ps \in SUBSET OSEventTbl[e],
         NEW st \in {"OK", "ABORT"}, StepsDown(e, c, p, r, ps, st)
  PROVE  /\ CoreInv' /\ Wakes(e, ps, st)
         /\ OSEventCnt[e].pcp # CeilDis => OSTCBPrioTbl'[OSEventCnt[e].pcp] = r
         /\ \A x \in Prio : OSTCBPrioTbl'[x] # OSTCBPrioTbl[x] =>
              x = OSEventCnt[e].pcp \/ \E t \in Tcb : BasePrio[t] = x
         /\ \A t \in Tcb : t # OSEventPtr[e] => OSTCBPrio'[t] = OSTCBPrio[t]
         /\ \A t \in Tcb : t = OSEventPtr[e] => OSTCBPrio'[t] = BasePrio[t]
<1>1. /\ OwnAgain(e, c, p) /\ OSTCBPrio' = With(OSTCBPrio, c, p) /\ OSTCBPrioTbl' = TableAfter(e, c, p, r)
      /\ OSRdyTbl' = ((OSRdyTbl \ {OSTCBPrio[c]}) \cup {p}) \cup ps /\ Switched(p)
      /\ pc' = pc /\ pevent' = pevent
  BY DEF StepsDown
<1>2. /\ p \in Prio /\ Nobodys(OSTCBPrio, c, p)
      /\ PrioRight(OSTCBPrio', OSTCBPrioTbl') /\ OSTCBPrioTbl' \in [Prio -> Tcb \cup {Null, Reserved}]
      /\ OSEventCnt[e].pcp # CeilDis => OSTCBPrioTbl'[OSEventCnt[e].pcp] = r
      /\ \A x \in Prio : OSTCBPrioTbl'[x] # OSTCBPrioTbl[x] =>
           x = OSEventCnt[e].pcp \/ \E t \in Tcb : BasePrio[t] = x
      /\ \A t \in Tcb : t # OSEventPtr[e] => OSTCBPrio'[t] = OSTCBPrio[t]
      /\ \A t \in Tcb : t = OSEventPtr[e] => OSTCBPrio'[t] = BasePrio[t]
  BY <1>1, TableRight
<1>3. c \in Tcb /\ pc[c] = "run" /\ OSTCBEventPtr[c] = Null
  BY CallerKnown
<1>4. OSTCBPrio[c] \notin ps /\ ps \in SUBSET Prio
  BY <1>3, ObjParts, CoreParts DEF ListsRight
<1>5. Woke(ps) /\ Wakes(e, ps, st)
  <2>1. CASE EventTaskRdy(e, ps, Null, st)
    <3>1. UNCHANGED <<pc, pevent>> /\ CoreInv
      BY <1>1, ObjParts
    <3>2. PICK m : m = Null
      OBVIOUS
    <3>3. EventTaskRdy(e, ps, m, st)
      BY <2>1, <3>2
    <3>4. /\ TcbTypes(OSTCBStat', OSTCBStatPend', OSTCBDly', OSTCBEventPtr')
          /\ OSEventTbl' \in [Event -> SUBSET Prio]
          /\ BlocksRight(pc', OSTCBStat', OSTCBStatPend', OSTCBDly', OSTCBEventPtr', pevent')
          /\ TypesMatch(pc', OSTCBEventPtr', OSEventType)
          /\ ListsRight(OSTCBPrio, OSEventTbl', OSTCBEventPtr')
          /\ ReadyRight(OSTCBPrio, OSRdyTbl \cup ps, OSTCBDly', OSTCBStat') /\ Wakes(e, ps, st)
      BY <3>1, <3>3, WakeCore
    <3> QED
      BY <1>4, <3>4 DEF Woke
  <2>2. CASE UNCHANGED tcbVars /\ OSEventTbl' = OSEventTbl /\ ps = {}
    <3>1. /\ OSTCBStat' = OSTCBStat /\ OSTCBStatPend' = OSTCBStatPend /\ OSTCBDly' = OSTCBDly
          /\ OSTCBEventPtr' = OSTCBEventPtr /\ OSEventTbl' = OSEventTbl /\ ps = {}
          /\ OSRdyTbl \cup ps = OSRdyTbl
      BY <2>2 DEF tcbVars
    <3>2. Woke(ps)
      BY <1>1, <1>4, <3>1, ObjParts, CoreParts DEF Woke
    <3>3. OSEventTbl' = [OSEventTbl EXCEPT ![e] = @ \ ps]
      BY <3>1, ObjParts, CoreParts
    <3>4. Wakes(e, ps, st)
      BY <3>1, <3>3 DEF Wakes
    <3> QED
      BY <3>2, <3>4
  <2> QED
    BY <2>1, <2>2 DEF StepsDown
<1>6. OSTCBEventPtr'[c] = Null
  BY <1>3, <1>4, <1>5 DEF Wakes
<1>7. CoreInv'
  <2>1. OSRdyTbl' = ((OSRdyTbl \cup ps) \ {OSTCBPrio[c]}) \cup {p}
    BY <1>1, <1>4
  <2>2. UNCHANGED <<pc, pevent>> /\ CoreInv
    BY <1>1, ObjParts
  <2> QED
    BY <1>1, <1>2, <1>3, <1>5, <1>6, <2>1, <2>2, StepDownCore
<1> QED
  BY <1>2, <1>5, <1>7

\* Who has a mutex when waiters have been woken: those woken to have it, if any, and those
\* who had it.
LEMMA GotWoken ==
  ASSUME ObjIInv, NEW e \in Event, OSEventType[e] = "MUTEX", NEW ps \in SUBSET OSEventTbl[e],
         NEW st \in {"OK", "ABORT"}, Wakes(e, ps, st), pc' = pc, pevent' = pevent, holds' \subseteq holds,
         NEW t \in Task, NEW f \in Event
  PROVE  <<t, f>> \in Got' <=>
           \/ <<t, f>> \in holds'
           \/ <<t, f>> \in Got /\ <<t, f>> \notin holds
           \/ f = e /\ OSTCBPrio[t] \in ps /\ st = "OK"
<1>1. /\ t \in Tcb /\ Null \notin Event
      /\ BlockRight(pc[t], OSTCBStat[t], OSTCBStatPend[t], OSTCBDly[t], OSTCBEventPtr[t], pevent[t])
  BY ObjParts, CoreParts DEF BlocksRight, Tcb
<1>2. <<t, f>> \in Got <=>
        <<t, f>> \in holds \/ Coming(pc[t], pevent[t], OSTCBEventPtr[t], OSTCBStatPend[t], f)
  BY DEF Got
<1>3. <<t, f>> \in Got' <=>
        <<t, f>> \in holds' \/ Coming(pc[t], pevent[t], OSTCBEventPtr'[t], OSTCBStatPend'[t], f)
  BY DEF Got, Coming
<1>4. ~(<<t, f>> \in holds /\ Coming(pc[t], pevent[t], OSTCBEventPtr[t], OSTCBStatPend[t], f))
  BY ObjParts DEF HoldsRight, Coming
<1>5. CASE OSTCBPrio[t] \in ps
  <2>1. OSTCBEventPtr[t] = e /\ OSTCBEventPtr'[t] = Null /\ OSTCBStatPend'[t] = st
    BY <1>1, <1>5 DEF Wakes
  <2>2. pc[t] = "MUTEX"
    BY <1>1, <2>1, ObjParts, CoreParts DEF TypesMatch
  <2>3. pevent[t] = e
    BY <1>1, <2>1, <2>2 DEF BlockRight, Free, Waits, Late, Answered
  <2>4. Coming(pc[t], pevent[t], OSTCBEventPtr'[t], OSTCBStatPend'[t], f) <=> f = e /\ st = "OK"
    BY <2>1, <2>2, <2>3 DEF Coming
  <2>5. ~Coming(pc[t], pevent[t], OSTCBEventPtr[t], OSTCBStatPend[t], f)
    BY <1>1, <2>1 DEF Coming
  <2> QED
    BY <1>2, <1>3, <1>5, <2>4, <2>5
<1>6. CASE OSTCBPrio[t] \notin ps
  <2>1. OSTCBEventPtr'[t] = OSTCBEventPtr[t] /\ OSTCBStatPend'[t] = OSTCBStatPend[t]
    BY <1>1, <1>6 DEF Wakes
  <2> QED
    BY <1>2, <1>3, <1>4, <1>6, <2>1
<1> QED
  BY <1>5, <1>6

\* The most urgent waiter of a mutex has its own priority, and has no mutex.
LEMMA NextOwner ==
  ASSUME ObjIInv, NEW e \in Event, OSEventType[e] = "MUTEX", NEW p \in OSEventTbl[e]
  PROVE  /\ OSTCBPrioTbl[p] \in Task /\ OSTCBPrio[OSTCBPrioTbl[p]] = p /\ BasePrio[OSTCBPrioTbl[p]] = p
         /\ \A f \in Event : <<OSTCBPrioTbl[p], f>> \notin Got
         /\ \A t \in Task : OSTCBPrio[t] = p => t = OSTCBPrioTbl[p]
<1>1. PICK n : n = OSTCBPrioTbl[p]
  OBVIOUS
<1>2. n \in Task /\ OSTCBPrio[n] = p /\ OSTCBEventPtr[n] = e /\ e # Null
  BY <1>1, ListedTask, ObjParts, CoreParts
<1>3. \A f \in Event : <<n, f>> \notin Got
  BY <1>2, HolderFree
<1>4. n \in Tcb
  BY <1>2 DEF Tcb
<1>5. BasePrio[n] = p
  BY <1>2, <1>3, <1>4, WhosePrio
<1>6. \A t \in Task : OSTCBPrio[t] = p => t = n
  BY <1>2, <1>4, ObjParts, CoreParts, OneEach DEF Tcb
<1> QED
  BY <1>1, <1>2, <1>3, <1>5, <1>6

\* After OSMutexPost e is the most urgent waiter's, or nobody's if there is none.
Succeeds(e, n, k, ps) ==
  \/ OSEventTbl[e] = {} /\ ps = {} /\ n = Null /\ k = Avail
  \/ /\ k \in OSEventTbl[e] /\ ps = {k} /\ n = OSTCBPrioTbl[k]
     /\ \A x \in OSEventTbl[e] : k <= x
PostsAs(e, n, k) ==
  OSEventPtr' = [OSEventPtr EXCEPT ![e] = n] /\ OSEventCnt' = [OSEventCnt EXCEPT ![e].prio = k]

LEMMA PostedRight ==
  ASSUME ObjIInv, RingIInv', NEW e \in Event, OSEventType[e] = "MUTEX", Caller("OSMutex"),
         NEW c \in Task, c = OSTCBCur, OSEventPtr[e] = c, NEW p, NEW r \in {Null, Reserved}, r = Reserved,
         NEW ps \in SUBSET OSEventTbl[e], NEW st \in {"OK", "ABORT"}, st = "OK", StepsDown(e, c, p, r, ps, st),
         NEW n, NEW k, Succeeds(e, n, k, ps), PostsAs(e, n, k), holds' = holds \ {<<c, e>>},
         UNCHANGED <<OSEventType, OSQ>>
  PROVE  ObjIInv'
<1>1. Retyped /\ OSEventType' = OSEventType /\ OSQ' = OSQ /\ pc' = pc /\ pevent' = pevent /\ holds' \subseteq holds
  BY SameType DEF StepsDown
<1>2. /\ CoreInv' /\ Wakes(e, ps, st)
      /\ OSEventCnt[e].pcp # CeilDis => OSTCBPrioTbl'[OSEventCnt[e].pcp] = r
      /\ \A x \in Prio : OSTCBPrioTbl'[x] # OSTCBPrioTbl[x] =>
           x = OSEventCnt[e].pcp \/ \E t \in Tcb : BasePrio[t] = x
      /\ \A t \in Tcb : t # OSEventPtr[e] => OSTCBPrio'[t] = OSTCBPrio[t]
      /\ \A t \in Tcb : t = OSEventPtr[e] => OSTCBPrio'[t] = BasePrio[t]
  BY <1>1, StepsDownCore
<1>3. /\ OSEventTbl' = [OSEventTbl EXCEPT ![e] = @ \ ps] /\ OSEventTbl \in [Event -> SUBSET Prio]
      /\ Null \notin Tcb /\ c # Null
  BY <1>2, ObjParts, CoreParts, EventAssumption DEF Wakes, Tcb
<1>4. /\ OwnerRight(e, OSEventCnt[e], OSEventPtr[e], Got)
      /\ CeilingRight(OSEventCnt[e], OSEventPtr[e], OSTCBPrio, OSTCBPrioTbl)
      /\ OSEventCnt[e] \in [pcp : Prio \cup {CeilDis}, prio : Prio \cup {Avail}]
  BY MutexKnown
<1>5. /\ k \in Prio \cup {Avail} /\ n \in Task \cup {Null}
      /\ n # Null => k = BasePrio[n] /\ k \in ps /\ k \in Prio /\ k # Avail /\ OSTCBPrio[n] = k
      /\ n = Null => ps = {} /\ OSEventTbl[e] = {} /\ k = Avail
      /\ \A t \in Task : OSTCBPrio[t] \in ps => t = n
      /\ n # c
  <2>1. CASE OSEventTbl[e] = {} /\ ps = {} /\ n = Null /\ k = Avail
    BY <1>3, <2>1
  <2>2. CASE k \in OSEventTbl[e] /\ ps = {k} /\ n = OSTCBPrioTbl[k]
    <3>1. /\ n \in Task /\ OSTCBPrio[n] = k /\ BasePrio[n] = k
          /\ \A f \in Event : <<n, f>> \notin Got
          /\ \A t \in Task : OSTCBPrio[t] = k => t = n
      BY <2>2, NextOwner
    <3>2. n # c
      BY <1>4, <3>1, <1>3 DEF OwnerRight
    <3>3. k \in Prio /\ k # Avail
      BY <1>3, <2>2, EventAssumption, ObjectAssumption DEF Prio, Avail, Tcb
    <3> QED
      BY <1>3, <2>2, <3>1, <3>2, <3>3 DEF Tcb
  <2> QED
    BY <2>1, <2>2 DEF Succeeds
<1>6. /\ OSEventPtr'[e] = n /\ OSEventCnt'[e].prio = k /\ OSEventCnt'[e].pcp = OSEventCnt[e].pcp
      /\ \A f \in Event : f # e => OSEventPtr'[f] = OSEventPtr[f] /\ OSEventCnt'[f] = OSEventCnt[f]
  BY <1>4, ObjParts DEF PostsAs, CntTypes, RingIInv, On
<1>7. CntTypes'
  BY <1>5, ObjParts DEF PostsAs, CntTypes
<1>8. \A t \in Task, f \in Event : <<t, f>> \in Got' <=>
         (<<t, f>> \in Got /\ ~(t = c /\ f = e)) \/ (f = e /\ t = n)
  <2>1. ASSUME NEW t \in Task, NEW f \in Event
        PROVE  <<t, f>> \in Got' <=> (<<t, f>> \in Got /\ ~(t = c /\ f = e)) \/ (f = e /\ t = n)
    <3>1. <<t, f>> \in Got' <=>
            \/ <<t, f>> \in holds'
            \/ <<t, f>> \in Got /\ <<t, f>> \notin holds
            \/ f = e /\ OSTCBPrio[t] \in ps /\ st = "OK"
      BY <1>1, <1>2, GotWoken
    <3>2. <<t, f>> \in holds' <=> <<t, f>> \in holds /\ ~(t = c /\ f = e)
      OBVIOUS
    <3>3. <<t, f>> \in holds => <<t, f>> \in Got
      BY DEF Got
    <3>4. <<c, e>> \in Got => <<c, e>> \in holds
      BY CallerKnown DEF Got, Coming
    <3>5. OSTCBPrio[t] \in ps <=> t = n
      BY <1>3, <1>5, EventAssumption DEF Tcb
    <3> QED
      BY <3>1, <3>2, <3>3, <3>4, <3>5
  <2> QED
    BY <2>1
<1>9. AtMutex(e)
  <2>1. OnlyAt(e)
    BY <1>1, <1>3, <1>6 DEF OnlyAt
  <2> QED
    BY <1>1, <1>2, <1>6, <1>8, <2>1 DEF AtMutex
<1>10. MutexRight(e, OSEventType'[e], OSEventCnt'[e], OSEventPtr'[e], OSEventTbl'[e],
                  OSTCBPrio', OSTCBPrioTbl', Got')
  <2>1. OwnerRight(e, OSEventCnt'[e], OSEventPtr'[e], Got')
    BY <1>4, <1>5, <1>6, <1>8 DEF OwnerRight
  <2>2. CeilingRight(OSEventCnt'[e], OSEventPtr'[e], OSTCBPrio', OSTCBPrioTbl')
    BY <1>2, <1>4, <1>6 DEF CeilingRight
  <2>3. InheritRight(OSEventCnt'[e], OSEventPtr'[e], OSEventTbl'[e], OSTCBPrio')
    <3>1. SUFFICES ASSUME n \in Task, NEW x \in OSEventTbl'[e] PROVE ~(x < BasePrio[n])
      BY <1>6 DEF InheritRight
    <3>2. n # Null /\ x \in OSEventTbl[e] /\ k \in Nat /\ x \in Nat
      BY <1>3, <1>5, <3>1, PrioNat DEF Tcb
    <3>3. k <= x
      BY <1>3, <1>5, <3>1, <3>2 DEF Succeeds
    <3> QED
      BY <1>5, <3>2, <3>3
  <2> QED
    BY <1>1, <2>1, <2>2, <2>3 DEF MutexRight
<1>11. OSEventTbl'[e] # {} => OSEventType'[e] = "MUTEX" /\ OSEventCnt'[e].prio # Avail
  BY <1>1, <1>3, <1>5, <1>6
<1>12. HoldsRight(holds', pc')
  BY <1>1, ObjParts DEF HoldsRight
<1> QED
  BY <1>2, <1>7, <1>9, <1>10, <1>11, <1>12, OneMutex

\* The priority an owner goes back to is its own.
LEMMA OwnPrioRight ==
  ASSUME ObjIInv, NEW e \in Event, OSEventType[e] = "MUTEX", NEW o \in Task, OSEventPtr[e] = o
  PROVE  OwnPrio(o, e) = BasePrio[o] /\ RdyAtOwnPrio(o, e) = (OSRdyTbl \ {OSTCBPrio[o]}) \cup {BasePrio[o]}
  BY OwnerPrio DEF OwnPrio, Raised, RdyAtOwnPrio

LEMMA PostRight ==
  ASSUME ObjIInv, NEW e \in Event, OSMutexPost(e)
  PROVE  ObjIInv'
<1>1. RingIInv'
  BY MutexKeeps, ObjParts DEF Mutexes, Refines
<1>2. /\ OSEventType[e] = "MUTEX" /\ Caller("OSMutex") /\ OSEventPtr[e] = OSTCBCur
      /\ UNCHANGED <<OSEventType, OSQ>> /\ pc' = pc /\ pevent' = pevent
  BY DEF OSMutexPost, Is
<1>3. PICK c \in Task : c = OSTCBCur
  BY <1>2, CallerKnown
<1>4. PICK p : p = BasePrio[c]
  OBVIOUS
<1>5. OwnPrio(c, e) = p /\ RdyAtOwnPrio(c, e) = (OSRdyTbl \ {OSTCBPrio[c]}) \cup {p}
  BY <1>2, <1>3, <1>4, OwnPrioRight
<1>6. PICK r \in {Null, Reserved}, st \in {"OK", "ABORT"} : r = Reserved /\ st = "OK"
  OBVIOUS
<1>7. OwnAgain(e, c, p)
  BY <1>2, <1>3, <1>4 DEF OwnAgain
<1>8. /\ OSTCBPrio' = With(OSTCBPrio, c, p) /\ OSTCBPrioTbl' = TableAfter(e, c, p, r)
      /\ holds' = holds \ {<<c, e>>}
  <2>1. /\ OSTCBPrio' = [OSTCBPrio EXCEPT ![OSTCBCur] = OwnPrio(OSTCBCur, e)]
        /\ OSTCBPrioTbl' = [x \in Prio |-> IF x = OSEventCnt[e].pcp THEN Reserved
                              ELSE IF x = OwnPrio(OSTCBCur, e) THEN OSTCBCur ELSE OSTCBPrioTbl[x]]
        /\ holds' = holds \ {<<OSTCBCur, e>>}
    BY DEF OSMutexPost
  <2> QED
    BY <1>3, <1>5, <1>6, <2>1 DEF With, TableAfter
<1>9. ASSUME NEW ps \in SUBSET OSEventTbl[e], NEW n, NEW k, Succeeds(e, n, k, ps), PostsAs(e, n, k),
             StepsDown(e, c, p, r, ps, st)
      PROVE  ObjIInv'
  BY <1>1, <1>2, <1>3, <1>6, <1>8, <1>9, PostedRight
<1>10. CASE HandOver(e)
  <2>1. PICK k : k = Min(OSEventTbl[e])
    OBVIOUS
  <2>2. OSEventTbl[e] # {} /\ OSEventTbl[e] \subseteq Nat
    BY <1>10, ObjParts, CoreParts, PrioNat DEF HandOver
  <2>3. k \in OSEventTbl[e] /\ \A x \in OSEventTbl[e] : k <= x
    BY <2>1, <2>2, MinOf
  <2>4. PICK ps \in SUBSET OSEventTbl[e] : ps = {k}
    BY <2>3
  <2>5. /\ EventTaskRdy(e, {k}, Null, "OK")
        /\ OSRdyTbl' = RdyAtOwnPrio(OSTCBCur, e) \cup Woken({k})
        /\ OSEventCnt' = [OSEventCnt EXCEPT ![e].prio = k]
        /\ OSEventPtr' = [OSEventPtr EXCEPT ![e] = NewOwner(e)]
        /\ Dispatch(OSRdyTbl', OSTCBPrioTbl', OwnPrio(OSTCBCur, e))
    BY <1>10, <2>1 DEF HandOver
  <2>6. EventTaskRdy(e, ps, Null, st) /\ Dispatch(OSRdyTbl', OSTCBPrioTbl', p)
    BY <1>3, <1>5, <1>6, <2>4, <2>5
  <2>7. Woken({k}) = ps
    BY <1>2, <2>3, <2>4, NextOwner DEF Woken
  <2>8. StepsDown(e, c, p, r, ps, st)
    BY <1>2, <1>3, <1>5, <1>7, <1>8, <2>5, <2>6, <2>7 DEF StepsDown, Switched
  <2>9. PICK n : n = OSTCBPrioTbl[k]
    OBVIOUS
  <2>10. Succeeds(e, n, k, ps) /\ PostsAs(e, n, k)
    BY <2>1, <2>3, <2>4, <2>5, <2>9 DEF Succeeds, PostsAs, NewOwner
  <2> QED
    BY <1>9, <2>8, <2>10
<1>11. CASE Release(e)
  <2>1. PICK ps \in SUBSET OSEventTbl[e], n \in {Null}, k \in {Avail} : ps = {} /\ n = Null /\ k = Avail
    OBVIOUS
  <2>2. /\ OSEventTbl[e] = {} /\ OSRdyTbl' = RdyAtOwnPrio(OSTCBCur, e) /\ OSPrioCur' = OwnPrio(OSTCBCur, e)
        /\ PostsAs(e, n, k) /\ UNCHANGED tcbVars /\ OSEventTbl' = OSEventTbl /\ OSTCBCur' = OSTCBCur
    BY <1>11, <2>1 DEF Release, PostsAs
  <2>3. StepsDown(e, c, p, r, ps, st)
    BY <1>2, <1>3, <1>5, <1>7, <1>8, <2>1, <2>2 DEF StepsDown, Switched
  <2>4. Succeeds(e, n, k, ps)
    BY <2>1, <2>2 DEF Succeeds
  <2> QED
    BY <1>9, <2>2, <2>3, <2>4
<1> QED
  BY <1>10, <1>11 DEF OSMutexPost

\* OSMutexDel by a careful task.
Deletes(e) ==
  /\ OSEventType' = [OSEventType EXCEPT ![e] = "UNUSED"]
  /\ OSEventCnt' = [OSEventCnt EXCEPT ![e] = [pcp |-> CeilDis, prio |-> Avail]]
  /\ OSEventPtr' = [OSEventPtr EXCEPT ![e] = Null]
  /\ holds' = {h \in holds : h[2] # e}
  /\ pc' = pc /\ pevent' = pevent /\ OSQ' = OSQ

LEMMA DeletedRight ==
  ASSUME ObjIInv, RingIInv', NEW e \in Event, OSEventType[e] = "MUTEX", Caller("OSMutex"),
         NEW c \in Task, c = OSTCBCur, NEW p, NEW r \in {Null, Reserved}, NEW ps \in SUBSET OSEventTbl[e],
         ps = OSEventTbl[e], NEW st \in {"OK", "ABORT"}, st = "ABORT", StepsDown(e, c, p, r, ps, st), Deletes(e)
  PROVE  ObjIInv'
<1>1. /\ OSEventType'[e] = "UNUSED" /\ OSEventPtr'[e] = Null
      /\ \A f \in Event : f # e => /\ OSEventType'[f] = OSEventType[f] /\ OSEventPtr'[f] = OSEventPtr[f]
                                   /\ OSEventCnt'[f] = OSEventCnt[f]
      /\ OSEventType' \in [Event -> Kind \cup {"UNUSED"}]
      /\ pc' = pc /\ pevent' = pevent /\ OSQ' = OSQ
  BY ObjParts DEF Deletes, CntTypes, RingIInv, On, CoreInv, CoreTypes
<1>2. /\ OSEventTbl' = [OSEventTbl EXCEPT ![e] = @ \ ps] /\ OSEventTbl \in [Event -> SUBSET Prio]
  <2>1. OSEventTbl' = OSEventTbl => OSEventTbl' = [OSEventTbl EXCEPT ![e] = @ \ {}]
    BY ObjParts, CoreParts
  <2> QED
    BY <2>1, ObjParts, CoreParts DEF StepsDown, EventTaskRdy
<1>3. Retyped /\ OSEventTbl'[e] = {}
  BY <1>1, <1>2 DEF Retyped
<1>4. /\ CoreInv' /\ Wakes(e, ps, st)
      /\ \A x \in Prio : OSTCBPrioTbl'[x] # OSTCBPrioTbl[x] =>
           x = OSEventCnt[e].pcp \/ \E t \in Tcb : BasePrio[t] = x
      /\ \A t \in Tcb : t # OSEventPtr[e] => OSTCBPrio'[t] = OSTCBPrio[t]
      /\ \A t \in Tcb : t = OSEventPtr[e] => OSTCBPrio'[t] = BasePrio[t]
  <2>1. CoreInv' /\ Wakes(e, ps, st)
    BY <1>3, StepsDownCore, ZenonT(60)
  <2>2. \A x \in Prio : OSTCBPrioTbl'[x] # OSTCBPrioTbl[x] =>
          x = OSEventCnt[e].pcp \/ \E t \in Tcb : BasePrio[t] = x
    BY <1>3, StepsDownCore, ZenonT(60)
  <2>3. \A t \in Tcb : t # OSEventPtr[e] => OSTCBPrio'[t] = OSTCBPrio[t]
    BY <1>3, StepsDownCore, ZenonT(60)
  <2>4. \A t \in Tcb : t = OSEventPtr[e] => OSTCBPrio'[t] = BasePrio[t]
    BY <1>3, StepsDownCore, ZenonT(60)
  <2> QED
    BY <2>1, <2>2, <2>3, <2>4
<1>5. \A t \in Task, f \in Event : <<t, f>> \in holds' <=> <<t, f>> \in holds /\ f # e
  BY DEF Deletes
<1>6. holds' \subseteq holds
  BY DEF Deletes
<1>7. \A t \in Task, f \in Event : <<t, f>> \in Got' <=> <<t, f>> \in Got /\ f # e
  <2>1. ASSUME NEW t \in Task, NEW f \in Event
        PROVE  <<t, f>> \in Got' <=> <<t, f>> \in Got /\ f # e
    <3>1. <<t, f>> \in Got' <=>
            \/ <<t, f>> \in holds'
            \/ <<t, f>> \in Got /\ <<t, f>> \notin holds
            \/ f = e /\ OSTCBPrio[t] \in ps /\ st = "OK"
      BY <1>1, <1>4, <1>6, GotWoken, ZenonT(60)
    <3>2. <<t, f>> \in holds => <<t, f>> \in Got
      BY DEF Got
    <3>3. ASSUME <<t, e>> \in Got, <<t, e>> \notin holds PROVE FALSE
      <4>1. t = OSEventPtr[e] /\ t # Null
        <5>1. OwnerRight(e, OSEventCnt[e], OSEventPtr[e], Got)
          BY MutexKnown
        <5>2. t = OSEventPtr[e]
          BY <3>3, <5>1 DEF OwnerRight
        <5>3. t # Null
          BY EventAssumption DEF Tcb
        <5> QED
          BY <5>2, <5>3
      <4>2. t = c
        BY <4>1 DEF StepsDown, OwnAgain
      <4> QED
        BY <3>3, <4>2, CallerKnown DEF Got, Coming
    <3> QED
      BY <1>5, <3>1, <3>2, <3>3
  <2> QED
    BY <2>1
<1>8. AtMutex(e)
  <2>1. OnlyAt(e)
    BY <1>1, <1>2 DEF OnlyAt
  <2> QED
    BY <1>1, <1>4, <1>7, <2>1 DEF AtMutex, PtrRight
<1>9. MutexRight(e, OSEventType'[e], OSEventCnt'[e], OSEventPtr'[e], OSEventTbl'[e],
                 OSTCBPrio', OSTCBPrioTbl', Got')
  BY <1>1, <1>7 DEF MutexRight, PtrRight
<1>10. HoldsRight(holds', pc')
  BY <1>1, <1>6, ObjParts DEF HoldsRight
<1>11. CntTypes'
  <2>1. [pcp |-> CeilDis, prio |-> Avail] \in [pcp : Prio \cup {CeilDis}, prio : Prio \cup {Avail}]
    OBVIOUS
  <2> QED
    BY <2>1, ObjParts DEF Deletes, CntTypes
<1>12. OSEventTbl'[e] # {} => OSEventType'[e] = "MUTEX" /\ OSEventCnt'[e].prio # Avail
  BY <1>3
<1> QED
  BY <1>4, <1>8, <1>9, <1>10, <1>11, <1>12, OneMutex

LEMMA MutexDelRight ==
  ASSUME ObjIInv, Careful, NEW e \in Event, OSMutexDel(e)
  PROVE  ObjIInv'
<1>1. RingIInv'
  BY MutexKeeps, ObjParts DEF Mutexes, Refines
<1>2. /\ OSEventType[e] = "MUTEX" /\ Caller("OSMutex") /\ Deletes(e)
  BY DEF OSMutexDel, Is, Deletes
<1>3. PICK c \in Task : c = OSTCBCur
  BY <1>2, CallerKnown
<1>4. /\ OSTCBPrio \in [Tcb -> Prio] /\ PrioRight(OSTCBPrio, OSTCBPrioTbl) /\ OSTCBPrio[c] = OSPrioCur
      /\ OSTCBPrio[c] \in OSRdyTbl /\ c \in Tcb /\ c # Null /\ OSTCBPrioTbl \in [Prio -> Tcb \cup {Null, Reserved}]
  BY <1>3, ObjParts, CoreParts, EventAssumption DEF CoreInv, CoreTypes, Tcb
<1>5. PICK r \in {Null, Reserved}, st \in {"OK", "ABORT"}, ps \in SUBSET OSEventTbl[e] :
        r = Null /\ st = "ABORT" /\ ps = OSEventTbl[e]
  OBVIOUS
<1>6. ASSUME NEW p, StepsDown(e, c, p, r, ps, st)
      PROVE  ObjIInv'
  BY <1>1, <1>2, <1>3, <1>5, <1>6, DeletedRight
\* Who keeps his priority had it already.
<1>7. ASSUME NEW p, p = OSTCBPrio[c]
      PROVE  /\ OSTCBPrio = With(OSTCBPrio, c, p)
             /\ [x \in Prio |-> IF x = OSEventCnt[e].pcp THEN Null ELSE OSTCBPrioTbl[x]] = TableAfter(e, c, p, r)
             /\ OSRdyTbl = (OSRdyTbl \ {OSTCBPrio[c]}) \cup {p}
  <2>1. OSTCBPrioTbl[p] = c
    BY <1>4, <1>7 DEF PrioRight
  <2> QED
    BY <1>4, <1>5, <1>7, <2>1 DEF With, TableAfter
<1>8. MayDelete(e, TRUE) => OSEventPtr[e] = Null \/ OSEventPtr[e] = c
  BY <1>3 DEF MayDelete
<1>9. CASE MutexDelNoPend(e)
  <2>1. /\ OSEventTbl[e] = {} /\ MayDelete(e, FALSE)
        /\ OSTCBPrioTbl' = [x \in Prio |-> IF x = OSEventCnt[e].pcp THEN Null ELSE OSTCBPrioTbl[x]]
        /\ UNCHANGED tcbVars /\ OSTCBPrio' = OSTCBPrio /\ OSTCBCur' = OSTCBCur /\ OSPrioCur' = OSPrioCur
        /\ OSRdyTbl' = OSRdyTbl /\ OSEventTbl' = OSEventTbl
    BY <1>9 DEF MutexDelNoPend, cpuVars
  <2>2. PICK p : p = OSTCBPrio[c]
    OBVIOUS
  <2>3. OwnAgain(e, c, p)
    <3>1. CASE OSEventPtr[e] = Null
      BY <2>2, <3>1 DEF OwnAgain
    <3>2. CASE OSEventPtr[e] = c /\ ~Raised(c, e)
      BY <1>2, <2>2, <3>2, OwnerPrio DEF OwnAgain, Raised
    <3> QED
      BY <1>3, <2>1, <3>1, <3>2 DEF MayDelete
  <2>4. StepsDown(e, c, p, r, ps, st)
    <3>1. OSTCBPrio' = With(OSTCBPrio, c, p) /\ OSTCBPrioTbl' = TableAfter(e, c, p, r)
      BY <1>7, <2>1, <2>2
    <3>2. OSRdyTbl' = ((OSRdyTbl \ {OSTCBPrio[c]}) \cup {p}) \cup ps
      BY <1>5, <1>7, <2>1, <2>2
    <3>3. Switched(p) /\ UNCHANGED <<pc, pevent>>
      BY <1>2, <1>4, <2>1, <2>2 DEF Switched, Deletes
    <3> QED
      BY <1>5, <2>1, <2>3, <3>1, <3>2, <3>3 DEF StepsDown
  <2> QED
    BY <1>6, <2>4
<1>10. CASE MutexDelAlways(e)
  <2>1. PICK raised \in BOOLEAN : raised = (OSEventPtr[e] # Null /\ Raised(OSEventPtr[e], e))
    OBVIOUS
  <2>2. PICK p : p = IF raised THEN BasePrio[c] ELSE OSTCBPrio[c]
    OBVIOUS
  <2>3. OSEventPtr[e] = Null \/ OSEventPtr[e] = c
    BY <1>8, <1>10 DEF MutexDelAlways
  <2>4. OwnAgain(e, c, p)
    <3>1. CASE OSEventPtr[e] = Null
      BY <2>1, <2>2, <3>1 DEF OwnAgain
    <3>2. CASE OSEventPtr[e] = c
      BY <1>2, <1>4, <2>1, <2>2, <3>2, OwnerPrio DEF OwnAgain, Raised
    <3> QED
      BY <2>3, <3>1, <3>2
  <2>5. raised => /\ OSEventPtr[e] = c /\ OwnPrio(c, e) = p
                  /\ RdyAtOwnPrio(c, e) = (OSRdyTbl \ {OSTCBPrio[c]}) \cup {p}
    BY <1>2, <2>1, <2>2, <2>3, OwnPrioRight
  <2>6. /\ OSTCBPrio' = [t \in Tcb |-> IF raised /\ t = OSEventPtr[e] THEN OwnPrio(OSEventPtr[e], e) ELSE OSTCBPrio[t]]
        /\ OSTCBPrioTbl' = [x \in Prio |->
             IF x = OSEventCnt[e].pcp THEN Null
             ELSE IF raised /\ x = OwnPrio(OSEventPtr[e], e) THEN OSEventPtr[e] ELSE OSTCBPrioTbl[x]]
        /\ OSRdyTbl' = Woken(OSEventTbl[e]) \cup IF raised THEN RdyAtOwnPrio(OSEventPtr[e], e) ELSE OSRdyTbl
        /\ EventTaskRdy(e, OSEventTbl[e], Null, "ABORT")
        /\ \/ Dispatch(OSRdyTbl', OSTCBPrioTbl', IF raised THEN OwnPrio(OSEventPtr[e], e) ELSE OSPrioCur)
           \/ OSPrioCur' = (IF raised THEN OwnPrio(OSEventPtr[e], e) ELSE OSPrioCur) /\ OSTCBCur' = OSTCBCur
    BY <1>10, <2>1 DEF MutexDelAlways
  <2>7. Woken(OSEventTbl[e]) = ps
    <3>1. \A x \in OSEventTbl[e] : OSTCBPrio[OSTCBPrioTbl[x]] = x
      BY <1>2, NextOwner
    <3> QED
      BY <1>5, <3>1 DEF Woken
  <2>8. (IF raised THEN OwnPrio(OSEventPtr[e], e) ELSE OSPrioCur) = p
    BY <1>4, <2>2, <2>5
  <2>9. OSTCBPrio' = With(OSTCBPrio, c, p)
    BY <1>4, <2>2, <2>5, <2>6 DEF With
  <2>10. OSTCBPrioTbl' = TableAfter(e, c, p, r)
    <3>1. CASE raised
      BY <1>5, <2>5, <2>6, <3>1 DEF TableAfter
    <3>2. CASE ~raised
      BY <1>7, <2>2, <2>6, <3>2
    <3> QED
      BY <3>1, <3>2
  <2>11. OSRdyTbl' = ((OSRdyTbl \ {OSTCBPrio[c]}) \cup {p}) \cup ps
    <3>1. CASE raised
      BY <2>5, <2>6, <2>7, <3>1
    <3>2. CASE ~raised
      BY <1>7, <2>2, <2>6, <2>7, <3>2
    <3> QED
      BY <3>1, <3>2
  <2>12. EventTaskRdy(e, ps, Null, st)
    BY <1>5, <2>6
  <2>13. Switched(p) /\ UNCHANGED <<pc, pevent>>
    BY <1>2, <2>6, <2>8 DEF Switched, Deletes
  <2>14. StepsDown(e, c, p, r, ps, st)
    BY <2>4, <2>9, <2>10, <2>11, <2>12, <2>13 DEF StepsDown
  <2> QED
    BY <1>6, <2>14
<1> QED
  BY <1>9, <1>10 DEF OSMutexDel

-----------------------------------------------------------------------------
LEMMA ObjectsHold == ASSUME ObjIInv PROVE ObjectsInv
<1>1. NobodyWaitsInVain
  BY ObjParts DEF NobodyWaitsInVain, Deserved, Is
<1>2. OwnerIsHolder
  <2>1. ASSUME NEW t \in Task, NEW e \in Event, <<t, e>> \in holds
        PROVE  OSEventType[e] = "MUTEX" /\ OSEventPtr[e] = t /\ OSEventCnt[e].prio = BasePrio[t]
    <3>1. <<t, e>> \in Got
      BY <2>1 DEF Got
    <3>2. OSEventType[e] = "MUTEX"
      BY <3>1, ObjParts DEF MutexRight
    <3>3. OSEventPtr[e] = t
      BY <3>1, <3>2, MutexKnown DEF OwnerRight
    <3> QED
      BY <3>2, <3>3, OwnerPrio
  <2>2. holds \subseteq Task \X Event
    BY ObjParts DEF HoldsRight
  <2> QED
    BY <2>1, <2>2 DEF OwnerIsHolder, Is
<1>3. ASSUME NEW e \in Event, OSEventType[e] = "MUTEX", OSEventCnt[e].pcp # CeilDis, NEW p \in OSEventTbl[e],
             p < BasePrio[OSEventPtr[e]]
      PROVE  OSTCBPrio[OSEventPtr[e]] <= OSEventCnt[e].pcp
  <2>1. OSEventCnt[e].prio # Avail
    BY <1>3, ObjParts DEF Deserved
  <2>2. OSEventPtr[e] \in Task
    BY <1>3, <2>1, MutexKnown
  <2> QED
    BY <1>3, <2>2, MutexKnown DEF InheritRight
<1>4. \A t \in Task : OSTCBPrio[t] # BasePrio[t] => \E e \in Event : OSEventPtr[e] = t
  BY WhosePrio DEF Tcb
<1> QED
  BY <1>1, <1>2, <1>3, <1>4 DEF ObjectsInv, OwnerInherits, Is

LEMMA ObjectsStart == ASSUME Init PROVE ObjIInv
<1>1. CoreInv
  BY InitCore DEF Init
<1>2. /\ OSEventCnt = [e \in Event |-> [pcp |-> CeilDis, prio |-> Avail]]
      /\ OSEventPtr = [e \in Event |-> Null] /\ OSQ = [e \in Event |-> EmptyRing] /\ holds = {}
  BY DEF Init
<1>3. /\ OSEventType = [e \in Event |-> "UNUSED"] /\ OSEventTbl = [e \in Event |-> {}]
      /\ pc = [t \in Tcb |-> "run"] /\ OSTCBPrio = BasePrio
  BY DEF Init, EventInit
<1>4. RingIInv
  BY <1>2, <1>3, RingStarts DEF RingIInv, On
<1>5. CntTypes
  BY <1>2 DEF CntTypes
<1>6. \A e \in Event : Deserved(OSEventType[e], OSEventTbl[e], OSEventPtr[e], OSQ[e], OSEventCnt[e])
  BY <1>3 DEF Deserved
<1>7. Got = {}
  BY <1>2, <1>3 DEF Got, Coming, Tcb
<1>8. \A e \in Event : MutexRight(e, OSEventType[e], OSEventCnt[e], OSEventPtr[e], OSEventTbl[e],
                                  OSTCBPrio, OSTCBPrioTbl, Got)
  BY <1>2, <1>3, <1>7 DEF MutexRight, PtrRight
<1>9. CeilingsApart(OSEventType, OSEventCnt) /\ OthersOwn(OSTCBPrio, OSEventType, OSEventCnt, OSEventPtr)
  BY <1>3 DEF CeilingsApart, OthersOwn
<1>10. HoldsRight(holds, pc)
  BY <1>2 DEF HoldsRight
<1> QED
  BY <1>1, <1>4, <1>5, <1>6, <1>8, <1>9, <1>10 DEF ObjIInv

LEMMA ObjectsStutter == ASSUME ObjIInv, UNCHANGED vars PROVE ObjIInv'
<1>1. /\ UNCHANGED <<tcbVars, prioVars, cpuVars, OSRdyTbl, OSEventTbl, pc, pevent>> /\ OSEventType' = OSEventType
      /\ UNCHANGED <<OSEventType, OSEventPtr, OSQ>> /\ OSEventTbl' = OSEventTbl /\ pc' = pc /\ holds' = holds
      /\ UNCHANGED <<OSEventType, OSEventCnt, OSEventPtr, OSQ, prioVars>>
  BY DEF vars, coreVars
<1>2. CoreInv'
  BY <1>1, SameType, QuietCore, ObjParts
<1>3. RingIInv'
  BY <1>1, ObjParts, NothingHeld DEF Refines
<1>4. GotSame
  <2>1. \A t \in Task : Unmoved(t)
    BY <1>1 DEF Unmoved, tcbVars
  <2> QED
    BY <1>1, <2>1, GotKept
<1>5. HoldsRight(holds', pc') /\ \A f \in Event : OSEventTbl'[f] \subseteq OSEventTbl[f]
  BY <1>1, ObjParts
<1> QED
  BY <1>1, <1>2, <1>3, <1>4, <1>5, Undisturbed

\* As long as the application deletes only mutexes that are free or its own (os_mutex.c:
\* OSMutexDel checks neither): nobody waits for what is there, a task that has a mutex is its
\* only owner until it posts it, the owner is as urgent as the ceiling while a more urgent task
\* waits, and a task that owns nothing has its own priority; and whatever task is moved between
\* the ready list and the wait lists, each has its priority to itself and is ready exactly when
\* it waits for nothing.
THEOREM ObjectsRight == ASSUME Careful PROVE Spec => [](ObjectsInv /\ TasksConsistent)
<1>1. Init => ObjIInv
  BY ObjectsStart
<1>2. ObjIInv /\ [Next]_vars => ObjIInv'
  <2>1. SUFFICES ASSUME ObjIInv, [Next]_vars PROVE ObjIInv'
    OBVIOUS
  <2>2. CASE Tick \/ OSTimeDly
    BY <2>1, <2>2, ClockRight
  <2>3. CASE MsgPendRet \/ MutexPendRet
    BY <2>1, <2>3, ReturnRight
  <2>4. ASSUME NEW e \in Event, Queues(e) \/ Mailboxes(e)
        PROVE  ObjIInv'
    BY <2>1, <2>4, QueueRight, MailboxRight
  <2>5. ASSUME NEW e \in Event, Mutexes(e)
        PROVE  ObjIInv'
    BY <2>1, <2>5, CreateRight, PendRight, AcceptRight, PostRight, MutexDelRight DEF Mutexes
  <2>6. CASE UNCHANGED vars
    BY <2>1, <2>6, ObjectsStutter
  <2> QED
    BY <2>1, <2>2, <2>3, <2>4, <2>5, <2>6 DEF Next
<1>3. ObjIInv => ObjectsInv /\ TasksConsistent
  BY ObjectsHold, CoreConsistent, ObjParts
<1> QED
  BY <1>1, <1>2, <1>3, PTL DEF Spec

\* Whichever of these services move tasks between the ready list and the wait lists, and
\* whatever priorities the mutexes lend, each task has its priority to itself, is ready
\* exactly when it waits for nothing, and is on no list but that of the event it waits for
\* (OS_EventTaskWait, OS_EventTaskRdy, OS_FlagBlock, OS_FlagTaskRdy, OSMutexPend).
THEOREM TasksKeepOrder ==
  /\ Careful => (Spec => []TasksConsistent)
  /\ FlagSpec => []TasksConsistent
<1>1. ASSUME Careful PROVE Spec => []TasksConsistent
  BY <1>1, ObjectsRight, PTL
<1>2. FlagSpec => []TasksConsistent
  BY NoFlagWaitIsVain, PTL
<1> QED
  BY <1>1, <1>2
=============================================================================
