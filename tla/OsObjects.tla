------------------------------ MODULE OsObjects ------------------------------
(***************************************************************************)
(* Mutexes, message queues and message mailboxes of uC/OS-II               *)
(* (ucosII/Source/os_mutex.c, os_q.c, os_mbox.c).  An event block is       *)
(* whichever of the three it was created as, and can be deleted and        *)
(* created again as another.                                               *)
(*                                                                         *)
(* The task that owns a mutex waits for no other event, as the note at     *)
(* OSMutexPend (os_mutex.c:430) demands; it may sleep in OSTimeDly.        *)
(***************************************************************************)
EXTENDS OsEvent, Sequences, SequencesExt

CONSTANTS
  Msg,         \* the messages tasks post
  QSize,       \* the number of slots of a queue
  Ceiling,     \* the priorities a mutex may be created with
  CeilDis,     \* OS_PRIO_MUTEX_CEIL_DIS: a mutex that raises nobody
  Careful      \* whether the application deletes only its own and free mutexes

Avail == 255                            \* OS_MUTEX_AVAILABLE

ASSUME ObjectAssumption ==
  /\ QSize \in Nat \ {0} /\ Null \notin Msg
  /\ Careful \in BOOLEAN
  /\ Ceiling \subseteq Prio \cup {CeilDis} /\ CeilDis \notin Prio
  /\ BasePrio[Idle] < Avail

VARIABLES
  OSEventCnt,      \* of a mutex: its ceiling and its owner's own priority
  OSEventPtr,      \* of a mutex: its owner; of a mailbox: its message
  OSQ,             \* of a queue: its ring
  holds            \* ghost: <<t, e>> when t has come back with mutex e and not posted it

vars == <<coreVars, OSEventCnt, OSEventPtr, OSQ, holds>>
objVars == <<OSEventCnt, OSEventPtr, OSQ, holds>>

EmptyRing == [tbl |-> [i \in 0 .. QSize - 1 |-> Null], in |-> 0, out |-> 0, entries |-> 0]

Init ==
  /\ EventInit
  /\ OSEventCnt = [e \in Event |-> [pcp |-> CeilDis, prio |-> Avail]]
  /\ OSEventPtr = [e \in Event |-> Null]
  /\ OSQ = [e \in Event |-> EmptyRing]
  /\ holds = {}

Is(e, type) == OSEventType[e] = type
OwnsNothing(t) == \A e \in Event : <<t, e>> \notin holds

\* A critical section that wakes nobody and switches nothing.
Quiet == UNCHANGED <<tcbVars, prioVars, cpuVars, OSRdyTbl, OSEventTbl, pc, pevent>>

\* A critical section that wakes the waiters ps of e and calls OS_Sched, or, with
\* OS_POST_OPT_NO_SCHED, does not.
Wake(e, ps, m, st, sched) ==
  /\ EventTaskRdy(e, ps, m, st)
  /\ OSRdyTbl' = OSRdyTbl \cup Woken(ps)
  /\ IF sched THEN Dispatch(OSRdyTbl', OSTCBPrioTbl, OSPrioCur) ELSE UNCHANGED cpuVars
  /\ UNCHANGED <<prioVars, pc, pevent>>

\* OSxxxPendAbort of a queue or a mailbox: the first waiter or all give up.
PendAbort(op, e, type) ==
  /\ Caller(op) /\ Is(e, type) /\ OSEventTbl[e] # {}
  /\ \E ps \in {First(e), OSEventTbl[e]} : Wake(e, ps, Null, "ABORT", TRUE)
  /\ UNCHANGED <<OSEventType, objVars>>

\* OSxxxDel of a queue or a mailbox: with waiters only if `always`.
Del(op, e, type) ==
  /\ Caller(op) /\ Is(e, type)
  /\ \/ OSEventTbl[e] = {} /\ Quiet
     \/ OSEventTbl[e] # {} /\ Wake(e, OSEventTbl[e], Null, "ABORT", TRUE)
  /\ OSEventType' = [OSEventType EXCEPT ![e] = "UNUSED"]
  /\ OSEventPtr' = [OSEventPtr EXCEPT ![e] = Null]
  /\ OSQ' = [OSQ EXCEPT ![e] = EmptyRing]
  /\ UNCHANGED <<OSEventCnt, holds>>

-----------------------------------------------------------------------------
(* Message queues.                                                         *)

OSQCreate(e) ==
  /\ Caller("OSQ") /\ Is(e, "UNUSED")
  /\ OSEventType' = [OSEventType EXCEPT ![e] = "Q"]
  /\ OSQ' = [OSQ EXCEPT ![e] = EmptyRing]
  /\ Quiet /\ UNCHANGED <<OSEventCnt, OSEventPtr, holds>>

\* The slot after i, and the one before it, in a ring that ends at OSQEnd.
Next1(i) == IF i + 1 = QSize THEN 0 ELSE i + 1
Prev1NoWrap(i) == IF i = 0 THEN 0 ELSE i - 1                        \* mutant
Prev1(i) == IF i = 0 THEN QSize - 1 ELSE i - 1

Dequeued(q) == [q EXCEPT !.out = Next1(@), !.entries = @ - 1]
Enqueued(q, m) == [q EXCEPT !.tbl[q.in] = m, !.in = Next1(@), !.entries = @ + 1]
EnqueuedFront(q, m) ==
  [q EXCEPT !.tbl[Prev1(q.out)] = m, !.out = Prev1(@), !.entries = @ + 1]

\* OSQPend: a message is taken, or the task waits for one.
OSQPend(e) ==
  /\ Caller("OSQ") /\ Is(e, "Q") /\ OwnsNothing(OSTCBCur)
  /\ \/ /\ OSQ[e].entries > 0
        /\ OSQ' = [OSQ EXCEPT ![e] = Dequeued(@)]
        /\ Quiet
     \/ /\ OSQ[e].entries = 0
        /\ Wait(e, "Q", OSRdyTbl)
        /\ OSEventTbl' = [OSEventTbl EXCEPT ![e] = @ \cup {OSTCBPrio[OSTCBCur]}]
        /\ Dispatch(OSRdyTbl', OSTCBPrioTbl, OSPrioCur)
        /\ UNCHANGED <<OSQ, prioVars>>
  /\ UNCHANGED <<OSEventType, OSEventCnt, OSEventPtr, holds>>

OSQAccept(e) ==
  /\ Caller("OSQ") /\ Is(e, "Q") /\ OSQ[e].entries > 0
  /\ OSQ' = [OSQ EXCEPT ![e] = Dequeued(@)]
  /\ Quiet /\ UNCHANGED <<OSEventType, OSEventCnt, OSEventPtr, holds>>

\* A post finds a waiter also when its time has run out and it has not run yet.
OnlyPatient(e) == {p \in OSEventTbl[e] : OSTCBStat[OSTCBPrioTbl[p]] # "RDY"}  \* mutant
Waiters(e) == OSEventTbl[e]

\* What a post does: hand the message to ps, or store it if there is room.
Full(e) == OSQ[e].entries >= QSize
QPost(e, m, ps, front, sched) ==
  /\ Is(e, "Q")
  /\ \/ /\ Waiters(e) # {}
        /\ Wake(e, ps, m, "OK", sched)
        /\ UNCHANGED OSQ
     \/ /\ Waiters(e) = {} /\ ~Full(e)
        /\ OSQ' = [OSQ EXCEPT ![e] = IF front THEN EnqueuedFront(@, m) ELSE Enqueued(@, m)]
        /\ Quiet
  /\ UNCHANGED <<OSEventType, OSEventCnt, OSEventPtr, holds>>

OSQPost(e, m) == Caller("OSQ") /\ QPost(e, m, First(e), FALSE, TRUE)
OSQPostFront(e, m) == Caller("OSQ") /\ QPost(e, m, First(e), TRUE, TRUE)
OSQPostOpt(e, m) ==
  /\ Caller("OSQPostOpt")
  /\ \E ps \in {First(e), OSEventTbl[e]}, front, sched \in BOOLEAN :
       QPost(e, m, ps, front, sched)

OSQFlush(e) ==
  /\ Caller("OSQ") /\ Is(e, "Q")
  /\ OSQ' = [OSQ EXCEPT ![e].in = 0, ![e].out = 0, ![e].entries = 0]
  /\ Quiet /\ UNCHANGED <<OSEventType, OSEventCnt, OSEventPtr, holds>>

OSQPendAbort(e) == PendAbort("OSQ", e, "Q")
OSQDel(e) == Del("OSQDel", e, "Q")

-----------------------------------------------------------------------------
(* Message mailboxes.                                                      *)

OSMboxCreate(e) ==
  /\ Caller("OSMbox") /\ Is(e, "UNUSED")
  /\ OSEventType' = [OSEventType EXCEPT ![e] = "MBOX"]
  /\ \E m \in Msg \cup {Null} : OSEventPtr' = [OSEventPtr EXCEPT ![e] = m]
  /\ Quiet /\ UNCHANGED <<OSEventCnt, OSQ, holds>>

OSMboxPend(e) ==
  /\ Caller("OSMbox") /\ Is(e, "MBOX") /\ OwnsNothing(OSTCBCur)
  /\ \/ /\ OSEventPtr[e] # Null
        /\ OSEventPtr' = [OSEventPtr EXCEPT ![e] = Null]
        /\ Quiet
     \/ /\ OSEventPtr[e] = Null
        /\ Wait(e, "MBOX", OSRdyTbl)
        /\ OSEventTbl' = [OSEventTbl EXCEPT ![e] = @ \cup {OSTCBPrio[OSTCBCur]}]
        /\ Dispatch(OSRdyTbl', OSTCBPrioTbl, OSPrioCur)
        /\ UNCHANGED <<OSEventPtr, prioVars>>
  /\ UNCHANGED <<OSEventType, OSEventCnt, OSQ, holds>>

OSMboxAccept(e) ==
  /\ Caller("OSMbox") /\ Is(e, "MBOX") /\ OSEventPtr[e] # Null
  /\ OSEventPtr' = [OSEventPtr EXCEPT ![e] = Null]
  /\ Quiet /\ UNCHANGED <<OSEventType, OSEventCnt, OSQ, holds>>

MboxPost(e, m, ps, sched) ==
  /\ Is(e, "MBOX")
  /\ \/ /\ Waiters(e) # {}
        /\ Wake(e, ps, m, "OK", sched)
        /\ UNCHANGED OSEventPtr
     \/ /\ Waiters(e) = {} /\ OSEventPtr[e] = Null
        /\ OSEventPtr' = [OSEventPtr EXCEPT ![e] = m]
        /\ Quiet
  /\ UNCHANGED <<OSEventType, OSEventCnt, OSQ, holds>>

OSMboxPost(e, m) == Caller("OSMbox") /\ MboxPost(e, m, First(e), TRUE)
OSMboxPostOpt(e, m) ==
  /\ Caller("OSMboxPostOpt")
  /\ \E ps \in {First(e), OSEventTbl[e]}, sched \in BOOLEAN : MboxPost(e, m, ps, sched)

OSMboxPendAbort(e) == PendAbort("OSMbox", e, "MBOX")
OSMboxDel(e) == Del("OSMboxDel", e, "MBOX")

\* The end of OSQPend and OSMboxPend.
MsgPendRet ==
  /\ pc[OSTCBCur] \in {"Q", "MBOX"}
  /\ WaitEnds(OSTCBCur)
  /\ UNCHANGED objVars

-----------------------------------------------------------------------------
(* Mutexes.                                                                *)

OSMutexCreate(e) ==
  /\ Caller("OSMutex") /\ Is(e, "UNUSED")
  /\ \E pcp \in Ceiling :
       /\ pcp # CeilDis => OSTCBPrioTbl[pcp] = Null
       /\ OSTCBPrioTbl' = [p \in Prio |-> IF p = pcp THEN Reserved ELSE OSTCBPrioTbl[p]]
       /\ OSEventCnt' = [OSEventCnt EXCEPT ![e] = [pcp |-> pcp, prio |-> Avail]]
  /\ OSEventType' = [OSEventType EXCEPT ![e] = "MUTEX"]
  /\ OSEventPtr' = [OSEventPtr EXCEPT ![e] = Null]
  /\ UNCHANGED <<tcbVars, OSTCBPrio, cpuVars, OSRdyTbl, OSEventTbl, pc, pevent, OSQ, holds>>

Acquire(e) ==
  /\ OSEventCnt' = [OSEventCnt EXCEPT ![e].prio = OSTCBPrio[OSTCBCur]]
  /\ OSEventPtr' = [OSEventPtr EXCEPT ![e] = OSTCBCur]
  /\ holds' = holds \cup {<<OSTCBCur, e>>}

\* OSMutexPend raises the owner of e to the ceiling, if it is less urgent than
\* that and than the task that is about to wait.
NeverRaise(e) == FALSE                                              \* mutant
MustRaise(e) ==
  /\ OSEventCnt[e].pcp # CeilDis
  /\ OSTCBPrio[OSEventPtr[e]] > OSEventCnt[e].pcp
  /\ OSEventCnt[e].prio > OSTCBPrio[OSTCBCur]

\* ... in the ready list if it is ready, and in the wait list it is on if not.
RaiseOwner(e) ==
  LET o == OSEventPtr[e]
      pcp == OSEventCnt[e].pcp
      old == OSTCBPrio[o]
      ready == old \in OSRdyTbl
      e2 == OSTCBEventPtr[o]
      moved == IF ready \/ e2 = Null THEN OSEventTbl
               ELSE [OSEventTbl EXCEPT ![e2] = (@ \ {old}) \cup {pcp}]
  IN
  /\ OSTCBPrio' = [OSTCBPrio EXCEPT ![o] = pcp]
  /\ OSTCBPrioTbl' = [OSTCBPrioTbl EXCEPT ![pcp] = o]
  /\ OSEventTbl' = [moved EXCEPT ![e] = @ \cup {OSTCBPrio[OSTCBCur]}]
  /\ Wait(e, "MUTEX", IF ready THEN (OSRdyTbl \ {old}) \cup {pcp} ELSE OSRdyTbl)

OSMutexPend(e) ==
  /\ Caller("OSMutex") /\ Is(e, "MUTEX") /\ OwnsNothing(OSTCBCur)
  /\ \/ /\ OSEventCnt[e].prio = Avail
        /\ Acquire(e) /\ Quiet
     \/ /\ OSEventCnt[e].prio # Avail
        /\ \/ MustRaise(e) /\ RaiseOwner(e)
           \/ /\ ~MustRaise(e)
              /\ Wait(e, "MUTEX", OSRdyTbl)
              /\ OSEventTbl' = [OSEventTbl EXCEPT ![e] = @ \cup {OSTCBPrio[OSTCBCur]}]
              /\ UNCHANGED prioVars
        /\ Dispatch(OSRdyTbl', OSTCBPrioTbl', OSPrioCur)
        /\ UNCHANGED <<OSEventCnt, OSEventPtr, holds>>
  /\ UNCHANGED <<OSEventType, OSQ>>

OSMutexAccept(e) ==
  /\ Caller("OSMutex") /\ Is(e, "MUTEX") /\ OSEventCnt[e].prio = Avail
  /\ Acquire(e) /\ Quiet
  /\ UNCHANGED <<OSEventType, OSQ>>

\* The end of OSMutexPend: the mutex was handed over, or the wait was given up.
MutexPendRet ==
  LET t == OSTCBCur IN
  /\ pc[t] = "MUTEX"
  /\ holds' = IF OSTCBStatPend[t] = "OK" THEN holds \cup {<<t, pevent[t]>>} ELSE holds
  /\ WaitEnds(t)
  /\ UNCHANGED <<OSEventCnt, OSEventPtr, OSQ>>

\* OSMutex_RdyAtPrio gives a raised owner the priority it took e with.  It is
\* the new OSPrioCur too, whoever the owner is.
Raised(o, e) == OSTCBPrio[o] = OSEventCnt[e].pcp
OwnPrio(o, e) == IF Raised(o, e) THEN OSEventCnt[e].prio ELSE OSTCBPrio[o]
RdyAtOwnPrio(o, e) == (OSRdyTbl \ {OSTCBPrio[o]}) \cup {OwnPrio(o, e)}

\* OSMutexPost: the most urgent waiter becomes the owner.  Without one the mutex
\* is free, and OS_Sched is not called although the poster may be less urgent now.
StillPoster(e) == OSTCBCur                                           \* mutant
NewOwner(e) == OSTCBPrioTbl[Min(OSEventTbl[e])]

HandOver(e) ==
  LET p == Min(OSEventTbl[e]) IN
  /\ OSEventTbl[e] # {}
  /\ EventTaskRdy(e, {p}, Null, "OK")
  /\ OSRdyTbl' = RdyAtOwnPrio(OSTCBCur, e) \cup Woken({p})
  /\ OSEventCnt' = [OSEventCnt EXCEPT ![e].prio = p]
  /\ OSEventPtr' = [OSEventPtr EXCEPT ![e] = NewOwner(e)]
  /\ Dispatch(OSRdyTbl', OSTCBPrioTbl', OwnPrio(OSTCBCur, e))

Release(e) ==
  /\ OSEventTbl[e] = {}
  /\ OSRdyTbl' = RdyAtOwnPrio(OSTCBCur, e)
  /\ OSEventCnt' = [OSEventCnt EXCEPT ![e].prio = Avail]
  /\ OSEventPtr' = [OSEventPtr EXCEPT ![e] = Null]
  /\ OSPrioCur' = OwnPrio(OSTCBCur, e)
  /\ UNCHANGED <<tcbVars, OSEventTbl, OSTCBCur>>

OSMutexPost(e) ==
  LET o == OSTCBCur IN
  /\ Caller("OSMutex") /\ Is(e, "MUTEX") /\ OSEventPtr[e] = o
  /\ OSTCBPrio' = [OSTCBPrio EXCEPT ![o] = OwnPrio(o, e)]
  /\ OSTCBPrioTbl' = [p \in Prio |->
       IF p = OSEventCnt[e].pcp THEN Reserved
       ELSE IF p = OwnPrio(o, e) THEN o ELSE OSTCBPrioTbl[p]]
  /\ HandOver(e) \/ Release(e)
  /\ holds' = holds \ {<<o, e>>}
  /\ UNCHANGED <<OSEventType, OSQ, pc, pevent>>

\* What an application may do with OSMutexDel.  A careful one deletes a mutex
\* that is free or its own, and with OS_DEL_ALWAYS if it was raised.
MayDelete(e, always) ==
  Careful => \/ OSEventPtr[e] = Null
             \/ OSEventPtr[e] = OSTCBCur /\ (Raised(OSEventPtr[e], e) => always)

\* OS_DEL_NO_PEND frees the ceiling priority, whoever runs at it.
MutexDelNoPend(e) ==
  /\ OSEventTbl[e] = {} /\ MayDelete(e, FALSE)
  /\ OSTCBPrioTbl' = [p \in Prio |-> IF p = OSEventCnt[e].pcp THEN Null ELSE OSTCBPrioTbl[p]]
  /\ UNCHANGED <<tcbVars, OSTCBPrio, cpuVars, OSRdyTbl, OSEventTbl>>

\* OS_DEL_ALWAYS gives a raised owner its own priority back and aborts the waits.
MutexDelAlways(e) ==
  LET o == OSEventPtr[e]
      raised == o # Null /\ Raised(o, e)
      prioCur == IF raised THEN OwnPrio(o, e) ELSE OSPrioCur
  IN
  /\ MayDelete(e, TRUE)
  /\ OSTCBPrio' = [t \in Tcb |-> IF raised /\ t = o THEN OwnPrio(o, e) ELSE OSTCBPrio[t]]
  /\ OSTCBPrioTbl' = [p \in Prio |->
       IF p = OSEventCnt[e].pcp THEN Null
       ELSE IF raised /\ p = OwnPrio(o, e) THEN o ELSE OSTCBPrioTbl[p]]
  /\ OSRdyTbl' = Woken(OSEventTbl[e]) \cup
       IF raised THEN RdyAtOwnPrio(o, e) ELSE OSRdyTbl
  /\ EventTaskRdy(e, OSEventTbl[e], Null, "ABORT")
  /\ IF OSEventTbl[e] # {} THEN Dispatch(OSRdyTbl', OSTCBPrioTbl', prioCur)
                           ELSE OSPrioCur' = prioCur /\ UNCHANGED OSTCBCur

OSMutexDel(e) ==
  /\ Caller("OSMutex") /\ Is(e, "MUTEX")
  /\ MutexDelNoPend(e) \/ MutexDelAlways(e)
  /\ OSEventType' = [OSEventType EXCEPT ![e] = "UNUSED"]
  /\ OSEventCnt' = [OSEventCnt EXCEPT ![e] = [pcp |-> CeilDis, prio |-> Avail]]
  /\ OSEventPtr' = [OSEventPtr EXCEPT ![e] = Null]
  /\ holds' = {h \in holds : h[2] # e}
  /\ UNCHANGED <<pc, pevent, OSQ>>

-----------------------------------------------------------------------------
Tick == TimeTick /\ UNCHANGED objVars
OSTimeDly == TimeDly /\ UNCHANGED objVars

Queues(e) ==
  \/ OSQCreate(e) \/ OSQPend(e) \/ OSQAccept(e) \/ OSQFlush(e) \/ OSQPendAbort(e)
  \/ OSQDel(e)
  \/ \E m \in Msg : OSQPost(e, m) \/ OSQPostFront(e, m) \/ OSQPostOpt(e, m)
Mailboxes(e) ==
  \/ OSMboxCreate(e) \/ OSMboxPend(e) \/ OSMboxAccept(e) \/ OSMboxPendAbort(e)
  \/ OSMboxDel(e)
  \/ \E m \in Msg : OSMboxPost(e, m) \/ OSMboxPostOpt(e, m)
\* The application takes one mutex at a time: the note of os_mutex.c:430 says so of a
\* pend, and what holds for a pend is taken to hold for an accept.
OneAtATime(e) == OwnsNothing(OSTCBCur) /\ OSMutexAccept(e)
Mutexes(e) ==
  \/ OSMutexCreate(e) \/ OSMutexPend(e) \/ OneAtATime(e) \/ OSMutexPost(e)
  \/ OSMutexDel(e)

Next ==
  \/ Tick \/ OSTimeDly \/ MsgPendRet \/ MutexPendRet
  \/ \E e \in Event : Queues(e) \/ Mailboxes(e) \/ Mutexes(e)

Spec == Init /\ [][Next]_vars

-----------------------------------------------------------------------------
\* Nobody waits for what is there: a queue or a mailbox with a message and a
\* free mutex have no waiters, also when a post meets a wait that just timed out
\* (OSQPost, OSMboxPost, OSMutexPost).
NobodyWaitsInVain ==
  \A e \in Event : OSEventTbl[e] # {} =>
    CASE OSEventType[e] = "Q" -> OSQ[e].entries = 0
      [] OSEventType[e] = "MBOX" -> OSEventPtr[e] = Null
      [] OSEventType[e] = "MUTEX" -> OSEventCnt[e].prio # Avail
      [] OTHER -> Is(e, "FLAG")

\* A task that came back from OSMutexPend or OSMutexAccept with the mutex is its
\* only owner until it posts it, and the priority kept for it is its own
\* (os_mutex.c: hand-over, timeouts and deletion).
OwnerIsHolder ==
  \A h \in holds : /\ Is(h[2], "MUTEX") /\ OSEventPtr[h[2]] = h[1]
                   /\ OSEventCnt[h[2]].prio = BasePrio[h[1]]

\* Priority inheritance: the owner of a mutex with a ceiling is at the ceiling,
\* or above, while a task more urgent than the owner waits; and a task that owns
\* no mutex has its own priority (os_mutex.c:498-545, 629-634, 737-762).
OwnerInherits ==
  /\ \A e \in Event : Is(e, "MUTEX") /\ OSEventCnt[e].pcp # CeilDis =>
       \A p \in OSEventTbl[e] :
         p < BasePrio[OSEventPtr[e]] => OSTCBPrio[OSEventPtr[e]] <= OSEventCnt[e].pcp
  /\ \A t \in Task : OSTCBPrio[t] # BasePrio[t] => \E e \in Event : OSEventPtr[e] = t

\* All three: what tasks wait for is what they cannot have, and a mutex has its owner.
ObjectsInv == NobodyWaitsInVain /\ OwnerIsHolder /\ OwnerInherits

\* The messages of e, oldest first, as OSQOut and OSQEntries show them.
Contents(e) == IF Is(e, "Q") THEN [i \in 1 .. OSQ[e].entries |-> OSQ[e].tbl[(OSQ[e].out + i - 1) % QSize]]
               ELSE IF Is(e, "MBOX") /\ OSEventPtr[e] # Null THEN <<OSEventPtr[e]>> ELSE <<>>

\* A queue and a mailbox are bounded double-ended queues: no post overwrites or
\* loses a message, whatever mix of OSQPost, OSQPostFront and OSQFlush (os_q.c).
Deque == INSTANCE MessageDeque WITH deque <- [e \in Event |-> Contents(e)], Limit <- QSize
MessagesKept == Deque!Spec
=============================================================================
