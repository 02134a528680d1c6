------------------------------ MODULE OsKernel ------------------------------
(***************************************************************************)
(* The uC/OS-II kernel of the gateway (ucosII/Source): task control       *)
(* blocks, the ready list, the scheduler and its lock, the tick, delays,   *)
(* task services and counting semaphores.                                  *)
(*                                                                         *)
(* One CPU.  A critical section is one atomic step; between two critical   *)
(* sections of a service the SysTick interrupt may run and, through        *)
(* OSIntExit, give the CPU to another task.  So the position of every task *)
(* inside the service it called is kept in pc, and the variables a service *)
(* keeps across its critical sections are kept in pevent, pprio and pTCB.  *)
(*                                                                         *)
(* The ready list and the wait lists are sets of PRIORITIES, as in the     *)
(* code: a bit of OSRdyTbl or OSEventTbl names a task only through         *)
(* OSTCBPrioTbl.                                                           *)
(***************************************************************************)
EXTENDS Integers, FiniteSets, FiniteSetsExt

CONSTANTS
  Task,         \* the application's task control blocks (OSTCBTbl)
  Idle,         \* the control block of OS_TaskIdle
  LowestPrio,   \* OS_LOWEST_PRIO, the priority of OS_TaskIdle
  Sem,          \* the event control blocks (OSEventTbl)
  InitPrio,     \* the tasks main() creates before OSStart: task -> priority
  InitCnt,      \* the semaphores that exist at OSStart: semaphore -> count
  MaxCnt,       \* the largest semaphore count, 65535 in OSSemPost
  MaxDly,       \* bound: the largest delay or timeout a task asks for
  MaxLock,      \* bound: the deepest nesting of OSSchedLock
  Calls,        \* the services the tasks of this instance call
  Null,         \* a null pointer
  Reserved      \* OS_TCB_RESERVED

Tcb  == Task \cup {Idle}
Prios == 0 .. LowestPrio
SemCalls == {"OSSemPend", "OSSemPost", "OSSemAccept", "OSSemPendAbort",
             "OSSemDel", "OSSemSet"}
PC == {"none", "run", "sched", "pendSched", "pendRet", "semInit",
       "tcbInit", "tcbPrio", "tcbLink", "del"} \cup SemCalls

ASSUME KernelAssumption ==
  /\ Idle \notin Task
  /\ {Null, Reserved} \cap Tcb = {} /\ Null # Reserved
  /\ LowestPrio \in Nat /\ MaxCnt \in Nat /\ MaxDly \in Nat /\ MaxLock \in Nat
  /\ Null \notin Sem
  /\ DOMAIN InitPrio \subseteq Task
  /\ \A t \in DOMAIN InitPrio : InitPrio[t] \in 0 .. LowestPrio - 1
  /\ \A t, u \in DOMAIN InitPrio : InitPrio[t] = InitPrio[u] => t = u
  /\ DOMAIN InitCnt \subseteq Sem
  /\ \A s \in DOMAIN InitCnt : InitCnt[s] \in 0 .. MaxCnt

VARIABLES
  OSTCBPrioTbl, OSTCBList, OSTCBFreeList,      \* who owns which priority
  OSTCBPrio, OSTCBStat, OSTCBStatPend,         \* the fields of each TCB
  OSTCBDly, OSTCBEventPtr,
  OSRdyTbl, OSTCBCur, OSPrioCur, OSLockNesting,
  OSEventType, OSEventFreeList, OSEventCnt, OSEventTbl,
  pc, pevent, pprio, pTCB,                     \* each task's place and locals
  tokens                                       \* ghost, see Tokens below

tcbVars  == <<OSTCBPrio, OSTCBStat, OSTCBStatPend, OSTCBDly, OSTCBEventPtr>>
listVars == <<OSTCBPrioTbl, OSTCBList, OSTCBFreeList>>
cpuVars  == <<OSTCBCur, OSPrioCur>>
evVars   == <<OSEventType, OSEventFreeList, OSEventCnt, OSEventTbl>>
locals   == <<pevent, pprio, pTCB>>
vars == <<tcbVars, listVars, OSRdyTbl, cpuVars, OSLockNesting, evVars, pc,
          locals, tokens>>

Live   == OSTCBList \ {Idle}
Tasks0 == DOMAIN InitPrio

Init ==
  /\ OSTCBPrioTbl = [p \in Prios |->
       IF p = LowestPrio THEN Idle
       ELSE IF \E t \in Tasks0 : InitPrio[t] = p
            THEN CHOOSE t \in Tasks0 : InitPrio[t] = p ELSE Null]
  /\ OSTCBList = Tasks0 \cup {Idle}
  /\ OSTCBFreeList = Task \ Tasks0
  /\ OSTCBPrio = [t \in Tcb |-> IF t \in Tasks0 THEN InitPrio[t] ELSE LowestPrio]
  /\ OSTCBStat = [t \in Tcb |-> {}]
  /\ OSTCBStatPend = [t \in Tcb |-> "OK"]
  /\ OSTCBDly = [t \in Tcb |-> 0]
  /\ OSTCBEventPtr = [t \in Tcb |-> Null]
  /\ OSRdyTbl = {InitPrio[t] : t \in Tasks0} \cup {LowestPrio}
  /\ OSPrioCur = Min(OSRdyTbl)              \* OSStart
  /\ OSTCBCur = OSTCBPrioTbl[OSPrioCur]
  /\ OSLockNesting = 0
  /\ OSEventType = [s \in Sem |-> IF s \in DOMAIN InitCnt THEN "SEM" ELSE "UNUSED"]
  /\ OSEventFreeList = Sem \ DOMAIN InitCnt
  /\ OSEventCnt = [s \in Sem |-> IF s \in DOMAIN InitCnt THEN InitCnt[s] ELSE 0]
  /\ OSEventTbl = [s \in Sem |-> {}]
  /\ pc = [t \in Tcb |-> IF t \in Tasks0 \cup {Idle} THEN "run" ELSE "none"]
  /\ pevent = [t \in Tcb |-> Null]
  /\ pprio = [t \in Tcb |-> LowestPrio]
  /\ pTCB = [t \in Tcb |-> Null]
  /\ tokens = OSEventCnt

-----------------------------------------------------------------------------
(* Scheduling.                                                             *)

\* OS_SchedNew, the comparison with OSPrioCur and the PendSV switch that
\* follows it, given the ready list and the priority table of the new state.
\* Under the scheduler lock nothing is switched.
Dispatch(rdy, tbl, lock) ==
  LET high == Min(rdy) IN
  IF lock = 0 /\ high # OSPrioCur
    THEN OSPrioCur' = high /\ OSTCBCur' = tbl[high]
    ELSE UNCHANGED cpuVars

\* The task on the CPU is task code at position l, with nothing between it and
\* its next critical section.
At(l) == OSTCBCur # Idle /\ pc[OSTCBCur] = l

\* The task on the CPU is in application code and may call service op.
MayCall(op) == op \in Calls /\ At("run")

Goto(l) == pc' = [pc EXCEPT ![OSTCBCur] = l]

\* A service returns: its locals are dead.
Return ==
  /\ Goto("run")
  /\ pevent' = [pevent EXCEPT ![OSTCBCur] = Null]
  /\ pprio' = [pprio EXCEPT ![OSTCBCur] = LowestPrio]
  /\ pTCB' = [pTCB EXCEPT ![OSTCBCur] = Null]

\* A service leaves its critical section on the way to OS_Sched().
ToSched ==
  /\ Goto("sched")
  /\ pevent' = [pevent EXCEPT ![OSTCBCur] = Null]
  /\ pprio' = [pprio EXCEPT ![OSTCBCur] = LowestPrio]
  /\ pTCB' = [pTCB EXCEPT ![OSTCBCur] = Null]

\* OS_Sched() as the last act of a service, or inside OSSemPend.
OS_Sched ==
  /\ \/ At("sched") /\ Goto("run")
     \/ At("pendSched") /\ Goto("pendRet")
  /\ Dispatch(OSRdyTbl, OSTCBPrioTbl, OSLockNesting)
  /\ UNCHANGED <<tcbVars, listVars, OSRdyTbl, OSLockNesting, evVars, locals, tokens>>

\* The ready bits of the tasks in ts: a suspended task gets none.
ReadiedEvenSuspended(ts) == {OSTCBPrio[t] : t \in ts}               \* mutant
Readied(ts) == {OSTCBPrio[t] : t \in {u \in ts : "SUSPEND" \notin OSTCBStat[u]}}

\* The delay of t runs out on this tick, and what its wait, if any, ended with.
DueLate(t) == t \in Live /\ OSTCBDly[t] = 2                         \* mutant
Due(t) == t \in Live /\ OSTCBDly[t] = 1
NoPendTimeout(t) == "OK"                                           \* mutant
PendStatAfterTick(t) == IF "SEM" \in OSTCBStat[t] THEN "TO" ELSE "OK"

\* SysTick_Handler: OSIntEnter, OSTimeTick over the whole task list, OSIntExit.
\* Interrupts are the only actors that run while it does, and there is no
\* other interrupt source, so the walk of the list is one step.
Tick ==
  LET rdy == OSRdyTbl \cup Readied({t \in Live : Due(t)}) IN
  /\ OSTCBDly' = [t \in Tcb |-> IF t \in Live /\ OSTCBDly[t] # 0
                                THEN OSTCBDly[t] - 1 ELSE OSTCBDly[t]]
  /\ OSTCBStatPend' = [t \in Tcb |->
       IF Due(t) THEN PendStatAfterTick(t) ELSE OSTCBStatPend[t]]
  /\ OSTCBStat' = [t \in Tcb |->
       IF Due(t) THEN OSTCBStat[t] \ {"SEM"} ELSE OSTCBStat[t]]
  /\ OSRdyTbl' = rdy
  /\ Dispatch(rdy, OSTCBPrioTbl, OSLockNesting)
  /\ UNCHANGED <<OSTCBPrio, OSTCBEventPtr, listVars, OSLockNesting, evVars,
                 pc, locals, tokens>>

OSSchedLock ==
  /\ MayCall("OSSchedLock")
  /\ OSLockNesting < MaxLock
  /\ OSLockNesting' = OSLockNesting + 1
  /\ UNCHANGED <<tcbVars, listVars, OSRdyTbl, cpuVars, evVars, pc, locals, tokens>>

StayInTask == "run"                                                \* mutant
AfterUnlock == IF OSLockNesting = 1 THEN "sched" ELSE "run"

OSSchedUnlock ==
  /\ MayCall("OSSchedLock")
  /\ OSLockNesting > 0
  /\ OSLockNesting' = OSLockNesting - 1
  /\ Goto(AfterUnlock)
  /\ UNCHANGED <<tcbVars, listVars, OSRdyTbl, cpuVars, evVars, locals, tokens>>

\* OSTimeDly, whose early returns (locked, zero ticks) change nothing.
OSTimeDly ==
  /\ MayCall("OSTimeDly")
  /\ OSLockNesting = 0
  /\ \E ticks \in 1 .. MaxDly :
       OSTCBDly' = [OSTCBDly EXCEPT ![OSTCBCur] = ticks]
  /\ OSRdyTbl' = OSRdyTbl \ {OSTCBPrio[OSTCBCur]}
  /\ ToSched
  /\ UNCHANGED <<OSTCBPrio, OSTCBStat, OSTCBStatPend, OSTCBEventPtr, listVars,
                 cpuVars, OSLockNesting, evVars, tokens>>

-----------------------------------------------------------------------------
(* Semaphores.                                                             *)

\* Tokens of s that a post has handed to a task that has not yet returned from
\* OSSemPend.
Granted(s) == {t \in OSTCBList : /\ pc[t] \in {"pendSched", "pendRet"}
                                 /\ pevent[t] = s
                                 /\ OSTCBStatPend[t] = "OK"
                                 /\ "SEM" \notin OSTCBStat[t]}

\* The part every semaphore service has in common: the type of the event is
\* tested BEFORE the critical section is entered (and, in OSSemPend, the
\* scheduler lock).  A wrong type is an early return that changes nothing.
SemEnter(op, s) ==
  /\ MayCall(op)
  /\ OSEventType[s] = "SEM"
  /\ op = "OSSemPend" => OSLockNesting = 0
  /\ Goto(op)
  /\ pevent' = [pevent EXCEPT ![OSTCBCur] = s]
  /\ UNCHANGED <<tcbVars, listVars, OSRdyTbl, cpuVars, OSLockNesting, evVars,
                 pprio, pTCB, tokens>>

\* OS_EventTaskRemove: the wait lists once t has left the one of s.
WithoutWaiter(s, t) == [OSEventTbl EXCEPT ![s] = @ \ {OSTCBPrio[t]}]

\* OS_EventTaskRdy stops the timeout of a task it wakes.
KeepDly(woken) == OSTCBDly                                         \* mutant
ClearDly(woken) == [t \in Tcb |-> IF t \in woken THEN 0 ELSE OSTCBDly[t]]

\* OS_EventTaskRdy for every waiter of s whose priority is in ps.
EventTaskRdy(s, ps, pendStat) ==
  LET woken == {OSTCBPrioTbl[p] : p \in ps} IN
  /\ OSTCBDly' = ClearDly(woken)
  /\ OSTCBStat' = [t \in Tcb |->
       IF t \in woken THEN OSTCBStat[t] \ {"SEM"} ELSE OSTCBStat[t]]
  /\ OSTCBStatPend' = [t \in Tcb |-> IF t \in woken THEN pendStat ELSE OSTCBStatPend[t]]
  /\ OSTCBEventPtr' = [t \in Tcb |-> IF t \in woken THEN Null ELSE OSTCBEventPtr[t]]
  /\ OSRdyTbl' = OSRdyTbl \cup Readied(woken)
  /\ OSEventTbl' = [OSEventTbl EXCEPT ![s] = @ \ ps]

\* OSSemPend, the critical section that takes a token or starts to wait.
SemPend ==
  LET t == OSTCBCur
      s == pevent[t]
  IN
  /\ At("OSSemPend")
  /\ \/ /\ OSEventCnt[s] > 0
        /\ OSEventCnt' = [OSEventCnt EXCEPT ![s] = @ - 1]
        /\ tokens' = [tokens EXCEPT ![s] = @ - 1]
        /\ Return
        /\ UNCHANGED <<tcbVars, OSRdyTbl, OSEventTbl>>
     \/ /\ OSEventCnt[s] = 0
        /\ OSTCBStat' = [OSTCBStat EXCEPT ![t] = @ \cup {"SEM"}]
        /\ OSTCBStatPend' = [OSTCBStatPend EXCEPT ![t] = "OK"]
        /\ \E timeout \in 0 .. MaxDly : OSTCBDly' = [OSTCBDly EXCEPT ![t] = timeout]
        /\ OSTCBEventPtr' = [OSTCBEventPtr EXCEPT ![t] = s]
        /\ OSEventTbl' = [OSEventTbl EXCEPT ![s] = @ \cup {OSTCBPrio[t]}]
        /\ OSRdyTbl' = OSRdyTbl \ {OSTCBPrio[t]}
        /\ Goto("pendSched")
        /\ UNCHANGED <<OSTCBPrio, OSEventCnt, locals, tokens>>
  /\ UNCHANGED <<listVars, cpuVars, OSLockNesting, OSEventType, OSEventFreeList>>

\* OSSemPend after OS_Sched: what the wait ended with.
SemPendRet ==
  LET t == OSTCBCur
      s == pevent[t]
  IN
  /\ At("pendRet")
  /\ CASE OSTCBStatPend[t] = "OK" ->
            tokens' = [tokens EXCEPT ![s] = @ - 1] /\ UNCHANGED OSEventTbl
       [] OSTCBStatPend[t] = "ABORT" -> UNCHANGED <<tokens, OSEventTbl>>
       [] OSTCBStatPend[t] = "TO" ->
            OSEventTbl' = WithoutWaiter(s, t) /\ UNCHANGED tokens
  /\ OSTCBStat' = [OSTCBStat EXCEPT ![t] = {}]
  /\ OSTCBStatPend' = [OSTCBStatPend EXCEPT ![t] = "OK"]
  /\ OSTCBEventPtr' = [OSTCBEventPtr EXCEPT ![t] = Null]
  /\ Return
  /\ UNCHANGED <<OSTCBPrio, OSTCBDly, listVars, OSRdyTbl, cpuVars, OSLockNesting,
                 OSEventType, OSEventFreeList, OSEventCnt>>

\* The count after a post that found no waiter.
CntAfterPostUnbounded(s) == OSEventCnt[s] + 1                      \* mutant
CntAfterPost(s) == IF OSEventCnt[s] < MaxCnt THEN OSEventCnt[s] + 1 ELSE OSEventCnt[s]

\* A post looks for a waiter in the wait list, where a task whose wait the tick
\* has ended stays until it runs.
PostFindsWaiter(s) == OSEventTbl[s] # {}

\* OSSemPost: a waiter gets the token and the count does not move; without a
\* waiter the count grows, up to MaxCnt.
SemPost ==
  LET s == pevent[OSTCBCur] IN
  /\ At("OSSemPost")
  /\ \/ /\ PostFindsWaiter(s)
        /\ EventTaskRdy(s, {Min(OSEventTbl[s])}, "OK")
        /\ tokens' = [tokens EXCEPT ![s] = @ + 1]
        /\ ToSched
        /\ UNCHANGED OSEventCnt
     \/ /\ ~PostFindsWaiter(s)
        /\ OSEventCnt' = [OSEventCnt EXCEPT ![s] = CntAfterPost(s)]
        /\ tokens' = [tokens EXCEPT ![s] = @ + CntAfterPost(s) - OSEventCnt[s]]
        /\ Return
        /\ UNCHANGED <<OSTCBStat, OSTCBStatPend, OSTCBDly, OSTCBEventPtr,
                       OSRdyTbl, OSEventTbl>>
  /\ UNCHANGED <<OSTCBPrio, listVars, cpuVars, OSLockNesting, OSEventType,
                 OSEventFreeList>>

\* OSSemAccept: take a token if there is one, never wait.
SemAccept ==
  LET s == pevent[OSTCBCur] IN
  /\ At("OSSemAccept")
  /\ IF OSEventCnt[s] > 0
       THEN /\ OSEventCnt' = [OSEventCnt EXCEPT ![s] = @ - 1]
            /\ tokens' = [tokens EXCEPT ![s] = @ - 1]
       ELSE UNCHANGED <<OSEventCnt, tokens>>
  /\ Return
  /\ UNCHANGED <<tcbVars, listVars, OSRdyTbl, cpuVars, OSLockNesting,
                 OSEventType, OSEventFreeList, OSEventTbl>>

\* OSSemPendAbort: the first waiter, or all of them, give up.
SemPendAbort ==
  LET s == pevent[OSTCBCur] IN
  /\ At("OSSemPendAbort")
  /\ \/ /\ OSEventTbl[s] # {}
        /\ \E ps \in {{Min(OSEventTbl[s])}, OSEventTbl[s]} :
             EventTaskRdy(s, ps, "ABORT")
        /\ ToSched
     \/ /\ OSEventTbl[s] = {}
        /\ Return
        /\ UNCHANGED <<OSTCBStat, OSTCBStatPend, OSTCBDly, OSTCBEventPtr,
                       OSRdyTbl, OSEventTbl>>
  /\ UNCHANGED <<OSTCBPrio, listVars, cpuVars, OSLockNesting, OSEventType,
                 OSEventFreeList, OSEventCnt, tokens>>

\* OSSemSet: the count is set, unless it is zero and tasks wait.
AlwaysSet(s) == TRUE                                               \* mutant
MaySet(s) == OSEventCnt[s] > 0 \/ OSEventTbl[s] = {}

SemSet ==
  LET s == pevent[OSTCBCur] IN
  /\ At("OSSemSet")
  /\ IF MaySet(s)
       THEN \E cnt \in 0 .. MaxCnt :
              /\ OSEventCnt' = [OSEventCnt EXCEPT ![s] = cnt]
              /\ tokens' = [tokens EXCEPT ![s] = @ + cnt - OSEventCnt[s]]
       ELSE UNCHANGED <<OSEventCnt, tokens>>
  /\ Return
  /\ UNCHANGED <<tcbVars, listVars, OSRdyTbl, cpuVars, OSLockNesting,
                 OSEventType, OSEventFreeList, OSEventTbl>>

\* OSSemDel with OS_DEL_ALWAYS, the only option the gateway uses: every waiter
\* is aborted and the block goes back to the free list.
SemDel ==
  LET s == pevent[OSTCBCur] IN
  /\ At("OSSemDel")
  /\ EventTaskRdy(s, OSEventTbl[s], "ABORT")
  /\ OSEventType' = [OSEventType EXCEPT ![s] = "UNUSED"]
  /\ OSEventFreeList' = OSEventFreeList \cup {s}
  /\ OSEventCnt' = [OSEventCnt EXCEPT ![s] = 0]
  /\ tokens' = [tokens EXCEPT ![s] = @ - OSEventCnt[s]]
  /\ IF OSEventTbl[s] # {} THEN ToSched ELSE Return
  /\ UNCHANGED <<OSTCBPrio, listVars, cpuVars, OSLockNesting>>

\* OSSemCreate: a block leaves the free list in a critical section and is
\* initialised after it.
OSSemCreate ==
  /\ MayCall("OSSemCreate")
  /\ \E s \in OSEventFreeList :
       /\ OSEventFreeList' = OSEventFreeList \ {s}
       /\ pevent' = [pevent EXCEPT ![OSTCBCur] = s]
  /\ Goto("semInit")
  /\ UNCHANGED <<tcbVars, listVars, OSRdyTbl, cpuVars, OSLockNesting, OSEventType,
                 OSEventCnt, OSEventTbl, pprio, pTCB, tokens>>

SemInit ==
  LET s == pevent[OSTCBCur] IN
  /\ At("semInit")
  /\ OSEventType' = [OSEventType EXCEPT ![s] = "SEM"]
  /\ OSEventTbl' = [OSEventTbl EXCEPT ![s] = {}]
  /\ \E cnt \in 0 .. MaxCnt :
       /\ OSEventCnt' = [OSEventCnt EXCEPT ![s] = cnt]
       /\ tokens' = [tokens EXCEPT ![s] = @ + cnt - OSEventCnt[s]]
  /\ Return
  /\ UNCHANGED <<tcbVars, listVars, OSRdyTbl, cpuVars, OSLockNesting, OSEventFreeList>>

-----------------------------------------------------------------------------
(* Tasks.                                                                  *)

\* OSTaskCreate reserves the priority, then OS_TCBInit runs three critical
\* sections: take a block, publish it under its priority, link and ready it.
OSTaskCreate ==
  /\ MayCall("OSTaskCreate")
  /\ \E p \in Prios :
       /\ OSTCBPrioTbl[p] = Null
       /\ OSTCBPrioTbl' = [OSTCBPrioTbl EXCEPT ![p] = Reserved]
       /\ pprio' = [pprio EXCEPT ![OSTCBCur] = p]
  /\ Goto("tcbInit")
  /\ UNCHANGED <<tcbVars, OSTCBList, OSTCBFreeList, OSRdyTbl, cpuVars,
                 OSLockNesting, evVars, pevent, pTCB, tokens>>

TcbInit ==
  LET p == pprio[OSTCBCur] IN
  /\ At("tcbInit")
  /\ \/ /\ OSTCBFreeList = {}                   \* OS_ERR_TASK_NO_MORE_TCB
        /\ OSTCBPrioTbl' = [OSTCBPrioTbl EXCEPT ![p] = Null]
        /\ Return
        /\ UNCHANGED <<tcbVars, OSTCBFreeList>>
     \/ \E t \in OSTCBFreeList :
        /\ OSTCBFreeList' = OSTCBFreeList \ {t}
        /\ OSTCBPrio' = [OSTCBPrio EXCEPT ![t] = p]
        /\ OSTCBStat' = [OSTCBStat EXCEPT ![t] = {}]
        /\ OSTCBStatPend' = [OSTCBStatPend EXCEPT ![t] = "OK"]
        /\ OSTCBDly' = [OSTCBDly EXCEPT ![t] = 0]
        /\ OSTCBEventPtr' = [OSTCBEventPtr EXCEPT ![t] = Null]
        /\ pTCB' = [pTCB EXCEPT ![OSTCBCur] = t]
        /\ Goto("tcbPrio")
        /\ UNCHANGED <<OSTCBPrioTbl, pevent, pprio>>
  /\ UNCHANGED <<OSTCBList, OSRdyTbl, cpuVars, OSLockNesting, evVars, tokens>>

TcbPrio ==
  /\ At("tcbPrio")
  /\ OSTCBPrioTbl' = [OSTCBPrioTbl EXCEPT ![pprio[OSTCBCur]] = pTCB[OSTCBCur]]
  /\ Goto("tcbLink")
  /\ UNCHANGED <<tcbVars, OSTCBList, OSTCBFreeList, OSRdyTbl, cpuVars,
                 OSLockNesting, evVars, locals, tokens>>

TcbLink ==
  LET t == pTCB[OSTCBCur] IN
  /\ At("tcbLink")
  /\ OSTCBList' = OSTCBList \cup {t}
  /\ OSRdyTbl' = OSRdyTbl \cup {OSTCBPrio[t]}
  /\ pc' = [pc EXCEPT ![t] = "run", ![OSTCBCur] = "sched"]
  /\ pevent' = [pevent EXCEPT ![OSTCBCur] = Null]
  /\ pprio' = [pprio EXCEPT ![OSTCBCur] = LowestPrio]
  /\ pTCB' = [pTCB EXCEPT ![OSTCBCur] = Null]
  /\ UNCHANGED <<tcbVars, OSTCBPrioTbl, OSTCBFreeList, cpuVars, OSLockNesting,
                 evVars, tokens>>

\* OSTaskDel, first critical section: the task leaves the ready list and the
\* wait list, and the scheduler is locked while interrupts are enabled once.
\* OS_PRIO_SELF is a call of its own (OSTaskDelSelf).  A task that holds the
\* scheduler lock does not delete itself (OSSchedLock's note: lock and unlock
\* come in pairs).
OSTaskDel ==
  \E t \in Task :
    /\ \/ MayCall("OSTaskDelSelf") /\ t = OSTCBCur
       \/ MayCall("OSTaskDel") /\ t # OSTCBCur
    /\ OSTCBPrioTbl[OSTCBPrio[t]] = t
    /\ t = OSTCBCur => OSLockNesting = 0
    /\ OSRdyTbl' = OSRdyTbl \ {OSTCBPrio[t]}
    /\ OSEventTbl' = IF OSTCBEventPtr[t] = Null THEN OSEventTbl
                     ELSE WithoutWaiter(OSTCBEventPtr[t], t)
    /\ OSTCBEventPtr' = [OSTCBEventPtr EXCEPT ![t] = Null]
    /\ OSTCBDly' = [OSTCBDly EXCEPT ![t] = 0]
    /\ OSTCBStat' = [OSTCBStat EXCEPT ![t] = {}]
    /\ OSTCBStatPend' = [OSTCBStatPend EXCEPT ![t] = "OK"]
    /\ OSLockNesting' = OSLockNesting + 1
    /\ tokens' = [s \in Sem |-> IF t \in Granted(s) THEN tokens[s] - 1 ELSE tokens[s]]
    /\ pc' = [pc EXCEPT ![t] = "none", ![OSTCBCur] = "del"]
    /\ pevent' = [pevent EXCEPT ![t] = Null]
    /\ pprio' = [pprio EXCEPT ![t] = LowestPrio, ![OSTCBCur] = OSTCBPrio[t]]
    /\ pTCB' = [pTCB EXCEPT ![t] = Null, ![OSTCBCur] = t]
    /\ UNCHANGED <<OSTCBPrio, listVars, cpuVars, OSEventType, OSEventFreeList,
                   OSEventCnt>>

\* Unlinking follows the block's own links: a block that is not in the list
\* (OS_TCBInit is between its last two critical sections) takes the head of
\* the list with it.
NotUnlinked(t) == OSTCBList                                        \* mutant
Unlinked(t) == IF t \in OSTCBList THEN OSTCBList \ {t} ELSE {}

\* OSTaskDel, second critical section.
\* When a task deletes itself, OS_Sched switches away from it for good.
TaskUnlink ==
  LET me == OSTCBCur
      t  == pTCB[me]
  IN
  /\ At("del")
  /\ OSLockNesting' = OSLockNesting - 1
  /\ OSTCBPrioTbl' = [OSTCBPrioTbl EXCEPT ![pprio[me]] = Null]
  /\ OSTCBList' = Unlinked(t)
  /\ OSTCBFreeList' = OSTCBFreeList \cup {t}
  /\ IF t = me
       THEN /\ pc' = [pc EXCEPT ![me] = "none"]
            /\ Dispatch(OSRdyTbl, OSTCBPrioTbl', OSLockNesting - 1)
       ELSE Goto("sched") /\ UNCHANGED cpuVars
  /\ pevent' = [pevent EXCEPT ![me] = Null]
  /\ pprio' = [pprio EXCEPT ![me] = LowestPrio]
  /\ pTCB' = [pTCB EXCEPT ![me] = Null]
  /\ UNCHANGED <<tcbVars, OSRdyTbl, evVars, tokens>>

\* The ready list, the wait lists and the block after a change of priority.
RdyMoved(old, new) ==
  IF old \in OSRdyTbl THEN (OSRdyTbl \ {old}) \cup {new} ELSE OSRdyTbl

WaiterKept(t, new) == OSEventTbl                                   \* mutant
WaiterMoved(t, new) ==
  IF OSTCBEventPtr[t] = Null THEN OSEventTbl
  ELSE [WithoutWaiter(OSTCBEventPtr[t], t) EXCEPT ![OSTCBEventPtr[t]] = @ \cup {new}]

PrioKept(t, new) == OSTCBPrio                                      \* mutant
PrioMoved(t, new) == [OSTCBPrio EXCEPT ![t] = new]

\* OSTaskChangePrio: the task keeps its place in the ready list and in the
\* wait list, under the new priority.  OSPrioCur is not touched.
OSTaskChangePrio ==
  /\ MayCall("OSTaskChangePrio")
  /\ \E oldprio, newprio \in Prios \ {LowestPrio} :
       LET t == OSTCBPrioTbl[oldprio] IN
       /\ OSTCBPrioTbl[newprio] = Null
       /\ t \in Task
       /\ OSTCBPrioTbl' = [OSTCBPrioTbl EXCEPT ![oldprio] = Null, ![newprio] = t]
       /\ OSRdyTbl' = RdyMoved(oldprio, newprio)
       /\ OSEventTbl' = WaiterMoved(t, newprio)
       /\ OSTCBPrio' = PrioMoved(t, newprio)
  /\ ToSched
  /\ UNCHANGED <<OSTCBStat, OSTCBStatPend, OSTCBDly, OSTCBEventPtr, OSTCBList,
                 OSTCBFreeList, cpuVars, OSLockNesting, OSEventType,
                 OSEventFreeList, OSEventCnt, tokens>>

OSTaskSuspend ==
  /\ MayCall("OSTaskSuspend")
  /\ \E t \in Task :
       /\ OSTCBPrioTbl[OSTCBPrio[t]] = t
       /\ OSRdyTbl' = OSRdyTbl \ {OSTCBPrio[t]}
       /\ OSTCBStat' = [OSTCBStat EXCEPT ![t] = @ \cup {"SUSPEND"}]
       /\ IF t = OSTCBCur THEN ToSched ELSE Return
  /\ UNCHANGED <<OSTCBPrio, OSTCBStatPend, OSTCBDly, OSTCBEventPtr, listVars,
                 cpuVars, OSLockNesting, evVars, tokens>>

OSTaskResume ==
  /\ MayCall("OSTaskSuspend")
  /\ \E t \in Task :
       /\ OSTCBPrioTbl[OSTCBPrio[t]] = t
       /\ "SUSPEND" \in OSTCBStat[t]
       /\ OSTCBStat' = [OSTCBStat EXCEPT ![t] = @ \ {"SUSPEND"}]
       /\ IF "SEM" \notin OSTCBStat[t] /\ OSTCBDly[t] = 0
            THEN OSRdyTbl' = OSRdyTbl \cup {OSTCBPrio[t]} /\ ToSched
            ELSE UNCHANGED OSRdyTbl /\ Return
  /\ UNCHANGED <<OSTCBPrio, OSTCBStatPend, OSTCBDly, OSTCBEventPtr, listVars,
                 cpuVars, OSLockNesting, evVars, tokens>>

-----------------------------------------------------------------------------
Next ==
  \/ Tick
  \/ OS_Sched \/ OSSchedLock \/ OSSchedUnlock \/ OSTimeDly
  \/ \E op \in SemCalls, s \in Sem : SemEnter(op, s)
  \/ SemPend \/ SemPendRet \/ SemPost \/ SemAccept \/ SemPendAbort \/ SemSet
  \/ SemDel \/ OSSemCreate \/ SemInit
  \/ OSTaskCreate \/ TcbInit \/ TcbPrio \/ TcbLink \/ OSTaskDel \/ TaskUnlink
  \/ OSTaskChangePrio \/ OSTaskSuspend \/ OSTaskResume

\* SysTick is periodic; nothing else is promised about the tasks.
Spec == Init /\ [][Next]_vars /\ WF_vars(Tick)

-----------------------------------------------------------------------------
(* Properties.                                                             *)

\* Types of the kernel's tables, lists and control blocks.
TypeOK ==
  /\ OSTCBPrioTbl \in [Prios -> Tcb \cup {Null, Reserved}]
  /\ OSTCBList \subseteq Tcb /\ OSTCBFreeList \subseteq Task
  /\ OSTCBPrio \in [Tcb -> Prios]
  /\ OSTCBStat \in [Tcb -> SUBSET {"SEM", "SUSPEND"}]
  /\ OSTCBStatPend \in [Tcb -> {"OK", "TO", "ABORT"}]
  /\ OSTCBDly \in [Tcb -> 0 .. MaxDly]
  /\ OSTCBEventPtr \in [Tcb -> Sem \cup {Null}]
  /\ OSRdyTbl \subseteq Prios
  /\ OSTCBCur \in Tcb /\ OSPrioCur \in Prios
  /\ OSLockNesting \in 0 .. MaxLock + 1
  /\ OSEventType \in [Sem -> {"UNUSED", "SEM"}]
  /\ OSEventFreeList \subseteq Sem
  /\ OSEventCnt \in [Sem -> 0 .. MaxCnt]
  /\ OSEventTbl \in [Sem -> SUBSET Prios]
  /\ pc \in [Tcb -> PC]
  /\ pevent \in [Tcb -> Sem \cup {Null}]
  /\ pprio \in [Tcb -> Prios]
  /\ pTCB \in [Tcb -> Task \cup {Null}]
  /\ tokens \in [Sem -> Int]

\* The task OSTaskDel is removing, between its two critical sections.
Dying == {pTCB[OSTCBCur] : t \in {u \in {OSTCBCur} : pc[u] = "del"}}

\* A linked task owns its priority: the scheduler, which knows priorities only,
\* finds it, and no two tasks share one (OS_TCBInit, OSTaskDel,
\* OSTaskChangePrio all rewrite OSTCBPrioTbl and the list in separate steps).
PrioTblConsistent ==
  /\ Idle \in OSTCBList
  /\ OSTCBList \cap OSTCBFreeList = {}
  /\ \A t \in OSTCBList : OSTCBPrioTbl[OSTCBPrio[t]] = t
  /\ \A p \in Prios : OSTCBPrioTbl[p] \in Tcb => OSTCBPrio[OSTCBPrioTbl[p]] = p

\* Both: the tables hold what they should, and agree on who has which priority.
TablesConsistent == TypeOK /\ PrioTblConsistent

\* A linked task's bit is in the ready list exactly when it has nothing to wait
\* for: no lost wake-up and no task running while it waits, is delayed or is
\* suspended, whatever order posts, timeouts, suspensions, priority changes
\* and deletions come in.
ReadyExactly ==
  /\ \A t \in OSTCBList \ Dying :
       OSTCBPrio[t] \in OSRdyTbl <=> (OSTCBStat[t] = {} /\ OSTCBDly[t] = 0)
  /\ \A p \in OSRdyTbl : OSTCBPrioTbl[p] \in OSTCBList \ Dying

\* A bit of a wait list is the priority of a task that points back at the
\* event, and every task that points at an event is in its list; a task whose
\* wait the tick ended stays in the list until it runs again.
WaitListConsistent ==
  \A s \in Sem :
    /\ \A p \in OSEventTbl[s] :
         /\ OSTCBPrioTbl[p] \in OSTCBList
         /\ OSTCBEventPtr[OSTCBPrioTbl[p]] = s
    /\ \A t \in OSTCBList : OSTCBEventPtr[t] = s =>
         /\ OSTCBPrio[t] \in OSEventTbl[s]
         /\ pc[t] \in {"pendSched", "pendRet"} /\ pevent[t] = s
         /\ "SEM" \in OSTCBStat[t] \/ OSTCBStatPend[t] = "TO"

\* Tokens: tokens[s] counts the tokens that exist: created with the semaphore,
\* posted or set, and not yet returned to a caller.  Each is in the count or on
\* its way to exactly one woken task.  A post that races a timeout, an abort, a
\* suspension or a deletion neither loses nor doubles a token.
TokensConserved ==
  \A s \in Sem : tokens[s] = OSEventCnt[s] + Cardinality(Granted(s))

\* No task waits for a semaphore whose count is not zero.
NoWaitWithTokens ==
  \A s \in Sem : OSEventCnt[s] > 0 => OSEventTbl[s] = {}

\* Application code runs in the highest-priority ready task, unless the
\* scheduler is locked.
HighestReadyRuns ==
  OSLockNesting = 0 /\ pc[OSTCBCur] = "run" =>
    OSTCBCur = OSTCBPrioTbl[Min(OSRdyTbl)]

\* What the services of semaphores keep among them, in whatever order they are called.
SemInv == NoWaitWithTokens /\ TokensConserved /\ HighestReadyRuns

\* Tasks wait on semaphores only: OSSemPend answers OS_ERR_EVENT_TYPE "if you
\* didn't pass a pointer to a semaphore" (os_sem.c:287).
WaitersOnSemaphores ==
  \A s \in Sem : OSEventTbl[s] # {} => OSEventType[s] = "SEM"

\* A wait with a timeout ends: posted, aborted, timed out or deleted.
TimedPendEnds ==
  \A t \in Task :
    ("SEM" \in OSTCBStat[t] /\ OSTCBDly[t] > 0) ~> ("SEM" \notin OSTCBStat[t])
=============================================================================
