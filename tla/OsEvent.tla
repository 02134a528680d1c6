------------------------------- MODULE OsEvent -------------------------------
(***************************************************************************)
(* The part of the uC/OS-II kernel that every object a task can wait for   *)
(* is built on (ucosII/Source/os_core.c): wait lists, wake-ups, the ready  *)
(* list, timeouts and the switch.  OsKernel models the kernel itself, with *)
(* every place where a service can be interrupted; here a critical section *)
(* and the OS_Sched that ends it are one step, because the tick is all     *)
(* that can come between the two, and it switches tasks the same way.      *)
(***************************************************************************)
EXTENDS Integers, FiniteSets, FiniteSetsExt

CONSTANTS
  Task,        \* the application's tasks
  Idle,        \* OS_TaskIdle
  BasePrio,    \* the priority each task, and Idle, was created with
  Event,       \* the event control blocks (OSEventTbl)
  MaxDly,      \* bound: the longest delay or timeout a task asks for
  Calls,       \* the services the tasks of this instance call
  Null,        \* a null pointer
  Reserved     \* OS_TCB_RESERVED

Tcb  == Task \cup {Idle}
Prio == 0 .. BasePrio[Idle]

ASSUME EventAssumption ==
  /\ Idle \notin Task /\ Null \notin Tcb \cup Event /\ Reserved \notin Tcb \cup {Null}
  /\ BasePrio \in [Tcb -> Nat]
  /\ \A t, u \in Tcb : BasePrio[t] = BasePrio[u] => t = u
  /\ \A t \in Task : BasePrio[t] < BasePrio[Idle]
  /\ MaxDly \in Nat

VARIABLES
  OSTCBPrio, OSTCBPrioTbl,              \* priorities and whose they are
  OSRdyTbl, OSTCBCur, OSPrioCur,        \* who is ready and who runs
  OSTCBStat, OSTCBStatPend, OSTCBDly,   \* what a task waits for and how it ends
  OSTCBEventPtr, OSTCBMsg,
  OSEventType, OSEventTbl,              \* event blocks and their wait lists
  pc, pevent                            \* the service a task waits in, its argument

tcbVars  == <<OSTCBStat, OSTCBStatPend, OSTCBDly, OSTCBEventPtr, OSTCBMsg>>
prioVars == <<OSTCBPrio, OSTCBPrioTbl>>
cpuVars  == <<OSTCBCur, OSPrioCur>>
coreVars == <<tcbVars, prioVars, cpuVars, OSRdyTbl, OSEventType, OSEventTbl, pc, pevent>>

\* OSStart, with all tasks created and every event block free.
EventInit ==
  /\ OSTCBPrio = BasePrio
  /\ OSTCBPrioTbl = [p \in Prio |-> IF \E t \in Tcb : BasePrio[t] = p
                                    THEN CHOOSE t \in Tcb : BasePrio[t] = p ELSE Null]
  /\ OSRdyTbl = {BasePrio[t] : t \in Tcb}
  /\ OSPrioCur = Min(OSRdyTbl)
  /\ OSTCBCur = OSTCBPrioTbl[OSPrioCur]
  /\ OSTCBStat = [t \in Tcb |-> "RDY"]
  /\ OSTCBStatPend = [t \in Tcb |-> "OK"]
  /\ OSTCBDly = [t \in Tcb |-> 0]
  /\ OSTCBEventPtr = [t \in Tcb |-> Null]
  /\ OSTCBMsg = [t \in Tcb |-> Null]
  /\ OSEventType = [e \in Event |-> "UNUSED"]
  /\ OSEventTbl = [e \in Event |-> {}]
  /\ pc = [t \in Tcb |-> "run"]
  /\ pevent = [t \in Tcb |-> Null]

\* The task on the CPU is in application code and calls service op.
Caller(op) == op \in Calls /\ OSTCBCur # Idle /\ pc[OSTCBCur] = "run"

\* OS_Sched and OSIntExit, given the ready list, the priority table and the
\* value of OSPrioCur that the critical section left.
Dispatch(rdy, tbl, prioCur) ==
  LET high == Min(rdy) IN
  IF high # prioCur THEN OSPrioCur' = high /\ OSTCBCur' = tbl[high]
                    ELSE OSPrioCur' = prioCur /\ UNCHANGED OSTCBCur

\* OS_EventTaskRdy for the waiters of e with the priorities ps: each gets the
\* message m and the outcome st, and leaves the wait list.
EventTaskRdy(e, ps, m, st) ==
  LET woken == {OSTCBPrioTbl[p] : p \in ps} IN
  /\ OSTCBDly' = [t \in Tcb |-> IF t \in woken THEN 0 ELSE OSTCBDly[t]]
  /\ OSTCBStat' = [t \in Tcb |-> IF t \in woken THEN "RDY" ELSE OSTCBStat[t]]
  /\ OSTCBStatPend' = [t \in Tcb |-> IF t \in woken THEN st ELSE OSTCBStatPend[t]]
  /\ OSTCBEventPtr' = [t \in Tcb |-> IF t \in woken THEN Null ELSE OSTCBEventPtr[t]]
  /\ OSTCBMsg' = [t \in Tcb |-> IF t \in woken THEN m ELSE OSTCBMsg[t]]
  /\ OSEventTbl' = [OSEventTbl EXCEPT ![e] = @ \ ps]

\* The ready bits of tasks woken by EventTaskRdy.
Woken(ps) == {OSTCBPrio[OSTCBPrioTbl[p]] : p \in ps}

First(e) == {p \in OSEventTbl[e] : \A q \in OSEventTbl[e] : p <= q}

\* A service begins to wait for e, which is of type `type`: the last part of its
\* first critical section, with OS_EventTaskWait.  rdy is the ready list.
Wait(e, type, rdy) ==
  LET t == OSTCBCur IN
  /\ OSTCBStat' = [OSTCBStat EXCEPT ![t] = type]
  /\ OSTCBStatPend' = [OSTCBStatPend EXCEPT ![t] = "OK"]
  /\ \E timeout \in 0 .. MaxDly : OSTCBDly' = [OSTCBDly EXCEPT ![t] = timeout]
  /\ OSTCBEventPtr' = [OSTCBEventPtr EXCEPT ![t] = e]
  /\ pc' = [pc EXCEPT ![t] = type]
  /\ pevent' = [pevent EXCEPT ![t] = e]
  /\ OSRdyTbl' = rdy \ {OSTCBPrio[t]}
  /\ UNCHANGED OSTCBMsg

\* The second critical section of a service that waited: a task whose time ran
\* out takes itself off the wait list.
StaysListed(t) == OSEventTbl                                        \* mutant
AfterWait(t) == IF OSTCBStatPend[t] \in {"OK", "ABORT"} THEN OSEventTbl
                ELSE [OSEventTbl EXCEPT ![pevent[t]] = @ \ {OSTCBPrio[t]}]
WaitEnds(t) ==
  /\ OSEventTbl' = AfterWait(t)
  /\ OSTCBStat' = [OSTCBStat EXCEPT ![t] = "RDY"]
  /\ OSTCBStatPend' = [OSTCBStatPend EXCEPT ![t] = "OK"]
  /\ OSTCBEventPtr' = [OSTCBEventPtr EXCEPT ![t] = Null]
  /\ OSTCBMsg' = [OSTCBMsg EXCEPT ![t] = Null]
  /\ pc' = [pc EXCEPT ![t] = "run"]
  /\ pevent' = [pevent EXCEPT ![t] = Null]
  /\ UNCHANGED <<OSTCBDly, prioVars, OSRdyTbl, cpuVars, OSEventType>>

\* SysTick: OSTimeTick and OSIntExit.  A wait whose time runs out ends, but the
\* task stays on the wait list until it runs.
TimeTick ==
  LET due == {t \in Task : OSTCBDly[t] = 1}
      rdy == OSRdyTbl \cup {OSTCBPrio[t] : t \in due}
  IN
  /\ OSTCBDly' = [t \in Tcb |-> IF OSTCBDly[t] > 0 THEN OSTCBDly[t] - 1 ELSE 0]
  /\ OSTCBStatPend' = [t \in Tcb |->
       IF t \in due THEN IF OSTCBStat[t] # "RDY" THEN "TO" ELSE "OK"
       ELSE OSTCBStatPend[t]]
  /\ OSTCBStat' = [t \in Tcb |-> IF t \in due THEN "RDY" ELSE OSTCBStat[t]]
  /\ OSRdyTbl' = rdy
  /\ Dispatch(rdy, OSTCBPrioTbl, OSPrioCur)
  /\ UNCHANGED <<OSTCBEventPtr, OSTCBMsg, prioVars, OSEventType, OSEventTbl, pc, pevent>>

TimeDly ==
  /\ Caller("OSTimeDly")
  /\ \E ticks \in 1 .. MaxDly : OSTCBDly' = [OSTCBDly EXCEPT ![OSTCBCur] = ticks]
  /\ OSRdyTbl' = OSRdyTbl \ {OSTCBPrio[OSTCBCur]}
  /\ Dispatch(OSRdyTbl', OSTCBPrioTbl, OSPrioCur)
  /\ UNCHANGED <<OSTCBStat, OSTCBStatPend, OSTCBEventPtr, OSTCBMsg, prioVars,
                 OSEventType, OSEventTbl, pc, pevent>>

-----------------------------------------------------------------------------
\* Every task has its priority to itself, and is ready exactly when it waits
\* for nothing (os_core.c, os_mutex.c move it between lists in many places).
TasksConsistent ==
  /\ \A t \in Tcb : OSTCBPrioTbl[OSTCBPrio[t]] = t
  /\ \A t \in Tcb : OSTCBPrio[t] \in OSRdyTbl <=> OSTCBDly[t] = 0 /\ OSTCBStat[t] = "RDY"
  /\ \A e \in Event : \A p \in OSEventTbl[e] : \E t \in Task : OSTCBPrio[t] = p /\ pevent[t] = e

=============================================================================
