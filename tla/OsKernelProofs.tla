--------------------------- MODULE OsKernelProofs ---------------------------
(***************************************************************************)
(* Proofs about OsKernel, for every number of tasks, semaphores and        *)
(* priorities and all delays, counts and nestings, as long as tasks and    *)
(* semaphores are not created and semaphores not deleted after OSStart     *)
(* (SteadyCalls), and a task that changes priorities does not hold the     *)
(* scheduler lock: the kernel of a gateway that has started.               *)
(***************************************************************************)
EXTENDS OsKernel, NumberSets, FiniteSetTheorems, TLAPS

\* What tasks do in a gateway that has started: all services but those that create and
\* delete blocks.  A semaphore deleted under a pend leaves a task on the list of a free
\* block, so wait lists are consistent only without deletions.
SteadyCalls ==
  {"OSSemPend", "OSSemPost", "OSSemAccept", "OSSemPendAbort", "OSSemSet", "OSSchedLock",
   "OSTimeDly", "OSTaskSuspend", "OSTaskDel", "OSTaskDelSelf", "OSTaskChangePrio"}

\* OSTaskChangePrio leaves OSPrioCur as it is; under the scheduler lock the old priority
\* could be given to another task before OS_Sched compares it.
Steady ==
  /\ Calls \subseteq SteadyCalls /\ IsFiniteSet(Task)
  /\ "OSTaskChangePrio" \notin Calls \/ "OSSchedLock" \notin Calls

Pending == {"pendSched", "pendRet"}
InSem == Pending \cup {"OSSemPend", "OSSemPost", "OSSemAccept", "OSSemPendAbort", "OSSemSet"}

\* Where a task can be, and what it keeps there.  The one that deletes another, or
\* itself, has the CPU and the lock until it has unlinked it.
Places ==
  \A t \in Tcb :
    /\ pc[t] \in InSem \cup {"none", "run", "sched", "del"}
    /\ pc[t] \in InSem => pevent[t] \in Sem
    /\ pc[t] = "none" /\ t \in OSTCBList => t \in Dying
    /\ pc[t] = "del" =>
         /\ t = OSTCBCur /\ OSLockNesting > 0
         /\ pTCB[t] \in OSTCBList \ {Idle} /\ pprio[t] = OSTCBPrio[pTCB[t]]
         /\ pTCB[t] = t \/ "OSSchedLock" \notin Calls => OSLockNesting = 1
         /\ pTCB[t] # t => pc[pTCB[t]] = "none"
         /\ OSTCBDly[pTCB[t]] = 0

\* What a task in OSSemPend has in its block, from the wait to the return: it waits, its
\* time is over, or somebody has woken it.
Woken(t) == OSTCBEventPtr[t] = Null /\ "SEM" \notin OSTCBStat[t]
Waits(t) == OSTCBEventPtr[t] = pevent[t] /\ "SEM" \in OSTCBStat[t] /\ OSTCBStatPend[t] = "OK"
Late(t) ==
  /\ OSTCBEventPtr[t] = pevent[t] /\ "SEM" \notin OSTCBStat[t]
  /\ OSTCBStatPend[t] = "TO" /\ OSTCBDly[t] = 0
Answered(t) == Woken(t) /\ OSTCBStatPend[t] \in {"OK", "ABORT"} /\ OSTCBDly[t] = 0
Waiting ==
  \A t \in OSTCBList :
    IF pc[t] \in Pending THEN Waits(t) \/ Late(t) \/ Answered(t)
    ELSE Woken(t) /\ OSTCBStatPend[t] = "OK"

Linked ==
  /\ PrioTblConsistent
  /\ \A p \in Prios : OSTCBPrioTbl[p] \in Tcb => OSTCBPrioTbl[p] \in OSTCBList
IdleReady ==
  OSTCBPrio[Idle] = LowestPrio /\ OSTCBStat[Idle] = {} /\ OSTCBDly[Idle] = 0 /\ pc[Idle] = "run"

\* OSPrioCur is the priority of the task on the CPU, or of nobody; without the lock a
\* task that has done what OS_Sched asks for is the most urgent ready one.
NotSwitched == {"sched", "pendSched"}
Cpu ==
  /\ OSTCBCur \in OSTCBList /\ pc[OSTCBCur] # "none"
  /\ \/ OSTCBPrioTbl[OSPrioCur] = OSTCBCur
     \/ pc[OSTCBCur] = "sched" /\ OSLockNesting = 0 /\ OSTCBPrioTbl[OSPrioCur] = Null
  /\ OSLockNesting = 0 /\ pc[OSTCBCur] \notin NotSwitched => OSPrioCur = Min(OSRdyTbl)
  /\ pc[OSTCBCur] \in Pending \cup {"OSSemPend"} => OSLockNesting = 0
  /\ pc[OSTCBCur] # "del" => OSLockNesting <= MaxLock
  /\ pc[OSTCBCur] # "del" /\ "OSSchedLock" \notin Calls => OSLockNesting = 0

\* The inductive invariant.
IInv == /\ TypeOK /\ Places /\ Waiting /\ Linked /\ IdleReady /\ Cpu
        /\ ReadyExactly /\ WaitListConsistent /\ NoWaitWithTokens /\ TokensConserved

-----------------------------------------------------------------------------
\* Dying without the bound variable.
LEMMA DyingIs ==
  /\ Dying = IF pc[OSTCBCur] = "del" THEN {pTCB[OSTCBCur]} ELSE {}
  /\ Dying' = IF pc'[OSTCBCur'] = "del" THEN {pTCB'[OSTCBCur']} ELSE {}
  BY DEF Dying

\* The lowest priority is always ready, so there is a most urgent one.
LEMMA SomebodyReady ==
  ASSUME IInv
  PROVE  /\ LowestPrio \in OSRdyTbl /\ OSRdyTbl \subseteq Prios /\ Prios \subseteq Nat
         /\ Min(OSRdyTbl) \in OSRdyTbl
<1>1. Prios \subseteq Nat
  BY KernelAssumption DEF Prios
<1>2. Idle \notin Dying
  BY DyingIs DEF IInv, Places, Cpu, TypeOK
<1>3. LowestPrio \in OSRdyTbl
  BY <1>2 DEF IInv, ReadyExactly, IdleReady, Linked, PrioTblConsistent
<1>4. OSRdyTbl \subseteq Prios
  BY DEF IInv, TypeOK
<1> QED
  BY <1>1, <1>3, <1>4, MinOf

\* A ready priority is the one of a linked task, and priorities are owned by one task.
LEMMA OnePerPrio ==
  ASSUME IInv
  PROVE  /\ \A t \in OSTCBList : t \in Tcb /\ OSTCBPrio[t] \in Prios /\ OSTCBPrioTbl[OSTCBPrio[t]] = t
         /\ \A t, u \in OSTCBList : OSTCBPrio[t] = OSTCBPrio[u] => t = u
         /\ \A p \in OSRdyTbl : /\ p \in Prios /\ OSTCBPrioTbl[p] \in OSTCBList \ Dying
                                /\ OSTCBPrioTbl[p] \in Tcb /\ OSTCBPrio[OSTCBPrioTbl[p]] = p
  BY DEF IInv, Linked, PrioTblConsistent, TypeOK, ReadyExactly

\* A task on the CPU that has nothing to do for OS_Sched is ready.
LEMMA CurReady ==
  ASSUME IInv, OSLockNesting = 0, pc[OSTCBCur] \notin NotSwitched
  PROVE  /\ OSTCBPrio[OSTCBCur] = OSPrioCur /\ OSPrioCur \in OSRdyTbl
         /\ OSTCBPrioTbl[OSPrioCur] = OSTCBCur /\ Dying = {}
         /\ OSTCBStat[OSTCBCur] = {} /\ OSTCBDly[OSTCBCur] = 0
<1>1. OSPrioCur \in OSRdyTbl
  BY SomebodyReady DEF IInv, Cpu
<1>2. pc[OSTCBCur] # "del"
  BY DEF IInv, Places, TypeOK
<1>3. OSTCBPrioTbl[OSPrioCur] = OSTCBCur
  BY DEF IInv, Cpu, NotSwitched
<1>4. Dying = {}
  BY <1>2, DyingIs
<1>5. OSTCBPrio[OSTCBCur] = OSPrioCur
  BY <1>1, <1>3, OnePerPrio
<1> QED
  BY <1>1, <1>3, <1>4, <1>5 DEF IInv, ReadyExactly, Cpu

\* After OS_SchedNew and the switch, the most urgent ready task has the CPU, unless the
\* scheduler is locked.
LEMMA Dispatched ==
  ASSUME IInv, NEW rdy \in SUBSET Prios, LowestPrio \in rdy,
         \A p \in rdy : OSTCBPrioTbl[p] \in OSTCBList,
         Dispatch(rdy, OSTCBPrioTbl, OSLockNesting)
  PROVE  IF OSLockNesting = 0
         THEN /\ OSPrioCur' = Min(rdy) /\ OSPrioCur' \in rdy
              /\ OSTCBCur' = OSTCBPrioTbl[OSPrioCur'] /\ OSTCBCur' \in OSTCBList
         ELSE OSTCBCur' = OSTCBCur /\ OSPrioCur' = OSPrioCur
<1>1. Min(rdy) \in rdy
  BY MinOf, SomebodyReady
<1>2. CASE OSLockNesting = 0 /\ Min(rdy) # OSPrioCur
  BY <1>1, <1>2 DEF Dispatch
<1>3. CASE OSLockNesting = 0 /\ Min(rdy) = OSPrioCur
  <2>1. OSPrioCur' = OSPrioCur /\ OSTCBCur' = OSTCBCur
    BY <1>3 DEF Dispatch, cpuVars
  <2>2. OSTCBPrioTbl[OSPrioCur] \in Tcb
    BY <1>1, <1>3 DEF IInv, TypeOK
  <2>3. Null \notin Tcb
    BY KernelAssumption
  <2>4. OSTCBPrioTbl[OSPrioCur] = OSTCBCur
    BY <2>2, <2>3 DEF IInv, Cpu
  <2> QED
    BY <1>1, <1>3, <2>1, <2>4
<1>4. CASE OSLockNesting # 0
  BY <1>4 DEF Dispatch, cpuVars
<1> QED
  BY <1>2, <1>3, <1>4

-----------------------------------------------------------------------------
\* The tasks main() creates are linked, ready and own their priorities.
LEMMA Initially == ASSUME Steady PROVE Init => IInv
<1> SUFFICES ASSUME Init PROVE IInv
  OBVIOUS
<1>1. /\ Tasks0 \subseteq Task /\ Idle \notin Task /\ Null \notin Tcb /\ Reserved \notin Tcb
      /\ LowestPrio \in Nat /\ LowestPrio \in Prios
      /\ \A t \in Tasks0 : InitPrio[t] \in Prios /\ InitPrio[t] # LowestPrio
      /\ \A t, u \in Tasks0 : InitPrio[t] = InitPrio[u] => t = u
  BY KernelAssumption DEF Tasks0, Prios, Tcb
<1>2. \A t \in Tasks0 : OSTCBPrioTbl[InitPrio[t]] = t /\ OSTCBPrio[t] = InitPrio[t]
  <2> TAKE t \in Tasks0
  <2>1. (CHOOSE u \in Tasks0 : InitPrio[u] = InitPrio[t]) = t
    BY <1>1
  <2> QED
    BY <1>1, <2>1 DEF Init, Tcb
<1>3. \A p \in Prios : OSTCBPrioTbl[p] \in Tasks0 \cup {Idle, Null}
  <2> TAKE p \in Prios
  <2>1. CASE \E t \in Tasks0 : InitPrio[t] = p
    BY <1>1, <1>2, <2>1
  <2>2. CASE ~ \E t \in Tasks0 : InitPrio[t] = p
    BY <2>2 DEF Init
  <2> QED
    BY <2>1, <2>2
<1>4. \A p \in Prios : OSTCBPrioTbl[p] \in Tasks0 \cup {Idle} => OSTCBPrio[OSTCBPrioTbl[p]] = p
  <2> TAKE p \in Prios
  <2>1. CASE \E t \in Tasks0 : InitPrio[t] = p
    BY <1>1, <1>2, <2>1
  <2>2. CASE ~ (\E t \in Tasks0 : InitPrio[t] = p) /\ p # LowestPrio
    BY <1>1, <2>2 DEF Init, Tcb
  <2>3. CASE p = LowestPrio
    BY <1>1, <2>3 DEF Init, Tcb
  <2> QED
    BY <2>1, <2>2, <2>3
<1>5. /\ OSTCBPrioTbl[LowestPrio] = Idle /\ OSTCBPrio[Idle] = LowestPrio
      /\ OSTCBList = Tasks0 \cup {Idle} /\ OSTCBFreeList = Task \ Tasks0
  BY <1>1 DEF Init, Tcb
<1>6. OSRdyTbl \in SUBSET Prios /\ LowestPrio \in OSRdyTbl /\ \A p \in OSRdyTbl : OSTCBPrioTbl[p] \in OSTCBList
  BY <1>1, <1>2, <1>5 DEF Init
<1>7. OSPrioCur = Min(OSRdyTbl) /\ OSPrioCur \in OSRdyTbl /\ OSTCBCur = OSTCBPrioTbl[OSPrioCur]
  <2>1. Prios \subseteq Nat
    BY <1>1 DEF Prios
  <2> QED
    BY <1>6, <2>1, MinOf DEF Init
<1>8. OSEventCnt \in [Sem -> 0 .. MaxCnt]
  BY KernelAssumption DEF Init
<1>9. TypeOK
  <2>1. OSTCBPrioTbl \in [Prios -> Tcb \cup {Null, Reserved}]
    BY <1>1, <1>3 DEF Init, Tcb
  <2>2. /\ OSTCBList \subseteq Tcb /\ OSTCBFreeList \subseteq Task
        /\ OSTCBPrio \in [Tcb -> Prios] /\ OSTCBCur \in Tcb /\ OSPrioCur \in Prios
    <3>1. OSTCBList \subseteq Tcb /\ OSTCBFreeList \subseteq Task
      BY <1>1, <1>5 DEF Tcb
    <3>2. OSTCBPrio \in [Tcb -> Prios]
      BY <1>1 DEF Init
    <3>3. OSTCBCur \in Tcb /\ OSPrioCur \in Prios
      BY <1>6, <1>7, <3>1
    <3> QED
      BY <3>1, <3>2, <3>3
  <2>3. /\ OSTCBStat \in [Tcb -> SUBSET {"SEM", "SUSPEND"}]
        /\ OSTCBStatPend \in [Tcb -> {"OK", "TO", "ABORT"}]
        /\ OSTCBDly \in [Tcb -> 0 .. MaxDly] /\ OSTCBEventPtr \in [Tcb -> Sem \cup {Null}]
        /\ OSLockNesting \in 0 .. MaxLock + 1
    BY KernelAssumption DEF Init
  <2>4. /\ OSEventType \in [Sem -> {"UNUSED", "SEM"}] /\ OSEventFreeList \subseteq Sem
        /\ OSEventTbl \in [Sem -> SUBSET Prios]
    BY DEF Init
  <2>5. /\ pc \in [Tcb -> PC] /\ pevent \in [Tcb -> Sem \cup {Null}]
        /\ pprio \in [Tcb -> Prios] /\ pTCB \in [Tcb -> Task \cup {Null}]
    BY <1>1 DEF Init, PC
  <2>6. tokens \in [Sem -> Int]
    BY <1>8, KernelAssumption DEF Init
  <2> QED
    BY <1>6, <1>8, <2>1, <2>2, <2>3, <2>4, <2>5, <2>6 DEF TypeOK
<1>10. \A t \in Tcb : pc[t] = IF t \in OSTCBList THEN "run" ELSE "none"
  BY <1>5 DEF Init
<1>11. Dying = {}
  BY <1>9, <1>10, DyingIs DEF TypeOK
<1>12. Places
  BY <1>10 DEF Places, InSem, Pending
<1>13. Waiting /\ IdleReady
  BY <1>5, <1>9, <1>10 DEF Waiting, IdleReady, Woken, Pending, Init, TypeOK, Tcb
<1>14. Linked
  <2>1. \A t \in OSTCBList : OSTCBPrioTbl[OSTCBPrio[t]] = t
    BY <1>2, <1>5
  <2>2. \A p \in Prios : OSTCBPrioTbl[p] \in Tcb => OSTCBPrioTbl[p] \in Tasks0 \cup {Idle}
    BY <1>1, <1>3 DEF Tcb
  <2>3. Idle \in OSTCBList /\ OSTCBList \cap OSTCBFreeList = {}
    BY <1>1, <1>5
  <2>4. \A p \in Prios : OSTCBPrioTbl[p] \in Tcb => OSTCBPrio[OSTCBPrioTbl[p]] = p
    BY <1>4, <2>2
  <2>5. \A p \in Prios : OSTCBPrioTbl[p] \in Tcb => OSTCBPrioTbl[p] \in OSTCBList
    BY <1>5, <2>2
  <2> QED
    BY <2>1, <2>3, <2>4, <2>5, Zenon DEF Linked, PrioTblConsistent
<1>15. Cpu
  <2>1. OSTCBCur \in OSTCBList /\ pc[OSTCBCur] = "run"
    BY <1>6, <1>7, <1>9, <1>10 DEF TypeOK
  <2>2. OSLockNesting = 0 /\ MaxLock \in Nat
    BY KernelAssumption DEF Init
  <2> QED
    BY <1>7, <2>1, <2>2 DEF Cpu, Pending
<1>16. ReadyExactly
  <2>1. \A t \in OSTCBList : OSTCBPrio[t] \in OSRdyTbl
    <3>1. \A t \in Tasks0 : InitPrio[t] \in OSRdyTbl
      BY DEF Init
    <3> QED
      BY <1>2, <1>5, <1>6, <3>1
  <2>2. \A t \in OSTCBList : OSTCBStat[t] = {} /\ OSTCBDly[t] = 0
    BY <1>9 DEF Init, TypeOK
  <2> QED
    BY <1>6, <1>11, <2>1, <2>2 DEF ReadyExactly
<1>17. WaitListConsistent /\ NoWaitWithTokens
  <2>1. \A s \in Sem : OSEventTbl[s] = {}
    BY DEF Init
  <2>2. \A t \in OSTCBList : OSTCBEventPtr[t] \notin Sem
    BY <1>9, KernelAssumption DEF Init, TypeOK
  <2> QED
    BY <2>1, <2>2 DEF WaitListConsistent, NoWaitWithTokens
<1>18. TokensConserved
  <2> SUFFICES ASSUME NEW s \in Sem PROVE tokens[s] = OSEventCnt[s] + Cardinality(Granted(s))
    BY DEF TokensConserved
  <2>1. Granted(s) = {}
    BY <1>9, <1>10 DEF Granted, TypeOK
  <2>2. Cardinality(Granted(s)) = 0
    BY <2>1, FS_EmptySet
  <2> QED
    BY <1>8, <2>2, KernelAssumption DEF Init
<1> QED
  BY <1>9, <1>12, <1>13, <1>14, <1>15, <1>16, <1>17, <1>18 DEF IInv

-----------------------------------------------------------------------------
(* The tick.                                                               *)

\* Delays of linked tasks only, so the tick readies no task that is being deleted.
LEMMA TickKeeps == ASSUME Steady, IInv, Tick PROVE IInv'
<1> DEFINE due == {t \in Live : Due(t)}
           rdy == OSRdyTbl \cup Readied(due)
<1>0. /\ TypeOK /\ Places /\ Waiting /\ Linked /\ IdleReady /\ Cpu
      /\ ReadyExactly /\ WaitListConsistent /\ NoWaitWithTokens /\ TokensConserved
  BY DEF IInv
<1>1. /\ OSTCBPrio' = OSTCBPrio /\ OSTCBEventPtr' = OSTCBEventPtr /\ OSTCBPrioTbl' = OSTCBPrioTbl
      /\ OSTCBList' = OSTCBList /\ OSTCBFreeList' = OSTCBFreeList
      /\ OSLockNesting' = OSLockNesting /\ OSEventType' = OSEventType
      /\ OSEventFreeList' = OSEventFreeList /\ OSEventCnt' = OSEventCnt /\ OSEventTbl' = OSEventTbl
      /\ pc' = pc /\ pevent' = pevent /\ pprio' = pprio /\ pTCB' = pTCB /\ tokens' = tokens
      /\ OSRdyTbl' = rdy /\ Dispatch(rdy, OSTCBPrioTbl, OSLockNesting)
  BY DEF Tick, listVars, evVars, locals
<1>2. /\ OSTCBDly' = [t \in Tcb |-> IF t \in Live /\ OSTCBDly[t] # 0
                                  THEN OSTCBDly[t] - 1 ELSE OSTCBDly[t]]
      /\ OSTCBStatPend' = [t \in Tcb |->
           IF Due(t) THEN PendStatAfterTick(t) ELSE OSTCBStatPend[t]]
      /\ OSTCBStat' = [t \in Tcb |->
           IF Due(t) THEN OSTCBStat[t] \ {"SEM"} ELSE OSTCBStat[t]]
  BY DEF Tick
<1>3. \A t \in Tcb : /\ OSTCBDly[t] \in Nat /\ OSTCBDly[t] \in 0 .. MaxDly
                     /\ OSTCBStat[t] \in SUBSET {"SEM", "SUSPEND"}
                     /\ OSTCBStatPend[t] \in {"OK", "TO", "ABORT"}
  BY <1>0, KernelAssumption DEF TypeOK
<1>4. \A t \in OSTCBList \ Dying : t \in Tcb /\ t \in OSTCBList
  BY <1>0 DEF TypeOK
<1>5. \A t \in due : /\ t \in OSTCBList /\ t \notin Dying /\ t \in Tcb /\ OSTCBDly[t] = 1 /\ t # Idle
                     /\ OSTCBPrio[t] \in Prios /\ OSTCBPrioTbl[OSTCBPrio[t]] = t
  <2>1. \A t \in Dying : OSTCBDly[t] = 0
    BY <1>0, DyingIs DEF Places, TypeOK
  <2> QED
    BY <1>0, <2>1, OnePerPrio DEF Due, Live, TypeOK
<1>6. /\ rdy \in SUBSET Prios /\ LowestPrio \in rdy
      /\ \A p \in rdy : OSTCBPrioTbl[p] \in OSTCBList \ Dying
  BY <1>0, <1>5, SomebodyReady DEF Readied, ReadyExactly
<1>7. IF OSLockNesting = 0
      THEN /\ OSPrioCur' = Min(rdy) /\ OSPrioCur' \in rdy
           /\ OSTCBCur' = OSTCBPrioTbl[OSPrioCur'] /\ OSTCBCur' \in OSTCBList \ Dying
      ELSE OSTCBCur' = OSTCBCur /\ OSPrioCur' = OSPrioCur
  BY <1>1, <1>6, Dispatched
<1>8. OSTCBCur' \in Tcb /\ OSPrioCur' \in Prios
  BY <1>0, <1>6, <1>7 DEF TypeOK
<1>9. Dying' = Dying
  <2>1. CASE OSLockNesting = 0
    <3>1. pc[OSTCBCur] # "del" /\ pc[OSTCBCur'] # "del"
      BY <1>0, <1>8, <2>1 DEF Places, TypeOK
    <3> QED
      BY <1>1, <3>1, DyingIs
  <2>2. CASE OSLockNesting # 0
    BY <1>1, <1>7, <2>2, DyingIs
  <2> QED
    BY <2>1, <2>2
<1>10. TypeOK'
  <2>1. OSTCBDly' \in [Tcb -> 0 .. MaxDly]
    <3>1. \A t \in Tcb : OSTCBDly[t] # 0 => OSTCBDly[t] - 1 \in 0 .. MaxDly
      BY <1>3, KernelAssumption
    <3> QED
      BY <1>2, <1>3, <3>1
  <2>2. /\ OSTCBStat' \in [Tcb -> SUBSET {"SEM", "SUSPEND"}]
        /\ OSTCBStatPend' \in [Tcb -> {"OK", "TO", "ABORT"}]
    BY <1>2, <1>3 DEF PendStatAfterTick
  <2> QED
    BY <1>0, <1>1, <1>6, <1>8, <2>1, <2>2 DEF TypeOK
<1>11. Places'
  <2> SUFFICES ASSUME NEW t \in Tcb
               PROVE  /\ pc[t] \in InSem \cup {"none", "run", "sched", "del"}
                      /\ pc[t] \in InSem => pevent[t] \in Sem
                      /\ pc[t] = "none" /\ t \in OSTCBList => t \in Dying
                      /\ pc[t] = "del" =>
                           /\ t = OSTCBCur' /\ OSLockNesting > 0
                           /\ pTCB[t] \in OSTCBList \ {Idle} /\ pprio[t] = OSTCBPrio[pTCB[t]]
                           /\ pTCB[t] = t \/ "OSSchedLock" \notin Calls => OSLockNesting = 1
                           /\ pTCB[t] # t => pc[pTCB[t]] = "none"
                           /\ OSTCBDly'[pTCB[t]] = 0
    BY <1>1, <1>9 DEF Places
  <2>1. ASSUME pc[t] = "del"
        PROVE  t = OSTCBCur' /\ OSTCBDly'[pTCB[t]] = 0
    <3>1. OSLockNesting # 0 /\ t = OSTCBCur /\ OSTCBDly[pTCB[t]] = 0 /\ pTCB[t] \in Tcb
      BY <1>0, <2>1 DEF Places, TypeOK
    <3> QED
      BY <1>2, <1>7, <3>1
  <2> QED
    BY <1>0, <2>1 DEF Places
<1>12. Waiting'
  <2> SUFFICES ASSUME NEW t \in OSTCBList
               PROVE  IF pc[t] \in Pending THEN (Waits(t) \/ Late(t) \/ Answered(t))'
                      ELSE Woken(t)' /\ OSTCBStatPend'[t] = "OK"
    BY <1>1 DEF Waiting
  <2>1. t \in Tcb
    BY <1>0 DEF TypeOK
  <2>2. IF pc[t] \in Pending THEN Waits(t) \/ Late(t) \/ Answered(t)
        ELSE Woken(t) /\ OSTCBStatPend[t] = "OK"
    BY <1>0 DEF Waiting
  <2>3. CASE Due(t)
    <3>1. OSTCBDly[t] = 1 /\ OSTCBDly'[t] = 0 /\ "SEM" \notin OSTCBStat'[t]
          /\ OSTCBStatPend'[t] = IF "SEM" \in OSTCBStat[t] THEN "TO" ELSE "OK"
      BY <1>2, <2>1, <2>3 DEF Due, PendStatAfterTick
    <3>2. CASE pc[t] \in Pending
      BY <1>1, <2>2, <3>1, <3>2 DEF Waits, Late, Answered
    <3>3. CASE pc[t] \notin Pending
      BY <1>1, <2>2, <3>1, <3>3 DEF Woken
    <3> QED
      BY <3>2, <3>3
  <2>4. CASE ~ Due(t)
    <3>1. /\ OSTCBStat'[t] = OSTCBStat[t] /\ OSTCBStatPend'[t] = OSTCBStatPend[t]
          /\ OSTCBDly[t] = 0 => OSTCBDly'[t] = 0
      BY <1>2, <2>1, <2>4
    <3> QED
      BY <1>1, <2>2, <3>1 DEF Waits, Late, Answered, Woken
  <2> QED
    BY <2>3, <2>4
<1>13. Linked'
  BY <1>0, <1>1 DEF Linked, PrioTblConsistent
<1>14. IdleReady'
  BY <1>0, <1>1, <1>2 DEF IdleReady, Due, Live, Tcb
<1>15. Cpu'
  <2>1. CASE OSLockNesting = 0
    <3>1. pc[OSTCBCur'] # "none" /\ MaxLock \in Nat
      BY <1>0, <1>7, <1>8, <2>1, KernelAssumption DEF Places
    <3> QED
      BY <1>1, <1>7, <2>1, <3>1 DEF Cpu
  <2>2. CASE OSLockNesting # 0
    BY <1>0, <1>1, <1>7, <2>2 DEF Cpu
  <2> QED
    BY <2>1, <2>2
<1>16. ReadyExactly'
  <2>1. ASSUME NEW t \in OSTCBList \ Dying
        PROVE  OSTCBPrio[t] \in rdy <=> OSTCBStat'[t] = {} /\ OSTCBDly'[t] = 0
    <3>1. /\ t \in Tcb /\ t \in OSTCBList
          /\ OSTCBPrio[t] \in OSRdyTbl <=> OSTCBStat[t] = {} /\ OSTCBDly[t] = 0
      BY <1>0, <1>4 DEF ReadyExactly
    <3>2. OSTCBPrio[t] \in Readied(due) <=> t \in due /\ "SUSPEND" \notin OSTCBStat[t]
      BY <1>5, <3>1, OnePerPrio DEF Readied
    <3>3. CASE t \in due
      <4>1. OSTCBDly[t] = 1 /\ OSTCBDly'[t] = 0 /\ OSTCBStat'[t] = OSTCBStat[t] \ {"SEM"}
        BY <1>2, <1>5, <3>1, <3>3 DEF Live
      <4>2. OSTCBStat'[t] = {} <=> "SUSPEND" \notin OSTCBStat[t]
        BY <1>3, <3>1, <4>1
      <4> QED
        BY <3>1, <3>2, <3>3, <4>1, <4>2
    <3>4. CASE t \notin due
      <4>1. ~ Due(t)
        BY <3>1, <3>4 DEF Due
      <4>2. OSTCBStat'[t] = OSTCBStat[t]
        BY <1>2, <3>1, <4>1
      <4>3. OSTCBDly'[t] = 0 <=> OSTCBDly[t] = 0
        <5>1. CASE t \in Live
          BY <1>2, <1>3, <3>1, <4>1, <5>1 DEF Due
        <5>2. CASE t = Idle
          BY <1>0, <1>2, <3>1, <5>2 DEF IdleReady
        <5> QED
          BY <3>1, <5>1, <5>2 DEF Live
      <4> QED
        BY <3>1, <3>2, <3>4, <4>2, <4>3
    <3> QED
      BY <3>3, <3>4
  <2> QED
    BY <1>1, <1>6, <1>9, <2>1 DEF ReadyExactly
<1>17. WaitListConsistent'
  <2> SUFFICES ASSUME NEW s \in Sem, NEW t \in OSTCBList, OSTCBEventPtr[t] = s
               PROVE  "SEM" \in OSTCBStat'[t] \/ OSTCBStatPend'[t] = "TO"
    BY <1>0, <1>1 DEF WaitListConsistent
  <2>1. t \in Tcb /\ ("SEM" \in OSTCBStat[t] \/ OSTCBStatPend[t] = "TO")
    BY <1>0 DEF WaitListConsistent, TypeOK
  <2>2. "SEM" \notin OSTCBStat[t] => OSTCBDly[t] = 0
    <3>1. OSTCBEventPtr[t] # Null
      BY KernelAssumption
    <3> QED
      BY <1>0, <3>1 DEF Waiting, Waits, Late, Answered, Woken
  <2> QED
    BY <1>2, <2>1, <2>2 DEF Due, PendStatAfterTick
<1>18. NoWaitWithTokens'
  BY <1>0, <1>1 DEF NoWaitWithTokens
<1>19. TokensConserved'
  <2>1. ASSUME NEW s \in Sem PROVE Granted(s)' = Granted(s)
    <3>1. ASSUME NEW t \in OSTCBList, pc[t] \in Pending
          PROVE  /\ OSTCBStatPend'[t] = "OK" /\ "SEM" \notin OSTCBStat'[t]
                 <=> OSTCBStatPend[t] = "OK" /\ "SEM" \notin OSTCBStat[t]
      <4>1. t \in Tcb /\ (Waits(t) \/ Late(t) \/ Answered(t))
        BY <1>0, <3>1 DEF Waiting, TypeOK
      <4>2. CASE Due(t)
        BY <1>2, <4>1, <4>2 DEF Due, PendStatAfterTick, Waits, Late, Answered, Woken
      <4>3. CASE ~ Due(t)
        BY <1>2, <4>1, <4>3
      <4> QED
        BY <4>2, <4>3
    <3> QED
      BY <1>1, <3>1 DEF Granted, Pending
  <2> QED
    BY <1>0, <1>1, <2>1 DEF TokensConserved
<1> QED
  BY <1>10, <1>11, <1>12, <1>13, <1>14, <1>15, <1>16, <1>17, <1>18, <1>19 DEF IInv

(* Where a step of a service leaves the tasks.                             *)

\* Outside OSTaskDel nobody is being deleted, and every linked task is somewhere.
LEMMA NobodyDies ==
  ASSUME IInv, pc[OSTCBCur] # "del"
  PROVE  /\ Dying = {}
         /\ \A t \in Tcb : pc[t] # "del"
         /\ \A t \in OSTCBList : t \in Tcb /\ pc[t] # "none"
<1>1. Dying = {}
  BY DyingIs
<1>2. \A t \in Tcb : pc[t] # "del"
  BY DEF IInv, Places
<1> QED
  BY <1>1, <1>2 DEF IInv, Places, TypeOK

\* The tokens on their way to tasks can be counted.
LEMMA GrantedFinite ==
  ASSUME Steady, IInv, NEW s
  PROVE  IsFiniteSet(Granted(s)) /\ Cardinality(Granted(s)) \in Nat
<1>1. IsFiniteSet(Tcb)
  BY FS_Singleton, FS_Union DEF Steady, Tcb
<1>2. Granted(s) \subseteq Tcb
  BY DEF IInv, TypeOK, Granted
<1> QED
  BY <1>1, <1>2, FS_Subset, FS_CardinalityType

\* The task on the CPU moves on inside a service or returns from it.
LEMMA Moved ==
  ASSUME IInv, NEW l \in InSem \cup {"run", "sched"},
         pc[OSTCBCur] # "del", OSTCBCur # Idle,
         pc' = [pc EXCEPT ![OSTCBCur] = l], OSTCBList' \subseteq OSTCBList, OSTCBCur' \in Tcb,
         \A t \in Tcb \ {OSTCBCur} : pevent'[t] = pevent[t],
         l \in InSem => pevent'[OSTCBCur] \in Sem
  PROVE  /\ Places' /\ Dying' = {} /\ pc'[Idle] = "run" /\ pc' \in [Tcb -> PC]
         /\ pc'[OSTCBCur] = l /\ \A t \in Tcb \ {OSTCBCur} : pc'[t] = pc[t]
<1>1. /\ pc \in [Tcb -> PC] /\ OSTCBCur \in Tcb /\ Idle \in Tcb
      /\ OSTCBList \subseteq Tcb /\ Places /\ pc[Idle] = "run"
  BY DEF IInv, TypeOK, IdleReady, Tcb
<1>2. pc'[OSTCBCur] = l /\ \A t \in Tcb \ {OSTCBCur} : pc'[t] = pc[t]
  BY <1>1
<1>3. \A t \in Tcb : pc'[t] # "del"
  BY <1>2, NobodyDies DEF InSem, Pending
<1>4. l \in PC
  BY DEF InSem, Pending, PC, SemCalls
<1>5. Places'
  <2>1. \A t \in Tcb : /\ pc'[t] \in InSem \cup {"none", "run", "sched", "del"}
                       /\ pc'[t] \in InSem => pevent'[t] \in Sem
    BY <1>1, <1>2 DEF Places
  <2>2. \A t \in OSTCBList : pc'[t] # "none"
    BY <1>1, <1>2, NobodyDies DEF InSem, Pending
  <2> QED
    BY <1>3, <2>1, <2>2 DEF Places
<1>6. Dying' = {}
  BY <1>3, DyingIs
<1>7. pc'[Idle] = "run" /\ pc' \in [Tcb -> PC]
  BY <1>1, <1>4
<1> QED
  BY <1>2, <1>5, <1>6, <1>7

\* A step that touches no block, no list and no other task: entering a service, taking
\* or leaving tokens, the scheduler lock.
LEMMA Quiet ==
  ASSUME Steady, IInv, NEW l \in (InSem \ Pending) \cup {"run", "sched"},
         pc[OSTCBCur] \notin NotSwitched \cup {"pendRet", "del"}, OSTCBCur # Idle,
         pc' = [pc EXCEPT ![OSTCBCur] = l],
         UNCHANGED <<tcbVars, listVars, OSRdyTbl, cpuVars, OSEventTbl, OSEventType,
                     OSEventFreeList>>,
         pevent' \in [Tcb -> Sem \cup {Null}], pprio' \in [Tcb -> Prios],
         pTCB' \in [Tcb -> Task \cup {Null}],
         \A t \in Tcb \ {OSTCBCur} : pevent'[t] = pevent[t],
         l \in InSem => pevent'[OSTCBCur] \in Sem,
         OSLockNesting' \in 0 .. MaxLock,
         l = "OSSemPend" => OSLockNesting' = 0,
         l # "sched" /\ OSLockNesting' = 0 => OSLockNesting = 0,
         "OSSchedLock" \notin Calls => OSLockNesting' = 0,
         OSEventCnt' \in [Sem -> 0 .. MaxCnt], tokens' \in [Sem -> Int],
         \A s \in Sem : /\ OSEventCnt'[s] > 0 => OSEventTbl[s] = {}
                        /\ tokens'[s] - tokens[s] = OSEventCnt'[s] - OSEventCnt[s]
  PROVE  IInv'
<1>0. /\ TypeOK /\ Places /\ Waiting /\ Linked /\ IdleReady /\ Cpu
      /\ ReadyExactly /\ WaitListConsistent /\ NoWaitWithTokens /\ TokensConserved
  BY DEF IInv
<1>1. /\ OSTCBPrio' = OSTCBPrio /\ OSTCBStat' = OSTCBStat /\ OSTCBStatPend' = OSTCBStatPend
      /\ OSTCBDly' = OSTCBDly /\ OSTCBEventPtr' = OSTCBEventPtr
      /\ OSTCBPrioTbl' = OSTCBPrioTbl /\ OSTCBList' = OSTCBList /\ OSTCBFreeList' = OSTCBFreeList
      /\ OSRdyTbl' = OSRdyTbl /\ OSTCBCur' = OSTCBCur /\ OSPrioCur' = OSPrioCur
      /\ OSEventTbl' = OSEventTbl /\ OSEventType' = OSEventType /\ OSEventFreeList' = OSEventFreeList
  BY DEF tcbVars, listVars, cpuVars
<1>2. /\ l \in InSem \cup {"run", "sched"} /\ pc[OSTCBCur] # "del"
      /\ l \notin Pending /\ pc[OSTCBCur] \notin Pending
  BY DEF Pending, NotSwitched, InSem
<1>3. OSTCBCur \in Tcb /\ OSTCBCur' \in Tcb /\ OSTCBList' \subseteq OSTCBList /\ OSTCBList \subseteq Tcb
  BY <1>0, <1>1 DEF TypeOK
<1>4. /\ Places' /\ Dying' = {} /\ pc'[Idle] = "run" /\ pc' \in [Tcb -> PC]
      /\ pc'[OSTCBCur] = l /\ \A t \in Tcb \ {OSTCBCur} : pc'[t] = pc[t]
  BY <1>2, <1>3, Moved, Zenon
<1>5. Dying = {}
  BY <1>2, NobodyDies
<1>6. TypeOK'
  <2>1. OSLockNesting' \in 0 .. MaxLock + 1
    BY KernelAssumption
  <2> QED
    BY <1>0, <1>1, <1>4, <2>1 DEF TypeOK
<1>7. Waiting'
  <2> SUFFICES ASSUME NEW t \in OSTCBList
               PROVE  IF pc'[t] \in Pending THEN (Waits(t) \/ Late(t) \/ Answered(t))'
                      ELSE Woken(t)' /\ OSTCBStatPend[t] = "OK"
    BY <1>1 DEF Waiting
  <2>1. CASE t = OSTCBCur
    BY <1>0, <1>1, <1>2, <1>4, <2>1 DEF Waiting, Woken
  <2>2. CASE t # OSTCBCur
    <3>1. pc'[t] = pc[t] /\ pevent'[t] = pevent[t]
      BY <1>3, <1>4, <2>2
    <3> QED
      BY <1>0, <1>1, <3>1 DEF Waiting, Woken, Waits, Late, Answered
  <2> QED
    BY <2>1, <2>2
<1>8. Linked' /\ IdleReady'
  BY <1>0, <1>1, <1>4 DEF Linked, PrioTblConsistent, IdleReady
<1>9. Cpu'
  <2>1. OSTCBPrioTbl[OSPrioCur] = OSTCBCur
    BY <1>0, <1>2 DEF Cpu, NotSwitched
  <2>2. l \notin {"none", "del"} /\ OSLockNesting' <= MaxLock
    BY KernelAssumption DEF InSem, Pending
  <2>3. OSLockNesting' = 0 /\ l \notin NotSwitched => OSPrioCur = Min(OSRdyTbl)
    BY <1>0 DEF Cpu, NotSwitched
  <2> QED
    BY <1>0, <1>1, <1>2, <1>4, <2>1, <2>2, <2>3 DEF Cpu
<1>10. ReadyExactly'
  BY <1>0, <1>1, <1>4, <1>5 DEF ReadyExactly
<1>11. WaitListConsistent'
  <2> SUFFICES ASSUME NEW s \in Sem, NEW t \in OSTCBList, OSTCBEventPtr[t] = s
               PROVE  pc'[t] \in Pending /\ pevent'[t] = s
    BY <1>0, <1>1 DEF WaitListConsistent, Pending
  <2>1. pc[t] \in Pending /\ pevent[t] = s
    BY <1>0 DEF WaitListConsistent, Pending
  <2> QED
    BY <1>2, <1>3, <1>4, <2>1
<1>12. NoWaitWithTokens'
  BY <1>1 DEF NoWaitWithTokens
<1>13. TokensConserved'
  <2> SUFFICES ASSUME NEW s \in Sem
               PROVE  tokens'[s] = OSEventCnt'[s] + Cardinality(Granted(s)')
    BY DEF TokensConserved
  <2>1. Granted(s)' = Granted(s)
    <3>1. \A t \in OSTCBList : pc'[t] \in Pending /\ pevent'[t] = s <=> pc[t] \in Pending /\ pevent[t] = s
      BY <1>2, <1>3, <1>4
    <3> QED
      BY <1>1, <3>1 DEF Granted, Pending
  <2>2. tokens[s] = OSEventCnt[s] + Cardinality(Granted(s))
    BY <1>0 DEF TokensConserved
  <2>3. tokens[s] \in Int /\ tokens'[s] \in Int /\ OSEventCnt[s] \in Int /\ OSEventCnt'[s] \in Int
    BY <1>0, KernelAssumption DEF TypeOK
  <2>4. Cardinality(Granted(s)) \in Int
    BY GrantedFinite
  <2>5. tokens'[s] - tokens[s] = OSEventCnt'[s] - OSEventCnt[s]
    OBVIOUS
  <2> QED
    BY <2>1, <2>2, <2>3, <2>4, <2>5
<1> QED
  BY <1>4, <1>6, <1>7, <1>8, <1>9, <1>10, <1>11, <1>12, <1>13 DEF IInv

-----------------------------------------------------------------------------
(* The services that touch no block.                                       *)

\* The nesting a service other than OSTaskDel finds.
LEMMA Nesting ==
  ASSUME IInv, pc[OSTCBCur] # "del"
  PROVE  OSLockNesting \in 0 .. MaxLock /\ ("OSSchedLock" \notin Calls => OSLockNesting = 0)
  BY KernelAssumption DEF IInv, Cpu, TypeOK

\* OSSchedUnlock leaves OS_Sched to do when it gives the last lock back.
LEMMA LockKeeps == ASSUME Steady, IInv, OSSchedLock \/ OSSchedUnlock PROVE IInv'
<1>1. /\ OSTCBCur # Idle /\ pc[OSTCBCur] = "run" /\ "OSSchedLock" \in Calls
      /\ UNCHANGED <<tcbVars, listVars, OSRdyTbl, cpuVars, OSEventTbl, OSEventType,
                     OSEventFreeList, OSEventCnt, locals, tokens>>
  BY DEF OSSchedLock, OSSchedUnlock, MayCall, At, evVars
<1>2. /\ pc[OSTCBCur] \notin NotSwitched \cup {"pendRet", "del"}
      /\ pevent' \in [Tcb -> Sem \cup {Null}] /\ pprio' \in [Tcb -> Prios]
      /\ pTCB' \in [Tcb -> Task \cup {Null}]
      /\ \A t \in Tcb \ {OSTCBCur} : pevent'[t] = pevent[t]
      /\ OSEventCnt' \in [Sem -> 0 .. MaxCnt] /\ tokens' \in [Sem -> Int]
      /\ pc \in [Tcb -> PC] /\ OSTCBCur \in Tcb
  BY <1>1 DEF IInv, TypeOK, NotSwitched, locals
<1>3. OSLockNesting \in 0 .. MaxLock /\ MaxLock \in Nat
  BY <1>1, Nesting, KernelAssumption
<1>4. \A s \in Sem : /\ OSEventCnt'[s] > 0 => OSEventTbl[s] = {}
                     /\ tokens'[s] - tokens[s] = OSEventCnt'[s] - OSEventCnt[s]
  <2> TAKE s \in Sem
  <2>1. OSEventCnt'[s] > 0 => OSEventTbl[s] = {}
    BY <1>1 DEF IInv, NoWaitWithTokens
  <2>2. tokens[s] \in Int /\ OSEventCnt[s] \in Int
    BY KernelAssumption DEF IInv, TypeOK
  <2> QED
    BY <1>1, <2>1, <2>2
<1>5. CASE OSSchedLock
  <2>1. pc' = [pc EXCEPT ![OSTCBCur] = "run"]
    BY <1>1, <1>2, <1>5 DEF OSSchedLock
  <2>2. OSLockNesting' \in 1 .. MaxLock
    BY <1>3, <1>5 DEF OSSchedLock
  <2>3. "run" \in (InSem \ Pending) \cup {"run", "sched"} /\ "run" \notin InSem /\ "run" # "OSSemPend"
    BY DEF InSem, Pending
  <2>4. OSLockNesting' # 0 /\ OSLockNesting' \in 0 .. MaxLock
    BY <2>2, <1>3
  <2> QED
    BY <1>1, <1>2, <1>4, <2>1, <2>3, <2>4, Quiet, Zenon
<1>6. CASE OSSchedUnlock
  <2> DEFINE l == AfterUnlock
  <2>1. pc' = [pc EXCEPT ![OSTCBCur] = l]
    BY <1>6 DEF OSSchedUnlock, Goto
  <2>2. OSLockNesting' \in 0 .. MaxLock /\ (l # "sched" => OSLockNesting' # 0)
    BY <1>3, <1>6 DEF OSSchedUnlock, AfterUnlock
  <2>3. l \in (InSem \ Pending) \cup {"run", "sched"} /\ l \notin InSem /\ l # "OSSemPend"
    BY DEF AfterUnlock, InSem, Pending
  <2> HIDE DEF l
  <2> QED
    BY <1>1, <1>2, <1>4, <2>1, <2>2, <2>3, Quiet, Zenon
<1> QED
  BY <1>5, <1>6

\* The test of the type keeps the semaphore the service is about.
LEMMA EnterKeeps ==
  ASSUME Steady, IInv, NEW op \in SemCalls, NEW s \in Sem, SemEnter(op, s) PROVE IInv'
<1>1. /\ OSTCBCur # Idle /\ pc[OSTCBCur] = "run" /\ op \in SteadyCalls
      /\ UNCHANGED <<tcbVars, listVars, OSRdyTbl, cpuVars, OSEventTbl, OSEventType,
                     OSEventFreeList, OSEventCnt, OSLockNesting, pprio, pTCB, tokens>>
      /\ pc' = [pc EXCEPT ![OSTCBCur] = op] /\ pevent' = [pevent EXCEPT ![OSTCBCur] = s]
      /\ op = "OSSemPend" => OSLockNesting = 0
  BY DEF SemEnter, MayCall, At, evVars, Goto, Steady
<1>2. OSTCBCur \in Tcb /\ pevent \in [Tcb -> Sem \cup {Null}]
  BY DEF IInv, TypeOK
<1>3. /\ pc[OSTCBCur] \notin NotSwitched \cup {"pendRet", "del"} /\ pprio' \in [Tcb -> Prios]
      /\ pTCB' \in [Tcb -> Task \cup {Null}]
      /\ OSEventCnt' \in [Sem -> 0 .. MaxCnt] /\ tokens' \in [Sem -> Int]
  BY <1>1 DEF IInv, TypeOK, NotSwitched
<1>4. /\ pevent' \in [Tcb -> Sem \cup {Null}]
      /\ \A t \in Tcb \ {OSTCBCur} : pevent'[t] = pevent[t]
      /\ op \in InSem => pevent'[OSTCBCur] \in Sem
  BY <1>1, <1>2
<1>5. op \in (InSem \ Pending) \cup {"run", "sched"} /\ op # "sched"
  BY <1>1 DEF SemCalls, SteadyCalls, InSem, Pending
<1>6. \A x \in Sem : /\ OSEventCnt'[x] > 0 => OSEventTbl[x] = {}
                     /\ tokens'[x] - tokens[x] = OSEventCnt'[x] - OSEventCnt[x]
  <2> TAKE x \in Sem
  <2>1. OSEventCnt'[x] > 0 => OSEventTbl[x] = {}
    BY <1>1 DEF IInv, NoWaitWithTokens
  <2>2. tokens[x] \in Int /\ OSEventCnt[x] \in Int
    BY KernelAssumption DEF IInv, TypeOK
  <2> QED
    BY <1>1, <2>1, <2>2
<1>7. OSLockNesting' \in 0 .. MaxLock /\ ("OSSchedLock" \notin Calls => OSLockNesting' = 0)
      /\ (op = "OSSemPend" => OSLockNesting' = 0) /\ (OSLockNesting' = 0 => OSLockNesting = 0)
  <2>1. pc[OSTCBCur] # "del"
    BY <1>1
  <2> QED
    BY <1>1, <2>1, Nesting
<1> QED
  BY <1>1, <1>3, <1>4, <1>5, <1>6, <1>7, Quiet, Zenon

\* A semaphore service that returns without a wait and without waking anybody.
LEMMA CountKeeps ==
  ASSUME Steady, IInv, OSTCBCur # Idle, pc[OSTCBCur] \in InSem \ Pending, Return,
         UNCHANGED <<tcbVars, listVars, OSRdyTbl, cpuVars, OSEventTbl, OSEventType,
                     OSEventFreeList, OSLockNesting>>,
         NEW s \in Sem, NEW cnt \in 0 .. MaxCnt, cnt > 0 => OSEventTbl[s] = {},
         OSEventCnt' = [OSEventCnt EXCEPT ![s] = cnt],
         tokens' = [tokens EXCEPT ![s] = @ + cnt - OSEventCnt[s]]
  PROVE  IInv'
<1>1. /\ OSTCBCur \in Tcb /\ pevent \in [Tcb -> Sem \cup {Null}] /\ pprio \in [Tcb -> Prios]
      /\ pTCB \in [Tcb -> Task \cup {Null}] /\ LowestPrio \in Prios
      /\ OSEventCnt \in [Sem -> 0 .. MaxCnt] /\ tokens \in [Sem -> Int] /\ MaxCnt \in Nat
  BY KernelAssumption DEF IInv, TypeOK, Prios
<1>2. /\ pc' = [pc EXCEPT ![OSTCBCur] = "run"]
      /\ pevent' \in [Tcb -> Sem \cup {Null}] /\ pprio' \in [Tcb -> Prios]
      /\ pTCB' \in [Tcb -> Task \cup {Null}]
      /\ \A t \in Tcb \ {OSTCBCur} : pevent'[t] = pevent[t]
  BY <1>1 DEF Return, Goto
<1>3. pc[OSTCBCur] \notin NotSwitched \cup {"pendRet", "del"}
  BY DEF NotSwitched, InSem, Pending
<1>4. OSLockNesting' \in 0 .. MaxLock /\ ("OSSchedLock" \notin Calls => OSLockNesting' = 0)
      /\ (OSLockNesting' = 0 => OSLockNesting = 0)
  <2>1. pc[OSTCBCur] # "del"
    BY <1>3
  <2> QED
    BY <2>1, Nesting
<1>5. OSEventCnt' \in [Sem -> 0 .. MaxCnt] /\ tokens' \in [Sem -> Int]
  BY <1>1
<1>6. \A x \in Sem : /\ OSEventCnt'[x] > 0 => OSEventTbl[x] = {}
                     /\ tokens'[x] - tokens[x] = OSEventCnt'[x] - OSEventCnt[x]
  <2> TAKE x \in Sem
  <2>1. tokens[x] \in Int /\ OSEventCnt[x] \in Int
    BY <1>1
  <2>2. CASE x = s
    BY <1>1, <2>1, <2>2
  <2>3. CASE x # s
    <3>1. OSEventCnt'[x] = OSEventCnt[x] /\ tokens'[x] = tokens[x]
      BY <1>1, <2>3
    <3>2. OSEventCnt[x] > 0 => OSEventTbl[x] = {}
      BY DEF IInv, NoWaitWithTokens
    <3> QED
      BY <2>1, <3>1, <3>2
  <2> QED
    BY <2>2, <2>3
<1>7. "run" \in (InSem \ Pending) \cup {"run", "sched"} /\ "run" \notin InSem /\ "run" # "OSSemPend"
  BY DEF InSem, Pending
<1> QED
  BY <1>2, <1>3, <1>4, <1>5, <1>6, <1>7, Quiet, Zenon

\* OSSemAccept takes a token only where there is one, so nobody waits.
LEMMA AcceptKeeps == ASSUME Steady, IInv, SemAccept PROVE IInv'
<1> DEFINE s == pevent[OSTCBCur]
<1>1. /\ OSTCBCur # Idle /\ pc[OSTCBCur] \in InSem \ Pending /\ Return
      /\ UNCHANGED <<tcbVars, listVars, OSRdyTbl, cpuVars, OSEventTbl, OSEventType,
                     OSEventFreeList, OSLockNesting>>
  BY DEF SemAccept, At, InSem, Pending
<1>2. s \in Sem /\ OSEventCnt \in [Sem -> 0 .. MaxCnt] /\ tokens \in [Sem -> Int] /\ MaxCnt \in Nat
  BY <1>1, KernelAssumption DEF IInv, Places, TypeOK
<1>3. CASE OSEventCnt[s] > 0
  <2> DEFINE cnt == OSEventCnt[s] - 1
  <2>1. cnt \in 0 .. MaxCnt /\ (cnt > 0 => OSEventTbl[s] = {})
    BY <1>2, <1>3 DEF IInv, NoWaitWithTokens
  <2>2. OSEventCnt' = [OSEventCnt EXCEPT ![s] = cnt]
    BY <1>3 DEF SemAccept
  <2>3. tokens' = [tokens EXCEPT ![s] = @ + cnt - OSEventCnt[s]]
    <3>1. tokens[s] - 1 = tokens[s] + cnt - OSEventCnt[s]
      BY <1>2
    <3>2. tokens' = [tokens EXCEPT ![s] = tokens[s] - 1]
      BY <1>3 DEF SemAccept
    <3> QED
      BY <3>1, <3>2
  <2> HIDE DEF cnt, s
  <2> QED
    BY <1>1, <1>2, <2>1, <2>2, <2>3, CountKeeps, Zenon
<1>4. CASE ~ (OSEventCnt[s] > 0)
  <2> DEFINE cnt == OSEventCnt[s]
  <2>1. cnt \in 0 .. MaxCnt /\ (cnt > 0 => OSEventTbl[s] = {})
    BY <1>2, <1>4
  <2>2. OSEventCnt' = [OSEventCnt EXCEPT ![s] = cnt]
    BY <1>2, <1>4 DEF SemAccept
  <2>3. tokens' = [tokens EXCEPT ![s] = @ + cnt - OSEventCnt[s]]
    <3>1. tokens[s] = tokens[s] + cnt - OSEventCnt[s]
      BY <1>2
    <3>2. tokens' = [tokens EXCEPT ![s] = tokens[s]]
      BY <1>2, <1>4 DEF SemAccept
    <3> QED
      BY <3>1, <3>2
  <2> HIDE DEF cnt, s
  <2> QED
    BY <1>1, <1>2, <2>1, <2>2, <2>3, CountKeeps, Zenon
<1> QED
  BY <1>3, <1>4

\* OSSemSet gives tokens only where nobody waits.
LEMMA SetKeeps == ASSUME Steady, IInv, SemSet PROVE IInv'
<1> DEFINE s == pevent[OSTCBCur]
<1>1. /\ OSTCBCur # Idle /\ pc[OSTCBCur] \in InSem \ Pending /\ Return
      /\ UNCHANGED <<tcbVars, listVars, OSRdyTbl, cpuVars, OSEventTbl, OSEventType,
                     OSEventFreeList, OSLockNesting>>
  BY DEF SemSet, At, InSem, Pending
<1>2. s \in Sem /\ OSEventCnt \in [Sem -> 0 .. MaxCnt] /\ tokens \in [Sem -> Int] /\ MaxCnt \in Nat
  BY <1>1, KernelAssumption DEF IInv, Places, TypeOK
<1>3. CASE MaySet(s)
  <2>1. PICK cnt \in 0 .. MaxCnt :
          /\ OSEventCnt' = [OSEventCnt EXCEPT ![s] = cnt]
          /\ tokens' = [tokens EXCEPT ![s] = @ + cnt - OSEventCnt[s]]
    BY <1>3 DEF SemSet
  <2>2. OSEventTbl[s] = {}
    BY <1>2, <1>3 DEF MaySet, IInv, NoWaitWithTokens
  <2> HIDE DEF s
  <2> QED
    BY <1>1, <1>2, <2>1, <2>2, CountKeeps, Zenon
<1>4. CASE ~ MaySet(s)
  <2> DEFINE cnt == OSEventCnt[s]
  <2>1. cnt \in 0 .. MaxCnt /\ (cnt > 0 => OSEventTbl[s] = {})
    BY <1>2, <1>4 DEF MaySet
  <2>2. OSEventCnt' = [OSEventCnt EXCEPT ![s] = cnt]
    BY <1>2, <1>4 DEF SemSet
  <2>3. tokens' = [tokens EXCEPT ![s] = @ + cnt - OSEventCnt[s]]
    <3>1. tokens[s] = tokens[s] + cnt - OSEventCnt[s]
      BY <1>2
    <3>2. tokens' = [tokens EXCEPT ![s] = tokens[s]]
      BY <1>2, <1>4 DEF SemSet
    <3> QED
      BY <3>1, <3>2
  <2> HIDE DEF cnt, s
  <2> QED
    BY <1>1, <1>2, <2>1, <2>2, <2>3, CountKeeps, Zenon
<1> QED
  BY <1>3, <1>4

-----------------------------------------------------------------------------
(* Waking tasks: a post wakes the most urgent waiter, an abort that one or *)
(* all of them.                                                            *)

\* Who is in a wait list: tasks in OSSemPend, that wait or whose time is over.
LEMMA WaitersOf ==
  ASSUME IInv, NEW s \in Sem, NEW p \in OSEventTbl[s]
  PROVE  LET t == OSTCBPrioTbl[p] IN
         /\ t \in OSTCBList /\ t \in Tcb /\ OSTCBPrio[t] = p /\ OSTCBEventPtr[t] = s
         /\ pc[t] \in Pending /\ pevent[t] = s /\ (Waits(t) \/ Late(t)) /\ t # Idle
<1> DEFINE t == OSTCBPrioTbl[p]
<1>1. t \in OSTCBList /\ t \in Tcb /\ OSTCBPrio[t] = p /\ OSTCBEventPtr[t] = s
  BY DEF IInv, WaitListConsistent, Linked, PrioTblConsistent, TypeOK
<1>2. pc[t] \in Pending /\ pevent[t] = s
  BY <1>1 DEF IInv, WaitListConsistent, Pending
<1>3. s # Null
  BY KernelAssumption
<1>4. Waits(t) \/ Late(t)
  BY <1>1, <1>2, <1>3 DEF IInv, Waiting, Answered, Woken
<1>5. t # Idle
  BY <1>2 DEF IInv, IdleReady, Pending
<1> QED
  BY <1>1, <1>2, <1>4, <1>5

\* Every woken task leaves the wait list and gets its ready bit, unless suspended.
LEMMA WakesKeep ==
  ASSUME Steady, IInv, OSTCBCur # Idle, pc[OSTCBCur] \in InSem \ Pending, ToSched,
         pc[OSTCBCur] # "OSSemPend",
         NEW s \in Sem, NEW ps \in SUBSET OSEventTbl[s], NEW st \in {"OK", "ABORT"},
         EventTaskRdy(s, ps, st),
         UNCHANGED <<OSTCBPrio, listVars, cpuVars, OSLockNesting, OSEventType,
                     OSEventFreeList, OSEventCnt>>,
         IF st = "OK" THEN (\E p : ps = {p}) /\ tokens' = [tokens EXCEPT ![s] = @ + 1]
         ELSE tokens' = tokens
  PROVE  IInv'
<1> DEFINE woken == {OSTCBPrioTbl[p] : p \in ps}
<1>0. /\ TypeOK /\ Places /\ Waiting /\ Linked /\ IdleReady /\ Cpu
      /\ ReadyExactly /\ WaitListConsistent /\ NoWaitWithTokens /\ TokensConserved
  BY DEF IInv
<1>1. /\ OSTCBPrio' = OSTCBPrio /\ OSTCBPrioTbl' = OSTCBPrioTbl /\ OSTCBList' = OSTCBList
      /\ OSTCBFreeList' = OSTCBFreeList /\ OSTCBCur' = OSTCBCur /\ OSPrioCur' = OSPrioCur
      /\ OSLockNesting' = OSLockNesting /\ OSEventType' = OSEventType
      /\ OSEventFreeList' = OSEventFreeList /\ OSEventCnt' = OSEventCnt
      /\ OSRdyTbl' = OSRdyTbl \cup Readied(woken)
      /\ OSEventTbl' = [OSEventTbl EXCEPT ![s] = @ \ ps]
      /\ pc' = [pc EXCEPT ![OSTCBCur] = "sched"]
      /\ pevent' = [pevent EXCEPT ![OSTCBCur] = Null]
      /\ pprio' = [pprio EXCEPT ![OSTCBCur] = LowestPrio]
      /\ pTCB' = [pTCB EXCEPT ![OSTCBCur] = Null]
  BY DEF listVars, cpuVars, EventTaskRdy, ToSched, Goto
<1>2. /\ OSTCBDly' = [t \in Tcb |-> IF t \in woken THEN 0 ELSE OSTCBDly[t]]
      /\ OSTCBStat' = [t \in Tcb |-> IF t \in woken THEN OSTCBStat[t] \ {"SEM"} ELSE OSTCBStat[t]]
      /\ OSTCBStatPend' = [t \in Tcb |-> IF t \in woken THEN st ELSE OSTCBStatPend[t]]
      /\ OSTCBEventPtr' = [t \in Tcb |-> IF t \in woken THEN Null ELSE OSTCBEventPtr[t]]
  BY DEF EventTaskRdy, ClearDly
<1>3. OSTCBCur \in Tcb /\ OSTCBList \subseteq Tcb /\ MaxDly \in Nat /\ s # Null
  BY <1>0, KernelAssumption DEF TypeOK
<1>4. \A t \in woken :
        /\ t \in OSTCBList /\ t \in Tcb /\ OSTCBPrio[t] \in ps /\ OSTCBEventPtr[t] = s
        /\ pc[t] \in Pending /\ pevent[t] = s /\ (Waits(t) \/ Late(t)) /\ t # Idle /\ t # OSTCBCur
  BY WaitersOf
<1>5. \A t \in OSTCBList : OSTCBPrio[t] \in ps => t \in woken
  BY <1>0 DEF Linked, PrioTblConsistent
<1>6. /\ pc[OSTCBCur] \notin Pending \cup NotSwitched \cup {"del"}
      /\ "sched" \in InSem \cup {"run", "sched"} /\ "sched" \notin InSem
  BY DEF InSem, Pending, NotSwitched
<1>7. \A t \in Tcb \ {OSTCBCur} : pevent'[t] = pevent[t]
  BY <1>0, <1>1 DEF TypeOK
<1>8. /\ Places' /\ Dying' = {} /\ pc'[Idle] = "run" /\ pc' \in [Tcb -> PC]
      /\ pc'[OSTCBCur] = "sched" /\ \A t \in Tcb \ {OSTCBCur} : pc'[t] = pc[t]
  <2>1. pc[OSTCBCur] # "del" /\ OSTCBCur' \in Tcb /\ OSTCBList' \subseteq OSTCBList
    BY <1>1, <1>3, <1>6
  <2> QED
    BY <1>1, <1>6, <1>7, <2>1, Moved, Zenon
<1>9. Dying = {}
  BY <1>6, NobodyDies
<1>10. TypeOK'
  <2>1. OSTCBDly' \in [Tcb -> 0 .. MaxDly] /\ OSTCBEventPtr' \in [Tcb -> Sem \cup {Null}]
    BY <1>0, <1>2, <1>3 DEF TypeOK
  <2>2. /\ OSTCBStat' \in [Tcb -> SUBSET {"SEM", "SUSPEND"}]
        /\ OSTCBStatPend' \in [Tcb -> {"OK", "TO", "ABORT"}]
    BY <1>0, <1>2 DEF TypeOK
  <2>3. OSRdyTbl' \subseteq Prios
    BY <1>0, <1>1, <1>4 DEF TypeOK, Readied
  <2>4. OSEventTbl' \in [Sem -> SUBSET Prios]
    BY <1>0, <1>1 DEF TypeOK
  <2>5. /\ pevent' \in [Tcb -> Sem \cup {Null}] /\ pTCB' \in [Tcb -> Task \cup {Null}]
        /\ pprio' \in [Tcb -> Prios] /\ tokens' \in [Sem -> Int]
    <3>1. LowestPrio \in Prios
      BY KernelAssumption DEF Prios
    <3>2. tokens' \in [Sem -> Int]
      BY <1>0 DEF TypeOK
    <3> QED
      BY <1>0, <1>1, <3>1, <3>2 DEF TypeOK
  <2> QED
    BY <1>0, <1>1, <1>8, <2>1, <2>2, <2>3, <2>4, <2>5 DEF TypeOK
<1>11. Waiting'
  <2> SUFFICES ASSUME NEW t \in OSTCBList
               PROVE  IF pc'[t] \in Pending THEN (Waits(t) \/ Late(t) \/ Answered(t))'
                      ELSE Woken(t)' /\ OSTCBStatPend'[t] = "OK"
    BY <1>1 DEF Waiting
  <2>1. CASE t \in woken
    <3>1. Woken(t)' /\ OSTCBStatPend'[t] = st /\ OSTCBDly'[t] = 0
      BY <1>2, <1>3, <2>1 DEF Woken
    <3> QED
      BY <1>3, <1>4, <1>8, <2>1, <3>1 DEF Answered
  <2>2. CASE t \notin woken
    <3>1. /\ OSTCBStat'[t] = OSTCBStat[t] /\ OSTCBStatPend'[t] = OSTCBStatPend[t]
          /\ OSTCBDly'[t] = OSTCBDly[t] /\ OSTCBEventPtr'[t] = OSTCBEventPtr[t]
      BY <1>2, <1>3, <2>2
    <3>2. CASE t = OSTCBCur
      BY <1>0, <1>6, <1>8, <3>1, <3>2 DEF Waiting, Woken, Pending
    <3>3. CASE t # OSTCBCur
      <4>1. pc'[t] = pc[t] /\ pevent'[t] = pevent[t]
        BY <1>3, <1>7, <1>8, <3>3
      <4> QED
        BY <1>0, <3>1, <4>1 DEF Waiting, Woken, Waits, Late, Answered
    <3> QED
      BY <3>2, <3>3
  <2> QED
    BY <2>1, <2>2
<1>12. Linked' /\ IdleReady'
  <2>1. Linked'
    BY <1>0, <1>1 DEF Linked, PrioTblConsistent
  <2>2. Idle \in Tcb /\ Idle \notin woken
    BY <1>4 DEF Tcb
  <2> QED
    BY <1>0, <1>1, <1>2, <1>8, <2>1, <2>2 DEF IdleReady
<1>13. Cpu'
  <2>1. OSTCBPrioTbl[OSPrioCur] = OSTCBCur
    BY <1>0, <1>6 DEF Cpu, NotSwitched
  <2> QED
    BY <1>0, <1>1, <1>6, <1>8, <2>1 DEF Cpu, NotSwitched, Pending
<1>14. ReadyExactly'
  <2>1. ASSUME NEW t \in OSTCBList
        PROVE  OSTCBPrio[t] \in OSRdyTbl' <=> OSTCBStat'[t] = {} /\ OSTCBDly'[t] = 0
    <3>1. /\ t \in Tcb /\ OSTCBStat[t] \in SUBSET {"SEM", "SUSPEND"}
          /\ OSTCBPrio[t] \in OSRdyTbl <=> OSTCBStat[t] = {} /\ OSTCBDly[t] = 0
      BY <1>0, <1>3, <1>9 DEF ReadyExactly, TypeOK
    <3>2. OSTCBPrio[t] \in Readied(woken) <=> t \in woken /\ "SUSPEND" \notin OSTCBStat[t]
      BY <1>4, OnePerPrio DEF Readied
    <3>3. CASE t \in woken
      <4>1. OSTCBDly'[t] = 0 /\ OSTCBStat'[t] = OSTCBStat[t] \ {"SEM"}
        BY <1>2, <3>1, <3>3
      <4>2. OSTCBStat'[t] = {} <=> "SUSPEND" \notin OSTCBStat[t]
        BY <3>1, <4>1
      <4> QED
        BY <1>1, <3>1, <3>2, <3>3, <4>1, <4>2
    <3>4. CASE t \notin woken
      <4>1. OSTCBStat'[t] = OSTCBStat[t] /\ OSTCBDly'[t] = OSTCBDly[t]
        BY <1>2, <3>1, <3>4
      <4> QED
        BY <1>1, <3>1, <3>2, <3>4, <4>1
    <3> QED
      BY <3>3, <3>4
  <2>2. \A p \in OSRdyTbl' : OSTCBPrioTbl[p] \in OSTCBList
    BY <1>0, <1>1, <1>4, OnePerPrio DEF ReadyExactly, Readied
  <2> QED
    BY <1>1, <1>8, <2>1, <2>2 DEF ReadyExactly
<1>15. \A u \in Sem : OSEventTbl'[u] = IF u = s THEN OSEventTbl[s] \ ps ELSE OSEventTbl[u]
  BY <1>0, <1>1 DEF TypeOK
<1>16. WaitListConsistent'
  <2>1. ASSUME NEW u \in Sem, NEW p \in OSEventTbl'[u]
        PROVE  OSTCBPrioTbl[p] \in OSTCBList /\ OSTCBEventPtr'[OSTCBPrioTbl[p]] = u
    <3>1. /\ OSTCBPrioTbl[p] \in OSTCBList /\ OSTCBPrioTbl[p] \in Tcb
          /\ OSTCBPrio[OSTCBPrioTbl[p]] = p /\ OSTCBEventPtr[OSTCBPrioTbl[p]] = u
      BY <1>15, WaitersOf
    <3>2. OSTCBPrioTbl[p] \notin woken
      <4>1. CASE u = s
        BY <1>4, <1>15, <3>1, <4>1
      <4>2. CASE u # s
        BY <1>4, <3>1, <4>2
      <4> QED
        BY <4>1, <4>2
    <3> QED
      BY <1>2, <3>1, <3>2
  <2>2. ASSUME NEW u \in Sem, NEW t \in OSTCBList, OSTCBEventPtr'[t] = u
        PROVE  /\ OSTCBPrio[t] \in OSEventTbl'[u] /\ pc'[t] \in Pending /\ pevent'[t] = u
               /\ "SEM" \in OSTCBStat'[t] \/ OSTCBStatPend'[t] = "TO"
    <3>1. t \in Tcb /\ u # Null
      BY <1>3, KernelAssumption
    <3>2. t \notin woken
      BY <1>2, <2>2, <3>1
    <3>3. OSTCBEventPtr[t] = u /\ OSTCBStat'[t] = OSTCBStat[t] /\ OSTCBStatPend'[t] = OSTCBStatPend[t]
      BY <1>2, <2>2, <3>1, <3>2
    <3>4. /\ OSTCBPrio[t] \in OSEventTbl[u] /\ pc[t] \in Pending /\ pevent[t] = u
          /\ "SEM" \in OSTCBStat[t] \/ OSTCBStatPend[t] = "TO"
      BY <1>0, <3>3 DEF WaitListConsistent, Pending
    <3>5. t # OSTCBCur
      BY <1>6, <3>4
    <3> QED
      BY <1>5, <1>7, <1>8, <1>15, <3>1, <3>2, <3>3, <3>4, <3>5
  <2> QED
    BY <1>1, <2>1, <2>2 DEF WaitListConsistent, Pending
<1>17. NoWaitWithTokens'
  BY <1>0, <1>1, <1>15 DEF NoWaitWithTokens
<1>18. ASSUME NEW u \in Sem
       PROVE  Granted(u)' = IF u = s /\ st = "OK" THEN Granted(s) \cup woken ELSE Granted(u)
  <2>1. ASSUME NEW t \in OSTCBList, t \notin woken
        PROVE  t \in Granted(u)' <=> t \in Granted(u)
    <3>1. t \in Tcb /\ OSTCBStat'[t] = OSTCBStat[t] /\ OSTCBStatPend'[t] = OSTCBStatPend[t]
      BY <1>2, <1>3, <2>1
    <3>2. pc'[t] \in Pending <=> pc[t] \in Pending
      BY <1>6, <1>8, <3>1 DEF Pending
    <3>3. pc[t] \in Pending => pevent'[t] = pevent[t]
      BY <1>6, <1>7, <3>1
    <3> QED
      BY <1>1, <3>1, <3>2, <3>3 DEF Granted, Pending
  <2>2. ASSUME NEW t \in woken
        PROVE  t \notin Granted(u) /\ (t \in Granted(u)' <=> u = s /\ st = "OK")
    <3>1. "SEM" \in OSTCBStat[t] \/ OSTCBStatPend[t] = "TO"
      BY <1>4 DEF Waits, Late
    <3>2. /\ OSTCBStatPend'[t] = st /\ "SEM" \notin OSTCBStat'[t] /\ pc'[t] \in Pending
          /\ pevent'[t] = s
      BY <1>2, <1>4, <1>7, <1>8
    <3> QED
      BY <1>1, <1>4, <3>1, <3>2 DEF Granted, Pending
  <2>3. Granted(u)' \subseteq OSTCBList /\ Granted(u) \subseteq OSTCBList /\ woken \subseteq OSTCBList
    BY <1>1, <1>4 DEF Granted
  <2> HIDE DEF woken
  <2> QED
    BY <2>1, <2>2, <2>3
<1>19. TokensConserved'
  <2> SUFFICES ASSUME NEW u \in Sem
               PROVE  tokens'[u] = OSEventCnt'[u] + Cardinality(Granted(u)')
    BY DEF TokensConserved
  <2>1. tokens[u] = OSEventCnt[u] + Cardinality(Granted(u))
    BY <1>0 DEF TokensConserved
  <2>2. CASE u = s /\ st = "OK"
    <3>1. PICK p : ps = {p}
      BY <2>2
    <3>2. woken = {OSTCBPrioTbl[p]}
      BY <3>1
    <3>3. OSTCBPrioTbl[p] \notin Granted(u)
      BY <1>4, <2>2, <3>2 DEF Granted, Waits, Late
    <3>4. Granted(u)' = Granted(u) \cup {OSTCBPrioTbl[p]}
      BY <1>18, <2>2, <3>2
    <3>5. Cardinality(Granted(u)') = Cardinality(Granted(u)) + 1
      BY <3>3, <3>4, GrantedFinite, FS_AddElement
    <3>6. tokens'[u] = tokens[u] + 1
      BY <1>0, <2>2 DEF TypeOK
    <3>7. OSEventCnt[u] \in Int /\ Cardinality(Granted(u)) \in Int
      BY <1>0, GrantedFinite, KernelAssumption DEF TypeOK
    <3> QED
      BY <1>1, <2>1, <3>5, <3>6, <3>7
  <2>3. CASE ~ (u = s /\ st = "OK")
    <3>1. tokens'[u] = tokens[u]
      BY <1>0, <2>3 DEF TypeOK
    <3> QED
      BY <1>1, <1>18, <2>1, <2>3, <3>1
  <2> QED
    BY <2>2, <2>3
<1> QED
  BY <1>8, <1>10, <1>11, <1>12, <1>13, <1>14, <1>16, <1>17, <1>19 DEF IInv

\* A post either wakes the first waiter, with the token, or counts.
LEMMA PostKeeps == ASSUME Steady, IInv, SemPost PROVE IInv'
<1> DEFINE s == pevent[OSTCBCur]
<1>1. /\ OSTCBCur # Idle /\ pc[OSTCBCur] \in InSem \ Pending /\ pc[OSTCBCur] # "OSSemPend"
      /\ UNCHANGED <<OSTCBPrio, listVars, cpuVars, OSLockNesting, OSEventType, OSEventFreeList>>
  BY DEF SemPost, At, InSem, Pending
<1>2. /\ s \in Sem /\ OSEventCnt \in [Sem -> 0 .. MaxCnt] /\ tokens \in [Sem -> Int] /\ MaxCnt \in Nat
      /\ OSEventTbl[s] \in SUBSET Prios
  BY <1>1, KernelAssumption DEF IInv, Places, TypeOK
<1>3. CASE PostFindsWaiter(s)
  <2>1. /\ EventTaskRdy(s, {Min(OSEventTbl[s])}, "OK") /\ ToSched
        /\ tokens' = [tokens EXCEPT ![s] = @ + 1] /\ OSEventCnt' = OSEventCnt
    BY <1>3 DEF SemPost
  <2> DEFINE ps == {Min(OSEventTbl[s])}
  <2>2. ps \in SUBSET OSEventTbl[s]
    BY <1>2, <1>3, MinOf, SomebodyReady DEF PostFindsWaiter
  <2>3. \E p : ps = {p}
    OBVIOUS
  <2>4. EventTaskRdy(s, ps, "OK")
    BY <2>1
  <2>5. IF "OK" = "OK" THEN (\E p : ps = {p}) /\ tokens' = [tokens EXCEPT ![s] = @ + 1]
        ELSE tokens' = tokens
    BY <2>1, <2>3
  <2>6. UNCHANGED <<OSTCBPrio, listVars, cpuVars, OSLockNesting, OSEventType,
                    OSEventFreeList, OSEventCnt>>
    BY <1>1, <2>1
  <2>7. "OK" \in {"OK", "ABORT"}
    OBVIOUS
  <2> HIDE DEF s, ps
  <2> QED
    BY <1>1, <1>2, <2>1, <2>2, <2>4, <2>5, <2>6, <2>7, WakesKeep, Zenon
<1>4. CASE ~ PostFindsWaiter(s)
  <2> DEFINE cnt == CntAfterPost(s)
  <2>1. cnt \in 0 .. MaxCnt /\ (cnt > 0 => OSEventTbl[s] = {})
    BY <1>2, <1>4 DEF CntAfterPost, PostFindsWaiter
  <2>2. OSEventCnt' = [OSEventCnt EXCEPT ![s] = cnt]
    BY <1>4 DEF SemPost
  <2>3. tokens' = [tokens EXCEPT ![s] = @ + cnt - OSEventCnt[s]] /\ Return
    BY <1>4 DEF SemPost
  <2>4. UNCHANGED <<tcbVars, listVars, OSRdyTbl, cpuVars, OSEventTbl, OSEventType,
                    OSEventFreeList, OSLockNesting>>
    BY <1>1, <1>4 DEF SemPost, tcbVars
  <2> HIDE DEF cnt, s
  <2> QED
    BY <1>1, <1>2, <2>1, <2>2, <2>3, <2>4, CountKeeps, Zenon
<1> QED
  BY <1>3, <1>4

\* An abort wakes waiters without tokens.
LEMMA AbortKeeps == ASSUME Steady, IInv, SemPendAbort PROVE IInv'
<1> DEFINE s == pevent[OSTCBCur]
<1>1. /\ OSTCBCur # Idle /\ pc[OSTCBCur] \in InSem \ Pending /\ pc[OSTCBCur] # "OSSemPend"
      /\ UNCHANGED <<OSTCBPrio, listVars, cpuVars, OSLockNesting, OSEventType, OSEventFreeList,
                     OSEventCnt, tokens>>
  BY DEF SemPendAbort, At, InSem, Pending
<1>2. /\ s \in Sem /\ OSEventCnt \in [Sem -> 0 .. MaxCnt] /\ tokens \in [Sem -> Int] /\ MaxCnt \in Nat
      /\ OSEventTbl[s] \in SUBSET Prios
  BY <1>1, KernelAssumption DEF IInv, Places, TypeOK
<1>3. CASE OSEventTbl[s] # {}
  <2>1. PICK ps \in {{Min(OSEventTbl[s])}, OSEventTbl[s]} :
          EventTaskRdy(s, ps, "ABORT") /\ ToSched
    BY <1>3 DEF SemPendAbort
  <2>2. ps \in SUBSET OSEventTbl[s]
    BY <1>2, <1>3, <2>1, MinOf, SomebodyReady
  <2>3. IF "ABORT" = "OK" THEN (\E p : ps = {p}) /\ tokens' = [tokens EXCEPT ![s] = @ + 1]
        ELSE tokens' = tokens
    BY <1>1
  <2>4. "ABORT" \in {"OK", "ABORT"}
    OBVIOUS
  <2> HIDE DEF s
  <2> QED
    BY <1>1, <1>2, <2>1, <2>2, <2>3, <2>4, WakesKeep, Zenon
<1>4. CASE OSEventTbl[s] = {}
  <2> DEFINE cnt == OSEventCnt[s]
  <2>1. cnt \in 0 .. MaxCnt /\ (cnt > 0 => OSEventTbl[s] = {})
    BY <1>2, <1>4
  <2>2. OSEventCnt' = [OSEventCnt EXCEPT ![s] = cnt]
    BY <1>1, <1>2
  <2>3. tokens' = [tokens EXCEPT ![s] = @ + cnt - OSEventCnt[s]]
    <3>1. tokens[s] = tokens[s] + cnt - OSEventCnt[s]
      BY <1>2
    <3>2. tokens' = [tokens EXCEPT ![s] = tokens[s]]
      BY <1>1, <1>2
    <3> QED
      BY <3>1, <3>2
  <2>4. /\ Return
        /\ UNCHANGED <<tcbVars, listVars, OSRdyTbl, cpuVars, OSEventTbl, OSEventType,
                       OSEventFreeList, OSLockNesting>>
    BY <1>1, <1>4 DEF SemPendAbort, tcbVars
  <2> HIDE DEF cnt, s
  <2> QED
    BY <1>1, <1>2, <2>1, <2>2, <2>3, <2>4, CountKeeps, Zenon
<1> QED
  BY <1>3, <1>4

-----------------------------------------------------------------------------
(* OSSemPend.                                                              *)

\* A task that takes a token leaves the lists alone; one that waits leaves the ready
\* list for the wait list of the semaphore in the same step.
LEMMA PendKeeps == ASSUME Steady, IInv, SemPend PROVE IInv'
<1> DEFINE me == OSTCBCur
           s  == pevent[me]
<1>0. /\ TypeOK /\ Places /\ Waiting /\ Linked /\ IdleReady /\ Cpu
      /\ ReadyExactly /\ WaitListConsistent /\ NoWaitWithTokens /\ TokensConserved
  BY DEF IInv
<1>1. /\ me # Idle /\ pc[me] = "OSSemPend"
      /\ OSTCBPrioTbl' = OSTCBPrioTbl /\ OSTCBList' = OSTCBList /\ OSTCBFreeList' = OSTCBFreeList
      /\ OSTCBCur' = OSTCBCur /\ OSPrioCur' = OSPrioCur /\ OSTCBPrio' = OSTCBPrio
      /\ OSLockNesting' = OSLockNesting /\ OSEventType' = OSEventType
      /\ OSEventFreeList' = OSEventFreeList
  BY DEF SemPend, At, listVars, cpuVars, tcbVars
<1>2. /\ me \in Tcb /\ me \in OSTCBList /\ OSTCBList \subseteq Tcb /\ s \in Sem
      /\ MaxCnt \in Nat /\ s # Null
  BY <1>0, <1>1, KernelAssumption DEF TypeOK, Places, InSem, Cpu
<1>3. /\ OSLockNesting = 0 /\ OSTCBPrio[me] = OSPrioCur /\ OSPrioCur \in OSRdyTbl /\ Dying = {}
      /\ OSTCBPrioTbl[OSPrioCur] = me /\ OSTCBStat[me] = {} /\ OSTCBDly[me] = 0
  BY <1>0, <1>1, CurReady DEF Cpu, Pending, NotSwitched
<1>4. CASE OSEventCnt[s] > 0
  <2> DEFINE cnt == OSEventCnt[s] - 1
  <2>1. OSEventCnt[s] # 0 /\ OSEventCnt[s] \in 0 .. MaxCnt /\ tokens[s] \in Int
    BY <1>0, <1>2, <1>4 DEF TypeOK
  <2>2. /\ OSEventCnt' = [OSEventCnt EXCEPT ![s] = cnt] /\ tokens' = [tokens EXCEPT ![s] = @ - 1]
        /\ Return /\ UNCHANGED <<tcbVars, OSRdyTbl, OSEventTbl>>
    BY <2>1 DEF SemPend
  <2>3. tokens' = [tokens EXCEPT ![s] = @ + cnt - OSEventCnt[s]]
    <3>1. tokens[s] - 1 = tokens[s] + cnt - OSEventCnt[s]
      BY <2>1
    <3>2. tokens' = [tokens EXCEPT ![s] = tokens[s] - 1]
      BY <2>2
    <3> QED
      BY <3>1, <3>2
  <2>4. cnt \in 0 .. MaxCnt /\ (cnt > 0 => OSEventTbl[s] = {})
    BY <1>0, <1>2, <1>4, <2>1 DEF NoWaitWithTokens
  <2>5. UNCHANGED <<tcbVars, listVars, OSRdyTbl, cpuVars, OSEventTbl, OSEventType,
                    OSEventFreeList, OSLockNesting>>
    BY <1>1, <2>2 DEF listVars, cpuVars
  <2>6. pc[me] \in InSem \ Pending
    BY <1>1 DEF InSem, Pending
  <2> HIDE DEF cnt, s
  <2> QED
    BY <1>1, <1>2, <2>2, <2>3, <2>4, <2>5, <2>6, CountKeeps, Zenon
<1>5. CASE ~ (OSEventCnt[s] > 0)
  <2>1. /\ OSEventCnt[s] = 0
        /\ OSTCBStat' = [OSTCBStat EXCEPT ![me] = @ \cup {"SEM"}]
        /\ OSTCBStatPend' = [OSTCBStatPend EXCEPT ![me] = "OK"]
        /\ OSTCBEventPtr' = [OSTCBEventPtr EXCEPT ![me] = s]
        /\ OSEventTbl' = [OSEventTbl EXCEPT ![s] = @ \cup {OSTCBPrio[me]}]
        /\ OSRdyTbl' = OSRdyTbl \ {OSTCBPrio[me]} /\ pc' = [pc EXCEPT ![me] = "pendSched"]
        /\ OSEventCnt' = OSEventCnt /\ pevent' = pevent /\ pprio' = pprio /\ pTCB' = pTCB
        /\ tokens' = tokens
    BY <1>5 DEF SemPend, Goto, locals
  <2>2. PICK timeout \in 0 .. MaxDly : OSTCBDly' = [OSTCBDly EXCEPT ![me] = timeout]
    BY <1>5 DEF SemPend
  <2>3. /\ OSTCBStat'[me] = {"SEM"} /\ OSTCBStatPend'[me] = "OK" /\ OSTCBEventPtr'[me] = s
        /\ \A t \in Tcb \ {me} :
             /\ OSTCBStat'[t] = OSTCBStat[t] /\ OSTCBStatPend'[t] = OSTCBStatPend[t]
             /\ OSTCBEventPtr'[t] = OSTCBEventPtr[t] /\ OSTCBDly'[t] = OSTCBDly[t]
    <3>1. OSTCBStat'[me] = {"SEM"} /\ \A t \in Tcb \ {me} : OSTCBStat'[t] = OSTCBStat[t]
      BY <1>0, <1>2, <1>3, <2>1 DEF TypeOK
    <3>2. OSTCBStatPend'[me] = "OK" /\ \A t \in Tcb \ {me} : OSTCBStatPend'[t] = OSTCBStatPend[t]
      BY <1>0, <1>2, <2>1 DEF TypeOK
    <3>3. OSTCBEventPtr'[me] = s /\ \A t \in Tcb \ {me} : OSTCBEventPtr'[t] = OSTCBEventPtr[t]
      BY <1>0, <1>2, <2>1 DEF TypeOK
    <3>4. \A t \in Tcb \ {me} : OSTCBDly'[t] = OSTCBDly[t]
      BY <1>0, <1>2, <2>2 DEF TypeOK
    <3> QED
      BY <3>1, <3>2, <3>3, <3>4
  <2>4. OSTCBEventPtr[me] = Null
    BY <1>0, <1>1, <1>2 DEF Waiting, Woken, Pending
  <2>5. \A u \in Sem : OSEventTbl'[u] = IF u = s THEN OSEventTbl[s] \cup {OSPrioCur} ELSE OSEventTbl[u]
    BY <1>0, <1>2, <1>3, <2>1 DEF TypeOK
  <2>6. /\ Places' /\ Dying' = {} /\ pc'[Idle] = "run" /\ pc' \in [Tcb -> PC]
        /\ pc'[me] = "pendSched" /\ \A t \in Tcb \ {me} : pc'[t] = pc[t]
    <3>1. /\ "pendSched" \in InSem \cup {"run", "sched"} /\ pc[me] # "del" /\ OSTCBCur' \in Tcb
          /\ OSTCBList' \subseteq OSTCBList /\ \A t \in Tcb \ {me} : pevent'[t] = pevent[t]
          /\ pevent'[me] \in Sem
      BY <1>1, <1>2, <2>1 DEF InSem, Pending
    <3> QED
      BY <1>1, <2>1, <3>1, Moved, Zenon
  <2>7. TypeOK'
    <3>1. OSTCBStat' \in [Tcb -> SUBSET {"SEM", "SUSPEND"}]
      BY <1>0, <2>1 DEF TypeOK
    <3>2. OSTCBStatPend' \in [Tcb -> {"OK", "TO", "ABORT"}]
      BY <1>0, <2>1 DEF TypeOK
    <3>3. OSTCBDly' \in [Tcb -> 0 .. MaxDly]
      BY <1>0, <2>2 DEF TypeOK
    <3>4. OSTCBEventPtr' \in [Tcb -> Sem \cup {Null}]
      BY <1>0, <1>2, <2>1 DEF TypeOK
    <3>5. OSEventTbl' \in [Sem -> SUBSET Prios] /\ OSRdyTbl' \subseteq Prios
      BY <1>0, <1>2, <2>1 DEF TypeOK
    <3> QED
      BY <1>0, <1>1, <2>1, <2>6, <3>1, <3>2, <3>3, <3>4, <3>5 DEF TypeOK
  <2>8. Waiting'
    <3> SUFFICES ASSUME NEW t \in OSTCBList
                 PROVE  IF pc'[t] \in Pending THEN (Waits(t) \/ Late(t) \/ Answered(t))'
                        ELSE Woken(t)' /\ OSTCBStatPend'[t] = "OK"
      BY <1>1 DEF Waiting
    <3>1. CASE t = me
      BY <2>1, <2>3, <2>6, <3>1 DEF Waits, Pending
    <3>2. CASE t # me
      <4>1. pc'[t] = pc[t] /\ pevent'[t] = pevent[t] /\ t \in Tcb
        BY <1>2, <2>1, <2>6, <3>2
      <4> QED
        BY <1>0, <2>3, <3>2, <4>1 DEF Waiting, Woken, Waits, Late, Answered
    <3> QED
      BY <3>1, <3>2
  <2>9. Linked' /\ IdleReady'
    <3>1. Linked'
      BY <1>0, <1>1 DEF Linked, PrioTblConsistent
    <3> QED
      BY <1>0, <1>1, <2>3, <2>6, <3>1 DEF IdleReady, Tcb
  <2>10. Cpu'
    BY <1>0, <1>1, <1>2, <1>3, <2>6, KernelAssumption DEF Cpu, NotSwitched
  <2>11. ReadyExactly'
    <3>1. ASSUME NEW t \in OSTCBList
          PROVE  OSTCBPrio[t] \in OSRdyTbl' <=> OSTCBStat'[t] = {} /\ OSTCBDly'[t] = 0
      <4>1. CASE t = me
        BY <1>3, <2>1, <2>3, <4>1
      <4>2. CASE t # me
        <5>1. OSTCBPrio[t] # OSTCBPrio[me]
          BY <1>2, <4>2, OnePerPrio
        <5> QED
          BY <1>0, <1>2, <1>3, <2>1, <2>3, <4>2, <5>1 DEF ReadyExactly
      <4> QED
        BY <4>1, <4>2
    <3> QED
      BY <1>0, <1>1, <2>1, <2>6, <3>1 DEF ReadyExactly
  <2>12. WaitListConsistent'
    <3>1. ASSUME NEW u \in Sem, NEW p \in OSEventTbl'[u]
          PROVE  OSTCBPrioTbl[p] \in OSTCBList /\ OSTCBEventPtr'[OSTCBPrioTbl[p]] = u
      <4>1. CASE u = s /\ p = OSPrioCur
        BY <1>2, <1>3, <2>3, <4>1
      <4>2. CASE ~ (u = s /\ p = OSPrioCur)
        <5>1. p \in OSEventTbl[u]
          BY <2>5, <4>2
        <5>2. /\ OSTCBPrioTbl[p] \in OSTCBList /\ OSTCBPrioTbl[p] \in Tcb
              /\ OSTCBEventPtr[OSTCBPrioTbl[p]] = u /\ u # Null
          BY <5>1, WaitersOf, KernelAssumption
        <5> QED
          BY <2>3, <2>4, <5>2
      <4> QED
        BY <4>1, <4>2
    <3>2. ASSUME NEW u \in Sem, NEW t \in OSTCBList, OSTCBEventPtr'[t] = u
          PROVE  /\ OSTCBPrio[t] \in OSEventTbl'[u] /\ pc'[t] \in Pending /\ pevent[t] = u
                 /\ "SEM" \in OSTCBStat'[t] \/ OSTCBStatPend'[t] = "TO"
      <4>1. CASE t = me
        BY <1>2, <1>3, <2>3, <2>5, <2>6, <3>2, <4>1 DEF Pending
      <4>2. CASE t # me
        <5>1. /\ t \in Tcb /\ OSTCBEventPtr[t] = u /\ OSTCBStat'[t] = OSTCBStat[t]
              /\ OSTCBStatPend'[t] = OSTCBStatPend[t] /\ pc'[t] = pc[t]
          BY <1>2, <2>3, <2>6, <3>2, <4>2
        <5> QED
          BY <1>0, <2>5, <5>1 DEF WaitListConsistent, Pending
      <4> QED
        BY <4>1, <4>2
    <3> QED
      BY <1>1, <2>1, <3>1, <3>2 DEF WaitListConsistent, Pending
  <2>13. NoWaitWithTokens'
    BY <1>0, <2>1, <2>5 DEF NoWaitWithTokens
  <2>14. TokensConserved'
    <3>1. ASSUME NEW u \in Sem PROVE Granted(u)' = Granted(u)
      <4>1. ASSUME NEW t \in OSTCBList PROVE t \in Granted(u)' <=> t \in Granted(u)
        <5>1. CASE t = me
          BY <1>1, <2>3, <5>1 DEF Granted
        <5>2. CASE t # me
          <6>1. /\ t \in Tcb /\ OSTCBStat'[t] = OSTCBStat[t]
                /\ OSTCBStatPend'[t] = OSTCBStatPend[t] /\ pc'[t] = pc[t]
            BY <1>2, <2>3, <2>6, <5>2
          <6> QED
            BY <1>1, <2>1, <6>1 DEF Granted
        <5> QED
          BY <5>1, <5>2
      <4>2. Granted(u)' \subseteq OSTCBList /\ Granted(u) \subseteq OSTCBList
        BY <1>1 DEF Granted
      <4> QED
        BY <4>1, <4>2
    <3> QED
      BY <1>0, <2>1, <3>1 DEF TokensConserved
  <2> QED
    BY <2>6, <2>7, <2>8, <2>9, <2>10, <2>11, <2>12, <2>13, <2>14 DEF IInv
<1> QED
  BY <1>4, <1>5

\* A granted task takes its token; one whose time is over is still on the list.
LEMMA PendRetKeeps == ASSUME Steady, IInv, SemPendRet PROVE IInv'
<1> DEFINE me == OSTCBCur
           s  == pevent[me]
<1>0. /\ TypeOK /\ Places /\ Waiting /\ Linked /\ IdleReady /\ Cpu
      /\ ReadyExactly /\ WaitListConsistent /\ NoWaitWithTokens /\ TokensConserved
  BY DEF IInv
<1>1. /\ me # Idle /\ pc[me] = "pendRet"
      /\ OSTCBPrioTbl' = OSTCBPrioTbl /\ OSTCBList' = OSTCBList /\ OSTCBFreeList' = OSTCBFreeList
      /\ OSTCBCur' = OSTCBCur /\ OSPrioCur' = OSPrioCur /\ OSTCBPrio' = OSTCBPrio
      /\ OSTCBDly' = OSTCBDly /\ OSRdyTbl' = OSRdyTbl /\ OSEventCnt' = OSEventCnt
      /\ OSLockNesting' = OSLockNesting /\ OSEventType' = OSEventType
      /\ OSEventFreeList' = OSEventFreeList
      /\ pc' = [pc EXCEPT ![me] = "run"] /\ pevent' = [pevent EXCEPT ![me] = Null]
      /\ pprio' = [pprio EXCEPT ![me] = LowestPrio] /\ pTCB' = [pTCB EXCEPT ![me] = Null]
  BY DEF SemPendRet, At, listVars, cpuVars, Return, Goto
<1>2. /\ me \in Tcb /\ me \in OSTCBList /\ OSTCBList \subseteq Tcb /\ s \in Sem
      /\ s # Null /\ LowestPrio \in Prios
  BY <1>0, <1>1, KernelAssumption DEF TypeOK, Places, InSem, Pending, Cpu, Prios
<1>3. /\ OSLockNesting = 0 /\ OSTCBPrio[me] = OSPrioCur /\ OSPrioCur \in OSRdyTbl /\ Dying = {}
      /\ OSTCBPrioTbl[OSPrioCur] = me /\ OSTCBStat[me] = {} /\ OSTCBDly[me] = 0
  BY <1>0, <1>1, CurReady DEF Cpu, Pending, NotSwitched
<1>4. OSTCBStat' = OSTCBStat
  <2>1. OSTCBStat' = [OSTCBStat EXCEPT ![me] = {}]
    BY DEF SemPendRet
  <2> QED
    BY <1>0, <1>3, <2>1 DEF TypeOK
<1>5. /\ OSTCBStatPend' = [OSTCBStatPend EXCEPT ![me] = "OK"]
      /\ OSTCBEventPtr' = [OSTCBEventPtr EXCEPT ![me] = Null]
  BY DEF SemPendRet
<1>6. /\ OSTCBStatPend'[me] = "OK" /\ OSTCBEventPtr'[me] = Null
      /\ \A t \in Tcb \ {me} : /\ OSTCBStatPend'[t] = OSTCBStatPend[t]
                               /\ OSTCBEventPtr'[t] = OSTCBEventPtr[t] /\ pevent'[t] = pevent[t]
  BY <1>0, <1>1, <1>2, <1>5 DEF TypeOK
<1>7. /\ Late(me) \/ Answered(me)
      /\ OSTCBStatPend[me] \in {"OK", "ABORT"} => OSTCBEventPtr[me] = Null
  BY <1>0, <1>1, <1>2, <1>3 DEF Waiting, Pending, Waits, Late, Answered, Woken
<1>8. /\ OSTCBStatPend[me] = "OK" => tokens' = [tokens EXCEPT ![s] = @ - 1] /\ OSEventTbl' = OSEventTbl
      /\ OSTCBStatPend[me] = "ABORT" => tokens' = tokens /\ OSEventTbl' = OSEventTbl
      /\ OSTCBStatPend[me] = "TO" =>
           tokens' = tokens /\ OSEventTbl' = [OSEventTbl EXCEPT ![s] = @ \ {OSPrioCur}]
  BY <1>3 DEF SemPendRet, WithoutWaiter
<1>9. OSTCBStatPend[me] \in {"OK", "ABORT", "TO"}
  BY <1>0, <1>2 DEF TypeOK
<1>10. \A u \in Sem :
         OSEventTbl'[u] = IF u = s /\ OSTCBStatPend[me] = "TO" THEN OSEventTbl[s] \ {OSPrioCur}
                          ELSE OSEventTbl[u]
  BY <1>0, <1>2, <1>8, <1>9 DEF TypeOK
<1>11. /\ Places' /\ Dying' = {} /\ pc'[Idle] = "run" /\ pc' \in [Tcb -> PC]
       /\ pc'[me] = "run" /\ \A t \in Tcb \ {me} : pc'[t] = pc[t]
  <2>1. /\ "run" \in InSem \cup {"run", "sched"} /\ "run" \notin InSem /\ pc[me] # "del"
        /\ OSTCBCur' \in Tcb /\ OSTCBList' \subseteq OSTCBList
    BY <1>1, <1>2 DEF InSem, Pending
  <2> QED
    BY <1>1, <1>6, <2>1, Moved, Zenon
<1>12. TypeOK'
  <2>1. /\ OSTCBStatPend' \in [Tcb -> {"OK", "TO", "ABORT"}]
        /\ OSTCBEventPtr' \in [Tcb -> Sem \cup {Null}]
    BY <1>0, <1>5 DEF TypeOK
  <2>2. OSEventTbl' \in [Sem -> SUBSET Prios] /\ tokens' \in [Sem -> Int]
    BY <1>0, <1>8, <1>9 DEF TypeOK
  <2>3. /\ pevent' \in [Tcb -> Sem \cup {Null}] /\ pprio' \in [Tcb -> Prios]
        /\ pTCB' \in [Tcb -> Task \cup {Null}]
    BY <1>0, <1>1, <1>2 DEF TypeOK
  <2> QED
    BY <1>0, <1>1, <1>4, <1>11, <2>1, <2>2, <2>3 DEF TypeOK
<1>13. Waiting'
  <2> SUFFICES ASSUME NEW t \in OSTCBList
               PROVE  IF pc'[t] \in Pending THEN (Waits(t) \/ Late(t) \/ Answered(t))'
                      ELSE Woken(t)' /\ OSTCBStatPend'[t] = "OK"
    BY <1>1 DEF Waiting
  <2>1. CASE t = me
    BY <1>3, <1>4, <1>6, <1>11, <2>1 DEF Woken, Pending
  <2>2. CASE t # me
    <3>1. pc'[t] = pc[t] /\ pevent'[t] = pevent[t] /\ t \in Tcb
      BY <1>2, <1>6, <1>11, <2>2
    <3> QED
      BY <1>0, <1>1, <1>4, <1>6, <2>2, <3>1 DEF Waiting, Woken, Waits, Late, Answered
  <2> QED
    BY <2>1, <2>2
<1>14. Linked' /\ IdleReady'
  BY <1>0, <1>1, <1>4, <1>11 DEF Linked, PrioTblConsistent, IdleReady
<1>15. Cpu'
  BY <1>0, <1>1, <1>2, <1>3, <1>11 DEF Cpu, NotSwitched, Pending
<1>16. ReadyExactly'
  BY <1>0, <1>1, <1>3, <1>4, <1>11 DEF ReadyExactly
<1>17. WaitListConsistent'
  <2>1. ASSUME NEW u \in Sem, NEW p \in OSEventTbl'[u]
        PROVE  OSTCBPrioTbl[p] \in OSTCBList /\ OSTCBEventPtr'[OSTCBPrioTbl[p]] = u
    <3>1. /\ OSTCBPrioTbl[p] \in OSTCBList /\ OSTCBPrioTbl[p] \in Tcb
          /\ OSTCBPrio[OSTCBPrioTbl[p]] = p
          /\ OSTCBEventPtr[OSTCBPrioTbl[p]] = u /\ pevent[OSTCBPrioTbl[p]] = u /\ u # Null
      BY <1>10, WaitersOf, KernelAssumption
    <3>2. OSTCBPrioTbl[p] # me
      BY <1>3, <1>7, <1>9, <1>10, <3>1
    <3> QED
      BY <1>6, <3>1, <3>2
  <2>2. ASSUME NEW u \in Sem, NEW t \in OSTCBList, OSTCBEventPtr'[t] = u
        PROVE  /\ OSTCBPrio[t] \in OSEventTbl'[u] /\ pc'[t] \in Pending /\ pevent'[t] = u
               /\ "SEM" \in OSTCBStat[t] \/ OSTCBStatPend'[t] = "TO"
    <3>1. t # me
      BY <1>6, <2>2, KernelAssumption
    <3>2. OSTCBPrio[t] # OSPrioCur
      BY <1>2, <1>3, <3>1, OnePerPrio
    <3>3. /\ t \in Tcb /\ OSTCBEventPtr[t] = u /\ OSTCBStatPend'[t] = OSTCBStatPend[t]
          /\ pc'[t] = pc[t] /\ pevent'[t] = pevent[t]
      BY <1>2, <1>6, <1>11, <2>2, <3>1
    <3> QED
      BY <1>0, <1>10, <3>2, <3>3 DEF WaitListConsistent, Pending
  <2> QED
    BY <1>1, <1>4, <2>1, <2>2 DEF WaitListConsistent, Pending
<1>18. NoWaitWithTokens'
  BY <1>0, <1>1, <1>10 DEF NoWaitWithTokens
<1>19. ASSUME NEW u \in Sem PROVE Granted(u)' = Granted(u) \ {me}
  <2>1. ASSUME NEW t \in OSTCBList, t # me PROVE t \in Granted(u)' <=> t \in Granted(u)
    <3>1. /\ t \in Tcb /\ OSTCBStatPend'[t] = OSTCBStatPend[t]
          /\ pc'[t] = pc[t] /\ pevent'[t] = pevent[t]
      BY <1>2, <1>6, <1>11, <2>1
    <3> QED
      BY <1>1, <1>4, <3>1 DEF Granted
  <2>2. me \notin Granted(u)'
    BY <1>11 DEF Granted
  <2>3. Granted(u)' \subseteq OSTCBList /\ Granted(u) \subseteq OSTCBList
    BY <1>1 DEF Granted
  <2> QED
    BY <2>1, <2>2, <2>3
<1>20. TokensConserved'
  <2> SUFFICES ASSUME NEW u \in Sem
               PROVE  tokens'[u] = OSEventCnt[u] + Cardinality(Granted(u)')
    BY <1>1 DEF TokensConserved
  <2>1. tokens[u] = OSEventCnt[u] + Cardinality(Granted(u))
    BY <1>0 DEF TokensConserved
  <2>2. CASE u = s /\ OSTCBStatPend[me] = "OK"
    <3>1. me \in Granted(u)
      BY <1>1, <1>2, <1>3, <2>2 DEF Granted
    <3>2. Cardinality(Granted(u)') = Cardinality(Granted(u)) - 1
      BY <1>19, <3>1, GrantedFinite, FS_RemoveElement
    <3>3. tokens'[u] = tokens[u] - 1
      BY <1>0, <1>8, <2>2 DEF TypeOK
    <3>4. OSEventCnt[u] \in Int /\ Cardinality(Granted(u)) \in Int
      BY <1>0, GrantedFinite, KernelAssumption DEF TypeOK
    <3> QED
      BY <2>1, <3>2, <3>3, <3>4
  <2>3. CASE ~ (u = s /\ OSTCBStatPend[me] = "OK")
    <3>1. me \notin Granted(u)
      BY <2>3 DEF Granted
    <3>2. Granted(u)' = Granted(u)
      BY <1>19, <3>1
    <3>3. tokens'[u] = tokens[u]
      BY <1>0, <1>8, <1>9, <2>3 DEF TypeOK
    <3> QED
      BY <2>1, <3>2, <3>3
  <2> QED
    BY <2>2, <2>3
<1> QED
  BY <1>11, <1>12, <1>13, <1>14, <1>15, <1>16, <1>17, <1>18, <1>20 DEF IInv

-----------------------------------------------------------------------------
(* OS_Sched.                                                               *)

\* OS_Sched gives the CPU to the most urgent ready task, and to nobody under the lock.
LEMMA SchedKeeps == ASSUME Steady, IInv, OS_Sched PROVE IInv'
<1> DEFINE me == OSTCBCur
           l  == IF pc[me] = "sched" THEN "run" ELSE "pendRet"
<1>0. /\ TypeOK /\ Places /\ Waiting /\ Linked /\ IdleReady /\ Cpu
      /\ ReadyExactly /\ WaitListConsistent /\ NoWaitWithTokens /\ TokensConserved
  BY DEF IInv
<1>1. /\ me # Idle /\ pc[me] \in {"sched", "pendSched"} /\ pc' = [pc EXCEPT ![me] = l]
      /\ OSTCBPrioTbl' = OSTCBPrioTbl /\ OSTCBList' = OSTCBList /\ OSTCBFreeList' = OSTCBFreeList
      /\ OSTCBPrio' = OSTCBPrio /\ OSTCBStat' = OSTCBStat /\ OSTCBStatPend' = OSTCBStatPend
      /\ OSTCBDly' = OSTCBDly /\ OSTCBEventPtr' = OSTCBEventPtr /\ OSRdyTbl' = OSRdyTbl
      /\ OSLockNesting' = OSLockNesting /\ OSEventType' = OSEventType /\ OSEventCnt' = OSEventCnt
      /\ OSEventFreeList' = OSEventFreeList /\ OSEventTbl' = OSEventTbl
      /\ pevent' = pevent /\ pprio' = pprio /\ pTCB' = pTCB /\ tokens' = tokens
      /\ Dispatch(OSRdyTbl, OSTCBPrioTbl, OSLockNesting)
  BY DEF OS_Sched, At, Goto, listVars, evVars, locals, tcbVars
<1>2. OSTCBList \subseteq Tcb /\ me \in Tcb
  BY <1>0 DEF TypeOK
<1>3. IF OSLockNesting = 0
      THEN /\ OSPrioCur' = Min(OSRdyTbl) /\ OSPrioCur' \in OSRdyTbl
           /\ OSTCBCur' = OSTCBPrioTbl[OSPrioCur'] /\ OSTCBCur' \in OSTCBList
      ELSE OSTCBCur' = OSTCBCur /\ OSPrioCur' = OSPrioCur
  BY <1>1, Dispatched, SomebodyReady, OnePerPrio
<1>4. OSTCBCur' \in Tcb /\ OSPrioCur' \in Prios
  BY <1>0, <1>2, <1>3 DEF TypeOK
<1>5. l \in {"run", "pendRet"} /\ (l = "pendRet" <=> pc[me] = "pendSched")
  BY <1>1
<1>6. /\ Places' /\ Dying' = {} /\ pc'[Idle] = "run" /\ pc' \in [Tcb -> PC]
      /\ pc'[me] = l /\ \A t \in Tcb \ {me} : pc'[t] = pc[t]
  <2>1. l \in InSem \cup {"run", "sched"} /\ pc[me] # "del" /\ OSTCBList' \subseteq OSTCBList
    BY <1>1, <1>5 DEF InSem, Pending
  <2>2. l \in InSem => pevent'[me] \in Sem
    BY <1>0, <1>1, <1>2, <1>5 DEF Places, InSem, Pending
  <2>3. \A t \in Tcb \ {me} : pevent'[t] = pevent[t]
    BY <1>1
  <2> HIDE DEF l
  <2> QED
    BY <1>1, <1>4, <2>1, <2>2, <2>3, Moved, Zenon
<1>7. Dying = {} /\ \A t \in OSTCBList : pc[t] # "none"
  BY <1>1, NobodyDies
<1>8. \A t \in Tcb : pc'[t] \in Pending <=> pc[t] \in Pending
  BY <1>1, <1>5, <1>6 DEF Pending
<1>9. TypeOK'
  BY <1>0, <1>1, <1>4, <1>6 DEF TypeOK
<1>10. Waiting'
  BY <1>0, <1>1, <1>2, <1>8 DEF Waiting, Woken, Waits, Late, Answered
<1>11. Linked' /\ IdleReady'
  BY <1>0, <1>1, <1>6 DEF Linked, PrioTblConsistent, IdleReady
<1>12. Cpu'
  <2>1. CASE OSLockNesting = 0
    <3>1. pc'[OSTCBCur'] # "none" /\ MaxLock \in Nat
      BY <1>2, <1>3, <1>5, <1>6, <1>7, <2>1, KernelAssumption
    <3> QED
      BY <1>1, <1>3, <2>1, <3>1 DEF Cpu
  <2>2. CASE OSLockNesting # 0
    <3>1. pc[me] = "sched" /\ l = "run"
      BY <1>0, <1>1, <2>2 DEF Cpu, Pending
    <3> QED
      BY <1>0, <1>1, <1>3, <1>6, <2>2, <3>1 DEF Cpu, Pending
  <2> QED
    BY <2>1, <2>2
<1>13. ReadyExactly'
  BY <1>0, <1>1, <1>6, <1>7 DEF ReadyExactly
<1>14. WaitListConsistent'
  BY <1>0, <1>1, <1>2, <1>8 DEF WaitListConsistent, Pending
<1>15. NoWaitWithTokens'
  BY <1>0, <1>1 DEF NoWaitWithTokens
<1>16. TokensConserved'
  <2>1. ASSUME NEW u \in Sem PROVE Granted(u)' = Granted(u)
    BY <1>1, <1>2, <1>8 DEF Granted, Pending
  <2> QED
    BY <1>0, <1>1, <2>1 DEF TokensConserved
<1> QED
  BY <1>6, <1>9, <1>10, <1>11, <1>12, <1>13, <1>14, <1>15, <1>16 DEF IInv

-----------------------------------------------------------------------------
(* A delay, a suspension or its end: one block and its ready bit.          *)

\* The least element of a set of priorities.
LEMMA SmallestIs ==
  ASSUME IInv, NEW S \in SUBSET Prios, NEW x \in S, \A y \in S : x <= y
  PROVE  Min(S) = x
<1>1. S \in SUBSET Nat /\ S # {}
  BY SomebodyReady
<1>2. Min(S) \in S /\ \A y \in S : Min(S) <= y
  BY <1>1, MinOf
<1>3. Min(S) <= x /\ x <= Min(S) /\ Min(S) \in Nat /\ x \in Nat
  BY <1>1, <1>2
<1> QED
  BY <1>3

\* The ready bit follows the state and the delay of the one block that changes.
LEMMA BlockKeeps ==
  ASSUME Steady, IInv, OSTCBCur # Idle, pc[OSTCBCur] = "run",
         NEW t \in OSTCBList, t # Idle, NEW l \in {"run", "sched"},
         pc' = [pc EXCEPT ![OSTCBCur] = l],
         pevent' = [pevent EXCEPT ![OSTCBCur] = Null],
         pprio' = [pprio EXCEPT ![OSTCBCur] = LowestPrio],
         pTCB' = [pTCB EXCEPT ![OSTCBCur] = Null],
         UNCHANGED <<OSTCBPrio, OSTCBStatPend, OSTCBEventPtr, listVars, cpuVars,
                     OSLockNesting, evVars, tokens>>,
         OSTCBStat' \in [Tcb -> SUBSET {"SEM", "SUSPEND"}], OSTCBDly' \in [Tcb -> 0 .. MaxDly],
         \A u \in Tcb \ {t} : OSTCBStat'[u] = OSTCBStat[u] /\ OSTCBDly'[u] = OSTCBDly[u],
         "SEM" \in OSTCBStat'[t] <=> "SEM" \in OSTCBStat[t],
         pc[t] \in Pending => OSTCBDly'[t] = OSTCBDly[t],
         OSRdyTbl' = IF OSTCBStat'[t] = {} /\ OSTCBDly'[t] = 0 THEN OSRdyTbl \cup {OSTCBPrio[t]}
                     ELSE OSRdyTbl \ {OSTCBPrio[t]},
         l = "run" /\ OSLockNesting = 0 => OSPrioCur = Min(OSRdyTbl')
  PROVE  IInv'
<1> DEFINE me == OSTCBCur
<1>0. /\ TypeOK /\ Places /\ Waiting /\ Linked /\ IdleReady /\ Cpu
      /\ ReadyExactly /\ WaitListConsistent /\ NoWaitWithTokens /\ TokensConserved
  BY DEF IInv
<1>1. /\ OSTCBPrio' = OSTCBPrio /\ OSTCBStatPend' = OSTCBStatPend /\ OSTCBEventPtr' = OSTCBEventPtr
      /\ OSTCBPrioTbl' = OSTCBPrioTbl /\ OSTCBList' = OSTCBList /\ OSTCBFreeList' = OSTCBFreeList
      /\ OSTCBCur' = OSTCBCur /\ OSPrioCur' = OSPrioCur /\ OSLockNesting' = OSLockNesting
      /\ OSEventType' = OSEventType /\ OSEventFreeList' = OSEventFreeList
      /\ OSEventCnt' = OSEventCnt /\ OSEventTbl' = OSEventTbl /\ tokens' = tokens
  BY DEF listVars, cpuVars, evVars
<1>2. /\ me \in Tcb /\ me \in OSTCBList /\ OSTCBList \subseteq Tcb /\ t \in Tcb
      /\ LowestPrio \in Prios
  BY <1>0, KernelAssumption DEF TypeOK, Cpu, Prios
<1>3. \A u \in Tcb \ {me} : pevent'[u] = pevent[u]
  BY <1>0, <1>2 DEF TypeOK
<1>4. /\ Places' /\ Dying' = {} /\ pc'[Idle] = "run" /\ pc' \in [Tcb -> PC]
      /\ pc'[me] = l /\ \A u \in Tcb \ {me} : pc'[u] = pc[u]
  <2>1. /\ l \in InSem \cup {"run", "sched"} /\ l \notin InSem /\ pc[me] # "del"
        /\ OSTCBCur' \in Tcb /\ OSTCBList' \subseteq OSTCBList
    BY <1>1, <1>2 DEF InSem, Pending
  <2> QED
    BY <1>3, <2>1, Moved, Zenon
<1>5. Dying = {}
  BY NobodyDies
<1>6. \A u \in Tcb : pc'[u] \in Pending \/ pc[u] \in Pending =>
                       pc'[u] = pc[u] /\ pevent'[u] = pevent[u]
  BY <1>3, <1>4 DEF Pending
<1>7. \A u \in Tcb : pc'[u] \in Pending <=> pc[u] \in Pending
  BY <1>4 DEF Pending
<1>8. \A u \in Tcb : /\ "SEM" \in OSTCBStat'[u] <=> "SEM" \in OSTCBStat[u]
                     /\ pc[u] \in Pending => OSTCBDly'[u] = OSTCBDly[u]
  BY <1>2
<1>9. TypeOK'
  <2>1. /\ pevent' \in [Tcb -> Sem \cup {Null}] /\ pprio' \in [Tcb -> Prios]
        /\ pTCB' \in [Tcb -> Task \cup {Null}] /\ OSRdyTbl' \subseteq Prios
    BY <1>0, <1>2 DEF TypeOK
  <2> QED
    BY <1>0, <1>1, <1>4, <2>1 DEF TypeOK
<1>10. Waiting'
  <2> SUFFICES ASSUME NEW u \in OSTCBList
               PROVE  IF pc'[u] \in Pending THEN (Waits(u) \/ Late(u) \/ Answered(u))'
                      ELSE Woken(u)' /\ OSTCBStatPend[u] = "OK"
    BY <1>1 DEF Waiting
  <2>1. u \in Tcb /\ ("SEM" \in OSTCBStat'[u] <=> "SEM" \in OSTCBStat[u])
    BY <1>2, <1>8
  <2>2. CASE pc[u] \in Pending
    <3>1. pc'[u] \in Pending /\ pevent'[u] = pevent[u] /\ OSTCBDly'[u] = OSTCBDly[u]
      BY <1>6, <1>8, <2>1, <2>2
    <3> QED
      BY <1>0, <1>1, <2>1, <2>2, <3>1 DEF Waiting, Woken, Waits, Late, Answered
  <2>3. CASE pc[u] \notin Pending
    BY <1>0, <1>1, <1>7, <2>1, <2>3 DEF Waiting, Woken
  <2> QED
    BY <2>2, <2>3
<1>11. Linked' /\ IdleReady'
  <2>1. Linked'
    BY <1>0, <1>1 DEF Linked, PrioTblConsistent
  <2>2. Idle \in Tcb \ {t}
    BY DEF Tcb
  <2> QED
    BY <1>0, <1>1, <1>4, <2>1, <2>2 DEF IdleReady
<1>12. Cpu'
  <2>1. OSTCBPrioTbl[OSPrioCur] = me
    BY <1>0 DEF Cpu
  <2> QED
    BY <1>0, <1>1, <1>4, <2>1 DEF Cpu, Pending, NotSwitched
<1>13. ReadyExactly'
  <2>1. ASSUME NEW u \in OSTCBList
        PROVE  OSTCBPrio[u] \in OSRdyTbl' <=> OSTCBStat'[u] = {} /\ OSTCBDly'[u] = 0
    <3>1. CASE u = t
      BY <3>1
    <3>2. CASE u # t
      <4>1. OSTCBPrio[u] # OSTCBPrio[t] /\ u \in Tcb \ {t}
        BY <1>2, <3>2, OnePerPrio
      <4>2. OSTCBPrio[u] \in OSRdyTbl <=> OSTCBStat[u] = {} /\ OSTCBDly[u] = 0
        BY <1>0, <1>5 DEF ReadyExactly
      <4> QED
        BY <4>1, <4>2
    <3> QED
      BY <3>1, <3>2
  <2>2. \A p \in OSRdyTbl' : OSTCBPrioTbl[p] \in OSTCBList
    BY OnePerPrio
  <2> QED
    BY <1>1, <1>4, <2>1, <2>2 DEF ReadyExactly
<1>14. WaitListConsistent'
  <2> SUFFICES ASSUME NEW s \in Sem, NEW u \in OSTCBList, OSTCBEventPtr[u] = s
               PROVE  /\ pc'[u] \in Pending /\ pevent'[u] = s
                      /\ "SEM" \in OSTCBStat'[u] \/ OSTCBStatPend[u] = "TO"
    BY <1>0, <1>1 DEF WaitListConsistent, Pending
  <2>1. /\ pc[u] \in Pending /\ pevent[u] = s /\ u \in Tcb
        /\ "SEM" \in OSTCBStat[u] \/ OSTCBStatPend[u] = "TO"
    BY <1>0, <1>2 DEF WaitListConsistent, Pending
  <2> QED
    BY <1>6, <1>8, <2>1
<1>15. NoWaitWithTokens'
  BY <1>0, <1>1 DEF NoWaitWithTokens
<1>16. TokensConserved'
  <2>1. ASSUME NEW s \in Sem PROVE Granted(s)' = Granted(s)
    BY <1>1, <1>2, <1>6, <1>8 DEF Granted, Pending
  <2> QED
    BY <1>0, <1>1, <2>1 DEF TokensConserved
<1> QED
  BY <1>4, <1>9, <1>10, <1>11, <1>12, <1>13, <1>14, <1>15, <1>16 DEF IInv

\* The running task is delayed.
LEMMA DlyKeeps == ASSUME Steady, IInv, OSTimeDly PROVE IInv'
<1> DEFINE me == OSTCBCur
<1>1. /\ me # Idle /\ pc[me] = "run" /\ OSLockNesting = 0 /\ ToSched
      /\ UNCHANGED <<OSTCBPrio, OSTCBStatPend, OSTCBEventPtr, listVars, cpuVars,
                     OSLockNesting, evVars, tokens>>
      /\ OSTCBStat' = OSTCBStat /\ OSRdyTbl' = OSRdyTbl \ {OSTCBPrio[me]}
  BY DEF OSTimeDly, MayCall, At
<1>2. PICK ticks \in 1 .. MaxDly : OSTCBDly' = [OSTCBDly EXCEPT ![me] = ticks]
  BY DEF OSTimeDly
<1>3. /\ me \in OSTCBList /\ me \in Tcb /\ OSTCBDly \in [Tcb -> 0 .. MaxDly]
      /\ OSTCBStat \in [Tcb -> SUBSET {"SEM", "SUSPEND"}] /\ MaxDly \in Nat
  BY KernelAssumption DEF IInv, Cpu, TypeOK
<1>4. OSTCBDly' \in [Tcb -> 0 .. MaxDly] /\ OSTCBDly'[me] # 0
  BY <1>2, <1>3
<1>5. \A u \in Tcb \ {me} : OSTCBStat'[u] = OSTCBStat[u] /\ OSTCBDly'[u] = OSTCBDly[u]
  BY <1>1, <1>2, <1>3
<1>6. pc[me] \notin Pending
  BY <1>1 DEF Pending
<1>7. OSRdyTbl' = IF OSTCBStat'[me] = {} /\ OSTCBDly'[me] = 0 THEN OSRdyTbl \cup {OSTCBPrio[me]}
                  ELSE OSRdyTbl \ {OSTCBPrio[me]}
  BY <1>1, <1>4
<1>8. /\ pc' = [pc EXCEPT ![me] = "sched"] /\ pevent' = [pevent EXCEPT ![me] = Null]
      /\ pprio' = [pprio EXCEPT ![me] = LowestPrio] /\ pTCB' = [pTCB EXCEPT ![me] = Null]
  BY <1>1 DEF ToSched, Goto
<1>9. /\ "sched" \in {"run", "sched"} /\ "sched" # "run"
      /\ OSTCBStat' \in [Tcb -> SUBSET {"SEM", "SUSPEND"}]
      /\ "SEM" \in OSTCBStat'[me] <=> "SEM" \in OSTCBStat[me]
  BY <1>1, <1>3
<1> QED
  BY <1>1, <1>3, <1>4, <1>5, <1>6, <1>7, <1>8, <1>9, BlockKeeps, Zenon

\* A suspension of another task does not make the running one less urgent.
LEMMA SuspendKeeps == ASSUME Steady, IInv, OSTaskSuspend PROVE IInv'
<1> DEFINE me == OSTCBCur
<1>1. /\ me # Idle /\ pc[me] = "run"
      /\ UNCHANGED <<OSTCBPrio, OSTCBStatPend, OSTCBEventPtr, listVars, cpuVars,
                     OSLockNesting, evVars, tokens>>
      /\ OSTCBDly' = OSTCBDly
  BY DEF OSTaskSuspend, MayCall, At
<1>2. PICK t \in Task :
        /\ OSTCBPrioTbl[OSTCBPrio[t]] = t /\ OSRdyTbl' = OSRdyTbl \ {OSTCBPrio[t]}
        /\ OSTCBStat' = [OSTCBStat EXCEPT ![t] = @ \cup {"SUSPEND"}]
        /\ IF t = me THEN ToSched ELSE Return
  BY DEF OSTaskSuspend
<1> DEFINE l == IF t = me THEN "sched" ELSE "run"
<1>3. /\ t \in OSTCBList /\ t \in Tcb /\ t # Idle /\ OSTCBDly \in [Tcb -> 0 .. MaxDly]
      /\ OSTCBStat \in [Tcb -> SUBSET {"SEM", "SUSPEND"}] /\ OSTCBPrio[t] \in Prios
  BY <1>2, KernelAssumption DEF IInv, Linked, TypeOK, Tcb
<1>4. /\ OSTCBStat' \in [Tcb -> SUBSET {"SEM", "SUSPEND"}] /\ OSTCBDly' \in [Tcb -> 0 .. MaxDly]
      /\ \A u \in Tcb \ {t} : OSTCBStat'[u] = OSTCBStat[u] /\ OSTCBDly'[u] = OSTCBDly[u]
      /\ "SUSPEND" \in OSTCBStat'[t]
      /\ "SEM" \in OSTCBStat'[t] <=> "SEM" \in OSTCBStat[t]
      /\ pc[t] \in Pending => OSTCBDly'[t] = OSTCBDly[t]
  BY <1>1, <1>2, <1>3
<1>5. OSRdyTbl' = IF OSTCBStat'[t] = {} /\ OSTCBDly'[t] = 0 THEN OSRdyTbl \cup {OSTCBPrio[t]}
                  ELSE OSRdyTbl \ {OSTCBPrio[t]}
  BY <1>2, <1>4
<1>6. /\ pc' = [pc EXCEPT ![me] = l] /\ pevent' = [pevent EXCEPT ![me] = Null]
      /\ pprio' = [pprio EXCEPT ![me] = LowestPrio] /\ pTCB' = [pTCB EXCEPT ![me] = Null]
  BY <1>2 DEF ToSched, Return, Goto
<1>7. l = "run" /\ OSLockNesting = 0 => OSPrioCur = Min(OSRdyTbl')
  <2> SUFFICES ASSUME l = "run", OSLockNesting = 0 PROVE OSPrioCur = Min(OSRdyTbl')
    OBVIOUS
  <2>1. OSPrioCur = Min(OSRdyTbl) /\ OSPrioCur \in OSRdyTbl /\ OSTCBPrioTbl[OSPrioCur] = me
    BY <1>1, CurReady DEF IInv, Cpu, NotSwitched
  <2>2. OSPrioCur \in OSRdyTbl'
    BY <1>2, <2>1
  <2>3. OSRdyTbl' \in SUBSET Prios /\ \A y \in OSRdyTbl : Min(OSRdyTbl) <= y
    BY <1>2, SomebodyReady, MinOf
  <2>4. \A y \in OSRdyTbl' : OSPrioCur <= y
    BY <1>2, <2>1, <2>3
  <2> QED
    BY <2>2, <2>3, <2>4, SmallestIs
<1>8. l \in {"run", "sched"}
  OBVIOUS
<1> HIDE DEF l
<1> QED
  BY <1>1, <1>3, <1>4, <1>5, <1>6, <1>7, <1>8, BlockKeeps, Zenon

\* A task that still waits or is delayed stays out of the ready list.
LEMMA ResumeKeeps == ASSUME Steady, IInv, OSTaskResume PROVE IInv'
<1> DEFINE me == OSTCBCur
<1>1. /\ me # Idle /\ pc[me] = "run"
      /\ UNCHANGED <<OSTCBPrio, OSTCBStatPend, OSTCBEventPtr, listVars, cpuVars,
                     OSLockNesting, evVars, tokens>>
      /\ OSTCBDly' = OSTCBDly
  BY DEF OSTaskResume, MayCall, At
<1>2. PICK t \in Task :
        /\ OSTCBPrioTbl[OSTCBPrio[t]] = t /\ "SUSPEND" \in OSTCBStat[t]
        /\ OSTCBStat' = [OSTCBStat EXCEPT ![t] = @ \ {"SUSPEND"}]
        /\ IF "SEM" \notin OSTCBStat[t] /\ OSTCBDly[t] = 0
             THEN OSRdyTbl' = OSRdyTbl \cup {OSTCBPrio[t]} /\ ToSched
             ELSE OSRdyTbl' = OSRdyTbl /\ Return
  BY DEF OSTaskResume
<1> DEFINE rdy == "SEM" \notin OSTCBStat[t] /\ OSTCBDly[t] = 0
           l   == IF rdy THEN "sched" ELSE "run"
<1>3. /\ t \in OSTCBList /\ t \in Tcb /\ t # Idle /\ OSTCBDly \in [Tcb -> 0 .. MaxDly]
      /\ OSTCBStat \in [Tcb -> SUBSET {"SEM", "SUSPEND"}] /\ OSTCBPrio[t] \in Prios
  BY <1>2, KernelAssumption DEF IInv, Linked, TypeOK, Tcb
<1>4. /\ OSTCBStat' \in [Tcb -> SUBSET {"SEM", "SUSPEND"}] /\ OSTCBDly' \in [Tcb -> 0 .. MaxDly]
      /\ \A u \in Tcb \ {t} : OSTCBStat'[u] = OSTCBStat[u] /\ OSTCBDly'[u] = OSTCBDly[u]
      /\ OSTCBStat'[t] = {} <=> "SEM" \notin OSTCBStat[t]
      /\ "SEM" \in OSTCBStat'[t] <=> "SEM" \in OSTCBStat[t]
      /\ pc[t] \in Pending => OSTCBDly'[t] = OSTCBDly[t]
  BY <1>1, <1>2, <1>3
<1>5. OSTCBPrio[t] \notin OSRdyTbl
  <2>1. Dying = {}
    BY <1>1, NobodyDies
  <2> QED
    BY <1>2, <1>3, <2>1 DEF IInv, ReadyExactly
<1>6. OSRdyTbl' = IF OSTCBStat'[t] = {} /\ OSTCBDly'[t] = 0 THEN OSRdyTbl \cup {OSTCBPrio[t]}
                  ELSE OSRdyTbl \ {OSTCBPrio[t]}
  <2>1. OSTCBStat'[t] = {} /\ OSTCBDly'[t] = 0 <=> rdy
    BY <1>1, <1>4
  <2> QED
    BY <1>2, <1>5, <2>1
<1>7. /\ pc' = [pc EXCEPT ![me] = l] /\ pevent' = [pevent EXCEPT ![me] = Null]
      /\ pprio' = [pprio EXCEPT ![me] = LowestPrio] /\ pTCB' = [pTCB EXCEPT ![me] = Null]
  BY <1>2 DEF ToSched, Return, Goto
<1>8. l = "run" /\ OSLockNesting = 0 => OSPrioCur = Min(OSRdyTbl')
  <2> SUFFICES ASSUME l = "run", OSLockNesting = 0 PROVE OSPrioCur = Min(OSRdyTbl')
    OBVIOUS
  <2>1. OSRdyTbl' = OSRdyTbl
    BY <1>2
  <2> QED
    BY <1>1, <2>1 DEF IInv, Cpu, NotSwitched
<1>9. l \in {"run", "sched"}
  OBVIOUS
<1> HIDE DEF l
<1> QED
  BY <1>1, <1>3, <1>4, <1>6, <1>7, <1>8, <1>9, BlockKeeps, Zenon

-----------------------------------------------------------------------------
(* Deleting a task.                                                        *)

\* First critical section: nobody is granted, waits or is ready under the dying block.
LEMMA DelKeeps == ASSUME Steady, IInv, OSTaskDel PROVE IInv'
<1> DEFINE me == OSTCBCur
<1>0. /\ TypeOK /\ Places /\ Waiting /\ Linked /\ IdleReady /\ Cpu
      /\ ReadyExactly /\ WaitListConsistent /\ NoWaitWithTokens /\ TokensConserved
  BY DEF IInv
<1>1. PICK t \in Task :
        /\ me # Idle /\ pc[me] = "run" /\ OSTCBPrioTbl[OSTCBPrio[t]] = t
        /\ t = me => OSLockNesting = 0
        /\ OSRdyTbl' = OSRdyTbl \ {OSTCBPrio[t]}
        /\ OSEventTbl' = IF OSTCBEventPtr[t] = Null THEN OSEventTbl
                         ELSE [OSEventTbl EXCEPT ![OSTCBEventPtr[t]] = @ \ {OSTCBPrio[t]}]
        /\ OSTCBEventPtr' = [OSTCBEventPtr EXCEPT ![t] = Null]
        /\ OSTCBDly' = [OSTCBDly EXCEPT ![t] = 0] /\ OSTCBStat' = [OSTCBStat EXCEPT ![t] = {}]
        /\ OSTCBStatPend' = [OSTCBStatPend EXCEPT ![t] = "OK"]
        /\ OSLockNesting' = OSLockNesting + 1
        /\ tokens' = [s \in Sem |-> IF t \in Granted(s) THEN tokens[s] - 1 ELSE tokens[s]]
        /\ pc' = [pc EXCEPT ![t] = "none", ![me] = "del"]
        /\ pevent' = [pevent EXCEPT ![t] = Null]
        /\ pprio' = [pprio EXCEPT ![t] = LowestPrio, ![me] = OSTCBPrio[t]]
        /\ pTCB' = [pTCB EXCEPT ![t] = Null, ![me] = t]
  BY DEF OSTaskDel, MayCall, At, WithoutWaiter
<1>2. /\ OSTCBPrio' = OSTCBPrio /\ OSTCBPrioTbl' = OSTCBPrioTbl /\ OSTCBList' = OSTCBList
      /\ OSTCBFreeList' = OSTCBFreeList /\ OSTCBCur' = OSTCBCur /\ OSPrioCur' = OSPrioCur
      /\ OSEventType' = OSEventType /\ OSEventFreeList' = OSEventFreeList
      /\ OSEventCnt' = OSEventCnt
  BY DEF OSTaskDel, listVars, cpuVars
<1>3. /\ t \in OSTCBList /\ t \in Tcb /\ t # Idle /\ me \in Tcb /\ me \in OSTCBList
      /\ OSTCBList \subseteq Tcb /\ OSTCBPrio[t] \in Prios /\ LowestPrio \in Prios
  BY <1>0, <1>1, KernelAssumption DEF Linked, TypeOK, Cpu, Tcb, Prios
<1>4. /\ OSLockNesting \in 0 .. MaxLock /\ MaxLock \in Nat
      /\ t = me \/ "OSSchedLock" \notin Calls => OSLockNesting = 0
  BY <1>1, Nesting, KernelAssumption
<1>5. /\ Dying = {} /\ \A u \in Tcb : pc[u] # "del"
      /\ \A u \in OSTCBList : pc[u] # "none"
  BY <1>1, NobodyDies
<1>6. /\ pc'[me] = "del"
      /\ t # me => pc'[t] = "none"
      /\ \A u \in Tcb \ {t, me} : pc'[u] = pc[u]
      /\ pevent'[t] = Null /\ \A u \in Tcb \ {t} : pevent'[u] = pevent[u]
      /\ pTCB'[me] = t /\ pprio'[me] = OSTCBPrio[t]
  BY <1>0, <1>1, <1>3 DEF TypeOK
<1>7. /\ OSTCBEventPtr'[t] = Null /\ OSTCBDly'[t] = 0 /\ OSTCBStat'[t] = {}
      /\ OSTCBStatPend'[t] = "OK"
      /\ \A u \in Tcb \ {t} :
           /\ OSTCBEventPtr'[u] = OSTCBEventPtr[u] /\ OSTCBDly'[u] = OSTCBDly[u]
           /\ OSTCBStat'[u] = OSTCBStat[u] /\ OSTCBStatPend'[u] = OSTCBStatPend[u]
  BY <1>0, <1>1, <1>3 DEF TypeOK
<1>8. Dying' = {t}
  BY <1>2, <1>6, DyingIs
<1>9. \A u \in Sem :
        OSEventTbl'[u] = IF u = OSTCBEventPtr[t] THEN OSEventTbl[u] \ {OSTCBPrio[t]}
                         ELSE OSEventTbl[u]
  <2> TAKE u \in Sem
  <2>1. u # Null
    BY KernelAssumption
  <2> QED
    BY <1>0, <1>1, <1>3, <2>1 DEF TypeOK
<1>10. TypeOK'
  <2>1. /\ OSTCBEventPtr' \in [Tcb -> Sem \cup {Null}]
        /\ OSTCBStat' \in [Tcb -> SUBSET {"SEM", "SUSPEND"}]
        /\ OSTCBStatPend' \in [Tcb -> {"OK", "TO", "ABORT"}]
    BY <1>0, <1>1 DEF TypeOK
  <2>2. OSTCBDly' \in [Tcb -> 0 .. MaxDly]
    <3>1. 0 \in 0 .. MaxDly
      BY KernelAssumption
    <3> QED
      BY <1>0, <1>1, <3>1 DEF TypeOK
  <2>3. OSEventTbl' \in [Sem -> SUBSET Prios] /\ OSRdyTbl' \subseteq Prios
    BY <1>0, <1>1 DEF TypeOK
  <2>4. pc' \in [Tcb -> PC]
    BY <1>0, <1>1 DEF TypeOK, PC
  <2>5. /\ pevent' \in [Tcb -> Sem \cup {Null}] /\ pprio' \in [Tcb -> Prios]
        /\ pTCB' \in [Tcb -> Task \cup {Null}]
    BY <1>0, <1>1, <1>3 DEF TypeOK
  <2>6. tokens' \in [Sem -> Int] /\ OSLockNesting' \in 0 .. MaxLock + 1
    BY <1>0, <1>1, <1>4 DEF TypeOK
  <2> QED
    BY <1>0, <1>2, <2>1, <2>2, <2>3, <2>4, <2>5, <2>6 DEF TypeOK
<1>11. Places'
  <2> SUFFICES ASSUME NEW u \in Tcb
               PROVE  /\ pc'[u] \in InSem \cup {"none", "run", "sched", "del"}
                      /\ pc'[u] \in InSem => pevent'[u] \in Sem
                      /\ pc'[u] = "none" /\ u \in OSTCBList => u = t
                      /\ pc'[u] = "del" =>
                           /\ u = me /\ OSLockNesting' > 0
                           /\ pTCB'[u] \in OSTCBList \ {Idle} /\ pprio'[u] = OSTCBPrio[pTCB'[u]]
                           /\ pTCB'[u] = u \/ "OSSchedLock" \notin Calls => OSLockNesting' = 1
                           /\ pTCB'[u] # u => pc'[pTCB'[u]] = "none"
                           /\ OSTCBDly'[pTCB'[u]] = 0
    BY <1>2, <1>8 DEF Places
  <2>1. CASE u = me
    BY <1>1, <1>3, <1>4, <1>6, <1>7, <2>1 DEF InSem, Pending
  <2>2. CASE u = t /\ u # me
    BY <1>6, <2>2 DEF InSem, Pending
  <2>3. CASE u \notin {t, me}
    BY <1>0, <1>5, <1>6, <2>3 DEF Places
  <2> QED
    BY <2>1, <2>2, <2>3
<1>12. \A u \in OSTCBList \ {t} :
         /\ pc'[u] \in Pending <=> pc[u] \in Pending
         /\ pc[u] \in Pending => pc'[u] = pc[u] /\ pevent'[u] = pevent[u]
  BY <1>1, <1>3, <1>6 DEF Pending
<1>13. Waiting'
  <2> SUFFICES ASSUME NEW u \in OSTCBList
               PROVE  IF pc'[u] \in Pending THEN (Waits(u) \/ Late(u) \/ Answered(u))'
                      ELSE Woken(u)' /\ OSTCBStatPend'[u] = "OK"
    BY <1>2 DEF Waiting
  <2>1. CASE u = t
    <3>1. pc'[t] \notin Pending
      BY <1>6 DEF Pending
    <3> QED
      BY <1>7, <2>1, <3>1 DEF Woken
  <2>2. CASE u # t
    BY <1>0, <1>3, <1>7, <1>12, <2>2 DEF Waiting, Woken, Waits, Late, Answered
  <2> QED
    BY <2>1, <2>2
<1>14. Linked' /\ IdleReady'
  <2>1. Linked'
    BY <1>0, <1>2 DEF Linked, PrioTblConsistent
  <2>2. Idle \in Tcb \ {t, me}
    BY <1>1, <1>3 DEF Tcb
  <2> QED
    BY <1>0, <1>2, <1>6, <1>7, <2>1, <2>2 DEF IdleReady
<1>15. Cpu'
  <2>1. OSTCBPrioTbl[OSPrioCur] = me
    BY <1>0, <1>1 DEF Cpu
  <2>2. OSLockNesting' # 0
    BY <1>1, <1>4
  <2> QED
    BY <1>2, <1>3, <1>6, <2>1, <2>2 DEF Cpu, Pending
<1>16. ReadyExactly'
  <2>1. ASSUME NEW u \in OSTCBList \ {t}
        PROVE  OSTCBPrio[u] \in OSRdyTbl' <=> OSTCBStat'[u] = {} /\ OSTCBDly'[u] = 0
    <3>1. OSTCBPrio[u] # OSTCBPrio[t] /\ u \in Tcb \ {t}
      BY <1>3, OnePerPrio
    <3>2. OSTCBPrio[u] \in OSRdyTbl <=> OSTCBStat[u] = {} /\ OSTCBDly[u] = 0
      BY <1>0, <1>5 DEF ReadyExactly
    <3> QED
      BY <1>1, <1>7, <3>1, <3>2
  <2>2. \A p \in OSRdyTbl' : OSTCBPrioTbl[p] \in OSTCBList \ {t}
    BY <1>1, OnePerPrio
  <2> QED
    BY <1>2, <1>8, <2>1, <2>2 DEF ReadyExactly
<1>17. WaitListConsistent'
  <2>1. ASSUME NEW u \in Sem, NEW p \in OSEventTbl'[u]
        PROVE  OSTCBPrioTbl[p] \in OSTCBList /\ OSTCBEventPtr'[OSTCBPrioTbl[p]] = u
    <3>1. /\ OSTCBPrioTbl[p] \in OSTCBList /\ OSTCBPrioTbl[p] \in Tcb
          /\ OSTCBPrio[OSTCBPrioTbl[p]] = p /\ OSTCBEventPtr[OSTCBPrioTbl[p]] = u
      BY <1>9, WaitersOf
    <3>2. OSTCBPrioTbl[p] # t
      BY <1>9, <3>1
    <3> QED
      BY <1>7, <3>1, <3>2
  <2>2. ASSUME NEW u \in Sem, NEW v \in OSTCBList, OSTCBEventPtr'[v] = u
        PROVE  /\ OSTCBPrio[v] \in OSEventTbl'[u] /\ pc'[v] \in Pending /\ pevent'[v] = u
               /\ "SEM" \in OSTCBStat'[v] \/ OSTCBStatPend'[v] = "TO"
    <3>1. v # t /\ v \in Tcb
      BY <1>3, <1>7, <2>2, KernelAssumption
    <3>2. OSTCBPrio[v] # OSTCBPrio[t]
      BY <1>3, <3>1, OnePerPrio
    <3>3. /\ OSTCBEventPtr[v] = u /\ OSTCBStat'[v] = OSTCBStat[v]
          /\ OSTCBStatPend'[v] = OSTCBStatPend[v]
      BY <1>7, <2>2, <3>1
    <3>4. /\ OSTCBPrio[v] \in OSEventTbl[u] /\ pc[v] \in Pending /\ pevent[v] = u
          /\ "SEM" \in OSTCBStat[v] \/ OSTCBStatPend[v] = "TO"
      BY <1>0, <3>3 DEF WaitListConsistent, Pending
    <3> QED
      BY <1>9, <1>12, <3>1, <3>2, <3>3, <3>4
  <2> QED
    BY <1>2, <2>1, <2>2 DEF WaitListConsistent, Pending
<1>18. NoWaitWithTokens'
  BY <1>0, <1>2, <1>9 DEF NoWaitWithTokens
<1>19. ASSUME NEW u \in Sem PROVE Granted(u)' = Granted(u) \ {t}
  <2>1. ASSUME NEW v \in OSTCBList, v # t PROVE v \in Granted(u)' <=> v \in Granted(u)
    BY <1>2, <1>3, <1>7, <1>12, <2>1 DEF Granted, Pending
  <2>2. t \notin Granted(u)'
    BY <1>6 DEF Granted
  <2>3. Granted(u)' \subseteq OSTCBList /\ Granted(u) \subseteq OSTCBList
    BY <1>2 DEF Granted
  <2> QED
    BY <2>1, <2>2, <2>3
<1>20. TokensConserved'
  <2> SUFFICES ASSUME NEW u \in Sem
               PROVE  tokens'[u] = OSEventCnt[u] + Cardinality(Granted(u)')
    BY <1>2 DEF TokensConserved
  <2>1. tokens[u] = OSEventCnt[u] + Cardinality(Granted(u))
    BY <1>0 DEF TokensConserved
  <2>2. CASE t \in Granted(u)
    <3>1. Cardinality(Granted(u)') = Cardinality(Granted(u)) - 1
      BY <1>19, <2>2, GrantedFinite, FS_RemoveElement
    <3>2. tokens'[u] = tokens[u] - 1
      BY <1>1, <2>2
    <3>3. OSEventCnt[u] \in Int /\ Cardinality(Granted(u)) \in Int
      BY <1>0, GrantedFinite, KernelAssumption DEF TypeOK
    <3> QED
      BY <2>1, <3>1, <3>2, <3>3
  <2>3. CASE t \notin Granted(u)
    <3>1. Granted(u)' = Granted(u)
      BY <1>19, <2>3
    <3>2. tokens'[u] = tokens[u]
      BY <1>1, <2>3
    <3> QED
      BY <2>1, <3>1, <3>2
  <2> QED
    BY <2>2, <2>3
<1> QED
  BY <1>10, <1>11, <1>13, <1>14, <1>15, <1>16, <1>17, <1>18, <1>20 DEF IInv

\* Second critical section: the priority is free again and the task gone.
LEMMA UnlinkKeeps == ASSUME Steady, IInv, TaskUnlink PROVE IInv'
<1> DEFINE me == OSTCBCur
           t  == pTCB[me]
           old == OSTCBPrio[t]
<1>0. /\ TypeOK /\ Places /\ Waiting /\ Linked /\ IdleReady /\ Cpu
      /\ ReadyExactly /\ WaitListConsistent /\ NoWaitWithTokens /\ TokensConserved
  BY DEF IInv
<1>1. /\ me \in Tcb /\ me # Idle /\ pc[me] = "del" /\ me \in OSTCBList /\ OSTCBList \subseteq Tcb
      /\ LowestPrio \in Prios /\ MaxLock \in Nat
  BY <1>0, KernelAssumption DEF TaskUnlink, At, TypeOK, Cpu, Prios
<1>2. /\ OSLockNesting > 0 /\ t \in OSTCBList /\ t # Idle /\ pprio[me] = old /\ t \in Task
      /\ t = me \/ "OSSchedLock" \notin Calls => OSLockNesting = 1
  BY <1>0, <1>1 DEF Places, Tcb
<1>3. t # me => pc[t] = "none"
  BY <1>0, <1>1 DEF Places
<1>4. Dying = {t} /\ old \in Prios /\ OSTCBPrioTbl[old] = t
  BY <1>0, <1>1, <1>2, DyingIs, OnePerPrio
<1>5. \A u \in OSTCBList \ {t} : OSTCBPrio[u] # old /\ OSTCBPrio[u] \in Prios /\ u \in Tcb
  BY <1>2, OnePerPrio
<1>6. /\ OSLockNesting' = OSLockNesting - 1
      /\ OSTCBPrioTbl' = [OSTCBPrioTbl EXCEPT ![old] = Null]
      /\ OSTCBList' = OSTCBList \ {t} /\ OSTCBFreeList' = OSTCBFreeList \cup {t}
      /\ pevent' = [pevent EXCEPT ![me] = Null] /\ pprio' = [pprio EXCEPT ![me] = LowestPrio]
      /\ pTCB' = [pTCB EXCEPT ![me] = Null]
  BY <1>2 DEF TaskUnlink, Unlinked
<1>7. /\ OSTCBPrio' = OSTCBPrio /\ OSTCBStat' = OSTCBStat /\ OSTCBStatPend' = OSTCBStatPend
      /\ OSTCBDly' = OSTCBDly /\ OSTCBEventPtr' = OSTCBEventPtr /\ OSRdyTbl' = OSRdyTbl
      /\ OSEventType' = OSEventType /\ OSEventFreeList' = OSEventFreeList
      /\ OSEventCnt' = OSEventCnt /\ OSEventTbl' = OSEventTbl /\ tokens' = tokens
  BY DEF TaskUnlink, tcbVars, evVars
<1>8. OSTCBPrioTbl'[old] = Null /\ \A p \in Prios \ {old} : OSTCBPrioTbl'[p] = OSTCBPrioTbl[p]
  BY <1>0, <1>4, <1>6 DEF TypeOK
<1>9. \A p \in OSRdyTbl : /\ p \in Prios /\ p # old /\ OSTCBPrioTbl'[p] = OSTCBPrioTbl[p]
                          /\ OSTCBPrioTbl[p] \in OSTCBList \ {t}
  BY <1>4, <1>8, OnePerPrio
<1>10. /\ Min(OSRdyTbl) \in OSRdyTbl /\ OSTCBPrioTbl[OSPrioCur] = me
  BY <1>0, <1>1, SomebodyReady DEF Cpu
<1>11. /\ pc' = [pc EXCEPT ![me] = IF t = me THEN "none" ELSE "sched"]
       /\ t = me => /\ OSPrioCur' = Min(OSRdyTbl) /\ OSTCBCur' = OSTCBPrioTbl[OSPrioCur']
                    /\ OSPrioCur' \in OSRdyTbl /\ OSTCBCur' \in OSTCBList \ {t}
       /\ t # me => OSPrioCur' = OSPrioCur /\ OSTCBCur' = me
  <2>1. CASE t = me
    <3>1. OSLockNesting - 1 = 0
      BY <1>2, <2>1
    <3>2. Min(OSRdyTbl) # OSPrioCur
      BY <1>9, <1>10, <2>1
    <3>3. pc' = [pc EXCEPT ![me] = "none"] /\ Dispatch(OSRdyTbl, OSTCBPrioTbl', OSLockNesting - 1)
      BY <2>1 DEF TaskUnlink
    <3>4. OSPrioCur' = Min(OSRdyTbl) /\ OSTCBCur' = OSTCBPrioTbl'[Min(OSRdyTbl)]
      BY <3>1, <3>2, <3>3 DEF Dispatch
    <3> QED
      BY <1>9, <1>10, <2>1, <3>3, <3>4
  <2>2. CASE t # me
    <3>1. Goto("sched") /\ UNCHANGED cpuVars
      BY <2>2 DEF TaskUnlink
    <3> QED
      BY <2>2, <3>1 DEF Goto, cpuVars
  <2> QED
    BY <2>1, <2>2
<1>12. /\ pc'[me] = IF t = me THEN "none" ELSE "sched"
       /\ \A u \in Tcb \ {me} : pc'[u] = pc[u] /\ pevent'[u] = pevent[u]
  BY <1>0, <1>1, <1>6, <1>11 DEF TypeOK
<1>13. \A u \in Tcb \ {me} : pc[u] # "del" /\ (u \in OSTCBList \ {t} => pc[u] # "none")
  BY <1>0, <1>4 DEF Places
<1>14. OSTCBCur' \in OSTCBList \ {t} /\ OSTCBCur' \in Tcb /\ OSPrioCur' \in Prios
  BY <1>0, <1>1, <1>9, <1>11 DEF TypeOK
<1>15. pc'[OSTCBCur'] # "del" /\ pc'[OSTCBCur'] # "none" /\ Dying' = {}
  BY <1>11, <1>12, <1>13, <1>14, DyingIs
<1>16. TypeOK'
  <2>1. /\ OSTCBPrioTbl' \in [Prios -> Tcb \cup {Null, Reserved}]
        /\ OSTCBList' \subseteq Tcb /\ OSTCBFreeList' \subseteq Task
    BY <1>0, <1>2, <1>6 DEF TypeOK
  <2>2. OSLockNesting' \in 0 .. MaxLock + 1
    BY <1>0, <1>1, <1>2, <1>6 DEF TypeOK
  <2>3. pc' \in [Tcb -> PC]
    BY <1>0, <1>11 DEF TypeOK, PC
  <2>4. /\ pevent' \in [Tcb -> Sem \cup {Null}] /\ pprio' \in [Tcb -> Prios]
        /\ pTCB' \in [Tcb -> Task \cup {Null}]
    BY <1>0, <1>1, <1>6 DEF TypeOK
  <2> QED
    BY <1>0, <1>7, <1>14, <2>1, <2>2, <2>3, <2>4 DEF TypeOK
<1>17. Places'
  <2> SUFFICES ASSUME NEW u \in Tcb
               PROVE  /\ pc'[u] \in InSem \cup {"none", "run", "sched"}
                      /\ pc'[u] # "del"
                      /\ pc'[u] \in InSem => pevent'[u] \in Sem
                      /\ u \in OSTCBList \ {t} => pc'[u] # "none"
    BY <1>6, <1>15 DEF Places
  <2>1. CASE u = me
    BY <1>12, <2>1 DEF InSem, Pending
  <2>2. CASE u # me
    BY <1>0, <1>12, <1>13, <2>2 DEF Places
  <2> QED
    BY <2>1, <2>2
<1>18. \A u \in OSTCBList \ {t} :
         /\ u \in Tcb /\ (pc'[u] \in Pending <=> pc[u] \in Pending)
         /\ pc[u] \in Pending => pc'[u] = pc[u] /\ pevent'[u] = pevent[u]
  BY <1>1, <1>5, <1>12 DEF Pending
<1>19. Waiting'
  BY <1>0, <1>6, <1>7, <1>18 DEF Waiting, Woken, Waits, Late, Answered
<1>20. Linked' /\ IdleReady'
  <2>1. \A u \in OSTCBList' : OSTCBPrioTbl'[OSTCBPrio[u]] = u
    BY <1>0, <1>5, <1>6, <1>8 DEF Linked, PrioTblConsistent
  <2>2. \A p \in Prios : OSTCBPrioTbl'[p] \in Tcb =>
          p # old /\ OSTCBPrio[OSTCBPrioTbl'[p]] = p /\ OSTCBPrioTbl'[p] \in OSTCBList'
    <3>1. Null \notin Tcb
      BY KernelAssumption
    <3>2. ASSUME NEW p \in Prios \ {old}, OSTCBPrioTbl[p] \in Tcb
          PROVE  OSTCBPrio[OSTCBPrioTbl[p]] = p /\ OSTCBPrioTbl[p] \in OSTCBList \ {t}
      BY <1>0, <3>2 DEF Linked, PrioTblConsistent
    <3> QED
      BY <1>6, <1>8, <3>1, <3>2
  <2>3. Idle \in OSTCBList' /\ OSTCBList' \cap OSTCBFreeList' = {}
    BY <1>0, <1>2, <1>6 DEF Linked, PrioTblConsistent
  <2>4. pc'[Idle] = pc[Idle]
    BY <1>1, <1>12 DEF Tcb
  <2> QED
    BY <1>0, <1>7, <2>1, <2>2, <2>3, <2>4 DEF Linked, PrioTblConsistent, IdleReady
<1>21. Cpu'
  <2>1. CASE t = me
    <3>1. OSLockNesting' = 0
      BY <1>2, <1>6, <2>1
    <3>2. OSTCBPrioTbl'[OSPrioCur'] = OSTCBCur' /\ OSPrioCur' = Min(OSRdyTbl')
      BY <1>7, <1>9, <1>11, <2>1
    <3>3. OSLockNesting' <= MaxLock /\ OSTCBCur' \in OSTCBList'
      BY <1>1, <1>6, <1>14, <3>1
    <3> QED
      BY <1>15, <3>1, <3>2, <3>3 DEF Cpu
  <2>2. CASE t # me
    <3>1. OSTCBPrioTbl'[OSPrioCur'] = OSTCBCur' /\ pc'[OSTCBCur'] = "sched"
      <4>1. OSPrioCur # old /\ OSPrioCur \in Prios
        BY <1>0, <1>4, <1>10, <2>2 DEF TypeOK
      <4> QED
        BY <1>8, <1>10, <1>11, <1>12, <2>2, <4>1
    <3>2. OSLockNesting' <= MaxLock /\ ("OSSchedLock" \notin Calls => OSLockNesting' = 0)
      BY <1>0, <1>1, <1>2, <1>6 DEF TypeOK
    <3> QED
      BY <1>6, <1>14, <3>1, <3>2 DEF Cpu, NotSwitched, Pending
  <2> QED
    BY <2>1, <2>2
<1>22. ReadyExactly'
  <2>1. ASSUME NEW u \in OSTCBList \ {t}
        PROVE  OSTCBPrio[u] \in OSRdyTbl <=> OSTCBStat[u] = {} /\ OSTCBDly[u] = 0
    BY <1>0, <1>4 DEF ReadyExactly
  <2> QED
    BY <1>6, <1>7, <1>9, <1>15, <2>1 DEF ReadyExactly
<1>23. WaitListConsistent'
  <2>1. ASSUME NEW u \in Sem, NEW p \in OSEventTbl[u]
        PROVE  /\ OSTCBPrioTbl'[p] \in OSTCBList \ {t}
               /\ OSTCBEventPtr[OSTCBPrioTbl'[p]] = u
    <3>1. /\ OSTCBPrioTbl[p] \in OSTCBList /\ OSTCBEventPtr[OSTCBPrioTbl[p]] = u
          /\ pc[OSTCBPrioTbl[p]] \in Pending /\ p \in Prios
      BY <1>0, WaitersOf DEF TypeOK
    <3>2. pc[t] \notin Pending
      BY <1>1, <1>3 DEF Pending
    <3>3. p # old
      BY <1>4, <3>1, <3>2
    <3> QED
      BY <1>8, <3>1, <3>2, <3>3
  <2>2. ASSUME NEW u \in Sem, NEW v \in OSTCBList \ {t}, OSTCBEventPtr[v] = u
        PROVE  /\ OSTCBPrio[v] \in OSEventTbl[u] /\ pc'[v] \in Pending /\ pevent'[v] = u
               /\ "SEM" \in OSTCBStat[v] \/ OSTCBStatPend[v] = "TO"
    <3>1. /\ OSTCBPrio[v] \in OSEventTbl[u] /\ pc[v] \in Pending /\ pevent[v] = u
          /\ "SEM" \in OSTCBStat[v] \/ OSTCBStatPend[v] = "TO"
      BY <1>0, <2>2 DEF WaitListConsistent, Pending
    <3> QED
      BY <1>18, <3>1
  <2> QED
    BY <1>6, <1>7, <2>1, <2>2 DEF WaitListConsistent, Pending
<1>24. NoWaitWithTokens'
  BY <1>0, <1>7 DEF NoWaitWithTokens
<1>25. TokensConserved'
  <2>1. ASSUME NEW u \in Sem PROVE Granted(u)' = Granted(u)
    <3>1. t \notin Granted(u)
      BY <1>1, <1>3 DEF Granted
    <3>2. \A v \in OSTCBList \ {t} : v \in Granted(u)' <=> v \in Granted(u)
      BY <1>6, <1>7, <1>18 DEF Granted, Pending
    <3>3. Granted(u)' \subseteq OSTCBList \ {t} /\ Granted(u) \subseteq OSTCBList
      BY <1>6 DEF Granted
    <3> QED
      BY <3>1, <3>2, <3>3
  <2> QED
    BY <1>0, <1>7, <2>1 DEF TokensConserved
<1> QED
  BY <1>16, <1>17, <1>19, <1>20, <1>21, <1>22, <1>23, <1>24, <1>25 DEF IInv

-----------------------------------------------------------------------------
(* Changing a priority.                                                    *)

\* Ready bit and wait bit move with the priority; OSPrioCur may become stale.
LEMMA ChangePrioKeeps == ASSUME Steady, IInv, OSTaskChangePrio PROVE IInv'
<1> DEFINE me == OSTCBCur
<1>0. /\ TypeOK /\ Places /\ Waiting /\ Linked /\ IdleReady /\ Cpu
      /\ ReadyExactly /\ WaitListConsistent /\ NoWaitWithTokens /\ TokensConserved
  BY DEF IInv
<1>1. PICK old, new \in Prios \ {LowestPrio} :
        LET t == OSTCBPrioTbl[old] IN
        /\ OSTCBPrioTbl[new] = Null
        /\ t \in Task
        /\ OSTCBPrioTbl' = [OSTCBPrioTbl EXCEPT ![old] = Null, ![new] = t]
        /\ OSRdyTbl' = RdyMoved(old, new)
        /\ OSEventTbl' = WaiterMoved(t, new)
        /\ OSTCBPrio' = PrioMoved(t, new)
  BY DEF OSTaskChangePrio
<1> DEFINE t == OSTCBPrioTbl[old]
<1>2. /\ OSTCBPrioTbl[new] = Null /\ t \in Task
      /\ OSTCBPrioTbl' = [OSTCBPrioTbl EXCEPT ![old] = Null, ![new] = t]
      /\ OSRdyTbl' = RdyMoved(old, new) /\ OSEventTbl' = WaiterMoved(t, new)
      /\ OSTCBPrio' = [OSTCBPrio EXCEPT ![t] = new]
  BY <1>1 DEF PrioMoved
<1>3. /\ OSTCBStat' = OSTCBStat /\ OSTCBStatPend' = OSTCBStatPend
      /\ OSTCBDly' = OSTCBDly /\ OSTCBEventPtr' = OSTCBEventPtr
      /\ OSTCBList' = OSTCBList /\ OSTCBFreeList' = OSTCBFreeList
      /\ OSTCBCur' = OSTCBCur /\ OSPrioCur' = OSPrioCur /\ OSLockNesting' = OSLockNesting
      /\ OSEventType' = OSEventType /\ OSEventFreeList' = OSEventFreeList
      /\ OSEventCnt' = OSEventCnt /\ tokens' = tokens
      /\ pc' = [pc EXCEPT ![me] = "sched"] /\ pevent' = [pevent EXCEPT ![me] = Null]
      /\ pprio' = [pprio EXCEPT ![me] = LowestPrio] /\ pTCB' = [pTCB EXCEPT ![me] = Null]
  BY DEF OSTaskChangePrio, cpuVars, ToSched, Goto
<1>4. me # Idle /\ pc[me] = "run" /\ "OSSchedLock" \notin Calls
  BY DEF OSTaskChangePrio, MayCall, At, Steady
<1>5. OSLockNesting = 0 /\ Dying = {} /\ OSTCBPrio[me] = OSPrioCur /\ OSTCBPrioTbl[OSPrioCur] = me
  BY <1>4, Nesting, CurReady DEF NotSwitched
<1>6. /\ t \in Tcb /\ t \in OSTCBList /\ t # Idle /\ OSTCBPrio[t] = old /\ old # new
      /\ me \in Tcb /\ me \in OSTCBList /\ OSTCBList \subseteq Tcb
      /\ LowestPrio \in Prios /\ Null \notin Tcb /\ old \in Prios /\ new \in Prios
  BY <1>0, <1>2, KernelAssumption DEF Linked, PrioTblConsistent, TypeOK, Tcb, Cpu, Prios
<1>7. /\ \A u \in OSTCBList : u \in Tcb /\ OSTCBPrio[u] # new /\ (u # t => OSTCBPrio[u] # old)
      /\ \A u \in OSTCBList : OSTCBPrio[u] \in Prios
  BY <1>2, <1>6, OnePerPrio
<1>8. OSTCBPrio'[t] = new /\ \A u \in Tcb \ {t} : OSTCBPrio'[u] = OSTCBPrio[u]
  BY <1>0, <1>2, <1>6 DEF TypeOK
<1>9. /\ OSTCBPrioTbl'[old] = Null /\ OSTCBPrioTbl'[new] = t
      /\ \A p \in Prios \ {old, new} : OSTCBPrioTbl'[p] = OSTCBPrioTbl[p]
  BY <1>0, <1>2, <1>6 DEF TypeOK
<1>10. new \notin OSRdyTbl /\ \A s \in Sem : new \notin OSEventTbl[s]
  BY <1>2, <1>6, OnePerPrio, WaitersOf
<1>11. /\ OSRdyTbl' = IF old \in OSRdyTbl THEN (OSRdyTbl \ {old}) \cup {new} ELSE OSRdyTbl
       /\ OSRdyTbl \subseteq Prios
  BY <1>0, <1>2 DEF RdyMoved, TypeOK
<1>12. \A s \in Sem :
         OSEventTbl'[s] = IF s = OSTCBEventPtr[t] THEN (OSEventTbl[s] \ {old}) \cup {new}
                          ELSE OSEventTbl[s]
  <2> TAKE s \in Sem
  <2>1. s # Null /\ OSEventTbl \in [Sem -> SUBSET Prios] /\ OSTCBEventPtr[t] \in Sem \cup {Null}
    BY <1>0, <1>6, KernelAssumption DEF TypeOK
  <2>2. CASE OSTCBEventPtr[t] = Null
    BY <1>2, <2>1, <2>2 DEF WaiterMoved
  <2>3. CASE OSTCBEventPtr[t] # Null
    <3> DEFINE e == OSTCBEventPtr[t]
               tbl == [OSEventTbl EXCEPT ![e] = @ \ {old}]
    <3>1. OSEventTbl' = [tbl EXCEPT ![e] = @ \cup {new}] /\ e \in Sem
      BY <1>2, <1>6, <2>1, <2>3 DEF WaiterMoved, WithoutWaiter
    <3>2. tbl[e] = OSEventTbl[e] \ {old} /\ \A x \in Sem \ {e} : tbl[x] = OSEventTbl[x]
      BY <2>1, <3>1
    <3>3. DOMAIN tbl = Sem
      BY <2>1
    <3> HIDE DEF tbl
    <3> QED
      BY <3>1, <3>2, <3>3
  <2> QED
    BY <2>2, <2>3
<1>13. \A s \in Sem : old \in OSEventTbl[s] <=> OSTCBEventPtr[t] = s
  BY <1>0, <1>6, WaitersOf DEF WaitListConsistent
<1>14. \A u \in Tcb \ {me} : pevent'[u] = pevent[u]
  BY <1>0, <1>3 DEF TypeOK
<1>15. /\ Places' /\ Dying' = {} /\ pc'[Idle] = "run" /\ pc' \in [Tcb -> PC]
       /\ pc'[me] = "sched" /\ \A u \in Tcb \ {me} : pc'[u] = pc[u]
  <2>1. /\ "sched" \in InSem \cup {"run", "sched"} /\ "sched" \notin InSem /\ pc[me] # "del"
        /\ OSTCBCur' \in Tcb /\ OSTCBList' \subseteq OSTCBList
    BY <1>3, <1>4, <1>6 DEF InSem, Pending
  <2> QED
    BY <1>3, <1>4, <1>14, <2>1, Moved, Zenon
<1>16. \A u \in Tcb : /\ pc'[u] \in Pending <=> pc[u] \in Pending
                      /\ pc[u] \in Pending => pc'[u] = pc[u] /\ pevent'[u] = pevent[u]
  BY <1>4, <1>14, <1>15 DEF Pending
<1>17. TypeOK'
  <2>1. OSTCBPrioTbl' \in [Prios -> Tcb \cup {Null, Reserved}] /\ OSTCBPrio' \in [Tcb -> Prios]
    BY <1>0, <1>2, <1>6 DEF TypeOK
  <2>2. OSRdyTbl' \subseteq Prios
    BY <1>6, <1>11
  <2>3. OSEventTbl' \in [Sem -> SUBSET Prios]
    <3> DEFINE e == OSTCBEventPtr[t]
               tbl == [OSEventTbl EXCEPT ![e] = @ \ {old}]
    <3>1. tbl \in [Sem -> SUBSET Prios] /\ OSEventTbl \in [Sem -> SUBSET Prios]
      BY <1>0 DEF TypeOK
    <3>2. OSEventTbl' = OSEventTbl \/ OSEventTbl' = [tbl EXCEPT ![e] = @ \cup {new}]
      BY <1>2, <1>6 DEF WaiterMoved, WithoutWaiter
    <3> HIDE DEF tbl, e
    <3> QED
      BY <1>6, <3>1, <3>2
  <2>4. /\ pevent' \in [Tcb -> Sem \cup {Null}] /\ pprio' \in [Tcb -> Prios]
        /\ pTCB' \in [Tcb -> Task \cup {Null}]
    BY <1>0, <1>3, <1>6 DEF TypeOK
  <2> QED
    BY <1>0, <1>3, <1>15, <2>1, <2>2, <2>3, <2>4 DEF TypeOK
<1>18. Waiting'
  BY <1>0, <1>3, <1>6, <1>16 DEF Waiting, Woken, Waits, Late, Answered
<1>19. Linked' /\ IdleReady'
  <2>1. \A u \in OSTCBList : OSTCBPrioTbl'[OSTCBPrio'[u]] = u
    <3> TAKE u \in OSTCBList
    <3>1. CASE u = t
      BY <1>8, <1>9, <3>1
    <3>2. CASE u # t
      BY <1>7, <1>8, <1>9, <3>2, OnePerPrio
    <3> QED
      BY <3>1, <3>2
  <2>2. \A p \in Prios : OSTCBPrioTbl'[p] \in Tcb =>
          OSTCBPrio'[OSTCBPrioTbl'[p]] = p /\ OSTCBPrioTbl'[p] \in OSTCBList
    <3> TAKE p \in Prios
    <3>1. CASE p = old
      BY <1>6, <1>9, <3>1
    <3>2. CASE p = new
      BY <1>6, <1>8, <1>9, <3>2
    <3>3. CASE p \notin {old, new}
      BY <1>0, <1>6, <1>8, <1>9, <3>3 DEF Linked, PrioTblConsistent
    <3> QED
      BY <3>1, <3>2, <3>3
  <2>3. OSTCBPrio'[Idle] = OSTCBPrio[Idle]
    BY <1>6, <1>8 DEF Tcb
  <2> QED
    BY <1>0, <1>3, <1>15, <2>1, <2>2, <2>3 DEF Linked, PrioTblConsistent, IdleReady
<1>20. Cpu'
  <2>1. OSTCBPrioTbl'[OSPrioCur] = me \/ OSTCBPrioTbl'[OSPrioCur] = Null
    BY <1>5, <1>6, <1>7, <1>9
  <2>2. /\ OSTCBCur' = me /\ OSTCBCur' \in OSTCBList' /\ pc'[OSTCBCur'] = "sched"
        /\ OSPrioCur' = OSPrioCur /\ OSLockNesting' = 0 /\ OSLockNesting' <= MaxLock
    BY <1>3, <1>5, <1>6, <1>15, KernelAssumption
  <2> QED
    BY <2>1, <2>2 DEF Cpu, NotSwitched, Pending
<1>21. ReadyExactly'
  <2>1. ASSUME NEW u \in OSTCBList
        PROVE  OSTCBPrio'[u] \in OSRdyTbl' <=> OSTCBStat[u] = {} /\ OSTCBDly[u] = 0
    <3>1. OSTCBPrio[u] \in OSRdyTbl <=> OSTCBStat[u] = {} /\ OSTCBDly[u] = 0
      BY <1>0, <1>5 DEF ReadyExactly
    <3>2. CASE u = t
      BY <1>6, <1>8, <1>10, <1>11, <3>1, <3>2
    <3>3. CASE u # t
      BY <1>7, <1>8, <1>11, <3>1, <3>3
    <3> QED
      BY <3>2, <3>3
  <2>2. \A p \in OSRdyTbl' : OSTCBPrioTbl'[p] \in OSTCBList
    BY <1>6, <1>9, <1>10, <1>11, OnePerPrio
  <2> QED
    BY <1>3, <1>15, <2>1, <2>2 DEF ReadyExactly
<1>22. WaitListConsistent'
  <2>1. ASSUME NEW s \in Sem, NEW p \in OSEventTbl'[s]
        PROVE  OSTCBPrioTbl'[p] \in OSTCBList /\ OSTCBEventPtr[OSTCBPrioTbl'[p]] = s
    <3>1. CASE p = new
      BY <1>6, <1>9, <1>10, <1>12, <3>1
    <3>2. CASE p # new
      <4>1. p \in OSEventTbl[s] /\ p # old
        <5>1. CASE s = OSTCBEventPtr[t]
          BY <1>12, <3>2, <5>1
        <5>2. CASE s # OSTCBEventPtr[t]
          BY <1>12, <1>13, <5>2
        <5> QED
          BY <5>1, <5>2
      <4>2. p \in Prios
        BY <1>0, <4>1 DEF TypeOK
      <4> QED
        BY <1>9, <3>2, <4>1, <4>2, WaitersOf
    <3> QED
      BY <3>1, <3>2
  <2>2. ASSUME NEW s \in Sem, NEW v \in OSTCBList, OSTCBEventPtr[v] = s
        PROVE  /\ OSTCBPrio'[v] \in OSEventTbl'[s] /\ pc'[v] \in Pending /\ pevent'[v] = s
               /\ "SEM" \in OSTCBStat[v] \/ OSTCBStatPend[v] = "TO"
    <3>1. /\ OSTCBPrio[v] \in OSEventTbl[s] /\ pc[v] \in Pending /\ pevent[v] = s
          /\ "SEM" \in OSTCBStat[v] \/ OSTCBStatPend[v] = "TO"
      BY <1>0, <2>2 DEF WaitListConsistent, Pending
    <3>2. OSTCBPrio'[v] \in OSEventTbl'[s]
      <4>1. CASE v = t
        BY <1>8, <1>12, <2>2, <4>1
      <4>2. CASE v # t
        BY <1>7, <1>8, <1>12, <3>1, <4>2
      <4> QED
        BY <4>1, <4>2
    <3> QED
      BY <1>6, <1>16, <3>1, <3>2
  <2> QED
    BY <1>3, <2>1, <2>2 DEF WaitListConsistent, Pending
<1>23. NoWaitWithTokens'
  <2> SUFFICES ASSUME NEW s \in Sem, OSEventCnt[s] > 0 PROVE OSEventTbl'[s] = {}
    BY <1>3 DEF NoWaitWithTokens
  <2>1. OSEventTbl[s] = {}
    BY <1>0 DEF NoWaitWithTokens
  <2> QED
    BY <1>12, <1>13, <2>1
<1>24. TokensConserved'
  <2>1. ASSUME NEW s \in Sem PROVE Granted(s)' = Granted(s)
    BY <1>3, <1>6, <1>16 DEF Granted, Pending
  <2> QED
    BY <1>0, <1>3, <2>1 DEF TokensConserved
<1> QED
  BY <1>15, <1>17, <1>18, <1>19, <1>20, <1>21, <1>22, <1>23, <1>24 DEF IInv

-----------------------------------------------------------------------------
\* Nothing changes.
LEMMA StutterKeeps == ASSUME IInv, UNCHANGED vars PROVE IInv'
<1>0. /\ OSTCBPrioTbl' = OSTCBPrioTbl /\ OSTCBList' = OSTCBList /\ OSTCBFreeList' = OSTCBFreeList
      /\ OSTCBPrio' = OSTCBPrio /\ OSTCBStat' = OSTCBStat /\ OSTCBStatPend' = OSTCBStatPend
      /\ OSTCBDly' = OSTCBDly /\ OSTCBEventPtr' = OSTCBEventPtr /\ OSRdyTbl' = OSRdyTbl
      /\ OSTCBCur' = OSTCBCur /\ OSPrioCur' = OSPrioCur /\ OSLockNesting' = OSLockNesting
      /\ OSEventType' = OSEventType /\ OSEventFreeList' = OSEventFreeList
      /\ OSEventCnt' = OSEventCnt /\ OSEventTbl' = OSEventTbl /\ pc' = pc
      /\ pevent' = pevent /\ pprio' = pprio /\ pTCB' = pTCB /\ tokens' = tokens
  BY DEF vars, tcbVars, listVars, cpuVars, evVars, locals
<1>1. Dying' = Dying
  BY <1>0, DyingIs
<1>2. TypeOK'
  BY <1>0 DEF IInv, TypeOK
<1>3. Places'
  BY <1>0, <1>1 DEF IInv, Places
<1>4. Waiting'
  BY <1>0 DEF IInv, Waiting, Waits, Late, Answered, Woken
<1>5. Linked' /\ IdleReady' /\ Cpu'
  BY <1>0 DEF IInv, Linked, PrioTblConsistent, IdleReady, Cpu
<1>6. ReadyExactly'
  BY <1>0, <1>1 DEF IInv, ReadyExactly
<1>7. WaitListConsistent' /\ NoWaitWithTokens'
  BY <1>0 DEF IInv, WaitListConsistent, NoWaitWithTokens
<1>8. TokensConserved'
  <2>1. ASSUME NEW s \in Sem PROVE Granted(s)' = Granted(s)
    BY <1>0 DEF Granted
  <2> QED
    BY <1>0, <2>1 DEF IInv, TokensConserved
<1> QED
  BY <1>2, <1>3, <1>4, <1>5, <1>6, <1>7, <1>8 DEF IInv

\* Without creations and deletions of blocks their code is never reached.
LEMMA NotSteady ==
  ASSUME Steady, IInv
  PROVE  ~ (SemDel \/ OSSemCreate \/ SemInit \/ OSTaskCreate \/ TcbInit \/ TcbPrio \/ TcbLink)
<1>1. pc[OSTCBCur] \in InSem \cup {"none", "run", "sched", "del"}
  BY DEF IInv, Places, TypeOK
<1>2. ~ (SemDel \/ SemInit \/ TcbInit \/ TcbPrio \/ TcbLink)
  BY <1>1 DEF SemDel, SemInit, TcbInit, TcbPrio, TcbLink, At, InSem, Pending
<1>3. ~ (OSSemCreate \/ OSTaskCreate)
  BY DEF OSSemCreate, OSTaskCreate, MayCall, Steady, SteadyCalls
<1> QED
  BY <1>2, <1>3

\* One lemma per action.
LEMMA StepKeeps == ASSUME Steady, IInv, [Next]_vars PROVE IInv'
<1>1. CASE UNCHANGED vars
  BY <1>1, StutterKeeps
<1>2. CASE Tick
  BY <1>2, TickKeeps
<1>3. CASE OS_Sched \/ OSSchedLock \/ OSSchedUnlock \/ OSTimeDly
  BY <1>3, SchedKeeps, LockKeeps, DlyKeeps
<1>4. CASE \E op \in SemCalls, s \in Sem : SemEnter(op, s)
  BY <1>4, EnterKeeps
<1>5. CASE SemPend \/ SemPendRet \/ SemPost \/ SemAccept \/ SemPendAbort \/ SemSet
  BY <1>5, PendKeeps, PendRetKeeps, PostKeeps, AcceptKeeps, AbortKeeps, SetKeeps
<1>6. CASE OSTaskDel \/ TaskUnlink \/ OSTaskChangePrio \/ OSTaskSuspend \/ OSTaskResume
  BY <1>6, DelKeeps, UnlinkKeeps, ChangePrioKeeps, SuspendKeeps, ResumeKeeps
<1>7. CASE SemDel \/ OSSemCreate \/ SemInit \/ OSTaskCreate \/ TcbInit \/ TcbPrio \/ TcbLink
  BY <1>7, NotSteady
<1> QED
  BY <1>1, <1>2, <1>3, <1>4, <1>5, <1>6, <1>7 DEF Next

\* The kernel of a started gateway keeps its blocks, lists and tables of their types and
\* consistent: linked tasks own their priorities, and a wait list holds the tasks that
\* point at it, and those only, never beside a count that is not zero (OS_EventTaskWait,
\* OS_EventTaskRdy, OS_EventTaskRemove, OSTaskChangePrio, OSTaskDel).
THEOREM KernelTables ==
  ASSUME Steady
  PROVE  Spec => [](TablesConsistent /\ WaitListConsistent /\ NoWaitWithTokens /\ IInv)
<1>1. Init => IInv
  BY Initially
<1>2. IInv /\ [Next]_vars => IInv'
  BY StepKeeps
<1>3. IInv => TablesConsistent /\ WaitListConsistent /\ NoWaitWithTokens /\ IInv
  BY DEF IInv, Linked, TablesConsistent
<1> QED
  BY <1>1, <1>2, <1>3, PTL DEF Spec

\* No wake-up is lost and no task runs that should wait: a linked task is in the ready
\* list exactly when it waits for nothing, whatever order posts, timeouts, aborts,
\* suspensions, changes of priority and deletions come in (OSRdyTbl).
THEOREM ReadyListExact == ASSUME Steady PROVE Spec => []ReadyExactly
<1>1. IInv => ReadyExactly
  BY DEF IInv
<1> QED
  BY <1>1, KernelTables, PTL

\* Tokens are neither lost nor doubled: each is in the count of its semaphore or on its
\* way to one woken task (OSSemPost, OSSemPend and the services that race them).
THEOREM TokensKept == ASSUME Steady PROVE Spec => []TokensConserved
<1>1. IInv => TokensConserved
  BY DEF IInv
<1> QED
  BY <1>1, KernelTables, PTL

\* Application code runs in the most urgent ready task unless the scheduler is locked
\* (OS_Sched, OSIntExit, OS_SchedNew).
THEOREM HighestRuns == ASSUME Steady PROVE Spec => []HighestReadyRuns
<1>1. IInv => HighestReadyRuns
  <2> SUFFICES ASSUME IInv, OSLockNesting = 0, pc[OSTCBCur] = "run"
               PROVE  OSTCBCur = OSTCBPrioTbl[Min(OSRdyTbl)]
    BY DEF HighestReadyRuns
  <2>1. OSPrioCur = Min(OSRdyTbl) /\ OSTCBPrioTbl[OSPrioCur] = OSTCBCur
    BY DEF IInv, Cpu, NotSwitched
  <2> QED
    BY <2>1
<1> QED
  BY <1>1, KernelTables, PTL

\* A semaphore's tokens, its waiters and the CPU agree: nobody waits where there are tokens,
\* none of which is lost or doubled, and the most urgent ready task runs (os_sem.c and
\* OS_Sched).  MCSync checks it on one semaphore and three tasks.
THEOREM SemaphoresRight == ASSUME Steady PROVE Spec => []SemInv
<1> QED
  BY KernelTables, TokensKept, HighestRuns, PTL DEF SemInv
=============================================================================
