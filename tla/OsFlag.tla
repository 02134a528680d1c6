------------------------------- MODULE OsFlag -------------------------------
(***************************************************************************)
(* Event flag groups of uC/OS-II (ucosII/Source/os_flag.c).  The nodes of  *)
(* a group's wait list are the tasks in OSEventTbl with what node says of  *)
(* them; a post looks at all of them, so their order makes no difference.  *)
(*                                                                         *)
(* A group is deleted only while nobody waits (OS_DEL_NO_PEND), and each   *)
(* group is waited on for flags to be set, or for flags to be cleared.     *)
(* Neither is what the code demands: see the README.                       *)
(***************************************************************************)
EXTENDS OsEvent

CONSTANT Flag      \* the bits of OS_FLAGS

VARIABLES
  OSFlagFlags,     \* the flags of each group that are set
  OSTCBFlagsRdy,   \* the flags that woke a task, until its pend returns them
  node,            \* what each task waits for: OS_FLAG_NODE
  polarity         \* ghost: what each group is waited on for

flagVars == <<OSFlagFlags, OSTCBFlagsRdy, node, polarity>>
flagAll == <<coreVars, flagVars>>

NoNode == [flags |-> {}, type |-> "SET_ALL", consume |-> FALSE]
SetTypes == {"SET_ALL", "SET_ANY"}
ClrTypes == {"CLR_ALL", "CLR_ANY"}

FlagInit ==
  /\ OSFlagFlags = [e \in Event |-> {}]
  /\ OSTCBFlagsRdy = [t \in Tcb |-> {}]
  /\ node = [t \in Tcb |-> NoNode]
  /\ polarity = [e \in Event |-> SetTypes]
FlagStart == EventInit /\ FlagInit

Group(e) == OSEventType[e] = "FLAG"

\* The flags among those a node n names that are as it wants them, whether they
\* satisfy it, and the group's flags once they are consumed.
FlagsReady(cur, n) == IF n.type \in SetTypes THEN n.flags \cap cur ELSE n.flags \ cur
Satisfied(cur, n) ==
  IF n.type \in {"SET_ALL", "CLR_ALL"} THEN FlagsReady(cur, n) = n.flags ELSE FlagsReady(cur, n) # {}
Consumed(cur, n, rdy) ==
  IF ~n.consume THEN cur ELSE IF n.type \in SetTypes THEN cur \ rdy ELSE cur \cup rdy

Nodes(e) == [flags : SUBSET Flag \ {{}}, type : polarity[e], consume : BOOLEAN]
Same == UNCHANGED <<tcbVars, prioVars, cpuVars, OSRdyTbl, OSEventTbl, pc, pevent>>

-----------------------------------------------------------------------------
OSFlagCreate(e) ==
  /\ Caller("OSFlag") /\ OSEventType[e] = "UNUSED"
  /\ OSEventType' = [OSEventType EXCEPT ![e] = "FLAG"]
  /\ \E flags \in SUBSET Flag : OSFlagFlags' = [OSFlagFlags EXCEPT ![e] = flags]
  /\ \E types \in {SetTypes, ClrTypes} : polarity' = [polarity EXCEPT ![e] = types]
  /\ Same /\ UNCHANGED <<OSTCBFlagsRdy, node>>

OSFlagDel(e) ==
  /\ Caller("OSFlag") /\ Group(e) /\ OSEventTbl[e] = {}
  /\ \A t \in Task : pevent[t] # e
  /\ OSEventType' = [OSEventType EXCEPT ![e] = "UNUSED"]
  /\ OSFlagFlags' = [OSFlagFlags EXCEPT ![e] = {}]
  /\ Same /\ UNCHANGED <<OSTCBFlagsRdy, node, polarity>>

\* OSFlagAccept, and OSFlagPend that finds its flags: they may be consumed at once.
OSFlagAccept(e) ==
  /\ Caller("OSFlag") /\ Group(e)
  /\ \E n \in Nodes(e) :
       /\ Satisfied(OSFlagFlags[e], n)
       /\ OSFlagFlags' = [OSFlagFlags EXCEPT ![e] = Consumed(@, n, FlagsReady(@, n))]
  /\ Same /\ UNCHANGED <<OSEventType, OSTCBFlagsRdy, node, polarity>>

\* OSFlagPend that waits, with OS_FlagBlock.
OSFlagPend(e) ==
  /\ Caller("OSFlag") /\ Group(e)
  /\ \E n \in Nodes(e) : /\ ~Satisfied(OSFlagFlags[e], n)
                         /\ node' = [node EXCEPT ![OSTCBCur] = n]
  /\ Wait(e, "FLAG", OSRdyTbl)
  /\ OSEventTbl' = [OSEventTbl EXCEPT ![e] = @ \cup {OSTCBPrio[OSTCBCur]}]
  /\ Dispatch(OSRdyTbl', OSTCBPrioTbl, OSPrioCur)
  /\ UNCHANGED <<prioVars, OSEventType, OSFlagFlags, OSTCBFlagsRdy, polarity>>

\* OSFlagPend goes on: the flags that woke the task are consumed only now.
FlagPendRet ==
  LET t == OSTCBCur
      e == pevent[t]
  IN
  /\ pc[t] = "FLAG"
  /\ OSFlagFlags' =
       IF OSTCBStatPend[t] # "OK" THEN OSFlagFlags
       ELSE [OSFlagFlags EXCEPT ![e] = Consumed(@, node[t], OSTCBFlagsRdy[t])]
  /\ node' = [node EXCEPT ![t] = NoNode]
  /\ OSTCBFlagsRdy' = [OSTCBFlagsRdy EXCEPT ![t] = {}]
  /\ WaitEnds(t) /\ UNCHANGED polarity

\* OSFlagPost sets or clears flags, and wakes every waiter that has what it wants.
OnlyMostUrgent(e, cur) ==                                            \* mutant
  {p \in First(e) : Satisfied(cur, node[OSTCBPrioTbl[p]])}
SatisfiedWaiters(e, cur) ==
  {p \in OSEventTbl[e] : Satisfied(cur, node[OSTCBPrioTbl[p]])}

OSFlagPost(e) ==
  /\ Caller("OSFlag") /\ Group(e)
  /\ \E flags \in SUBSET Flag \ {{}}, set \in BOOLEAN :
       LET cur == IF set THEN OSFlagFlags[e] \cup flags ELSE OSFlagFlags[e] \ flags
           ps == SatisfiedWaiters(e, cur)
       IN
       /\ OSFlagFlags' = [OSFlagFlags EXCEPT ![e] = cur]
       /\ EventTaskRdy(e, ps, Null, "OK")
       /\ OSTCBFlagsRdy' = [t \in Tcb |->
            IF OSTCBPrio[t] \in ps THEN FlagsReady(cur, node[t]) ELSE OSTCBFlagsRdy[t]]
       /\ OSRdyTbl' = OSRdyTbl \cup Woken(ps)
       /\ Dispatch(OSRdyTbl', OSTCBPrioTbl, OSPrioCur)
  /\ UNCHANGED <<prioVars, OSEventType, pc, pevent, node, polarity>>

FlagTick == TimeTick /\ UNCHANGED flagVars
FlagTimeDly == TimeDly /\ UNCHANGED flagVars

FlagNext ==
  \/ FlagTick \/ FlagTimeDly \/ FlagPendRet
  \/ \E e \in Event : \/ OSFlagCreate(e) \/ OSFlagDel(e) \/ OSFlagAccept(e)
                      \/ OSFlagPend(e) \/ OSFlagPost(e)

FlagSpec == FlagStart /\ [][FlagNext]_flagAll

-----------------------------------------------------------------------------
\* Nobody waits for flags that are as it wants them, although flags change in
\* posts and, later, by tasks that were woken and consume them, and although a
\* task whose time is up is still on the list (os_flag.c:640-759, 867-933).
NoFlagWaitInVain ==
  \A e \in Event : Group(e) => \A p \in OSEventTbl[e] : ~Satisfied(OSFlagFlags[e], node[OSTCBPrioTbl[p]])
=============================================================================
