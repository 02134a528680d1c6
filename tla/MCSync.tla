------------------------------- MODULE MCSync -------------------------------
(* How threads wait for each other, in three scenes of one run: tasks on a    *)
(* semaphore of the kernel; every function of the port's mailbox from three   *)
(* threads, which need not go on; or one urgent thread that posts and a less  *)
(* urgent one that fetches.  The two latter are SysMbox, with its fairness;   *)
(* the kernel is an instance, and its variables keep their first values in    *)
(* the other scenes, as SysMbox's do in its.                                  *)
EXTENDS MCSysMbox
CONSTANTS t1, t2, t3, s1, idle, null, reserved
VARIABLES
  scene,
  OSTCBPrioTbl, OSTCBList, OSTCBFreeList, OSTCBPrio, OSTCBStat, OSTCBStatPend,
  OSTCBDly, OSTCBEventPtr, OSRdyTbl, OSTCBCur, OSPrioCur, OSLockNesting,
  OSEventType, OSEventFreeList, OSEventCnt, OSEventTbl,
  kpc, pevent, pprio, pTCB, tokens

kernelVars ==
  <<OSTCBPrioTbl, OSTCBList, OSTCBFreeList, OSTCBPrio, OSTCBStat, OSTCBStatPend,
    OSTCBDly, OSTCBEventPtr, OSRdyTbl, OSTCBCur, OSPrioCur, OSLockNesting,
    OSEventType, OSEventFreeList, OSEventCnt, OSEventTbl,
    kpc, pevent, pprio, pTCB, tokens>>

\* Three tasks pend, post, accept, abort and set one semaphore, delay themselves
\* and lock the scheduler.
Kernel == INSTANCE OsKernel WITH
  Task <- {t1, t2, t3}, Idle <- idle, Sem <- {s1}, LowestPrio <- 3, MaxCnt <- 2,
  MaxDly <- 2, MaxLock <- 1, Null <- null, Reserved <- reserved, pc <- kpc,
  InitPrio <- (t1 :> 0) @@ (t2 :> 1) @@ (t3 :> 2), InitCnt <- s1 :> 1,
  Calls <- {"OSSemPend", "OSSemPost", "OSSemAccept", "OSSemPendAbort", "OSSemSet",
            "OSTimeDly", "OSSchedLock"}

One == INSTANCE SysMbox WITH Ops <- PostOps, Events <- 1

ASSUME SceneAssumption == One!MboxAssumption /\ Kernel!KernelAssumption

ScenesInit ==
  /\ Kernel!Init
  /\ (scene \in {"sem", "all"} /\ Init) \/ (scene = "one" /\ One!Init)

ScenesNext ==
  /\ UNCHANGED scene
  /\ \/ scene = "sem" /\ Kernel!Next /\ UNCHANGED vars
     \/ scene = "all" /\ Next /\ UNCHANGED kernelVars
     \/ scene = "one" /\ One!Next /\ UNCHANGED kernelVars

ScenesSpec ==
  /\ ScenesInit /\ [][ScenesNext]_<<scene, vars, kernelVars>>
  /\ WF_(kernelVars)(scene = "sem" /\ Kernel!Tick)
  /\ \A t \in Thread : SF_vars(scene = "one" /\ One!Step(t))
                       /\ WF_vars(scene = "one" /\ One!TickWakes(t))
  /\ SF_vars(scene = "one" /\ One!Call(c))

(* The properties of the scenes (see their modules).                       *)
SemInv == Kernel!SemInv
TimedPendEnds == Kernel!TimedPendEnds

\* One urgent poster's posts return, and the mailbox does not stay full (SysMbox).
OnePostReturns == scene = "one" => One!PostReturns
OneFullDrains == scene = "one" => One!FullDrains
=============================================================================
