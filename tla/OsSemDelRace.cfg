\* A semaphore is deleted between OSSemPend testing its type and waiting.
CONSTANTS
  t1 = t1 t2 = t2 t3 = t3 s1 = s1
  Task = {t1, t2, t3} Idle = idle Sem = {s1}
  LowestPrio = 3 MaxCnt = 1 MaxDly = 1 MaxLock = 1
  InitPrio <- MCPrio3 InitCnt <- MCCnt0
  Calls = {"OSSemPend", "OSSemPost", "OSSemDel", "OSTimeDly"}
  Null = null Reserved = reserved
SPECIFICATION Spec
INVARIANTS WaitersOnSemaphores
