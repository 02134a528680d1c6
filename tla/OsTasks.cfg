\* Scene "tasks": tasks are suspended, resumed, deleted and given other priorities
\* while they run, wait, have timed out or are delayed.  Scene "create": tasks are
\* created and delete themselves, as AppTaskStart does; semaphores are deleted and
\* created again while tasks pend on them and post to them.
CONSTANTS
  t1 = t1 t2 = t2 t3 = t3 s1 = s1
  Task = {t1, t2, t3} Idle = idle Sem = {s1}
  LowestPrio = 4 MaxCnt = 1 MaxDly = 1 MaxLock = 1
  InitPrio <- MCPrio3 InitCnt <- MCCnt0
  Calls = {"OSSemPend", "OSSemPost", "OSTaskSuspend", "OSTaskDel", "OSTaskDelSelf", "OSTaskChangePrio", "OSTimeDly"}
  CreateCalls = {"OSSemPend", "OSSemPost", "OSTaskCreate", "OSTaskDelSelf", "OSSemDel", "OSSemCreate", "OSTimeDly"}
  Null = null Reserved = reserved
SPECIFICATION ScenesSpec
INVARIANTS TablesConsistent ReadyExactly TasksWaitListConsistent TokensConserved HighestReadyRuns
