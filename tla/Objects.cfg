\* Three tasks use one event block as queue, mailbox, mutex and group of flags; two
\* threads share pbufs and sockets; and the heap is used in every order.
SPECIFICATION PartsSpec
CONSTANTS
  t1 = t1  t3 = t3  t4 = t4  idle = idle
  Task = {t1, t3, t4}
  Idle = idle
  BasePrio <- MCBasePrio
  Event = {e1}
  MaxDly = 2
  Calls = {"OSTimeDly", "OSQ", "OSQDel", "OSQPostOpt", "OSMbox", "OSMboxDel", "OSMboxPostOpt", "OSMutex", "OSFlag"}
  Null = Null
  Reserved = Reserved
  Msg = {m1, m2}
  QSize = 2
  Ceiling = {1, 99}
  CeilDis = 99
  Careful = TRUE
  Flag = {f1, f2}
  PbufThread = {u1, u2}  PbufElem = {p1, p2, p3}  NoPbuf = noPbuf  MaxLen = 2  MaxRefs = 1
  MemSize = 10  MaxSize = 4
  Thread = {u1, u2}  tcpip = tcpip  Socket = {0, 1}  MboxSize = 1  Sets <- MCSets
INVARIANTS TasksConsistent ObjectsInv NoFlagWaitInVain PbufInv HeapInv SelectInv
PROPERTY MessagesKept
