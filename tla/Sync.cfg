\* Scene "sem": a semaphore of the kernel.
\* Scene "all": every function of a mailbox, from threads that interleave in every
\* way the priorities allow; a post may stop at its assertion, so the system may
\* stop.
\* Scene "one": one urgent thread posts, a less urgent one fetches, the mailbox
\* fills up.
CONSTANTS
  t1 = t1 t2 = t2 t3 = t3 s1 = s1 idle = idle null = null reserved = reserved
  a = a b = b c = c m1 = m1 m2 = m2
  Thread = {a, b, c} Msg = {m1, m2} NoMsg = none
  MAX_QUEUE_ENTRIES = 2 Events = 2
  Prio <- ConsumerLast Ops <- AllOps
SPECIFICATION ScenesSpec
INVARIANTS MailboxInv TakeFindsMessage SemInv
PROPERTIES Fifo OnePostReturns OneFullDrains TimedPendEnds
CHECK_DEADLOCK FALSE
