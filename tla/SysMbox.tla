------------------------------ MODULE SysMbox -------------------------------
(***************************************************************************)
(* The mailbox of the lwIP port (lwip1.4/src/arch/sys_arch.c): a ring of   *)
(* message pointers, a counting semaphore with one token per message and   *)
(* a binary semaphore used as the ring's mutex.                            *)
(*                                                                         *)
(* The threads run under the kernel's rule: one CPU, the ready thread of   *)
(* highest priority (smallest number) runs, and the tick may wake a        *)
(* sleeping or timed-out thread between any two steps.  The two semaphores *)
(* are the kernel's: a post hands the token to the waiter of highest       *)
(* priority, also to one whose timeout has passed but that has not run     *)
(* yet, and counts it if nobody waits (OsKernel).                          *)
(***************************************************************************)
EXTENDS Integers, FiniteSets

CONSTANTS
  Thread,
  Prio,         \* thread -> priority, no two alike
  Ops,          \* thread -> the mailbox functions it calls
  Msg, NoMsg,
  MAX_QUEUE_ENTRIES,
  Events        \* event control blocks left for sys_msleep

Puts    == {"post", "trypost"}
Fetches == {"fetch", "fetchTimed", "tryfetch"}
PC == {"idle", "check", "sleep", "woken", "peek", "sem", "semWait", "semTO",
       "lock", "lockWait", "in", "signal", "unlock", "hung", "stuck"}
Slot == 0 .. MAX_QUEUE_ENTRIES - 1

ASSUME MboxAssumption ==
  /\ MAX_QUEUE_ENTRIES \in Nat \ {0}
  /\ Events \in Nat
  /\ NoMsg \notin Msg
  /\ IsFiniteSet(Thread)
  /\ Prio \in [Thread -> Nat]
  /\ \A t, u \in Thread : Prio[t] = Prio[u] => t = u
  /\ Ops \in [Thread -> SUBSET (Puts \cup Fetches)]

VARIABLES
  q_mem, head, tail, msg_num,   \* struct lwip_mbox
  sem, mutex,                   \* counts of its two semaphores
  freeEvents,                   \* length of the kernel's OSEventFreeList
  pc, op,                       \* where each thread is, in which function
  msg,                          \* the message a thread posts
  got                           \* *msg after a fetch

ring   == <<q_mem, head, tail, msg_num>>
vars   == <<ring, sem, mutex, freeEvents, pc, op, msg, got>>

Init ==
  /\ q_mem = [i \in Slot |-> NoMsg]
  /\ head = 0 /\ tail = 0 /\ msg_num = 0
  /\ sem = 0 /\ mutex = 1
  /\ freeEvents = Events
  /\ pc = [t \in Thread |-> "idle"]
  /\ op = [t \in Thread |-> "post"]
  /\ msg = [t \in Thread |-> NoMsg]
  /\ got = [t \in Thread |-> NoMsg]

-----------------------------------------------------------------------------
(* The CPU and the semaphores.                                             *)

Blocked == {"idle", "sleep", "semWait", "lockWait"}

\* t has the CPU: no thread of higher priority is ready.  An idle thread is
\* outside the mailbox; if it is ready it may call a mailbox function.
OnCpu(t) == \A u \in Thread : pc[u] \notin Blocked => Prio[t] <= Prio[u]

Goto(t, l) == pc' = [pc EXCEPT ![t] = l]

\* OSSemPost on the message semaphore and on the mutex; t goes on at l.
SemWaiters  == {u \in Thread : pc[u] \in {"semWait", "semTO"}}
LockWaiters == {u \in Thread : pc[u] = "lockWait"}

\* mutants: the token is counted although a waiter takes it; the waiter stays
CountsToo(count, waiters, granted, t, l) ==
  /\ count' = count + 1
  /\ \/ waiters = {} /\ Goto(t, l)
     \/ \E w \in waiters : pc' = [pc EXCEPT ![w] = granted, ![t] = l]
CountsOnly(count, waiters, granted, t, l) == count' = count + 1 /\ Goto(t, l)

PostTo(count, waiters, granted, t, l) ==
  \/ /\ waiters = {}
     /\ count' = count + 1
     /\ Goto(t, l)
  \/ \E w \in waiters :
       /\ \A u \in waiters : Prio[w] <= Prio[u]
       /\ pc' = [pc EXCEPT ![w] = granted, ![t] = l]
       /\ UNCHANGED count

\* OSSemAccept, and OSSemPend if there is no token.
WaitOn(count, t, granted, waiting) ==
  IF count > 0
    THEN count' = count - 1 /\ Goto(t, granted)
    ELSE UNCHANGED count /\ Goto(t, waiting)

Succ(i) == IF i + 1 >= MAX_QUEUE_ENTRIES THEN 0 ELSE i + 1

\* mutant: one more than there are slots
FullTooLate == msg_num > MAX_QUEUE_ENTRIES
Full == msg_num >= MAX_QUEUE_ENTRIES

\* mutants: the newest message is taken; it is still counted; sys_msleep leaks its
\* semaphore
Newest == q_mem[IF head = 0 THEN MAX_QUEUE_ENTRIES - 1 ELSE head - 1]
NumKept == msg_num
EventLeaked == freeEvents

Oldest == q_mem[tail]
NumAfterTake == IF msg_num > 0 THEN msg_num - 1 ELSE msg_num

\* sys_msleep deletes its semaphore.
EventsAfterSleep == freeEvents + 1

\* The first step of each function.
Entry(o) ==
  IF o = "post" THEN "check" ELSE
  IF o = "trypost" THEN "lock" ELSE
  IF o = "tryfetch" THEN "peek" ELSE "sem"

-----------------------------------------------------------------------------
(* The mailbox functions.                                                  *)

\* A thread calls a mailbox function.
Call(t) ==
  /\ pc[t] = "idle" /\ OnCpu(t)
  /\ \E o \in Ops[t] :
       /\ op' = [op EXCEPT ![t] = o]
       /\ Goto(t, Entry(o))
       /\ IF o \in Puts THEN \E m \in Msg : msg' = [msg EXCEPT ![t] = m]
                        ELSE UNCHANGED msg
  /\ got' = [got EXCEPT ![t] = NoMsg]
  /\ UNCHANGED <<ring, sem, mutex, freeEvents>>

\* sys_mbox_post looks at msg_num without the mutex; while the mailbox is full
\* it sleeps, which takes an event block for the length of the sleep.  Without
\* a free block the assertion of sys_sem_new stops the thread for good.
Check(t) ==
  /\ pc[t] = "check" /\ OnCpu(t)
  /\ \/ ~Full /\ Goto(t, "lock") /\ UNCHANGED freeEvents
     \/ Full /\ freeEvents > 0 /\ Goto(t, "sleep") /\ freeEvents' = freeEvents - 1
     \/ Full /\ freeEvents = 0 /\ Goto(t, "hung") /\ UNCHANGED freeEvents
  /\ UNCHANGED <<ring, sem, mutex, op, msg, got>>

\* The tick ends the sleep, or the timeout of a fetch.
TickWakes(t) ==
  /\ \/ pc[t] = "sleep" /\ Goto(t, "woken")
     \/ pc[t] = "semWait" /\ op[t] \in {"fetchTimed", "tryfetch"} /\ Goto(t, "semTO")
  /\ UNCHANGED <<ring, sem, mutex, freeEvents, op, msg, got>>

\* sys_msleep gives its event block back; sys_mbox_post looks again.
Wake(t) ==
  /\ pc[t] = "woken" /\ OnCpu(t)
  /\ freeEvents' = EventsAfterSleep
  /\ Goto(t, "check")
  /\ UNCHANGED <<ring, sem, mutex, op, msg, got>>

\* sys_mutex_lock
Lock(t) ==
  /\ pc[t] = "lock" /\ OnCpu(t)
  /\ WaitOn(mutex, t, "in", "lockWait")
  /\ UNCHANGED <<ring, sem, freeEvents, op, msg, got>>

\* The ring under the mutex, in sys_mbox_post and sys_mbox_trypost.  A full
\* ring stops a post at its LWIP_ASSERT, with the mutex held.
NoRoom(t) ==
  /\ pc[t] = "in" /\ op[t] \in Puts /\ Full /\ OnCpu(t)
  /\ Goto(t, IF op[t] = "post" THEN "stuck" ELSE "unlock")
  /\ UNCHANGED <<ring, sem, mutex, freeEvents, op, msg, got>>

Store(t) ==
  /\ pc[t] = "in" /\ op[t] \in Puts /\ ~Full /\ OnCpu(t)
  /\ q_mem' = [q_mem EXCEPT ![head] = msg[t]]
  /\ head' = Succ(head)
  /\ msg_num' = msg_num + 1
  /\ Goto(t, "signal")
  /\ UNCHANGED <<tail, sem, mutex, freeEvents, op, msg, got>>

\* sys_sem_signal, still under the mutex.
Signal(t) ==
  /\ pc[t] = "signal" /\ OnCpu(t)
  /\ PostTo(sem, SemWaiters, "lock", t, "unlock")
  /\ UNCHANGED <<ring, mutex, freeEvents, op, msg, got>>

\* sys_mutex_unlock, and the function returns.
Unlock(t) ==
  /\ pc[t] = "unlock" /\ OnCpu(t)
  /\ PostTo(mutex, LockWaiters, "in", t, "idle")
  /\ UNCHANGED <<ring, sem, freeEvents, op, msg, got>>

\* sys_arch_mbox_tryfetch looks at msg_num without the mutex.
Peek(t) ==
  /\ pc[t] = "peek" /\ OnCpu(t)
  /\ Goto(t, IF msg_num = 0 THEN "idle" ELSE "sem")
  /\ UNCHANGED <<ring, sem, mutex, freeEvents, op, msg, got>>

\* sys_arch_sem_wait on the message semaphore.
SemWait(t) ==
  /\ pc[t] = "sem" /\ OnCpu(t)
  /\ WaitOn(sem, t, "lock", "semWait")
  /\ UNCHANGED <<ring, mutex, freeEvents, op, msg, got>>

\* The timed-out thread runs: SYS_ARCH_TIMEOUT, and *msg is NULL.
TimedOut(t) ==
  /\ pc[t] = "semTO" /\ OnCpu(t)
  /\ Goto(t, "idle")
  /\ UNCHANGED <<ring, sem, mutex, freeEvents, op, msg, got>>

\* The ring under the mutex, in both fetches.
Take(t) ==
  /\ pc[t] = "in" /\ op[t] \in Fetches /\ OnCpu(t)
  /\ got' = [got EXCEPT ![t] = Oldest]
  /\ tail' = Succ(tail)
  /\ msg_num' = NumAfterTake
  /\ Goto(t, "unlock")
  /\ UNCHANGED <<q_mem, head, sem, mutex, freeEvents, op, msg>>

-----------------------------------------------------------------------------
Step(t) == Check(t) \/ Wake(t) \/ Lock(t) \/ NoRoom(t) \/ Store(t) \/ Signal(t)
           \/ Unlock(t) \/ Peek(t) \/ SemWait(t) \/ TimedOut(t) \/ Take(t)

Next == \E t \in Thread : Call(t) \/ TickWakes(t) \/ Step(t)

Spec == Init /\ [][Next]_vars

\* The tick comes; a thread that again and again has the CPU makes progress (the
\* threads above it sleep for a tick, 5 ms, between their bursts); and a thread
\* that fetches without a timeout comes back for the next message, as
\* tcpip_thread does.
Fairness ==
  /\ \A t \in Thread : SF_vars(Step(t)) /\ WF_vars(TickWakes(t))
  /\ \A t \in Thread : Ops[t] = {"fetch"} => SF_vars(Call(t))

LiveSpec == Spec /\ Fairness

-----------------------------------------------------------------------------
(* Properties.                                                             *)

\* Types, with the ring indices inside the ring.
TypeOK ==
  /\ q_mem \in [Slot -> Msg \cup {NoMsg}]
  /\ head \in Slot /\ tail \in Slot
  /\ msg_num \in 0 .. MAX_QUEUE_ENTRIES
  /\ sem \in Nat /\ mutex \in Nat /\ freeEvents \in Nat
  /\ pc \in [Thread -> PC]
  /\ op \in [Thread -> Puts \cup Fetches]
  /\ msg \in [Thread -> Msg \cup {NoMsg}]
  /\ got \in [Thread -> Msg \cup {NoMsg}]

\* The threads between sys_mutex_lock and the end of sys_mutex_unlock, the one
\* an assertion stopped there included.
Holders == {t \in Thread : pc[t] \in {"in", "signal", "unlock", "stuck"}}

\* Posters that stored a message and have not signalled it; fetchers that got a
\* token and have not taken its message.
Signalling == {t \in Thread : pc[t] = "signal"}
Granted == {t \in Thread : op[t] \in Fetches /\ pc[t] \in {"lock", "lockWait", "in"}}

\* The binary semaphore protects the ring: one holder at a time, and the count
\* says whether there is one, however posts, handoffs and preemptions interleave.
MutualExclusion ==
  /\ \A t, u \in Holders : t = u
  /\ mutex = IF Holders = {} THEN 1 ELSE 0

\* The i-th slot from slot j on.
SlotAt(j, i) == IF j + i >= MAX_QUEUE_ENTRIES THEN j + i - MAX_QUEUE_ENTRIES ELSE j + i

\* The three fields that describe the contents of the ring agree.
RingConsistent == head = SlotAt(tail, msg_num)

\* Every stored message has one token: counted, not yet posted, or in the hands
\* of a fetcher.  sys_sem_signal and the ring are updated in separate steps by
\* different threads, and timeouts race posts.
TokensMatch ==
  msg_num = sem + Cardinality(Signalling) + Cardinality(Granted)

\* A fetcher that got a token finds a message: the branch "mbox fetch queue
\* error" of sys_arch_mbox_fetch is dead.
TakeFindsMessage ==
  \A t \in Thread : pc[t] = "in" /\ op[t] \in Fetches => msg_num > 0

\* No thread waits for what is there.
NoLostWakeup ==
  /\ SemWaiters # {} => sem = 0
  /\ LockWaiters # {} => mutex = 0

\* Which function a thread can be in at each place, and that a poster has a message.
PlacesMatchOps ==
  \A t \in Thread :
    /\ pc[t] \in {"check", "sleep", "woken", "signal", "stuck"} => op[t] \in Puts
    /\ pc[t] \in {"peek", "sem", "semWait", "semTO"} => op[t] \in Fetches
    /\ pc[t] # "idle" /\ op[t] \in Puts => msg[t] \in Msg

\* All of the above, which every step of sys_arch.c's mailbox functions preserves:
\* that the mutex excludes rests on a handoff waking only a waiter, that the
\* tokens match on the mutex, and that a take finds a message on the tokens.
MailboxInv ==
  /\ TypeOK /\ PlacesMatchOps
  /\ MutualExclusion /\ NoLostWakeup
  /\ RingConsistent /\ TokensMatch

\* The mailbox is a bounded FIFO: it implements MailQueue, where its contents
\* are the msg_num slots from tail on.
Contents == [i \in 1 .. msg_num |-> q_mem[SlotAt(tail, i - 1)]]
FIFO == INSTANCE MailQueue WITH queue <- Contents, Capacity <- MAX_QUEUE_ENTRIES
Fifo == FIFO!Spec

\* sys_mbox_post "may not fail" (lwip/sys.h): no thread is stopped by the
\* assertion under the mutex, or for want of an event block.
PostMayNotFail == \A t \in Thread : pc[t] \notin {"stuck", "hung"}

\* A post returns, also when it finds the mailbox full, although every wait of
\* sys_mbox_post ends without telling it that there is room.
PostReturns ==
  \A t \in Thread : pc[t] = "check" ~> pc[t] = "idle"

\* A message in the mailbox is fetched: a full mailbox does not stay full.
FullDrains == Full ~> ~Full
=============================================================================
