------------------------------ MODULE MailQueue -----------------------------
(***************************************************************************)
(* What a mailbox of the lwIP port promises to the threads that use it     *)
(* (the comments of lwip/sys.h and of sys_arch.c): a bounded queue that    *)
(* delivers every message that was put into it once, in order.             *)
(***************************************************************************)
EXTENDS Naturals, Sequences

CONSTANTS Thread, Msg, NoMsg, Capacity

VARIABLES
  queue,        \* the messages that wait, oldest first
  got           \* the message each thread's last fetch returned

Init == queue = <<>> /\ got = [t \in Thread |-> NoMsg]

Put(m) ==
  /\ Len(queue) < Capacity
  /\ queue' = Append(queue, m)
  /\ UNCHANGED got

Get(t) ==
  /\ queue # <<>>
  /\ got' = [got EXCEPT ![t] = Head(queue)]
  /\ queue' = Tail(queue)

\* A thread starts over, or its fetch timed out.
Forget(t) == got' = [got EXCEPT ![t] = NoMsg] /\ UNCHANGED queue

Next == (\E m \in Msg : Put(m)) \/ (\E t \in Thread : Get(t) \/ Forget(t))

Spec == Init /\ [][Next]_<<queue, got>>
=============================================================================
