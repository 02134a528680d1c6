----------------------------- MODULE LwipTimers -----------------------------
(***************************************************************************)
(* The timers of lwIP (lwip1.4/src/core/timers.c) as tcpip_thread runs     *)
(* them: while it waits for a message, and by the clock of the kernel's    *)
(* tick.  next_timeout is a list of differences: each timer's time counts  *)
(* from the one before it.                                                 *)
(*                                                                         *)
(* sys_arch_mbox_fetch is modelled down to its wait on the semaphore       *)
(* (sys_arch_sem_wait): the start of the wait is read, the kernel counts   *)
(* its timeout down, a message or the timeout ends it, and the end is read *)
(* when the thread runs again.  What else the mailbox does is SysMbox.     *)
(***************************************************************************)
EXTENDS Integers, SequencesExt

CONSTANTS
  Handler,      \* the callbacks that are set, each with its argument
  Msecs,        \* the times they are set to
  TickMs,       \* 1000 / OS_TICKS_PER_SEC
  MaxTicks,     \* 65535, the longest wait sys_arch_sem_wait asks for
  MaxMail       \* bound: the messages that wait in the mailbox

ASSUME TimersAssumption ==
  /\ IsFiniteSet(Handler) /\ Msecs \subseteq Nat \ {0}
  /\ TickMs \in Nat \ {0} /\ MaxTicks \in Nat \ {0} /\ MaxMail \in Nat

VARIABLES
  next_timeout, \* the list: [h, time, real]; real is a ghost, the milliseconds of
                \* the clock, in whole ticks, until the timer should fire
  tpc,          \* where tcpip_thread is
  OSTCBDly,     \* the ticks its wait has left, 0 for ever
  waited,       \* sys_now() - start, in ticks
  mail          \* the count of the mailbox's semaphore

vars == <<next_timeout, tpc, OSTCBDly, waited, mail>>

\* Before sys_timeouts_init, which sets the timers of the stack.
Init == /\ next_timeout = <<>> /\ tpc = "run"
        /\ OSTCBDly = 0 /\ waited = 0 /\ mail = 0

-----------------------------------------------------------------------------
(* The list.                                                               *)

\* When each timer is due, from now.
DueAt[i \in Nat] == IF i = 0 THEN 0 ELSE DueAt[i - 1] + next_timeout[i].time

\* sys_timeout walks on while the next timer is due no later than the new one.
StopsAtLonger(i, ms) == next_timeout[i].time > ms                  \* mutants
StopsAtEqual(i, ms) == next_timeout[i].time >= ms - DueAt[i - 1]
StopsAt(i, ms) == next_timeout[i].time > ms - DueAt[i - 1]
Place(ms) == CHOOSE i \in 1 .. Len(next_timeout) + 1 :
               /\ i <= Len(next_timeout) => StopsAt(i, ms)
               /\ \A j \in 1 .. i - 1 : ~StopsAt(j, ms)

Less(list, i, d) == IF i \in DOMAIN list
                      THEN [list EXCEPT ![i].time = @ - d] ELSE list

Inserted(h, ms) ==
  LET i == Place(ms)
      time == ms - DueAt[i - 1]
  IN InsertAt(Less(next_timeout, i, time), i, [h |-> h, time |-> time, real |-> ms])

\* sys_untimeout gives the time of the timer it removes to the one after it.
TimeLost(i) == RemoveAt(next_timeout, i)                            \* mutant
Removed(i) == RemoveAt(Less(next_timeout, i + 1, -next_timeout[i].time), i)

-----------------------------------------------------------------------------
(* Time, and the other threads.                                            *)

Later(list) == [i \in DOMAIN list |->
  [list[i] EXCEPT !.real = IF @ > TickMs THEN @ - TickMs ELSE 0]]

\* SysTick.  The wait is measured until it is as long as the first timer's time:
\* what comes after that makes no difference.
Tick ==
  /\ next_timeout' = Later(next_timeout)
  /\ waited' = IF /\ tpc # "run" /\ next_timeout # <<>>
                  /\ waited * TickMs < Head(next_timeout).time
               THEN waited + 1 ELSE waited
  /\ OSTCBDly' = IF OSTCBDly > 0 THEN OSTCBDly - 1 ELSE 0
  /\ tpc' = IF tpc = "wait" /\ OSTCBDly = 1 THEN "timedOut" ELSE tpc
  /\ UNCHANGED mail

\* A message is posted.  A waiting thread gets it, also if the tick has ended its
\* wait and it has not run yet.
Post ==
  /\ \/ tpc \in {"wait", "timedOut"} /\ tpc' = "woken" /\ OSTCBDly' = 0 /\ UNCHANGED mail
     \/ /\ tpc \notin {"wait", "timedOut"} /\ mail < MaxMail
        /\ mail' = mail + 1
        /\ UNCHANGED <<tpc, OSTCBDly>>
  /\ UNCHANGED <<next_timeout, waited>>

-----------------------------------------------------------------------------
(* tcpip_thread, in a message or a handler.                                *)

\* The pool of timers has one for each handler (init.c:108 sees to it), so a
\* timer that is not set can be.
IsSet(h) == \E i \in DOMAIN next_timeout : next_timeout[i].h = h

sys_timeout(h, ms) ==
  /\ tpc = "run" /\ ~IsSet(h)
  /\ next_timeout' = Inserted(h, ms)
  /\ UNCHANGED <<tpc, OSTCBDly, waited, mail>>

sys_untimeout(h) ==
  /\ tpc = "run"
  /\ \E i \in DOMAIN next_timeout :
       next_timeout[i].h = h /\ next_timeout' = Removed(i)
  /\ UNCHANGED <<tpc, OSTCBDly, waited, mail>>

-----------------------------------------------------------------------------
(* tcpip_thread, in sys_timeouts_mbox_fetch.                               *)

HeadDue == next_timeout # <<>> /\ Head(next_timeout).time = 0

\* OSSemAccept: a message that is there has been waited for no time at all.
TakeAtOnce ==
  /\ tpc = "run" /\ ~HeadDue /\ mail > 0
  /\ mail' = mail - 1
  /\ UNCHANGED <<next_timeout, tpc, OSTCBDly, waited>>

\* sys_now() before OSSemPend.
StartWait ==
  /\ tpc = "run" /\ ~HeadDue /\ mail = 0
  /\ tpc' = "pend"
  /\ waited' = 0
  /\ UNCHANGED <<next_timeout, OSTCBDly, mail>>

\* The milliseconds of the first timer in ticks, between one and MaxTicks.
WaitTicks ==
  LET ticks == Head(next_timeout).time \div TickMs IN
  IF ticks < 1 THEN 1 ELSE IF ticks > MaxTicks THEN MaxTicks ELSE ticks

\* OSSemPend
Pend ==
  /\ tpc = "pend"
  /\ \/ mail > 0 /\ mail' = mail - 1 /\ tpc' = "woken" /\ UNCHANGED OSTCBDly
     \/ /\ mail = 0
        /\ OSTCBDly' = IF next_timeout = <<>> THEN 0 ELSE WaitTicks
        /\ tpc' = "wait"
        /\ UNCHANGED mail
  /\ UNCHANGED <<next_timeout, waited>>

\* A message: the time waited is taken off the first timer, which is due at once
\* if that was too long.
NoneTaken == 0                                                     \* mutant
TimeNeeded == waited * TickMs
Received ==
  /\ tpc = "woken"
  /\ next_timeout' =
       IF next_timeout = <<>> THEN <<>>
       ELSE IF TimeNeeded < Head(next_timeout).time
         THEN Less(next_timeout, 1, TimeNeeded)
         ELSE Less(next_timeout, 1, Head(next_timeout).time)
  /\ tpc' = "run"
  /\ waited' = 0
  /\ UNCHANGED <<OSTCBDly, mail>>

\* The timeout, or a timer that was due already: it leaves the list, and its
\* handler is called.
Fire ==
  /\ tpc = "timedOut" \/ (tpc = "run" /\ HeadDue)
  /\ next_timeout' = Tail(next_timeout)
  /\ tpc' = "run"
  /\ waited' = 0
  /\ UNCHANGED <<OSTCBDly, mail>>

-----------------------------------------------------------------------------
Fetch == TakeAtOnce \/ StartWait \/ Pend \/ Received \/ Fire

Next == \/ Tick \/ Post \/ Fetch
        \/ \E h \in Handler : sys_untimeout(h) \/ \E ms \in Msecs : sys_timeout(h, ms)

Spec == Init /\ [][Next]_vars

\* tcpip_thread has the highest priority: when it can go on it does.
LiveSpec == Spec /\ WF_vars(Fetch)

-----------------------------------------------------------------------------
(* Properties.                                                             *)

\* Types; no time in the list is negative (they are unsigned in the code).
TypeOK ==
  /\ next_timeout \in Seq([h : Handler, time : Nat, real : Nat])
  /\ tpc \in {"run", "pend", "wait", "woken", "timedOut"}
  /\ OSTCBDly \in 0 .. MaxTicks /\ waited \in Nat /\ mail \in 0 .. MaxMail

\* The list of differences behaves as the set of timers it stands for: settings
\* and removals in its middle move no other timer, what is waited counts for all
\* of them, and timers fire in the order of their deadlines.
Timers == INSTANCE Deadlines WITH
            pending <- [i \in DOMAIN next_timeout |->
                          [h |-> next_timeout[i].h, left |-> DueAt[i]]]
ImplementsDeadlines == Timers!Spec

\* A timer set to a multiple of the tick, as all timers of the stack are, never
\* fires before as many ticks have come as its time has, although its time is cut
\* up by other timers before it that come and go, and the waits for it are
\* broken off by messages, also ones that race the timeout.
NeverEarly ==
  tpc = "timedOut" \/ (tpc = "run" /\ HeadDue) => Head(next_timeout).real = 0

\* Both: the list is one of times, and none of them is over too soon.
TimersInv == TypeOK /\ NeverEarly

\* A timer fires (or is taken back) however many messages come, if again and
\* again a tick falls into a wait: only time spent waiting counts.
TimersFire ==
  []<><<Tick /\ tpc = "wait">>_vars =>
    \A h \in Handler : IsSet(h) ~> ~IsSet(h)
=============================================================================
