----------------------------- MODULE Deadlines ------------------------------
(***************************************************************************)
(* What the timers of lwIP promise: a set of one-shot timers, each with    *)
(* the time it has left, that fire in the order of their deadlines, and in *)
(* the order they were set if they are due together.                       *)
(***************************************************************************)
EXTENDS Integers, SequencesExt

CONSTANTS
  Handler,      \* the callbacks, each with its argument
  Msecs         \* the times timers are set to

VARIABLE pending        \* [h, left] of each timer, the next one first

Init == pending = <<>>

\* The timers that are due no later than in ms.
NoLater(ms) == {i \in DOMAIN pending : pending[i].left <= ms}

Set(h, ms) ==
  pending' = InsertAt(pending, Cardinality(NoLater(ms)) + 1, [h |-> h, left |-> ms])

\* The first timer of h is taken back, if there is one.
Cancel(h) == pending' = RemoveFirstMatch(pending, LAMBDA e : e.h = h)

\* d milliseconds have passed for all timers.
Sooner(timers, d) == [i \in DOMAIN timers |-> [timers[i] EXCEPT !.left = @ - d]]
Elapse == /\ pending # <<>>
          /\ \E d \in 1 .. Head(pending).left : pending' = Sooner(pending, d)

\* The next timer is due: what it had left has passed for the others.
Fire == /\ pending # <<>>
        /\ pending' = Sooner(Tail(pending), Head(pending).left)

Next == \/ \E h \in Handler : Cancel(h) \/ \E ms \in Msecs : Set(h, ms)
        \/ Elapse \/ Fire

Spec == Init /\ [][Next]_pending
=============================================================================
