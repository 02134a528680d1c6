----------------------------- MODULE MessageDeque -----------------------------
(***************************************************************************)
(* What a message queue of the kernel promises: messages are added at one  *)
(* end, or urgently at the other, and taken from that other end, or all    *)
(* thrown away at once.                                                    *)
(***************************************************************************)
EXTENDS Naturals, Sequences

CONSTANTS Event, Msg, Limit
VARIABLE deque

Init == deque = [e \in Event |-> <<>>]

PutBack(e, m)  == Len(deque[e]) < Limit /\ deque' = [deque EXCEPT ![e] = Append(@, m)]
PutFront(e, m) == Len(deque[e]) < Limit /\ deque' = [deque EXCEPT ![e] = <<m>> \o @]
Get(e)         == deque[e] # <<>> /\ deque' = [deque EXCEPT ![e] = Tail(@)]
Clear(e)       == deque' = [deque EXCEPT ![e] = <<>>]

Next == \E e \in Event :
  \/ Get(e) \/ Clear(e)
  \/ \E m \in Msg : PutBack(e, m) \/ PutFront(e, m)

Spec == Init /\ [][Next]_deque
=============================================================================
