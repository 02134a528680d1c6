--------------------------- MODULE SysMboxProofs ----------------------------
(***************************************************************************)
(* What TLAPS proves of SysMbox for every set of threads, every priority   *)
(* assignment, every ring size and every number of event blocks.           *)
(*                                                                         *)
(* MailboxInv is inductive.  None of its parts is by itself: TokensMatch   *)
(* needs the mutex (two holders would count one slot twice), the mutex     *)
(* needs NoLostWakeup and its own count, and the ring's fields stay in     *)
(* range only because a fetcher's token stands for a stored message.       *)
(*                                                                         *)
(* The mailbox implements the bounded FIFO MailQueue.  The abstract queue  *)
(* is Contents: the msg_num slots from tail on.                            *)
(***************************************************************************)
EXTENDS SysMbox, FiniteSetTheorems, SequenceTheorems, TLAPS

USE DEF Puts, Fetches, Slot, SlotAt

-----------------------------------------------------------------------------
(* Sets of threads are finite, and grow and shrink by one.                 *)

LEMMA ThreadSets ==
  ASSUME NEW S \in SUBSET Thread
  PROVE  IsFiniteSet(S) /\ Cardinality(S) \in Nat
  BY MboxAssumption, FS_Subset, FS_CardinalityType

LEMMA OneMore ==
  ASSUME NEW S \in SUBSET Thread, NEW t \in Thread, t \notin S
  PROVE  Cardinality(S \cup {t}) = Cardinality(S) + 1
  BY ThreadSets, FS_AddElement

LEMMA OneLess ==
  ASSUME NEW S \in SUBSET Thread, NEW t \in S
  PROVE  /\ Cardinality(S \ {t}) = Cardinality(S) - 1
         /\ Cardinality(S) >= 1
  <1>1. /\ IsFiniteSet(S \ {t})
        /\ Cardinality(S \ {t}) = Cardinality(S) - 1
    BY ThreadSets, FS_RemoveElement
  <1>2. Cardinality(S \ {t}) \in Nat /\ Cardinality(S) \in Nat
    BY ThreadSets
  <1> QED BY <1>1, <1>2

-----------------------------------------------------------------------------
(* Type correctness of the initial state.                                  *)

LEMMA InitInv == Init => MailboxInv
  <1> SUFFICES ASSUME Init PROVE MailboxInv
    OBVIOUS
  <1>1. TypeOK
    BY MboxAssumption DEF Init, TypeOK, PC
  <1>2. PlacesMatchOps
    BY DEF Init, PlacesMatchOps
  <1>3. Holders = {} /\ SemWaiters = {} /\ LockWaiters = {}
        /\ Signalling = {} /\ Granted = {}
    BY DEF Init, Holders, SemWaiters, LockWaiters, Signalling, Granted
  <1>4. MutualExclusion /\ NoLostWakeup
    BY <1>3 DEF Init, MutualExclusion, NoLostWakeup
  <1>5. RingConsistent
    BY MboxAssumption DEF Init, RingConsistent
  <1>6. TokensMatch
    BY <1>3, FS_EmptySet DEF Init, TokensMatch
  <1> QED BY <1>1, <1>2, <1>4, <1>5, <1>6 DEF MailboxInv

-----------------------------------------------------------------------------
(* What the steps have in common.                                          *)

LEMMA GotoMoves ==
  ASSUME TypeOK, NEW t \in Thread, NEW l \in PC, Goto(t, l)
  PROVE  /\ pc' \in [Thread -> PC]
         /\ pc'[t] = l
         /\ \A u \in Thread \ {t} : pc'[u] = pc[u]
  BY DEF TypeOK, Goto

LEMMA HandoffMoves ==
  ASSUME TypeOK, NEW t \in Thread, NEW w \in Thread, w # t,
         NEW l \in PC, NEW granted \in PC,
         pc' = [pc EXCEPT ![w] = granted, ![t] = l]
  PROVE  /\ pc' \in [Thread -> PC]
         /\ pc'[t] = l /\ pc'[w] = granted
         /\ \A u \in Thread \ {t, w} : pc'[u] = pc[u]
  BY DEF TypeOK

-----------------------------------------------------------------------------
(* Every step preserves the types.  The ring's indices stay in the ring     *)
(* because they wrap, msg_num because a full ring takes no message.         *)

LEMMA TypeStep == TypeOK /\ [Next]_vars => TypeOK'
  <1> SUFFICES ASSUME TypeOK, [Next]_vars PROVE TypeOK'
    OBVIOUS
  <1> USE MboxAssumption
  <1>1. ASSUME NEW t \in Thread, Call(t) PROVE TypeOK'
    <2>1. PICK o \in Ops[t] :
            /\ op' = [op EXCEPT ![t] = o]
            /\ Goto(t, Entry(o))
            /\ IF o \in Puts THEN \E m \in Msg : msg' = [msg EXCEPT ![t] = m]
                              ELSE UNCHANGED msg
      BY <1>1 DEF Call
    <2>2. o \in Puts \cup Fetches /\ Entry(o) \in PC
      BY DEF Entry, PC
    <2>3. pc' \in [Thread -> PC]
      BY <2>1, <2>2, GotoMoves
    <2>4. msg' \in [Thread -> Msg \cup {NoMsg}]
      BY <2>1 DEF TypeOK
    <2> QED BY <1>1, <2>1, <2>2, <2>3, <2>4 DEF TypeOK, Call, ring
  <1>2. ASSUME NEW t \in Thread, Check(t) PROVE TypeOK'
    <2>1. freeEvents' \in Nat
      BY <1>2 DEF Check, TypeOK
    <2>2. pc' \in [Thread -> PC]
      BY <1>2, SMTT(30) DEF Check, TypeOK, PC, Goto
    <2> QED BY <1>2, <2>1, <2>2 DEF Check, TypeOK, ring
  <1>3. ASSUME NEW t \in Thread, TickWakes(t) PROVE TypeOK'
    BY <1>3 DEF TickWakes, TypeOK, PC, Goto, ring
  <1>4. ASSUME NEW t \in Thread, Wake(t) PROVE TypeOK'
    BY <1>4 DEF Wake, EventsAfterSleep, TypeOK, PC, Goto, ring
  <1>5. ASSUME NEW t \in Thread, Lock(t) PROVE TypeOK'
    BY <1>5, SMTT(30) DEF Lock, WaitOn, TypeOK, PC, Goto, ring
  <1>6. ASSUME NEW t \in Thread, NoRoom(t) PROVE TypeOK'
    BY <1>6 DEF NoRoom, TypeOK, PC, Goto, ring
  <1>7. ASSUME NEW t \in Thread, Store(t) PROVE TypeOK'
    <2>1. head' \in Slot /\ msg_num' \in 0 .. MAX_QUEUE_ENTRIES
      BY <1>7 DEF Store, Full, Succ, TypeOK
    <2>2. q_mem' \in [Slot -> Msg \cup {NoMsg}]
      BY <1>7 DEF Store, TypeOK
    <2> QED BY <1>7, <2>1, <2>2 DEF Store, TypeOK, PC, Goto
  <1>8. ASSUME NEW t \in Thread, Signal(t) PROVE TypeOK'
    <2>1. sem' \in Nat
      BY <1>8 DEF Signal, PostTo, TypeOK
    <2>2. pc' \in [Thread -> PC]
      BY <1>8, SMTT(30) DEF Signal, PostTo, SemWaiters, TypeOK, PC, Goto
    <2> QED BY <1>8, <2>1, <2>2 DEF Signal, TypeOK, ring
  <1>9. ASSUME NEW t \in Thread, Unlock(t) PROVE TypeOK'
    <2>1. mutex' \in Nat
      BY <1>9 DEF Unlock, PostTo, TypeOK
    <2>2. pc' \in [Thread -> PC]
      BY <1>9, SMTT(30) DEF Unlock, PostTo, LockWaiters, TypeOK, PC, Goto
    <2> QED BY <1>9, <2>1, <2>2 DEF Unlock, TypeOK, ring
  <1>10. ASSUME NEW t \in Thread, Peek(t) PROVE TypeOK'
    BY <1>10 DEF Peek, TypeOK, PC, Goto, ring
  <1>11. ASSUME NEW t \in Thread, SemWait(t) PROVE TypeOK'
    BY <1>11, SMTT(30) DEF SemWait, WaitOn, TypeOK, PC, Goto, ring
  <1>12. ASSUME NEW t \in Thread, TimedOut(t) PROVE TypeOK'
    BY <1>12 DEF TimedOut, TypeOK, PC, Goto, ring
  <1>13. ASSUME NEW t \in Thread, Take(t) PROVE TypeOK'
    <2>1. tail' \in Slot /\ msg_num' \in 0 .. MAX_QUEUE_ENTRIES
      BY <1>13 DEF Take, NumAfterTake, Succ, TypeOK
    <2>2. got' \in [Thread -> Msg \cup {NoMsg}]
      BY <1>13 DEF Take, Oldest, TypeOK
    <2> QED BY <1>13, <2>1, <2>2 DEF Take, TypeOK, PC, Goto
  <1>14. CASE UNCHANGED vars
    BY <1>14 DEF vars, ring, TypeOK
  <1> QED
    BY <1>1, <1>2, <1>3, <1>4, <1>5, <1>6, <1>7, <1>8, <1>9, <1>10, <1>11,
       <1>12, <1>13, <1>14 DEF Next, Step

-----------------------------------------------------------------------------
(* Every step preserves MailboxInv.                                        *)

\* A step that touches neither the ring nor the counts, gives nobody a token or
\* the mutex and makes nobody wait for them.
LEMMA QuietStep ==
  ASSUME MailboxInv, TypeOK', PlacesMatchOps',
         UNCHANGED <<ring, sem, mutex>>,
         Holders' = Holders, Signalling' = Signalling, Granted' = Granted,
         SemWaiters' \subseteq SemWaiters, LockWaiters' = LockWaiters
  PROVE  MailboxInv'
  BY DEF MailboxInv, MutualExclusion, NoLostWakeup, RingConsistent, TokensMatch, ring

LEMMA CallInv ==
  ASSUME MailboxInv, TypeOK', NEW t \in Thread, Call(t)
  PROVE  MailboxInv'
  <1>1. PICK o \in Ops[t] :
          /\ op' = [op EXCEPT ![t] = o]
          /\ Goto(t, Entry(o))
          /\ IF o \in Puts THEN \E m \in Msg : msg' = [msg EXCEPT ![t] = m]
                            ELSE UNCHANGED msg
    BY DEF Call
  <1>2. o \in Puts \cup Fetches
    BY MboxAssumption
  <1>3. PlacesMatchOps'
    BY <1>1, <1>2 DEF MailboxInv, TypeOK, PlacesMatchOps, Goto, Entry
  <1>4. Holders' = Holders /\ Signalling' = Signalling
    BY <1>1, <1>2 DEF Call, MailboxInv, TypeOK, Goto, Entry, Holders, Signalling
  <1>5. Granted' = Granted
    BY <1>1, <1>2 DEF Call, MailboxInv, TypeOK, Goto, Entry, Granted
  <1>6. SemWaiters' = SemWaiters /\ LockWaiters' = LockWaiters
    BY <1>1, <1>2 DEF Call, MailboxInv, TypeOK, Goto, Entry, SemWaiters, LockWaiters
  <1> QED BY <1>3, <1>4, <1>5, <1>6, QuietStep DEF Call

LEMMA CheckInv ==
  ASSUME MailboxInv, TypeOK', NEW t \in Thread, Check(t)
  PROVE  MailboxInv'
  <1>1. PlacesMatchOps'
    BY DEF Check, MailboxInv, TypeOK, PlacesMatchOps, Goto
  <1>2. Holders' = Holders /\ Signalling' = Signalling /\ Granted' = Granted
    BY DEF Check, MailboxInv, TypeOK, PlacesMatchOps, Goto, Holders, Signalling, Granted
  <1>3. SemWaiters' \subseteq SemWaiters /\ LockWaiters' = LockWaiters
    BY DEF Check, MailboxInv, TypeOK, PlacesMatchOps, Goto, SemWaiters, LockWaiters
  <1> QED BY <1>1, <1>2, <1>3, QuietStep DEF Check

LEMMA TickWakesInv ==
  ASSUME MailboxInv, TypeOK', NEW t \in Thread, TickWakes(t)
  PROVE  MailboxInv'
  <1>1. PlacesMatchOps'
    BY DEF TickWakes, MailboxInv, TypeOK, PlacesMatchOps, Goto
  <1>2. Holders' = Holders /\ Signalling' = Signalling /\ Granted' = Granted
    BY DEF TickWakes, MailboxInv, TypeOK, PlacesMatchOps, Goto, Holders, Signalling, Granted
  <1>3. SemWaiters' \subseteq SemWaiters /\ LockWaiters' = LockWaiters
    BY DEF TickWakes, MailboxInv, TypeOK, PlacesMatchOps, Goto, SemWaiters, LockWaiters
  <1> QED BY <1>1, <1>2, <1>3, QuietStep DEF TickWakes

LEMMA WakeInv ==
  ASSUME MailboxInv, TypeOK', NEW t \in Thread, Wake(t)
  PROVE  MailboxInv'
  <1>1. PlacesMatchOps'
    BY DEF Wake, MailboxInv, TypeOK, PlacesMatchOps, Goto
  <1>2. Holders' = Holders /\ Signalling' = Signalling /\ Granted' = Granted
    BY DEF Wake, MailboxInv, TypeOK, PlacesMatchOps, Goto, Holders, Signalling, Granted
  <1>3. SemWaiters' \subseteq SemWaiters /\ LockWaiters' = LockWaiters
    BY DEF Wake, MailboxInv, TypeOK, PlacesMatchOps, Goto, SemWaiters, LockWaiters
  <1> QED BY <1>1, <1>2, <1>3, QuietStep DEF Wake

LEMMA NoRoomInv ==
  ASSUME MailboxInv, TypeOK', NEW t \in Thread, NoRoom(t)
  PROVE  MailboxInv'
  <1>1. PlacesMatchOps'
    BY DEF NoRoom, MailboxInv, TypeOK, PlacesMatchOps, Goto
  <1>2. Holders' = Holders /\ Signalling' = Signalling /\ Granted' = Granted
    BY DEF NoRoom, MailboxInv, TypeOK, PlacesMatchOps, Goto, Holders, Signalling, Granted
  <1>3. SemWaiters' \subseteq SemWaiters /\ LockWaiters' = LockWaiters
    BY DEF NoRoom, MailboxInv, TypeOK, PlacesMatchOps, Goto, SemWaiters, LockWaiters
  <1> QED BY <1>1, <1>2, <1>3, QuietStep DEF NoRoom

LEMMA PeekInv ==
  ASSUME MailboxInv, TypeOK', NEW t \in Thread, Peek(t)
  PROVE  MailboxInv'
  <1>1. PlacesMatchOps'
    BY DEF Peek, MailboxInv, TypeOK, PlacesMatchOps, Goto
  <1>2. Holders' = Holders /\ Signalling' = Signalling /\ Granted' = Granted
    BY DEF Peek, MailboxInv, TypeOK, PlacesMatchOps, Goto, Holders, Signalling, Granted
  <1>3. SemWaiters' \subseteq SemWaiters /\ LockWaiters' = LockWaiters
    BY DEF Peek, MailboxInv, TypeOK, PlacesMatchOps, Goto, SemWaiters, LockWaiters
  <1> QED BY <1>1, <1>2, <1>3, QuietStep DEF Peek

LEMMA TimedOutInv ==
  ASSUME MailboxInv, TypeOK', NEW t \in Thread, TimedOut(t)
  PROVE  MailboxInv'
  <1>1. PlacesMatchOps'
    BY DEF TimedOut, MailboxInv, TypeOK, PlacesMatchOps, Goto
  <1>2. Holders' = Holders /\ Signalling' = Signalling /\ Granted' = Granted
    BY DEF TimedOut, MailboxInv, TypeOK, PlacesMatchOps, Goto, Holders, Signalling, Granted
  <1>3. SemWaiters' \subseteq SemWaiters /\ LockWaiters' = LockWaiters
    BY DEF TimedOut, MailboxInv, TypeOK, PlacesMatchOps, Goto, SemWaiters, LockWaiters
  <1> QED BY <1>1, <1>2, <1>3, QuietStep DEF TimedOut

\* The mutex: taken only if nobody holds it.
LEMMA LockInv ==
  ASSUME MailboxInv, TypeOK', NEW t \in Thread, Lock(t)
  PROVE  MailboxInv'
  <1>1. PlacesMatchOps'
    BY DEF Lock, WaitOn, MailboxInv, TypeOK, PlacesMatchOps, Goto
  <1>2. Signalling' = Signalling /\ Granted' = Granted /\ SemWaiters' = SemWaiters
    BY DEF Lock, WaitOn, MailboxInv, TypeOK, Goto, Signalling, Granted, SemWaiters
  <1>3. RingConsistent' /\ TokensMatch'
    BY <1>2 DEF Lock, MailboxInv, RingConsistent, TokensMatch, ring
  <1>4. CASE mutex > 0
    <2>1. Holders = {} /\ mutex = 1
      BY <1>4 DEF MailboxInv, MutualExclusion
    <2>2. Holders' = {t} /\ mutex' = 0 /\ LockWaiters' = LockWaiters
      BY <1>4, <2>1 DEF Lock, WaitOn, MailboxInv, TypeOK, Goto, Holders, LockWaiters
    <2>3. MutualExclusion' /\ NoLostWakeup'
      BY <1>2, <2>1, <2>2 DEF Lock, MailboxInv, MutualExclusion, NoLostWakeup
    <2> QED BY <1>1, <1>3, <2>3 DEF MailboxInv
  <1>5. CASE ~(mutex > 0)
    <2>1. mutex = 0 /\ mutex' = 0
      BY <1>5 DEF Lock, WaitOn, MailboxInv, TypeOK
    <2>2. Holders' = Holders
      BY <1>5 DEF Lock, WaitOn, MailboxInv, TypeOK, Goto, Holders
    <2>3. MutualExclusion' /\ NoLostWakeup'
      BY <1>2, <2>1, <2>2 DEF Lock, MailboxInv, MutualExclusion, NoLostWakeup
    <2> QED BY <1>1, <1>3, <2>3 DEF MailboxInv
  <1> QED BY <1>4, <1>5

\* The unlock passes the mutex to a waiter or, if there is none, counts it.
LEMMA UnlockInv ==
  ASSUME MailboxInv, TypeOK', NEW t \in Thread, Unlock(t)
  PROVE  MailboxInv'
  <1>1. Holders = {t} /\ mutex = 0
    BY DEF Unlock, MailboxInv, TypeOK, MutualExclusion, Holders
  <1>2. CASE LockWaiters = {}
    <2>1. mutex' = 1 /\ Goto(t, "idle")
      BY <1>1, <1>2 DEF Unlock, PostTo
    <2>2. PlacesMatchOps'
      BY <2>1 DEF Unlock, MailboxInv, TypeOK, PlacesMatchOps, Goto
    <2>3. Signalling' = Signalling /\ Granted' = Granted /\ SemWaiters' = SemWaiters
      BY <2>1 DEF Unlock, MailboxInv, TypeOK, Goto, Signalling, Granted, SemWaiters
    <2>4. Holders' = {} /\ LockWaiters' = {}
      BY <1>1, <1>2, <2>1 DEF Unlock, MailboxInv, TypeOK, Goto, Holders, LockWaiters
    <2> QED BY <2>1, <2>2, <2>3, <2>4
        DEF Unlock, MailboxInv, MutualExclusion, NoLostWakeup, RingConsistent,
            TokensMatch, ring
  <1>3. CASE LockWaiters # {}
    <2>1. PICK w \in LockWaiters : pc' = [pc EXCEPT ![w] = "in", ![t] = "idle"]
      BY <1>3 DEF Unlock, PostTo
    <2>2. w \in Thread /\ pc[w] = "lockWait" /\ w # t /\ mutex' = mutex
      BY <1>3 DEF Unlock, PostTo, LockWaiters
    <2>3. PlacesMatchOps'
      BY <2>1, <2>2 DEF Unlock, MailboxInv, TypeOK, PlacesMatchOps
    <2>4. Signalling' = Signalling /\ Granted' = Granted /\ SemWaiters' = SemWaiters
      BY <2>1, <2>2 DEF Unlock, MailboxInv, TypeOK, Signalling, Granted, SemWaiters
    <2>5. Holders' = {w}
      BY <1>1, <2>1, <2>2 DEF MailboxInv, TypeOK, Holders
    <2> QED BY <1>1, <2>2, <2>3, <2>4, <2>5
        DEF Unlock, MailboxInv, MutualExclusion, NoLostWakeup, RingConsistent,
            TokensMatch, ring
  <1> QED BY <1>2, <1>3

\* A stored message counts at once, and its token is on the way.
LEMMA StoreInv ==
  ASSUME MailboxInv, TypeOK', NEW t \in Thread, Store(t)
  PROVE  MailboxInv'
  <1>1. PlacesMatchOps'
    BY DEF Store, MailboxInv, TypeOK, PlacesMatchOps, Goto
  <1>2. Holders' = Holders /\ Granted' = Granted
    BY DEF Store, MailboxInv, TypeOK, Goto, Holders, Granted
  <1>3. SemWaiters' = SemWaiters /\ LockWaiters' = LockWaiters
    BY DEF Store, MailboxInv, TypeOK, Goto, SemWaiters, LockWaiters
  <1>4. MutualExclusion' /\ NoLostWakeup'
    BY <1>2, <1>3 DEF Store, MailboxInv, MutualExclusion, NoLostWakeup
  <1>5. RingConsistent'
    BY MboxAssumption DEF Store, MailboxInv, TypeOK, RingConsistent, Succ, Full
  <1>6. Signalling' = Signalling \cup {t} /\ t \notin Signalling
    BY DEF Store, MailboxInv, TypeOK, Goto, Signalling
  <1>7. Cardinality(Signalling') = Cardinality(Signalling) + 1
    BY <1>6, OneMore DEF Signalling
  <1>8. Cardinality(Signalling) \in Nat /\ Cardinality(Granted) \in Nat
    BY ThreadSets DEF Signalling, Granted
  <1>9. TokensMatch'
    BY <1>2, <1>7, <1>8 DEF Store, MailboxInv, TypeOK, TokensMatch
  <1> QED BY <1>1, <1>4, <1>5, <1>9 DEF MailboxInv

\* The token goes to a fetcher that waits, timed out or not, or is counted.
LEMMA SignalInv ==
  ASSUME MailboxInv, TypeOK', NEW t \in Thread, Signal(t)
  PROVE  MailboxInv'
  <1>1. Cardinality(Signalling) \in Nat /\ Cardinality(Granted) \in Nat
    BY ThreadSets DEF Signalling, Granted
  <1>2. t \in Signalling
    BY DEF Signal, Signalling
  <1>3. Cardinality(Signalling \ {t}) = Cardinality(Signalling) - 1
    BY <1>2, OneLess DEF Signalling
  <1>4. CASE SemWaiters = {}
    <2>1. sem' = sem + 1 /\ Goto(t, "unlock")
      BY <1>4 DEF Signal, PostTo
    <2>2. PlacesMatchOps'
      BY <2>1 DEF Signal, MailboxInv, TypeOK, PlacesMatchOps, Goto
    <2>3. Holders' = Holders /\ Granted' = Granted
      BY <2>1 DEF Signal, MailboxInv, TypeOK, Goto, Holders, Granted
    <2>4. Signalling' = Signalling \ {t}
      BY <2>1 DEF Signal, MailboxInv, TypeOK, Goto, Signalling
    <2>5. SemWaiters' = {} /\ LockWaiters' = LockWaiters
      BY <1>4, <2>1 DEF Signal, MailboxInv, TypeOK, Goto, SemWaiters, LockWaiters
    <2>6. TokensMatch'
      BY <1>1, <1>3, <2>1, <2>3, <2>4 DEF Signal, MailboxInv, TypeOK, TokensMatch, ring
    <2> QED BY <2>2, <2>3, <2>5, <2>6
        DEF Signal, MailboxInv, MutualExclusion, NoLostWakeup, RingConsistent, ring
  <1>5. CASE SemWaiters # {}
    <2>1. PICK w \in SemWaiters : pc' = [pc EXCEPT ![w] = "lock", ![t] = "unlock"]
      BY <1>5 DEF Signal, PostTo
    <2>2. w \in Thread /\ pc[w] \in {"semWait", "semTO"} /\ w # t /\ sem' = sem
      BY <1>5 DEF Signal, PostTo, SemWaiters
    <2>3. PlacesMatchOps'
      BY <2>1, <2>2 DEF Signal, MailboxInv, TypeOK, PlacesMatchOps
    <2>4. Holders' = Holders /\ LockWaiters' = LockWaiters
      BY <2>1, <2>2 DEF Signal, MailboxInv, TypeOK, Holders, LockWaiters
    <2>5. Signalling' = Signalling \ {t} /\ SemWaiters' \subseteq SemWaiters
      BY <2>1, <2>2 DEF Signal, MailboxInv, TypeOK, Signalling, SemWaiters
    <2>6. Granted' = Granted \cup {w} /\ w \notin Granted
      BY <2>1, <2>2 DEF Signal, MailboxInv, TypeOK, PlacesMatchOps, Granted
    <2>7. Cardinality(Granted') = Cardinality(Granted) + 1
      BY <2>2, <2>6, OneMore DEF Granted
    <2>8. TokensMatch'
      BY <1>1, <1>3, <2>2, <2>5, <2>7 DEF Signal, MailboxInv, TypeOK, TokensMatch, ring
    <2> QED BY <2>2, <2>3, <2>4, <2>5, <2>8
        DEF Signal, MailboxInv, MutualExclusion, NoLostWakeup, RingConsistent, ring
  <1> QED BY <1>4, <1>5

LEMMA SemWaitInv ==
  ASSUME MailboxInv, TypeOK', NEW t \in Thread, SemWait(t)
  PROVE  MailboxInv'
  <1>1. PlacesMatchOps'
    BY DEF SemWait, WaitOn, MailboxInv, TypeOK, PlacesMatchOps, Goto
  <1>2. Holders' = Holders /\ Signalling' = Signalling /\ LockWaiters' = LockWaiters
    BY DEF SemWait, WaitOn, MailboxInv, TypeOK, Goto, Holders, Signalling, LockWaiters
  <1>3. MutualExclusion' /\ RingConsistent'
    BY <1>2 DEF SemWait, MailboxInv, MutualExclusion, RingConsistent, ring
  <1>4. CASE sem > 0
    <2>1. Granted' = Granted \cup {t} /\ t \notin Granted /\ SemWaiters' = SemWaiters
      BY <1>4 DEF SemWait, WaitOn, MailboxInv, TypeOK, PlacesMatchOps, Goto, Granted, SemWaiters
    <2>2. Cardinality(Granted') = Cardinality(Granted) + 1
      BY <2>1, OneMore DEF Granted
    <2>3. Cardinality(Signalling) \in Nat /\ Cardinality(Granted) \in Nat
      BY ThreadSets DEF Signalling, Granted
    <2>4. TokensMatch'
      BY <1>2, <1>4, <2>2, <2>3
      DEF SemWait, WaitOn, MailboxInv, TypeOK, TokensMatch, ring
    <2>5. NoLostWakeup'
      BY <1>2, <1>4, <2>1 DEF SemWait, WaitOn, MailboxInv, TypeOK, NoLostWakeup
    <2> QED BY <1>1, <1>3, <2>4, <2>5 DEF MailboxInv
  <1>5. CASE ~(sem > 0)
    <2>1. sem = 0 /\ sem' = 0
      BY <1>5 DEF SemWait, WaitOn, MailboxInv, TypeOK
    <2>2. Granted' = Granted
      BY <1>5 DEF SemWait, WaitOn, MailboxInv, TypeOK, Goto, Granted
    <2> QED BY <1>1, <1>2, <1>3, <2>1, <2>2
        DEF SemWait, MailboxInv, NoLostWakeup, TokensMatch, ring
  <1> QED BY <1>4, <1>5

\* Whoever takes has a token, so there is a message.
LEMMA TakerHasMessage ==
  ASSUME MailboxInv, NEW t \in Granted
  PROVE  msg_num > 0
  <1>1. Cardinality(Granted) \in Nat /\ Cardinality(Granted) >= 1
    BY OneLess, ThreadSets DEF Granted
  <1>2. Cardinality(Signalling) \in Nat
    BY ThreadSets DEF Signalling
  <1> QED BY <1>1, <1>2 DEF MailboxInv, TypeOK, TokensMatch

LEMMA TakeInv ==
  ASSUME MailboxInv, TypeOK', NEW t \in Thread, Take(t)
  PROVE  MailboxInv'
  <1>1. PlacesMatchOps'
    BY DEF Take, MailboxInv, TypeOK, PlacesMatchOps, Goto
  <1>2. Holders' = Holders /\ Signalling' = Signalling
    BY DEF Take, MailboxInv, TypeOK, PlacesMatchOps, Goto, Holders, Signalling
  <1>3. SemWaiters' = SemWaiters /\ LockWaiters' = LockWaiters
    BY DEF Take, MailboxInv, TypeOK, Goto, SemWaiters, LockWaiters
  <1>4. MutualExclusion' /\ NoLostWakeup'
    BY <1>2, <1>3 DEF Take, MailboxInv, MutualExclusion, NoLostWakeup
  <1>5. t \in Granted
    BY DEF Take, Granted
  <1>6. msg_num > 0 /\ msg_num' = msg_num - 1
    BY <1>5, TakerHasMessage DEF Take, NumAfterTake
  <1>7. RingConsistent'
    BY <1>6, MboxAssumption DEF Take, MailboxInv, TypeOK, RingConsistent, Succ
  <1>8. Granted' = Granted \ {t}
    BY DEF Take, MailboxInv, TypeOK, Goto, Granted
  <1>9. Cardinality(Granted') = Cardinality(Granted) - 1
    BY <1>5, <1>8, OneLess DEF Granted
  <1>10. Cardinality(Signalling) \in Nat /\ Cardinality(Granted) \in Nat
    BY ThreadSets DEF Signalling, Granted
  <1>11. TokensMatch'
    BY <1>2, <1>6, <1>9, <1>10 DEF Take, MailboxInv, TypeOK, TokensMatch
  <1> QED BY <1>1, <1>4, <1>7, <1>11 DEF MailboxInv

LEMMA StepInv == MailboxInv /\ [Next]_vars => MailboxInv'
  <1> SUFFICES ASSUME MailboxInv, [Next]_vars PROVE MailboxInv'
    OBVIOUS
  <1>1. TypeOK'
    BY TypeStep DEF MailboxInv
  <1>2. ASSUME NEW t \in Thread, Call(t) \/ TickWakes(t) \/ Step(t)
        PROVE  MailboxInv'
    BY <1>1, <1>2, CallInv, TickWakesInv, CheckInv, WakeInv, LockInv, NoRoomInv,
       StoreInv, SignalInv, UnlockInv, PeekInv, SemWaitInv, TimedOutInv, TakeInv
    DEF Step
  <1>3. CASE UNCHANGED vars
    BY <1>3 DEF vars, ring, MailboxInv, TypeOK, PlacesMatchOps, MutualExclusion,
        NoLostWakeup, RingConsistent, TokensMatch, Holders, SemWaiters, LockWaiters,
        Signalling, Granted
  <1> QED BY <1>2, <1>3 DEF Next

-----------------------------------------------------------------------------
(* The theorems.                                                           *)

\* The ring's indices and the counters stay in range, whatever the threads do.
THEOREM TypeCorrect == Spec => []TypeOK
  <1>1. Init => TypeOK
    BY InitInv DEF MailboxInv
  <1> QED BY <1>1, TypeStep, PTL DEF Spec

\* The inductive invariant of the mailbox functions of sys_arch.c.
THEOREM MailboxCorrect == Spec => []MailboxInv
  BY InitInv, StepInv, PTL DEF Spec

\* sys_mutex_lock and sys_mutex_unlock keep all but one thread out of the ring.
THEOREM RingIsExclusive == Spec => []MutualExclusion
  <1>1. MailboxInv => MutualExclusion
    BY DEF MailboxInv
  <1> QED BY <1>1, MailboxCorrect, PTL

\* No wake-up of the two semaphores is lost.
THEOREM NothingSlept == Spec => []NoLostWakeup
  <1>1. MailboxInv => NoLostWakeup
    BY DEF MailboxInv
  <1> QED BY <1>1, MailboxCorrect, PTL

\* The semaphore counts the messages that no fetcher has been given yet.
THEOREM SemaphoreCounts == Spec => []TokensMatch
  <1>1. MailboxInv => TokensMatch
    BY DEF MailboxInv
  <1> QED BY <1>1, MailboxCorrect, PTL

\* The error branch of sys_arch_mbox_fetch is dead.
THEOREM FetchNeverFails == Spec => []TakeFindsMessage
  <1>1. MailboxInv => TakeFindsMessage
    BY TakerHasMessage DEF TakeFindsMessage, Granted
  <1> QED BY <1>1, MailboxCorrect, PTL

-----------------------------------------------------------------------------
(* The refinement of MailQueue.                                            *)

\* n slots from slot j on are a sequence of length n.
LEMMA SlotsAreSeq ==
  ASSUME NEW S, NEW mem, NEW j, NEW n \in Nat,
         \A i \in 1 .. n : mem[SlotAt(j, i - 1)] \in S,
         NEW c, c = [i \in 1 .. n |-> mem[SlotAt(j, i - 1)]]
  PROVE  /\ c \in Seq(S)
         /\ Len(c) = n
         /\ \A i \in 1 .. n : c[i] = mem[SlotAt(j, i - 1)]
  <1> HIDE DEF SlotAt
  <1>1. c \in [1 .. n -> S] /\ DOMAIN c = 1 .. n
    OBVIOUS
  <1>2. c \in Seq(S)
    BY <1>1, SeqDef
  <1>3. Len(c) \in Nat /\ 1 .. Len(c) = 1 .. n
    BY <1>1, <1>2, LenProperties
  <1>4. Len(c) = n
    BY <1>3
  <1> QED BY <1>2, <1>4

LEMMA SlotInRing ==
  ASSUME NEW j \in Slot, NEW n \in 0 .. MAX_QUEUE_ENTRIES, NEW i \in 1 .. n
  PROVE  SlotAt(j, i - 1) \in Slot
  BY MboxAssumption

LEMMA ContentsIsSeq ==
  ASSUME TypeOK
  PROVE  /\ Contents \in Seq(Msg \cup {NoMsg})
         /\ Len(Contents) = msg_num
         /\ \A i \in 1 .. msg_num : Contents[i] = q_mem[SlotAt(tail, i - 1)]
  <1>1. msg_num \in Nat
    BY MboxAssumption DEF TypeOK
  <1> HIDE DEF SlotAt, Slot
  <1>2. \A i \in 1 .. msg_num : SlotAt(tail, i - 1) \in Slot
    BY SlotInRing DEF TypeOK
  <1>3. \A i \in 1 .. msg_num : q_mem[SlotAt(tail, i - 1)] \in Msg \cup {NoMsg}
    BY <1>2 DEF TypeOK
  <1> QED BY <1>1, <1>3, SlotsAreSeq DEF Contents

LEMMA ContentsIsSeqNext ==
  ASSUME TypeOK'
  PROVE  /\ Contents' \in Seq(Msg \cup {NoMsg})
         /\ Len(Contents') = msg_num'
         /\ \A i \in 1 .. msg_num' : Contents'[i] = q_mem'[SlotAt(tail', i - 1)]
  <1>1. msg_num' \in 0 .. MAX_QUEUE_ENTRIES /\ tail' \in Slot
    BY DEF TypeOK
  <1> HIDE DEF SlotAt, Slot
  <1>2. \A i \in 1 .. msg_num' : SlotAt(tail', i - 1) \in Slot
    BY <1>1, SlotInRing
  <1>3. \A i \in 1 .. msg_num' : q_mem'[SlotAt(tail', i - 1)] \in Msg \cup {NoMsg}
    BY <1>2 DEF TypeOK
  <1>4. msg_num' \in Nat
    BY <1>1, MboxAssumption
  <1> QED BY <1>3, <1>4, SlotsAreSeq DEF Contents

\* The slot that is written is none of those that hold a message.
LEMMA StoreAppends ==
  ASSUME MailboxInv, TypeOK', NEW t \in Thread, Store(t)
  PROVE  Len(Contents) < MAX_QUEUE_ENTRIES /\ Contents' = Append(Contents, msg[t])
  <1>1. TypeOK /\ RingConsistent
    BY DEF MailboxInv
  <1>2. msg_num \in Nat /\ msg_num' = msg_num + 1 /\ msg_num < MAX_QUEUE_ENTRIES
        /\ tail' = tail
    BY <1>1, MboxAssumption DEF Store, Full, TypeOK
  <1>3. msg[t] \in Msg \cup {NoMsg}
    BY <1>1 DEF TypeOK
  <1>4. ASSUME NEW i \in 1 .. msg_num
        PROVE  q_mem'[SlotAt(tail', i - 1)] = q_mem[SlotAt(tail, i - 1)]
    <2>1. SlotAt(tail, i - 1) # head /\ SlotAt(tail, i - 1) \in Slot
      BY <1>1, <1>2, MboxAssumption DEF TypeOK, RingConsistent
    <2> HIDE DEF SlotAt
    <2> QED BY <1>1, <1>2, <2>1 DEF Store, TypeOK
  <1>5. q_mem'[SlotAt(tail', msg_num)] = msg[t]
    <2>1. SlotAt(tail', msg_num) = head /\ head \in Slot
      BY <1>1, <1>2 DEF RingConsistent, TypeOK
    <2> HIDE DEF SlotAt
    <2> QED BY <1>1, <2>1 DEF Store, TypeOK
  <1> HIDE DEF SlotAt
  <1>6. Append(Contents, msg[t]) \in Seq(Msg \cup {NoMsg})
        /\ Len(Append(Contents, msg[t])) = msg_num + 1
    BY <1>1, <1>3, ContentsIsSeq
  <1>7. ASSUME NEW i \in 1 .. msg_num + 1
        PROVE  Contents'[i] = Append(Contents, msg[t])[i]
    <2>1. CASE i \in 1 .. msg_num
      BY <1>1, <1>2, <1>3, <1>4, <2>1, ContentsIsSeq, ContentsIsSeqNext
    <2>2. CASE i = msg_num + 1
      BY <1>1, <1>2, <1>3, <1>5, <2>2, ContentsIsSeq, ContentsIsSeqNext
    <2>3. i \in 1 .. msg_num \/ i = msg_num + 1
      BY <1>2
    <2> QED BY <2>1, <2>2, <2>3
  <1>8. Contents' = Append(Contents, msg[t])
    BY <1>1, <1>2, <1>6, <1>7, ContentsIsSeqNext, SeqEqual
  <1> QED BY <1>1, <1>2, <1>8, ContentsIsSeq

\* The slot that is read is the first of those that hold a message.
LEMMA TakeRemovesHead ==
  ASSUME MailboxInv, TypeOK', NEW t \in Thread, Take(t)
  PROVE  /\ Contents # <<>>
         /\ got' = [got EXCEPT ![t] = Head(Contents)]
         /\ Contents' = Tail(Contents)
  <1>1. TypeOK
    BY DEF MailboxInv
  <1>2. msg_num > 0 /\ msg_num \in Nat /\ msg_num' = msg_num - 1 /\ q_mem' = q_mem
    BY <1>1, TakerHasMessage, MboxAssumption DEF Take, NumAfterTake, Granted, TypeOK
  <1>3. ASSUME NEW i \in 1 .. msg_num - 1
        PROVE  SlotAt(tail', i - 1) = SlotAt(tail, i)
    BY <1>1, <1>2, MboxAssumption DEF Take, Succ, TypeOK
  <1>4. SlotAt(tail, 0) = tail
    BY <1>1, MboxAssumption DEF TypeOK
  <1> HIDE DEF SlotAt
  <1>5. Contents # <<>> /\ Head(Contents) = q_mem[tail]
    BY <1>1, <1>2, <1>4, ContentsIsSeq
  <1>6. /\ Tail(Contents) \in Seq(Msg \cup {NoMsg})
        /\ Len(Tail(Contents)) = msg_num - 1
        /\ \A i \in 1 .. msg_num - 1 : Tail(Contents)[i] = Contents[i + 1]
    BY <1>1, <1>2, <1>5, ContentsIsSeq, HeadTailProperties
  <1>7. ASSUME NEW i \in 1 .. msg_num - 1
        PROVE  Contents'[i] = Tail(Contents)[i]
    <2>1. i + 1 \in 1 .. msg_num /\ (i + 1) - 1 = i
      BY <1>2
    <2>2. Contents[i + 1] = q_mem[SlotAt(tail, i)]
      BY <1>1, <2>1, ContentsIsSeq
    <2>3. Contents'[i] = q_mem'[SlotAt(tail', i - 1)]
      BY <1>2, ContentsIsSeqNext
    <2> QED BY <1>2, <1>3, <1>6, <2>2, <2>3
  <1>8. Contents' = Tail(Contents)
    BY <1>2, <1>6, <1>7, ContentsIsSeqNext, SeqEqual
  <1> QED BY <1>5, <1>8 DEF Take, Oldest

LEMMA InitRefines == Init => FIFO!Init
  BY MboxAssumption DEF Init, FIFO!Init, Contents

LEMMA StepRefines ==
  ASSUME MailboxInv, [Next]_vars
  PROVE  [FIFO!Next]_<<Contents, got>>
  <1>1. TypeOK' /\ TypeOK
    BY TypeStep DEF MailboxInv
  <1>2. ASSUME NEW t \in Thread, Call(t) PROVE FIFO!Forget(t)
    BY <1>2 DEF Call, FIFO!Forget, Contents, ring
  <1>3. ASSUME NEW t \in Thread, Store(t) PROVE FIFO!Put(msg[t]) /\ msg[t] \in Msg
    <2>1. msg[t] \in Msg
      BY <1>3 DEF Store, MailboxInv, PlacesMatchOps
    <2> QED BY <1>1, <1>3, <2>1, StoreAppends DEF Store, FIFO!Put
  <1>4. ASSUME NEW t \in Thread, Take(t) PROVE FIFO!Get(t)
    BY <1>1, <1>4, TakeRemovesHead DEF FIFO!Get
  <1>5. ASSUME NEW t \in Thread,
               \/ Check(t) \/ TickWakes(t) \/ Wake(t) \/ Lock(t) \/ NoRoom(t)
               \/ Signal(t) \/ Unlock(t) \/ Peek(t) \/ SemWait(t) \/ TimedOut(t)
        PROVE  UNCHANGED <<Contents, got>>
    BY <1>5 DEF Check, TickWakes, Wake, Lock, NoRoom, Signal, Unlock, Peek, SemWait,
       TimedOut, Contents, ring
  <1>6. CASE UNCHANGED vars
    BY <1>6 DEF vars, ring, Contents
  <1> QED BY <1>2, <1>3, <1>4, <1>5, <1>6 DEF Next, Step, FIFO!Next

\* Whatever the threads do and however they are scheduled, no message is lost, doubled
\* or overtaken, and no more than MAX_QUEUE_ENTRIES are held.
THEOREM MailboxIsFifo == Spec => Fifo
  <1>1. Init => FIFO!Init
    BY InitRefines
  <1>2. MailboxInv /\ [Next]_vars => [FIFO!Next]_<<Contents, got>>
    BY StepRefines
  <1> QED BY <1>1, <1>2, MailboxCorrect, PTL DEF Spec, Fifo, FIFO!Spec
=============================================================================
