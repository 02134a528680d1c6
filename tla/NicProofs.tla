----------------------------- MODULE NicProofs ------------------------------
(***************************************************************************)
(* Proofs about the network card's driver and the interface above it.      *)
(*                                                                         *)
(* Enc28j60, for every set of frames, every size of the receive ring and   *)
(* every limit of EPKTCNT: TypeOK and DriverInv are inductive together:    *)
(* that EPKTCNT stays a number needs DriverInv (the driver counts off only *)
(* what it has read), and DriverInv at ReceiveCount needs EPKTCNT to be    *)
(* one.                                                                    *)
(*                                                                         *)
(* EthernetIf, for all pools, mailboxes and frames: messages and pbufs are *)
(* conserved whatever fails, and what a thread that sends alone puts on    *)
(* the wire is a whole frame.                                              *)
(***************************************************************************)
EXTENDS Enc28j60, EthernetIf, NumberSets, SequenceTheorems, TLAPS

IInv == TypeOK /\ DriverInv

-----------------------------------------------------------------------------
(* The receive ring.                                                       *)

\* Address arithmetic stays within the ring, and a distance is a unit's number.
LEMMA RingArithmetic ==
  ASSUME NEW u \in Unit
  PROVE  /\ \A n \in Nat : Ahead(u, n) \in Unit
         /\ \A v \in Unit : Dist(u, v) \in Unit
<1>1. \A x \in Nat : x % RxSize \in Unit
  BY EncAssumption DEF Unit
<1>2. \A n \in Nat : u + n \in Nat
  BY EncAssumption DEF Unit
<1>3. \A v \in Unit : v - u + RxSize \in Nat
  BY EncAssumption DEF Unit
<1> QED
  BY <1>1, <1>2, <1>3 DEF Ahead, Dist

\* What lies in the ring where the driver reads is a frame or no frame.
LEMMA FrameAtType ==
  ASSUME TypeOK, NEW u \in Unit
  PROVE  FrameAt(u) \in Frame \cup {NoFrame}
  BY DEF TypeOK, FrameAt

\* Reception writes within the ring.
LEMMA ArriveType ==
  ASSUME TypeOK, NEW f \in Frame, Arrive(f)
  PROVE  /\ rxbuf' \in [Unit -> [frame : Frame \cup {NoFrame}, part : Nat, next : Unit]]
         /\ ERXWRPT' \in Unit /\ EPKTCNT' \in 1 .. MaxPkt
<1>1. Size[f] \in Nat /\ ERXWRPT \in Unit /\ EPKTCNT \in 0 .. MaxPkt
  BY EncAssumption DEF TypeOK
<1>2. Ahead(ERXWRPT, Size[f]) \in Unit
  BY <1>1, RingArithmetic
<1>3. ASSUME NEW u \in Unit
      PROVE  Dist(ERXWRPT, u) \in Nat
  BY <1>1, RingArithmetic DEF Unit
<1>4. [u \in Unit |->
         LET i == Dist(ERXWRPT, u) IN
         IF i < Size[f]
           THEN [frame |-> f, part |-> i, next |-> Ahead(ERXWRPT, Size[f])]
           ELSE rxbuf[u]]
       \in [Unit -> [frame : Frame \cup {NoFrame}, part : Nat, next : Unit]]
  BY <1>2, <1>3 DEF TypeOK
<1>5. EPKTCNT + 1 \in 1 .. MaxPkt
  BY <1>1, EncAssumption DEF Arrive
<1> QED
  BY <1>2, <1>4, <1>5 DEF Arrive

-----------------------------------------------------------------------------
(* The invariant.                                                          *)

LEMMA InitIInv == Init => IInv
<1> SUFFICES ASSUME Init PROVE TypeOK /\ DriverInv
  BY DEF IInv
<1>1. 0 \in Unit /\ 0 \in 0 .. MaxPkt
  BY EncAssumption DEF Unit
<1>2. rxbuf \in [Unit -> [frame : Frame \cup {NoFrame}, part : Nat, next : Unit]]
  BY <1>1 DEF Init
<1>3. TypeOK
  <2>1. TXRTS \in BOOLEAN /\ TXERIF \in BOOLEAN /\ wedged \in BOOLEAN
    BY Zenon DEF Init
  <2> QED
    BY <1>1, <1>2, <2>1 DEF Init, TypeOK, PC
<1>4. DriverInv
  BY DEF Init, DriverInv
<1> QED
  BY <1>3, <1>4

\* A step of the controller: it touches neither the bank nor the driver, and only
\* ends or fails a transmission that is under way.
LEMMA ControllerIInv ==
  ASSUME IInv, Controller
  PROVE  IInv'
<1>1. ASSUME NEW f \in Frame, Arrive(f)
      PROVE  IInv'
  <2>1. /\ rxbuf' \in [Unit -> [frame : Frame \cup {NoFrame}, part : Nat, next : Unit]]
        /\ ERXWRPT' \in Unit /\ EPKTCNT' \in 1 .. MaxPkt
    BY <1>1, ArriveType DEF IInv
  <2>2. TypeOK'
    BY <1>1, <2>1, EncAssumption DEF IInv, TypeOK, Arrive, tx, drv, Unit
  <2>3. DriverInv'
    BY <1>1, <2>1, EncAssumption DEF IInv, DriverInv, Arrive, tx, drv
  <2> QED
    BY <2>2, <2>3 DEF IInv
<1>2. CASE TxDone
  BY <1>2 DEF TxDone, IInv, TypeOK, DriverInv, rx, drv
<1>3. CASE TxFail
  <2>1. TXERIF' \in BOOLEAN /\ UNCHANGED <<bank, txbuf, rx, drv>>
    BY <1>3, Zenon DEF TxFail
  <2>2. CASE TXRTS' = FALSE /\ UNCHANGED wedged
    BY <1>3, <2>1, <2>2 DEF TxFail, IInv, TypeOK, DriverInv, rx, drv
  <2>3. CASE wedged' = TRUE /\ UNCHANGED TXRTS
    <3>1. wedged' \in BOOLEAN
      BY <2>3, Zenon
    <3> QED
      BY <1>3, <2>1, <2>3, <3>1 DEF TxFail, IInv, TypeOK, DriverInv, rx, drv
  <2> QED
    BY <1>3, <2>2, <2>3 DEF TxFail
<1> QED
  BY <1>1, <1>2, <1>3 DEF Controller

\* A step of enc28j60PacketSend.
LEMMA SendIInv ==
  ASSUME IInv, SendWait \/ SendLoad \/ SendStart \/ SendCheck
  PROVE  IInv'
<1> USE DEF IInv, TypeOK, DriverInv, PC, Goto
<1>1. CASE SendWait
  BY <1>1 DEF SendWait, MaySend, SetBank, BankAfter, CacheAfter, tx, rx
<1>2. CASE SendLoad
  BY <1>2, EncAssumption DEF SendLoad, SetBank, BankAfter, CacheAfter, rx
<1>3. CASE SendStart
  BY <1>3, EncAssumption DEF SendStart, rx
<1>4. CASE SendCheck
  <2>1. TXRTS' \in BOOLEAN /\ wedged' \in BOOLEAN /\ (wedged' => TXRTS')
        /\ (TXRTS' => TXRTS)
    BY <1>4, Zenon DEF SendCheck
  <2>2. /\ bank' \in 0 .. 3 /\ Enc28j60Bank' = bank' /\ pc' = "idle"
        /\ sending' = NoFrame /\ UNCHANGED <<TXERIF, txbuf, rx, NextPacketPtr, ERDPT, packet>>
    BY <1>4 DEF SendCheck, SetBank, BankAfter, CacheAfter
  <2> QED
    BY <2>1, <2>2 DEF rx
<1> QED
  BY <1>1, <1>2, <1>3, <1>4

\* A step of enc28j60PacketReceive.
LEMMA ReceiveIInv ==
  ASSUME IInv,
         ReceiveCount \/ ReceiveHeader \/ ReceiveData \/ ReceiveFree \/ ReceiveDec
  PROVE  IInv'
<1> USE DEF IInv, TypeOK, DriverInv, PC, Goto
<1>1. CASE ReceiveCount
  BY <1>1 DEF ReceiveCount, SetBank, BankAfter, CacheAfter, tx, rx
<1>2. CASE ReceiveHeader
  <2>1. rxbuf[NextPacketPtr].next \in Unit
    OBVIOUS
  <2> QED
    BY <1>2, <2>1 DEF ReceiveHeader, SetBank, BankAfter, CacheAfter, tx, rx
<1>3. CASE ReceiveData
  <2>1. FrameAt(ERDPT) \in Frame \cup {NoFrame}
    BY FrameAtType
  <2>2. packet' \in Frame \cup {NoFrame}
    BY <1>3, <2>1 DEF ReceiveData
  <2> QED
    BY <1>3, <2>2 DEF ReceiveData, tx, rx
<1>4. CASE ReceiveFree
  BY <1>4, EncAssumption
     DEF ReceiveFree, FreedTo, SetBank, BankAfter, CacheAfter, tx, Unit
<1>5. CASE ReceiveDec
  <2>1. EPKTCNT' \in 0 .. MaxPkt
    BY <1>5, EncAssumption DEF ReceiveDec, CountAfterDec
  <2> QED
    BY <1>5, <2>1 DEF ReceiveDec, tx
<1> QED
  BY <1>1, <1>2, <1>3, <1>4, <1>5

\* Every step of the driver and the controller keeps the invariant.
LEMMA NextIInv == IInv /\ [Next]_vars => IInv'
<1> SUFFICES ASSUME IInv, [Next]_vars
             PROVE  IInv'
  OBVIOUS
<1>1. CASE Controller
  BY <1>1, ControllerIInv
<1>2. CASE Step
  BY <1>2, SendIInv, ReceiveIInv DEF Step
<1>3. CASE CallReceive
  BY <1>3, EncAssumption DEF CallReceive, Goto, IInv, TypeOK, DriverInv, PC, tx, rx
<1>4. ASSUME NEW f \in Frame \ Bad, CallSend(f)
      PROVE  IInv'
  BY <1>4, EncAssumption DEF CallSend, Goto, IInv, TypeOK, DriverInv, PC, tx, rx
<1>5. CASE UNCHANGED vars
  BY <1>5 DEF vars, tx, rx, drv, IInv, TypeOK, DriverInv
<1> QED
  BY <1>1, <1>2, <1>3, <1>4, <1>5 DEF Next

-----------------------------------------------------------------------------
(* The theorems.                                                           *)

\* The registers and the driver's variables keep their types; the pointers stay
\* within the receive ring and EPKTCNT is never counted below zero.
THEOREM TypeCorrect == Spec => []TypeOK
<1>1. IInv => TypeOK
  BY DEF IInv
<1> QED
  BY <1>1, InitIInv, NextIInv, PTL DEF Spec

\* The cached bank is the selected one, a frame is loaded and started only while
\* the controller sends none, and one is read only while there is one.
THEOREM DriverCorrect == Spec => []DriverInv
<1>1. IInv => DriverInv
  BY DEF IInv
<1> QED
  BY <1>1, InitIInv, NextIInv, PTL DEF Spec

\* The frame in the transmit buffer is not written over while it is being sent,
\* whatever the controller does between two SPI commands.
THEOREM FrameStable == Spec => SentAsGiven
<1>1. IInv /\ [Next]_vars => [TXRTS => UNCHANGED txbuf]_vars
  <2> SUFFICES ASSUME IInv, TXRTS, Next
               PROVE  UNCHANGED txbuf
    OBVIOUS
  <2>1. CASE Controller
    BY <2>1 DEF Controller, Arrive, TxDone, TxFail, tx
  <2>2. CASE Step
    BY <2>2 DEF IInv, DriverInv, Step, SendWait, SendLoad, SendStart, SendCheck,
       ReceiveCount, ReceiveHeader, ReceiveData, ReceiveFree, ReceiveDec, tx
  <2>3. CASE CallReceive
    BY <2>3 DEF CallReceive, tx
  <2>4. ASSUME NEW f \in Frame \ Bad, CallSend(f)
        PROVE  UNCHANGED txbuf
    BY <2>4 DEF CallSend, tx
  <2> QED
    BY <2>1, <2>2, <2>3, <2>4 DEF Next
<1> QED
  BY <1>1, InitIInv, NextIInv, PTL DEF Spec, SentAsGiven

-----------------------------------------------------------------------------
(* Positions in the ring, counted from where the controller may not write.  *)

LEMMA AheadIs ==
  ASSUME NEW u \in Unit, NEW n \in 0 .. RxSize
  PROVE  Ahead(u, n) = IF u + n < RxSize THEN u + n ELSE u + n - RxSize
<1>1. u + n \in Nat /\ u + n < 2 * RxSize /\ RxSize \in Nat \ {0}
  BY EncAssumption DEF Unit
<1>2. \A x \in Nat : x < 2 * RxSize => x % RxSize = IF x < RxSize THEN x ELSE x - RxSize
  BY <1>1, Remainder
<1>3. (u + n) % RxSize = IF u + n < RxSize THEN u + n ELSE u + n - RxSize
  <2> DEFINE x == u + n
  <2>1. x \in Nat /\ x < 2 * RxSize
    BY <1>1
  <2> HIDE DEF x
  <2>2. x % RxSize = IF x < RxSize THEN x ELSE x - RxSize
    BY <1>2, <2>1
  <2>3. u \in Int /\ n \in Int /\ RxSize \in Int
    BY EncAssumption DEF Unit
  <2> QED
    BY <2>2, <2>3 DEF x
<1> QED
  BY <1>3 DEF Ahead

LEMMA DistIs ==
  ASSUME NEW u \in Unit, NEW v \in Unit
  PROVE  Dist(u, v) = IF v < u THEN v - u + RxSize ELSE v - u
<1>1. v - u + RxSize \in Nat /\ v - u + RxSize < 2 * RxSize /\ RxSize \in Nat \ {0}
  BY EncAssumption DEF Unit
<1>2. \A x \in Nat : x < 2 * RxSize => x % RxSize = IF x < RxSize THEN x ELSE x - RxSize
  BY <1>1, Remainder
<1> QED
  BY <1>1, <1>2 DEF Dist, Unit

\* The unit at a distance, and distances from another unit.
LEMMA AheadDist ==
  ASSUME NEW u \in Unit, NEW v \in Unit
  PROVE  Ahead(u, Dist(u, v)) = v
<1>1. Dist(u, v) \in 0 .. RxSize /\ RxSize \in Nat
  BY DistIs, EncAssumption DEF Unit
<1> QED
  BY <1>1, AheadIs, DistIs DEF Unit

LEMMA DistAhead ==
  ASSUME NEW r \in Unit, NEW u \in Unit, NEW n \in 0 .. RxSize, Dist(r, u) + n < RxSize
  PROVE  Ahead(u, n) \in Unit /\ Dist(r, Ahead(u, n)) = Dist(r, u) + n
<1>1. n \in Nat /\ RxSize \in Nat
  BY EncAssumption
<1>2. Ahead(u, n) \in Unit
  BY <1>1, RingArithmetic
<1> DEFINE a == Ahead(u, n)
<1>3. a = IF u + n < RxSize THEN u + n ELSE u + n - RxSize
  BY AheadIs
<1> HIDE DEF a
<1>4. /\ Dist(r, u) = IF u < r THEN u - r + RxSize ELSE u - r
      /\ Dist(r, a) = IF a < r THEN a - r + RxSize ELSE a - r
  BY <1>2, DistIs DEF a
<1>5. Dist(r, a) = Dist(r, u) + n
  BY <1>1, <1>3, <1>4 DEF Unit
<1> QED
  BY <1>2, <1>5 DEF a

LEMMA DistSplit ==
  ASSUME NEW r \in Unit, NEW u \in Unit, NEW v \in Unit, Dist(r, u) <= Dist(r, v)
  PROVE  Dist(u, v) = Dist(r, v) - Dist(r, u)
<1>1. RxSize \in Nat
  BY EncAssumption
<1> QED
  BY <1>1, DistIs DEF Unit

LEMMA DistBack ==
  ASSUME NEW r \in Unit, NEW u \in Unit, NEW v \in Unit, Dist(r, v) < Dist(r, u)
  PROVE  Dist(u, v) = RxSize + Dist(r, v) - Dist(r, u)
<1>1. RxSize \in Nat
  BY EncAssumption
<1> QED
  BY <1>1, DistIs DEF Unit

-----------------------------------------------------------------------------
(* The chain of next-packet pointers.                                      *)

LEMMA ChainRight ==
  TypeOK => /\ UnitOf \in [Nat \ {0} -> Unit] /\ UnitOf[1] = FirstUnit
            /\ \A k \in Nat \ {0} : UnitOf[k + 1] = rxbuf[UnitOf[k]].next
<1> SUFFICES ASSUME TypeOK
             PROVE  /\ UnitOf \in [Nat \ {0} -> Unit] /\ UnitOf[1] = FirstUnit
                    /\ \A k \in Nat \ {0} : UnitOf[k + 1] = rxbuf[UnitOf[k]].next
  OBVIOUS
<1> DEFINE h == [u \in Unit |-> rxbuf[u].next]
           Is(c) == c = [k \in Nat \ {0} |-> IF k = 1 THEN FirstUnit ELSE rxbuf[c[k - 1]].next]
<1>1. h \in [Unit -> Unit] /\ FirstUnit \in Unit
  BY DEF TypeOK, FirstUnit
<1>2. PICK g \in [Nat -> Unit] : g[0] = FirstUnit /\ \A n \in Nat : g[n + 1] = h[g[n]]
  <2> HIDE DEF h
  <2> QED
    BY <1>1, Iterates
<1> DEFINE d == [k \in Nat \ {0} |-> g[k - 1]]
<1>3. Is(d)
  <2>1. \A k \in Nat \ {0} : d[k] = IF k = 1 THEN FirstUnit ELSE rxbuf[d[k - 1]].next
    <3> TAKE k \in Nat \ {0}
    <3>1. CASE k = 1
      BY <1>2, <3>1
    <3>2. CASE k # 1
      <4>1. k - 2 \in Nat /\ (k - 2) + 1 = k - 1 /\ (k - 1) - 1 = k - 2 /\ k - 1 \in Nat \ {0}
        BY <3>2
      <4>2. g[(k - 2) + 1] = h[g[k - 2]] /\ g[k - 2] \in Unit
        BY <1>2, <4>1
      <4> QED
        BY <3>2, <4>1, <4>2
    <3> QED
      BY <3>1, <3>2
  <2>2. d = [k \in Nat \ {0} |-> d[k]]
    OBVIOUS
  <2> HIDE DEF d
  <2> QED
    BY <2>1, <2>2
<1>4. Is(UnitOf)
  <2>1. UnitOf = CHOOSE c : Is(c)
    BY DEF UnitOf
  <2> HIDE DEF d, Is
  <2> QED
    BY <1>3, <2>1
<1>5. \A k \in Nat \ {0} : UnitOf[k] = IF k = 1 THEN FirstUnit ELSE rxbuf[UnitOf[k - 1]].next
  BY <1>4
<1>6. UnitOf[1] = FirstUnit /\ \A k \in Nat \ {0} : UnitOf[k + 1] = rxbuf[UnitOf[k]].next
  <2>1. \A k \in Nat \ {0} : k + 1 \in Nat \ {0} /\ k + 1 # 1 /\ (k + 1) - 1 = k
    OBVIOUS
  <2> QED
    BY <1>5, <2>1
<1>7. \A k \in Nat \ {0} : UnitOf[k] \in Unit
  <2> DEFINE N == {n \in Nat : UnitOf[n + 1] \in Unit}
  <2>1. 0 \in N
    BY <1>1, <1>6
  <2>2. \A n \in Nat : n \in N => n + 1 \in N
    BY <1>6 DEF TypeOK
  <2>3. Nat \subseteq N
    <3> HIDE DEF N
    <3> QED
      BY <2>1, <2>2, NatSet
  <2>4. \A k \in Nat \ {0} : k - 1 \in Nat /\ (k - 1) + 1 = k
    OBVIOUS
  <2> QED
    BY <2>3, <2>4
<1> QED
  BY <1>4, <1>6, <1>7

LEMMA ChainNext ==
  TypeOK' => /\ UnitOf' \in [Nat \ {0} -> Unit] /\ UnitOf'[1] = FirstUnit'
             /\ \A k \in Nat \ {0} : UnitOf'[k + 1] = rxbuf'[UnitOf'[k]].next
<1>1. TypeOK' => (/\ UnitOf \in [Nat \ {0} -> Unit] /\ UnitOf[1] = FirstUnit
                  /\ \A k \in Nat \ {0} : UnitOf[k + 1] = rxbuf[UnitOf[k]].next)'
  BY ChainRight, PTL
<1> QED
  BY <1>1
-----------------------------------------------------------------------------
(* The frames in the ring, as a relation between a buffer, its two pointers *)
(* and a chain of n frames, so that it can be said of two states at once.   *)

\* The frame at u is all there, does not reach past the write pointer w, and names
\* the place behind it.
WholeIn(buf, r, w, u) ==
  LET f == buf[u].frame IN
  /\ f \in Frame
  /\ Dist(r, u) + Size[f] <= Dist(r, w)
  /\ \A i \in 0 .. Size[f] - 1 : buf[Ahead(u, i)].frame = f /\ buf[Ahead(u, i)].part = i
  /\ buf[u].next = Ahead(u, Size[f])

\* n frames lie one behind the other up to the write pointer.
Laid(buf, r, w, c, n) ==
  /\ c[n + 1] = w
  /\ \A k \in 1 .. n : WholeIn(buf, r, w, c[k])
  /\ \A j, k \in 1 .. n + 1 : j <= k => Dist(r, c[j]) <= Dist(r, c[k])

RingInv ==
  /\ Laid(rxbuf, ERXRDPT, ERXWRPT, UnitOf, Waiting)
  /\ pc = "rxData" => NextPacketPtr = rxbuf[ERDPT].next

LEMMA SizeIs == \A f \in Frame : Size[f] \in Nat \ {0} /\ Size[f] <= RxSize /\ RxSize \in Nat
  BY EncAssumption

LEMMA WaitingNat == IInv => Waiting \in Nat /\ (pc = "rxData" => Waiting > 0)
<1> SUFFICES ASSUME IInv PROVE Waiting \in Nat /\ (pc = "rxData" => Waiting > 0)
  OBVIOUS
<1>1. EPKTCNT \in Nat /\ (pc \in {"rxData", "rxFree", "rxDec"} => EPKTCNT > 0)
  BY EncAssumption DEF IInv, TypeOK, DriverInv
<1> QED
  BY <1>1 DEF Waiting

LEMMA DistNat == \A u, v \in Unit : Dist(u, v) \in Nat /\ Dist(u, v) < RxSize
<1> TAKE u \in Unit, v \in Unit
<1>1. Dist(u, v) \in Unit
  BY RingArithmetic
<1> QED
  BY <1>1, EncAssumption DEF Unit

\* The frame a whole one is, and that it ends before the free units.
LEMMA WholeFrame ==
  ASSUME NEW u \in Unit, ERXRDPT \in Unit, ERXWRPT \in Unit,
         WholeIn(rxbuf, ERXRDPT, ERXWRPT, u)
  PROVE  /\ FrameAt(u) = rxbuf[u].frame /\ rxbuf[u].frame \in Frame
         /\ Dist(ERXRDPT, u) < Dist(ERXRDPT, ERXWRPT)
<1> DEFINE f == rxbuf[u].frame
<1>1. f \in Frame /\ Dist(ERXRDPT, u) + Size[f] <= Dist(ERXRDPT, ERXWRPT)
  BY DEF WholeIn
<1>2. FrameAt(u) = f
  BY EncAssumption DEF WholeIn, FrameAt
<1>3. Dist(ERXRDPT, u) \in Nat /\ Dist(ERXRDPT, ERXWRPT) \in Nat /\ Size[f] \in Nat \ {0}
  BY <1>1, SizeIs, DistNat
<1>4. Dist(ERXRDPT, u) < Dist(ERXRDPT, ERXWRPT)
  <2> HIDE DEF f
  <2> QED
    BY <1>1, <1>3
<1> QED
  BY <1>1, <1>2, <1>4

LEMMA RingIsIntact == IInv /\ RingInv => RingIntact
<1> SUFFICES ASSUME IInv, RingInv PROVE RingIntact
  OBVIOUS
<1>1. ASSUME NEW k \in 1 .. Waiting
      PROVE  FrameAt(UnitOf[k]) # NoFrame /\ Dist(ERXRDPT, UnitOf[k]) < Dist(ERXRDPT, ERXWRPT)
  <2>1. Waiting \in Nat /\ k \in Nat \ {0}
    BY WaitingNat
  <2>2. UnitOf[k] \in Unit /\ ERXRDPT \in Unit /\ ERXWRPT \in Unit
    BY <2>1, ChainRight DEF IInv, TypeOK
  <2>3. WholeIn(rxbuf, ERXRDPT, ERXWRPT, UnitOf[k])
    BY <1>1 DEF RingInv, Laid
  <2> QED
    BY <2>2, <2>3, WholeFrame, EncAssumption
<1> QED
  BY <1>1 DEF RingInv, RingIntact, Laid

\* The chain from the same place through the same pointers is the same.
LEMMA ChainKept ==
  ASSUME TypeOK, TypeOK', FirstUnit' = FirstUnit, NEW n \in Nat,
         \A k \in 1 .. n : rxbuf'[UnitOf[k]].next = rxbuf[UnitOf[k]].next
  PROVE  \A k \in 1 .. n + 1 : UnitOf'[k] = UnitOf[k]
<1> DEFINE N == {m \in Nat : m <= n => UnitOf'[m + 1] = UnitOf[m + 1]}
<1>1. 0 \in N
  BY ChainRight, ChainNext
<1>2. ASSUME NEW m \in Nat, m \in N PROVE m + 1 \in N
  <2> SUFFICES ASSUME m + 1 <= n PROVE UnitOf'[(m + 1) + 1] = UnitOf[(m + 1) + 1]
    OBVIOUS
  <2>1. UnitOf'[m + 1] = UnitOf[m + 1] /\ m + 1 \in Nat \ {0} /\ m + 1 \in 1 .. n
    BY <1>2
  <2>2. /\ UnitOf'[(m + 1) + 1] = rxbuf'[UnitOf'[m + 1]].next
        /\ UnitOf[(m + 1) + 1] = rxbuf[UnitOf[m + 1]].next
    BY <2>1, ChainRight, ChainNext
  <2> QED
    BY <2>1, <2>2
<1>3. Nat \subseteq N
  <2> HIDE DEF N
  <2> QED
    BY <1>1, <1>2, NatSet
<1>4. \A k \in 1 .. n + 1 : k - 1 \in Nat /\ k - 1 <= n /\ (k - 1) + 1 = k
  OBVIOUS
<1> QED
  BY <1>3, <1>4

\* Once the first frame is passed, the chain is one shorter.
LEMMA ChainShift ==
  ASSUME TypeOK, TypeOK', rxbuf' = rxbuf, FirstUnit' = rxbuf[FirstUnit].next
  PROVE  \A k \in Nat \ {0} : UnitOf'[k] = UnitOf[k + 1]
<1> DEFINE N == {m \in Nat : UnitOf'[m + 1] = UnitOf[m + 2]}
<1>1. 0 \in N
  <2>1. UnitOf[1 + 1] = rxbuf[UnitOf[1]].next
    BY ChainRight
  <2> QED
    BY <2>1, ChainRight, ChainNext
<1>2. ASSUME NEW m \in Nat, m \in N PROVE m + 1 \in N
  <2>1. UnitOf'[m + 1] = UnitOf[m + 2] /\ m + 1 \in Nat \ {0} /\ m + 2 \in Nat \ {0}
    BY <1>2
  <2>2. /\ UnitOf'[(m + 1) + 1] = rxbuf[UnitOf'[m + 1]].next
        /\ UnitOf[(m + 2) + 1] = rxbuf[UnitOf[m + 2]].next
    BY <2>1, ChainRight, ChainNext
  <2>3. (m + 2) + 1 = (m + 1) + 2
    OBVIOUS
  <2> QED
    BY <2>1, <2>2, <2>3
<1>3. Nat \subseteq N
  <2> HIDE DEF N
  <2> QED
    BY <1>1, <1>2, NatSet
<1>4. \A k \in Nat \ {0} : k - 1 \in Nat /\ (k - 1) + 1 = k /\ (k - 1) + 2 = k + 1
  OBVIOUS
<1> QED
  BY <1>3, <1>4

\* The same chain, under another name.
LEMMA LaidSame ==
  ASSUME NEW buf, NEW r, NEW w, NEW c, NEW n \in Nat, NEW d,
         Laid(buf, r, w, c, n), \A k \in 1 .. n + 1 : d[k] = c[k]
  PROVE  Laid(buf, r, w, d, n)
<1>1. n + 1 \in 1 .. n + 1 /\ \A k \in 1 .. n : k \in 1 .. n + 1
  OBVIOUS
<1> QED
  BY <1>1 DEF Laid

\* The chain without its first frame.
LEMMA LaidTail ==
  ASSUME NEW buf, NEW r, NEW w, NEW c, NEW n \in Nat, NEW d,
         Laid(buf, r, w, c, n + 1), \A k \in 1 .. n + 1 : d[k] = c[k + 1]
  PROVE  Laid(buf, r, w, d, n)
<1>1. n + 1 \in 1 .. n + 1 /\ \A k \in 1 .. n : k \in 1 .. n + 1
  OBVIOUS
<1>2. \A k \in 1 .. n : k + 1 \in 1 .. n + 1
  OBVIOUS
<1>3. \A k \in 1 .. n + 1 : k + 1 \in 1 .. (n + 1) + 1
  OBVIOUS
<1>4. \A k \in 1 .. n : WholeIn(buf, r, w, d[k])
  BY <1>1, <1>2 DEF Laid
<1>5. ASSUME NEW j \in 1 .. n + 1, NEW k \in 1 .. n + 1, j <= k
      PROVE  Dist(r, d[j]) <= Dist(r, d[k])
  <2>1. j + 1 <= k + 1
    BY <1>5
  <2> QED
    BY <1>3, <2>1 DEF Laid
<1> QED
  BY <1>1, <1>4, <1>5 DEF Laid

\* Memory given back up to the first frame that waits.
LEMMA LaidFreed ==
  ASSUME NEW buf, NEW r \in Unit, NEW w \in Unit, NEW c, NEW n \in Nat,
         \A k \in 1 .. n + 1 : c[k] \in Unit,
         Laid(buf, r, w, c, n)
  PROVE  Laid(buf, c[1], w, c, n)
<1> DEFINE d == Dist(r, c[1])
<1>1. 1 \in 1 .. n + 1 /\ n + 1 \in 1 .. n + 1 /\ \A k \in 1 .. n : k \in 1 .. n + 1
  OBVIOUS
<1>2. \A u \in Unit : Dist(r, u) \in Nat
  BY RingArithmetic DEF Unit
<1>3. \A k \in 1 .. n + 1 : Dist(c[1], c[k]) = Dist(r, c[k]) - d
  <2> TAKE k \in 1 .. n + 1
  <2>1. 1 <= k
    OBVIOUS
  <2>2. d <= Dist(r, c[k])
    BY <1>1, <2>1 DEF Laid
  <2> QED
    BY <1>1, <2>2, DistSplit
<1>4. Dist(c[1], w) = Dist(r, w) - d
  BY <1>1, <1>3 DEF Laid
<1>5. d \in Nat /\ Dist(r, w) \in Nat /\ \A k \in 1 .. n + 1 : Dist(r, c[k]) \in Nat
  BY <1>1, <1>2
<1>6. ASSUME NEW k \in 1 .. n
      PROVE  WholeIn(buf, c[1], w, c[k])
  <2> DEFINE f == buf[c[k]].frame
  <2>1. WholeIn(buf, r, w, c[k]) /\ k \in 1 .. n + 1
    BY <1>1 DEF Laid
  <2>2. f \in Frame /\ Dist(r, c[k]) + Size[f] <= Dist(r, w)
    BY <2>1 DEF WholeIn
  <2>3. Size[f] \in Nat
    BY <2>2, SizeIs
  <2>4. Dist(c[1], c[k]) + Size[f] <= Dist(c[1], w)
    <3> HIDE DEF d, f
    <3> QED
      BY <1>3, <1>4, <1>5, <2>1, <2>2, <2>3
  <2> QED
    BY <2>1, <2>4 DEF WholeIn
<1>7. ASSUME NEW j \in 1 .. n + 1, NEW k \in 1 .. n + 1, j <= k
      PROVE  Dist(c[1], c[j]) <= Dist(c[1], c[k])
  <2>1. Dist(r, c[j]) <= Dist(r, c[k])
    BY <1>7 DEF Laid
  <2> HIDE DEF d
  <2> QED
    BY <1>3, <1>5, <2>1
<1> QED
  BY <1>6, <1>7 DEF Laid

\* A frame the controller appends.
Grown(buf, w, f) ==
  [u \in Unit |-> IF Dist(w, u) < Size[f]
                    THEN [frame |-> f, part |-> Dist(w, u), next |-> Ahead(w, Size[f])]
                    ELSE buf[u]]

\* It lies at the write pointer, whole.
LEMMA GrownWhole ==
  ASSUME NEW buf, NEW r \in Unit, NEW w \in Unit, NEW f \in Frame,
         Size[f] <= RxSize - 1 - Dist(r, w)
  PROVE  /\ Ahead(w, Size[f]) \in Unit
         /\ Dist(r, Ahead(w, Size[f])) = Dist(r, w) + Size[f]
         /\ WholeIn(Grown(buf, w, f), r, Ahead(w, Size[f]), w)
         /\ Grown(buf, w, f)[w].frame = f
         /\ Grown(buf, w, f)[w].next = Ahead(w, Size[f])
<1> DEFINE s == Size[f]
           e == Ahead(w, s)
           g == Grown(buf, w, f)
<1>1. s \in Nat \ {0} /\ RxSize \in Nat /\ s <= RxSize
  BY SizeIs
<1>2. Dist(r, w) \in Nat /\ Dist(w, w) = 0
  BY <1>1, RingArithmetic, DistIs DEF Unit
<1>3. s \in 0 .. RxSize /\ Dist(r, w) + s < RxSize
  <2> HIDE DEF s
  <2>1. s <= RxSize - 1 - Dist(r, w)
    BY DEF s
  <2> QED
    BY <1>1, <1>2, <2>1
<1>4. e \in Unit /\ Dist(r, e) = Dist(r, w) + s
  <2> HIDE DEF s
  <2> QED
    BY <1>3, DistAhead
<1>5. g[w].frame = f /\ g[w].next = e
  BY <1>1, <1>2 DEF Grown
<1>6. ASSUME NEW i \in 0 .. s - 1
      PROVE  g[Ahead(w, i)].frame = f /\ g[Ahead(w, i)].part = i
  <2>1. i \in Nat /\ i < s /\ i \in 0 .. RxSize /\ i < RxSize
    <3> HIDE DEF s
    <3> QED
      BY <1>1
  <2>2. Ahead(w, i) \in Unit /\ Dist(w, Ahead(w, i)) = i
    BY <1>2, <2>1, DistAhead
  <2> QED
    BY <2>1, <2>2 DEF Grown
<1>7. Dist(r, w) + s <= Dist(r, e)
  <2> HIDE DEF s, e
  <2> QED
    BY <1>1, <1>2, <1>4
<1>8. WholeIn(g, r, e, w)
  <2>1. e = Ahead(w, Size[f])
    OBVIOUS
  <2> HIDE DEF g, e
  <2> QED
    BY <1>5, <1>6, <1>7, <2>1 DEF WholeIn
<1> QED
  BY <1>4, <1>5, <1>8

\* What lies between the two pointers is not written.
LEMMA GrownKeeps ==
  ASSUME NEW buf, NEW r \in Unit, NEW w \in Unit, NEW f \in Frame, NEW v \in Unit,
         Size[f] <= RxSize - 1 - Dist(r, w), Dist(r, v) < Dist(r, w)
  PROVE  Grown(buf, w, f)[v] = buf[v]
<1>1. Size[f] \in Nat \ {0} /\ RxSize \in Nat
  BY SizeIs
<1>2. Dist(r, w) \in Nat /\ Dist(r, v) \in Nat
  BY RingArithmetic DEF Unit
<1>3. Dist(w, v) = RxSize + Dist(r, v) - Dist(r, w)
  BY DistBack
<1>4. ~ (Dist(w, v) < Size[f])
  BY <1>1, <1>2, <1>3
<1> QED
  BY <1>4 DEF Grown

\* So a frame that waits stays whole.
LEMMA WholeKept ==
  ASSUME NEW buf, NEW r \in Unit, NEW w \in Unit, NEW f \in Frame, NEW u \in Unit,
         Size[f] <= RxSize - 1 - Dist(r, w), WholeIn(buf, r, w, u)
  PROVE  /\ WholeIn(Grown(buf, w, f), r, Ahead(w, Size[f]), u)
         /\ Grown(buf, w, f)[u] = buf[u]
<1> DEFINE p == buf[u].frame
           g == Grown(buf, w, f)
           e == Ahead(w, Size[f])
<1>1. p \in Frame /\ Dist(r, u) + Size[p] <= Dist(r, w)
  BY DEF WholeIn
<1>2. /\ Size[p] \in Nat \ {0} /\ Size[f] \in Nat \ {0} /\ RxSize \in Nat
      /\ Dist(r, u) \in Nat /\ Dist(r, w) \in Nat /\ Dist(r, w) < RxSize
  BY <1>1, SizeIs, DistNat
<1>3. ASSUME NEW i \in 0 .. Size[p] - 1
      PROVE  Ahead(u, i) \in Unit /\ g[Ahead(u, i)] = buf[Ahead(u, i)]
  <2>1. i \in 0 .. RxSize /\ Dist(r, u) + i < Dist(r, w) /\ Dist(r, u) + i < RxSize
    <3> HIDE DEF p
    <3> QED
      BY <1>1, <1>2
  <2>2. Ahead(u, i) \in Unit /\ Dist(r, Ahead(u, i)) = Dist(r, u) + i
    BY <2>1, DistAhead
  <2> QED
    BY <2>1, <2>2, GrownKeeps
<1>4. g[u] = buf[u]
  <2>1. Dist(r, u) < Dist(r, w)
    <3> HIDE DEF p
    <3> QED
      BY <1>1, <1>2
  <2> QED
    BY <2>1, GrownKeeps
<1>5. Dist(r, u) + Size[p] <= Dist(r, e)
  <2>1. Dist(r, e) = Dist(r, w) + Size[f]
    BY GrownWhole
  <2> HIDE DEF p, e
  <2> QED
    BY <1>1, <1>2, <2>1
<1>6. \A i \in 0 .. Size[p] - 1 : g[Ahead(u, i)].frame = p /\ g[Ahead(u, i)].part = i
  <2>1. \A i \in 0 .. Size[p] - 1 : buf[Ahead(u, i)].frame = p /\ buf[Ahead(u, i)].part = i
    BY DEF WholeIn
  <2> HIDE DEF g
  <2> QED
    BY <1>3, <2>1
<1>7. g[u].next = Ahead(u, Size[p]) /\ g[u].frame = p
  BY <1>4 DEF WholeIn
<1>8. WholeIn(g, r, e, u)
  <2> HIDE DEF g, e
  <2> QED
    BY <1>1, <1>5, <1>6, <1>7 DEF WholeIn
<1> QED
  BY <1>4, <1>8

LEMMA LaidGrown ==
  ASSUME NEW buf, NEW r \in Unit, NEW w \in Unit, NEW c, NEW n \in Nat, NEW d, NEW f \in Frame,
         Size[f] <= RxSize - 1 - Dist(r, w),
         \A k \in 1 .. n + 1 : c[k] \in Unit,
         Laid(buf, r, w, c, n),
         \A k \in 1 .. n + 1 : d[k] = c[k], d[n + 2] = Ahead(w, Size[f])
  PROVE  Laid(Grown(buf, w, f), r, Ahead(w, Size[f]), d, n + 1)
<1> DEFINE e == Ahead(w, Size[f])
           g == Grown(buf, w, f)
<1>1. (n + 1) + 1 = n + 2 /\ n + 1 \in 1 .. n + 1 /\ d[n + 1] = w
  BY DEF Laid
<1>2. WholeIn(g, r, e, w) /\ Dist(r, e) = Dist(r, w) + Size[f]
  BY GrownWhole
<1>3. ASSUME NEW k \in 1 .. n + 1
      PROVE  WholeIn(g, r, e, d[k])
  <2>1. CASE k = n + 1
    BY <1>1, <1>2, <2>1
  <2>2. CASE k # n + 1
    <3>1. k \in 1 .. n
      BY <2>2
    <3>2. WholeIn(buf, r, w, c[k]) /\ c[k] \in Unit /\ d[k] = c[k]
      BY <3>1 DEF Laid
    <3> QED
      BY <3>2, WholeKept
  <2> QED
    BY <2>1, <2>2
<1>4. \A k \in 1 .. n + 1 : Dist(r, d[k]) <= Dist(r, w)
  <2> TAKE k \in 1 .. n + 1
  <2>1. k <= n + 1
    OBVIOUS
  <2> QED
    BY <1>1, <2>1 DEF Laid
<1>5. \A k \in 1 .. n + 1 : Dist(r, d[k]) \in Nat
  BY DistNat
<1>6. Dist(r, w) \in Nat /\ Size[f] \in Nat
  BY SizeIs, DistNat
<1>7. ASSUME NEW j \in 1 .. (n + 1) + 1, NEW k \in 1 .. (n + 1) + 1, j <= k
      PROVE  Dist(r, d[j]) <= Dist(r, d[k])
  <2>0. j \in 1 .. n + 1 \/ j = n + 2
    OBVIOUS
  <2>1. CASE k = n + 2 /\ j \in 1 .. n + 1
    <3>1. d[k] = e
      BY <2>1
    <3> HIDE DEF e
    <3> QED
      BY <1>2, <1>4, <1>5, <1>6, <2>1, <3>1
  <2>2. CASE k = n + 2 /\ j = n + 2
    <3>1. Dist(r, e) \in Nat /\ d[j] = e /\ d[k] = e
      BY <1>2, <1>6, <2>2
    <3> HIDE DEF e
    <3> QED
      BY <3>1
  <2>3. CASE k # n + 2
    <3>1. j \in 1 .. n + 1 /\ k \in 1 .. n + 1
      BY <1>7, <2>3
    <3> QED
      BY <1>7, <3>1 DEF Laid
  <2> QED
    BY <2>0, <2>1, <2>2, <2>3
<1> HIDE DEF g, e
<1>8. d[(n + 1) + 1] = e
  BY <1>1 DEF e
<1>9. Laid(g, r, e, d, n + 1)
  BY <1>3, <1>7, <1>8 DEF Laid
<1> QED
  BY <1>9 DEF g, e

-----------------------------------------------------------------------------
(* The steps.                                                              *)

\* A step that leaves the ring and the driver's place in it alone.
LEMMA RingSame ==
  ASSUME IInv, RingInv, TypeOK', UNCHANGED <<rxbuf, ERXWRPT, ERXRDPT>>,
         FirstUnit' = FirstUnit, Waiting' = Waiting,
         pc' = "rxData" => NextPacketPtr' = rxbuf[ERDPT'].next
  PROVE  RingInv' /\ \A k \in 1 .. Waiting + 1 : UnitOf'[k] = UnitOf[k]
<1>1. PICK w \in Nat : Waiting = w
  BY WaitingNat
<1>2. \A k \in 1 .. w + 1 : UnitOf'[k] = UnitOf[k]
  BY ChainKept DEF IInv
<1>3. Laid(rxbuf, ERXRDPT, ERXWRPT, UnitOf, w)
  BY <1>1 DEF RingInv
<1>4. Laid(rxbuf, ERXRDPT, ERXWRPT, UnitOf', w)
  BY <1>2, <1>3, LaidSame
<1> QED
  BY <1>1, <1>2, <1>4 DEF RingInv

\* A frame that has been copied is off the chain.
LEMMA DataKeepsRing ==
  ASSUME IInv, RingInv, TypeOK', ReceiveData
  PROVE  /\ RingInv' /\ Waiting = Waiting' + 1 /\ Waiting' \in Nat
         /\ \A k \in 1 .. Waiting : UnitOf'[k] = UnitOf[k + 1]
<1>1. /\ pc = "rxData" /\ pc' = "rxFree" /\ EPKTCNT \in Nat
      /\ UNCHANGED <<rxbuf, ERXWRPT, ERXRDPT, EPKTCNT, NextPacketPtr>>
  BY EncAssumption DEF ReceiveData, Goto, rx, IInv, TypeOK
<1>2. PICK w \in Nat : Waiting' = w /\ Waiting = w + 1
  BY <1>1, WaitingNat DEF Waiting
<1>3. FirstUnit' = rxbuf[FirstUnit].next
  BY <1>1 DEF FirstUnit, RingInv
<1>4. \A k \in Nat \ {0} : UnitOf'[k] = UnitOf[k + 1]
  BY <1>1, <1>3, ChainShift DEF IInv
<1>5. \A k \in 1 .. w + 1 : UnitOf'[k] = UnitOf[k + 1]
  BY <1>4
<1>6. Laid(rxbuf, ERXRDPT, ERXWRPT, UnitOf, w + 1)
  BY <1>2 DEF RingInv
<1>7. Laid(rxbuf, ERXRDPT, ERXWRPT, UnitOf', w)
  BY <1>5, <1>6, LaidTail
<1> QED
  BY <1>1, <1>2, <1>5, <1>7 DEF RingInv

\* Memory is given back up to the first frame that waits.
LEMMA FreeKeepsRing ==
  ASSUME IInv, RingInv, TypeOK', ReceiveFree
  PROVE  RingInv' /\ Waiting' = Waiting /\ \A k \in 1 .. Waiting + 1 : UnitOf'[k] = UnitOf[k]
<1>1. /\ pc = "rxFree" /\ pc' = "rxDec" /\ UNCHANGED <<rxbuf, ERXWRPT, EPKTCNT, NextPacketPtr>>
      /\ ERXRDPT' = NextPacketPtr
  BY DEF ReceiveFree, Goto, FreedTo
<1>2. Waiting' = Waiting /\ FirstUnit' = FirstUnit /\ ERXRDPT' = FirstUnit
  BY <1>1 DEF Waiting, FirstUnit
<1>3. PICK w \in Nat : Waiting = w
  BY WaitingNat
<1>4. \A k \in 1 .. w + 1 : UnitOf'[k] = UnitOf[k]
  BY <1>1, <1>2, ChainKept DEF IInv
<1>5. UnitOf[1] = FirstUnit /\ \A k \in 1 .. w + 1 : UnitOf[k] \in Unit
  BY ChainRight DEF IInv
<1>6. Laid(rxbuf, ERXRDPT, ERXWRPT, UnitOf, w) /\ ERXRDPT \in Unit /\ ERXWRPT \in Unit
  BY <1>3 DEF RingInv, IInv, TypeOK
<1>7. Laid(rxbuf, ERXRDPT', ERXWRPT, UnitOf, w)
  BY <1>2, <1>5, <1>6, LaidFreed
<1>8. Laid(rxbuf, ERXRDPT', ERXWRPT, UnitOf', w)
  BY <1>4, <1>7, LaidSame
<1> QED
  BY <1>1, <1>2, <1>3, <1>4, <1>8 DEF RingInv

\* A frame received goes to the end of the chain.
LEMMA ArriveKeepsRing ==
  ASSUME IInv, RingInv, TypeOK', NEW f \in Frame, Arrive(f)
  PROVE  /\ RingInv' /\ Waiting' = Waiting + 1
         /\ \A k \in 1 .. Waiting + 1 : UnitOf'[k] = UnitOf[k]
         /\ \A k \in 1 .. Waiting : rxbuf'[UnitOf[k]] = rxbuf[UnitOf[k]]
         /\ rxbuf'[UnitOf[Waiting + 1]].frame = f
<1>1. /\ UNCHANGED <<ERXRDPT, NextPacketPtr, pc, ERDPT>> /\ EPKTCNT' = EPKTCNT + 1
      /\ ERXWRPT' = Ahead(ERXWRPT, Size[f]) /\ rxbuf' = Grown(rxbuf, ERXWRPT, f)
      /\ Size[f] <= RxSize - 1 - Dist(ERXRDPT, ERXWRPT)
  BY DEF Arrive, drv, Grown, Room
<1>2. EPKTCNT \in Nat /\ ERXRDPT \in Unit /\ ERXWRPT \in Unit
  BY EncAssumption DEF IInv, TypeOK
<1>3. PICK w \in Nat : Waiting = w
  BY WaitingNat
<1>4. Waiting' = w + 1 /\ FirstUnit' = FirstUnit
  BY <1>1, <1>2, <1>3 DEF Waiting, FirstUnit
<1>5. /\ UnitOf[1] = FirstUnit /\ \A k \in 1 .. w + 1 : UnitOf[k] \in Unit
      /\ Laid(rxbuf, ERXRDPT, ERXWRPT, UnitOf, w)
  BY <1>3, ChainRight DEF IInv, RingInv
<1>6. \A k \in 1 .. w : rxbuf'[UnitOf[k]] = rxbuf[UnitOf[k]]
  <2> TAKE k \in 1 .. w
  <2>1. WholeIn(rxbuf, ERXRDPT, ERXWRPT, UnitOf[k]) /\ UnitOf[k] \in Unit
    BY <1>5 DEF Laid
  <2> QED
    BY <1>1, <1>2, <2>1, WholeKept
<1>7. \A k \in 1 .. w + 1 : UnitOf'[k] = UnitOf[k]
  BY <1>4, <1>6, ChainKept DEF IInv
<1>8. UnitOf'[w + 2] = Ahead(ERXWRPT, Size[f]) /\ rxbuf'[UnitOf[w + 1]].frame = f
  <2>1. UnitOf'[w + 1] = ERXWRPT /\ UnitOf[w + 1] = ERXWRPT
    BY <1>5, <1>7 DEF Laid
  <2>2. rxbuf'[ERXWRPT].next = Ahead(ERXWRPT, Size[f]) /\ rxbuf'[ERXWRPT].frame = f
    <3>1. /\ Grown(rxbuf, ERXWRPT, f)[ERXWRPT].frame = f
          /\ Grown(rxbuf, ERXWRPT, f)[ERXWRPT].next = Ahead(ERXWRPT, Size[f])
      BY <1>1, <1>2, GrownWhole
    <3> QED
      BY <1>1, <3>1
  <2>3. w + 1 \in Nat \ {0} /\ (w + 1) + 1 = w + 2
    OBVIOUS
  <2>4. UnitOf'[(w + 1) + 1] = rxbuf'[UnitOf'[w + 1]].next
    BY <2>3, ChainNext
  <2> QED
    BY <2>1, <2>2, <2>3, <2>4
<1>9. Laid(rxbuf', ERXRDPT', ERXWRPT', UnitOf', w + 1)
  BY <1>1, <1>2, <1>5, <1>7, <1>8, LaidGrown
<1>10. pc = "rxData" => rxbuf'[ERDPT] = rxbuf[ERDPT]
  <2> SUFFICES ASSUME pc = "rxData" PROVE rxbuf'[ERDPT] = rxbuf[ERDPT]
    OBVIOUS
  <2>1. FirstUnit = ERDPT /\ 1 \in 1 .. w
    BY <1>3, WaitingNat DEF FirstUnit
  <2> QED
    BY <1>5, <1>6, <2>1
<1>11. RingInv'
  BY <1>1, <1>4, <1>9, <1>10 DEF RingInv
<1> QED
  BY <1>3, <1>4, <1>6, <1>7, <1>8, <1>11

LEMMA InitRing == Init => RingInv
<1> SUFFICES ASSUME Init PROVE RingInv
  OBVIOUS
<1>1. TypeOK
  BY InitIInv DEF IInv
<1>2. UnitOf[1] = 0 /\ Waiting = 0
  BY <1>1, ChainRight DEF Init, FirstUnit, Waiting
<1>3. Laid(rxbuf, ERXRDPT, ERXWRPT, UnitOf, 0)
  <2>1. 0 + 1 = 1 /\ 1 .. 0 = {} /\ 1 .. 0 + 1 = {1} /\ ERXWRPT = 0
    BY DEF Init
  <2>2. Dist(ERXRDPT, 0) <= Dist(ERXRDPT, 0)
    BY RingArithmetic, <1>1 DEF TypeOK, Unit, Init
  <2> QED
    BY <1>2, <2>1, <2>2 DEF Laid
<1> QED
  BY <1>2, <1>3 DEF RingInv, Init

-----------------------------------------------------------------------------
(* The queue of FramePath.                                                 *)

LEMMA QueueRight ==
  IInv /\ RingInv =>
    /\ RxQueue \in Seq(Frame) /\ Len(RxQueue) = Waiting
    /\ \A k \in 1 .. Waiting : RxQueue[k] = rxbuf[UnitOf[k]].frame
<1> SUFFICES ASSUME IInv, RingInv
             PROVE  /\ RxQueue \in Seq(Frame) /\ Len(RxQueue) = Waiting
                    /\ \A k \in 1 .. Waiting : RxQueue[k] = rxbuf[UnitOf[k]].frame
  OBVIOUS
<1>1. PICK w \in Nat : Waiting = w
  BY WaitingNat
<1>2. \A k \in 1 .. w : /\ FrameAt(UnitOf[k]) = rxbuf[UnitOf[k]].frame
                        /\ FrameAt(UnitOf[k]) \in Frame
  <2> TAKE k \in 1 .. w
  <2>1. UnitOf[k] \in Unit /\ ERXRDPT \in Unit /\ ERXWRPT \in Unit
    BY ChainRight DEF IInv, TypeOK
  <2>2. WholeIn(rxbuf, ERXRDPT, ERXWRPT, UnitOf[k])
    BY <1>1 DEF RingInv, Laid
  <2> QED
    BY <2>1, <2>2, WholeFrame
<1>3. RxQueue = [k \in 1 .. w |-> FrameAt(UnitOf[k])]
  BY <1>1 DEF RxQueue
<1>4. RxQueue \in [1 .. w -> Frame]
  BY <1>2, <1>3
<1>5. RxQueue \in Seq(Frame) /\ Len(RxQueue) = w
  BY <1>4
<1> QED
  BY <1>1, <1>2, <1>3, <1>5

LEMMA QueueNext ==
  IInv' /\ RingInv' =>
    /\ RxQueue' \in Seq(Frame) /\ Len(RxQueue') = Waiting'
    /\ \A k \in 1 .. Waiting' : RxQueue'[k] = rxbuf'[UnitOf'[k]].frame
<1>1. IInv' /\ RingInv' =>
        (/\ RxQueue \in Seq(Frame) /\ Len(RxQueue) = Waiting
         /\ \A k \in 1 .. Waiting : RxQueue[k] = rxbuf[UnitOf[k]].frame)'
  BY QueueRight, PTL
<1> QED
  BY <1>1

\* A step that leaves the chain alone is a step the queue does not see.
LEMMA QueueSame ==
  ASSUME IInv, RingInv, IInv', RingInv', UNCHANGED rxbuf, Waiting' = Waiting,
         \A k \in 1 .. Waiting + 1 : UnitOf'[k] = UnitOf[k]
  PROVE  RxQueue' = RxQueue
<1>1. PICK w \in Nat : Waiting = w
  BY WaitingNat
<1> DEFINE q == RxQueue
           r == RxQueue'
<1>2. \A k \in 1 .. w : q[k] = rxbuf[UnitOf[k]].frame
  BY <1>1, QueueRight
<1>3. \A k \in 1 .. w : r[k] = rxbuf[UnitOf'[k]].frame
  BY <1>1, QueueNext
<1>4. \A k \in 1 .. w : r[k] = q[k]
  BY <1>1, <1>2, <1>3
<1>5. q \in Seq(Frame) /\ r \in Seq(Frame) /\ Len(q) = w /\ Len(r) = w
  BY <1>1, QueueRight, QueueNext
<1> HIDE DEF q, r
<1>6. r = q
  BY <1>4, <1>5
<1> QED
  BY <1>6 DEF q, r

-----------------------------------------------------------------------------
(* Every step keeps the ring and is a step of FramePath.                   *)

Refines == [Path!Next]_<<OnAir, RxQueue, packet>>

\* A frame received is accepted, at the end of the queue.
LEMMA ArriveRefines ==
  ASSUME IInv, RingInv, IInv', NEW f \in Frame, Arrive(f)
  PROVE  RingInv' /\ Path!Accept(f)
<1>1. PICK w \in Nat : Waiting = w
  BY WaitingNat
<1>2. /\ RingInv' /\ Waiting' = w + 1
      /\ \A k \in 1 .. w + 1 : UnitOf'[k] = UnitOf[k]
      /\ \A k \in 1 .. w : rxbuf'[UnitOf[k]] = rxbuf[UnitOf[k]]
      /\ rxbuf'[UnitOf[w + 1]].frame = f
  BY <1>1, ArriveKeepsRing DEF IInv
<1> DEFINE q == RxQueue
           r == RxQueue'
<1>3. q \in Seq(Frame) /\ Len(q) = w /\ \A k \in 1 .. w : q[k] = rxbuf[UnitOf[k]].frame
  BY <1>1, QueueRight
<1>4. r \in Seq(Frame) /\ Len(r) = w + 1 /\ \A k \in 1 .. w + 1 : r[k] = rxbuf'[UnitOf'[k]].frame
  BY <1>2, QueueNext
<1>5. \A k \in 1 .. w : r[k] = q[k]
  <2> TAKE k \in 1 .. w
  <2>1. k \in 1 .. w + 1
    OBVIOUS
  <2>2. q[k] = rxbuf[UnitOf[k]].frame
    BY <1>3
  <2>3. r[k] = rxbuf'[UnitOf'[k]].frame
    BY <1>4, <2>1
  <2> HIDE DEF q, r
  <2> QED
    BY <1>2, <2>1, <2>2, <2>3
<1>6. r[w + 1] = f
  <2>1. w + 1 \in 1 .. w + 1
    OBVIOUS
  <2> HIDE DEF q, r
  <2> QED
    BY <1>2, <1>4, <2>1
<1>7. r = Append(q, f)
  <2> HIDE DEF q, r
  <2> DEFINE a == Append(q, f)
  <2>1. a \in Seq(Frame) /\ Len(a) = w + 1
    BY <1>3
  <2>2. \A k \in 1 .. w : a[k] = q[k]
    BY <1>3
  <2>3. a[w + 1] = f
    BY <1>3
  <2> HIDE DEF a
  <2>4. \A k \in 1 .. w + 1 : k \in 1 .. w \/ k = w + 1
    OBVIOUS
  <2>5. \A k \in 1 .. w + 1 : r[k] = a[k]
    BY <1>5, <1>6, <2>2, <2>3, <2>4
  <2>6. r = a
    BY <1>4, <2>1, <2>5
  <2> QED
    BY <2>6 DEF a
<1>8. UNCHANGED <<OnAir, packet>>
  BY DEF Arrive, OnAir, tx, drv
<1> QED
  BY <1>2, <1>7, <1>8 DEF Path!Accept

\* A receive takes the first frame, and hands it on if it is not damaged.
LEMMA DataRefines ==
  ASSUME IInv, RingInv, IInv', ReceiveData
  PROVE  RingInv' /\ Path!Receive
<1>1. PICK w \in Nat : Waiting' = w /\ Waiting = w + 1
  BY DataKeepsRing DEF IInv
<1>2. RingInv' /\ \A k \in 1 .. w + 1 : UnitOf'[k] = UnitOf[k + 1]
  BY <1>1, DataKeepsRing DEF IInv
<1> DEFINE q == RxQueue
           r == RxQueue'
<1>3. /\ q \in Seq(Frame) /\ Len(q) = w + 1
      /\ \A k \in 1 .. w + 1 : q[k] = rxbuf[UnitOf[k]].frame
  BY <1>1, QueueRight
<1>4. r \in Seq(Frame) /\ Len(r) = w /\ \A k \in 1 .. w : r[k] = rxbuf[UnitOf'[k]].frame
  <2>1. rxbuf' = rxbuf
    BY DEF ReceiveData, rx
  <2> QED
    BY <1>1, <1>2, <2>1, QueueNext
<1>5. \A k \in 1 .. w : r[k] = q[k + 1]
  <2> TAKE k \in 1 .. w
  <2>1. k + 1 \in 1 .. w + 1 /\ k \in 1 .. w + 1
    OBVIOUS
  <2>2. q[k + 1] = rxbuf[UnitOf[k + 1]].frame
    BY <1>3, <2>1
  <2>3. r[k] = rxbuf[UnitOf'[k]].frame
    BY <1>4
  <2> HIDE DEF q, r
  <2> QED
    BY <1>2, <2>1, <2>2, <2>3
<1>6. q # <<>> /\ r = Tail(q) /\ Head(q) = q[1]
  <2> HIDE DEF q, r
  <2>1. q # <<>> /\ Head(q) = q[1]
    BY <1>3
  <2>2. /\ Tail(q) \in Seq(Frame) /\ Len(Tail(q)) = w
        /\ \A k \in 1 .. w : Tail(q)[k] = q[k + 1]
    BY <1>3, <2>1
  <2>3. \A k \in 1 .. w : r[k] = Tail(q)[k]
    BY <1>5, <2>2
  <2> QED
    BY <1>4, <2>1, <2>2, <2>3
<1>7. q[1] = FrameAt(ERDPT)
  <2>1. 1 \in 1 .. w + 1 /\ UnitOf[1] = ERDPT
    BY ChainRight DEF IInv, FirstUnit, ReceiveData
  <2> QED
    BY <1>1, <2>1 DEF RxQueue
<1>8. packet' = IF Head(q) \in Bad THEN NoFrame ELSE Head(q)
  BY <1>6, <1>7 DEF ReceiveData
<1>9. UNCHANGED OnAir
  BY DEF ReceiveData, OnAir, tx
<1> QED
  BY <1>2, <1>6, <1>8, <1>9 DEF Path!Receive

\* The controller's transmissions.
LEMMA TransmitRefines ==
  ASSUME IInv, RingInv, IInv', TxDone \/ TxFail
  PROVE  RingInv' /\ Refines
<1>1. UNCHANGED <<rx, drv, txbuf>> /\ TXRTS /\ TXRTS' \in BOOLEAN
  BY Zenon DEF TxDone, TxFail, IInv, TypeOK
<1>2. FirstUnit' = FirstUnit /\ Waiting' = Waiting /\ UNCHANGED <<rxbuf, ERXWRPT, ERXRDPT>>
  BY <1>1 DEF rx, drv, FirstUnit, Waiting
<1>3. pc' = "rxData" => NextPacketPtr' = rxbuf[ERDPT'].next
  BY <1>1 DEF drv, RingInv
<1>4. RingInv' /\ \A k \in 1 .. Waiting + 1 : UnitOf'[k] = UnitOf[k]
  BY <1>2, <1>3, RingSame DEF IInv
<1>5. UNCHANGED <<RxQueue, packet>>
  BY <1>1, <1>2, <1>4, QueueSame DEF drv
<1>6. OnAir # NoFrame /\ (OnAir' = OnAir \/ OnAir' = NoFrame)
  BY <1>1 DEF OnAir, IInv, DriverInv
<1> QED
  BY <1>4, <1>5, <1>6 DEF Refines, Path!Next, Path!EndSend

\* The calls and the steps that neither receive nor free.
LEMMA OtherKeepsRing ==
  ASSUME IInv, RingInv, IInv',
         \/ SendWait \/ SendLoad \/ SendStart \/ SendCheck \/ CallReceive
         \/ ReceiveCount \/ ReceiveHeader \/ ReceiveDec \/ \E f \in Frame \ Bad : CallSend(f)
  PROVE  RingInv' /\ UNCHANGED RxQueue
<1>1. UNCHANGED <<rxbuf, ERXWRPT, ERXRDPT>>
  BY DEF SendWait, SendLoad, SendStart, SendCheck, CallReceive, ReceiveCount, ReceiveHeader,
     ReceiveDec, CallSend, rx
<1>2. EPKTCNT \in Nat
  BY EncAssumption DEF IInv, TypeOK
<1>3. FirstUnit' = FirstUnit /\ Waiting' = Waiting
      /\ (pc' = "rxData" => NextPacketPtr' = rxbuf[ERDPT'].next)
  BY <1>2 DEF SendWait, SendLoad, SendStart, SendCheck, CallReceive, ReceiveCount, ReceiveHeader,
     ReceiveDec, CountAfterDec, CallSend, Goto, rx, FirstUnit, Waiting
<1>4. RingInv' /\ \A k \in 1 .. Waiting + 1 : UnitOf'[k] = UnitOf[k]
  BY <1>1, <1>3, RingSame DEF IInv
<1> QED
  BY <1>1, <1>3, <1>4, QueueSame

LEMMA SendRefines ==
  ASSUME IInv, RingInv, IInv',
         \/ SendWait \/ SendLoad \/ SendStart \/ SendCheck \/ \E f \in Frame \ Bad : CallSend(f)
  PROVE  RingInv' /\ Refines
<1>1. RingInv' /\ UNCHANGED <<RxQueue, packet>>
  BY OtherKeepsRing DEF SendWait, SendLoad, SendStart, SendCheck, CallSend
<1>2. CASE SendWait \/ \E f \in Frame \ Bad : CallSend(f)
  BY <1>1, <1>2 DEF SendWait, CallSend, OnAir, tx, Refines
<1>3. CASE SendLoad
  <2>1. OnAir = NoFrame /\ OnAir' = NoFrame
    BY <1>3 DEF SendLoad, OnAir, IInv, DriverInv
  <2> QED
    BY <1>1, <2>1 DEF Refines
<1>4. CASE SendStart
  <2>1. OnAir = NoFrame /\ OnAir' = txbuf /\ txbuf \in Frame
    BY <1>4 DEF SendStart, OnAir, IInv, DriverInv
  <2> QED
    BY <1>1, <2>1 DEF Refines, Path!Next, Path!StartSend
<1>5. CASE SendCheck
  <2>1. OnAir' = OnAir \/ (OnAir # NoFrame /\ OnAir' = NoFrame)
    BY <1>5, Zenon DEF SendCheck, OnAir, IInv, DriverInv
  <2> QED
    BY <1>1, <2>1 DEF Refines, Path!Next, Path!EndSend
<1> QED
  BY <1>2, <1>3, <1>4, <1>5

LEMMA ReceiveRefines ==
  ASSUME IInv, RingInv, IInv',
         CallReceive \/ ReceiveCount \/ ReceiveHeader \/ ReceiveFree \/ ReceiveDec
  PROVE  RingInv' /\ Refines
<1>1. UNCHANGED OnAir
  BY DEF CallReceive, ReceiveCount, ReceiveHeader, ReceiveFree, ReceiveDec, OnAir, tx
<1>2. RingInv' /\ UNCHANGED RxQueue
  <2>1. CASE ReceiveFree
    <3>1. UNCHANGED rxbuf
      BY <2>1 DEF ReceiveFree
    <3> QED
      BY <2>1, <3>1, FreeKeepsRing, QueueSame DEF IInv
  <2>2. CASE CallReceive \/ ReceiveCount \/ ReceiveHeader \/ ReceiveDec
    BY <2>2, OtherKeepsRing
  <2> QED
    BY <2>1, <2>2
<1>3. packet' = packet \/ packet' = NoFrame
  BY DEF CallReceive, ReceiveCount, ReceiveHeader, ReceiveFree, ReceiveDec
<1> QED
  BY <1>1, <1>2, <1>3 DEF Refines, Path!Next, Path!Forget

LEMMA NextRing ==
  IInv /\ RingInv /\ IInv' /\ [Next]_vars => RingInv' /\ [Path!Next]_<<OnAir, RxQueue, packet>>
<1> SUFFICES ASSUME IInv, RingInv, IInv', [Next]_vars
             PROVE  RingInv' /\ Refines
  BY DEF Refines
<1>1. ASSUME NEW f \in Frame, Arrive(f) PROVE RingInv' /\ Refines
  <2>1. RingInv' /\ Path!Accept(f)
    BY <1>1, ArriveRefines
  <2> QED
    BY <2>1 DEF Refines, Path!Next
<1>2. CASE ReceiveData
  <2>1. RingInv' /\ Path!Receive
    BY <1>2, DataRefines
  <2> QED
    BY <2>1 DEF Refines, Path!Next
<1>3. CASE UNCHANGED vars
  <2>1. UNCHANGED <<rxbuf, ERXWRPT, ERXRDPT, pc, ERDPT, NextPacketPtr, EPKTCNT, packet, OnAir>>
    BY <1>3 DEF vars, tx, rx, drv, OnAir
  <2>2. UNCHANGED <<FirstUnit, Waiting>>
    BY <2>1 DEF FirstUnit, Waiting
  <2>3. RingInv' /\ \A k \in 1 .. Waiting + 1 : UnitOf'[k] = UnitOf[k]
    BY <2>1, <2>2, RingSame DEF IInv, RingInv
  <2>4. UNCHANGED RxQueue
    BY <2>1, <2>2, <2>3, QueueSame
  <2> QED
    BY <2>1, <2>3, <2>4 DEF Refines
<1> QED
  BY <1>1, <1>2, <1>3, TransmitRefines, SendRefines, ReceiveRefines DEF Next, Controller, Step

-----------------------------------------------------------------------------
\* The frames the controller has written and the driver has not copied form one
\* unbroken chain that nothing can overwrite: for every ring size, every frame
\* size, and whatever arrives between two SPI commands.
THEOREM RingCorrect == Spec => []RingIntact
<1>1. Init => IInv /\ RingInv
  BY InitIInv, InitRing
<1>2. IInv /\ RingInv /\ [Next]_vars => IInv' /\ RingInv'
  BY NextIInv, NextRing
<1>3. IInv /\ RingInv => RingIntact
  BY RingIsIntact
<1> QED
  BY <1>1, <1>2, <1>3, PTL DEF Spec

LEMMA InitRefines == Init => Path!Init
<1> SUFFICES ASSUME Init PROVE Path!Init
  OBVIOUS
<1>1. OnAir = NoFrame /\ packet = NoFrame /\ Waiting = 0
  BY DEF Init, OnAir, Waiting
<1>2. RxQueue = <<>>
  BY <1>1, InitIInv, InitRing, QueueRight
<1> QED
  BY <1>1, <1>2 DEF Path!Init

\* The driver and the controller deliver each accepted frame once, in order and as
\* it came, and put on the wire what the interface gave them or nothing.
THEOREM DriverIsFramePath == Spec => ImplementsFramePath
<1>1. Init => IInv /\ RingInv /\ Path!Init
  BY InitIInv, InitRing, InitRefines
<1>2. IInv /\ RingInv /\ [Next]_vars => IInv' /\ RingInv' /\ [Path!Next]_<<OnAir, RxQueue, packet>>
  BY NextIInv, NextRing
<1> QED
  BY <1>1, <1>2, PTL DEF Spec, ImplementsFramePath, Path!Spec

-----------------------------------------------------------------------------
\* Where LwipInputTask holds a frame it has received.
Holding == {"alloc", "type", "input", "post", "drop"}

InPost == IF ipc = "post" THEN 1 ELSE 0
InTcpip == IF tpc = "fetch" THEN 0 ELSE 1

\* A message is out of the pool exactly between its allocation and the post, in the
\* mailbox, or with tcpip_thread.
MsgInv ==
  /\ rxq \in Seq(Frame) /\ mbox \in Seq(Frame) /\ Len(mbox) <= MboxSize
  /\ MyRecvbuf \in Frame \cup {NoFrame} /\ (ipc \in Holding => MyRecvbuf \in Frame)
  /\ ipc \in Holding \cup {"sleep", "read"} /\ tpc \in {"fetch", "input", "free"}
  /\ (ipc = "post" => inMsg = TRUE) /\ (ipc # "post" => inMsg = FALSE)
  /\ freeMsgs \in Nat /\ MsgSize = freeMsgs + InPost + Len(mbox) + InTcpip

LEMMA MsgInitially == ASSUME IfInit PROVE MsgInv
<1>1. /\ rxq = <<>> /\ mbox = <<>> /\ MyRecvbuf = NoFrame /\ ipc = "sleep" /\ tpc = "fetch"
      /\ inMsg = FALSE /\ freeMsgs = MsgSize
  BY DEF IfInit, Nic!Init
<1>2. MsgSize \in Nat /\ MboxSize \in Nat
  BY IfAssumption
<1>3. rxq \in Seq(Frame) /\ mbox \in Seq(Frame) /\ Len(mbox) = 0
  BY <1>1
<1>4. InPost = 0 /\ InTcpip = 0
  BY <1>1 DEF InPost, InTcpip
<1> QED
  BY <1>1, <1>2, <1>3, <1>4 DEF MsgInv, Holding

\* A received frame leaves the ring of the controller.
LEMMA ReadKeeps == ASSUME MsgInv, Read PROVE MsgInv'
<1>1. /\ inMsg' = inMsg /\ mbox' = mbox /\ tpc' = tpc /\ freeMsgs' = freeMsgs /\ ipc = "read"
      /\ ipc' = IF MyRecvbuf' = NoFrame THEN "sleep" ELSE "alloc"
  BY DEF Read, tcpip, pools
<1>2. rxq' \in Seq(Frame) /\ MyRecvbuf' \in Frame \cup {NoFrame}
  <2>1. CASE rxq = <<>>
    BY <2>1 DEF Read, Nic!Forget, MsgInv
  <2>2. CASE rxq # <<>>
    <3>1. Head(rxq) \in Frame /\ Tail(rxq) \in Seq(Frame)
      BY <2>2 DEF MsgInv
    <3> QED
      BY <2>2, <3>1 DEF Read, Nic!Receive
  <2> QED
    BY <2>1, <2>2
<1> QED
  BY <1>1, <1>2 DEF MsgInv, InPost, InTcpip, Holding

\* A full mailbox gives the message back to its pool, another one takes it.
LEMMA PostKeeps == ASSUME MsgInv, Post PROVE MsgInv'
<1>1. /\ ipc = "post" /\ inMsg' = FALSE /\ rxq' = rxq /\ MyRecvbuf' = MyRecvbuf /\ tpc' = tpc
      /\ MyRecvbuf \in Frame /\ freeMsgs \in Nat /\ mbox \in Seq(Frame) /\ Len(mbox) \in Nat
      /\ MboxSize \in Nat
  <2>1. ipc = "post" /\ inMsg' = FALSE /\ rxq' = rxq /\ MyRecvbuf' = MyRecvbuf /\ tpc' = tpc
    BY DEF Post, nic, tcpip
  <2>2. MyRecvbuf \in Frame /\ freeMsgs \in Nat /\ mbox \in Seq(Frame)
    BY <2>1 DEF MsgInv, Holding
  <2>3. Len(mbox) \in Nat
    BY <2>2
  <2> QED
    BY <2>1, <2>2, <2>3, IfAssumption
<1>2. CASE Len(mbox) < MboxSize
  <2>1. mbox' = Append(mbox, MyRecvbuf) /\ ipc' = "read" /\ freeMsgs' = freeMsgs
    BY <1>1, <1>2 DEF Post
  <2>2. mbox' \in Seq(Frame) /\ Len(mbox') = Len(mbox) + 1
    BY <1>1, <2>1
  <2> QED
    BY <1>1, <1>2, <2>1, <2>2 DEF MsgInv, InPost, InTcpip, Holding
<1>3. CASE Len(mbox) = MboxSize
  BY <1>1, <1>3 DEF Post, MsgsAfterFail, MsgInv, InPost, InTcpip, Holding
<1> QED
  BY <1>2, <1>3 DEF Post

LEMMA FetchKeeps == ASSUME MsgInv, Fetch PROVE MsgInv'
<1>1. /\ tpc = "fetch" /\ tpc' = "input" /\ mbox # <<>> /\ mbox' = Tail(mbox)
      /\ rxq' = rxq /\ MyRecvbuf' = MyRecvbuf /\ ipc' = ipc /\ inMsg' = inMsg /\ freeMsgs' = freeMsgs
  BY DEF Fetch, nic, input, pools
<1>2. mbox' \in Seq(Frame) /\ Len(mbox') = Len(mbox) - 1 /\ Len(mbox) \in Nat
  BY <1>1 DEF MsgInv
<1>3. InPost' = InPost /\ InPost \in Nat /\ InTcpip = 0 /\ InTcpip' = 1 /\ MboxSize \in Nat
  BY <1>1, IfAssumption DEF InPost, InTcpip
<1>4. freeMsgs \in Nat /\ MsgSize = freeMsgs + InPost + Len(mbox) + InTcpip /\ Len(mbox) <= MboxSize
  BY DEF MsgInv
<1>5. MsgSize = freeMsgs' + InPost' + Len(mbox') + InTcpip' /\ Len(mbox') <= MboxSize
  BY <1>1, <1>2, <1>3, <1>4
<1> QED
  BY <1>1, <1>2, <1>5 DEF MsgInv

LEMMA MsgStep == ASSUME MsgInv, [IfNext]_ifVars PROVE MsgInv'
<1> USE DEF MsgInv, InPost, InTcpip, Holding, nic, input, tcpip, pools, send
<1>1. CASE UNCHANGED ifVars
  BY <1>1 DEF ifVars
<1>2. ASSUME NEW f \in Frame, FrameArrives(f) PROVE MsgInv'
  BY <1>2 DEF FrameArrives, Nic!Accept
<1>3. CASE SendEnds
  BY <1>3 DEF SendEnds, Nic!EndSend
<1>4. CASE InputTask
  <2>1. CASE Poll
    BY <2>1 DEF Poll
  <2>2. CASE Alloc
    BY <2>2 DEF Alloc
  <2>3. CASE Type
    BY <2>3 DEF Type
  <2>4. CASE Input
    BY <2>4 DEF Input
  <2>5. CASE Drop
    BY <2>5 DEF Drop
  <2> QED
    BY <1>4, <2>1, <2>2, <2>3, <2>4, <2>5, ReadKeeps, PostKeeps DEF InputTask
<1>5. CASE TcpipThread
  <2>1. CASE EthernetInput
    BY <2>1 DEF EthernetInput
  <2>2. CASE FreeMsg
    BY <2>2 DEF FreeMsg
  <2> QED
    BY <1>5, <2>1, <2>2, FetchKeeps DEF TcpipThread
<1>6. CASE Release
  BY <1>6 DEF Release
<1>7. ASSUME NEW s \in Sender, Output(s) \/ SendStep(s) PROVE MsgInv'
  BY <1>7 DEF Output, SendStep, Copy, Copied, Transmit, Nic!StartSend
<1> QED
  BY <1>1, <1>2, <1>3, <1>4, <1>5, <1>6, <1>7 DEF IfNext

\* No message for tcpip_thread is lost or freed twice, whether the mailbox takes it or is
\* full (tcpip_input, sys_mbox_trypost, memp_free).
THEOREM MessagesKept == IfSpec => []MsgsConserved
<1>1. MsgInv /\ [IfNext]_ifVars => MsgInv'
  BY MsgStep
<1>2. MsgInv => MsgsConserved
  <2> SUFFICES ASSUME MsgInv PROVE MsgsConserved
    OBVIOUS
  <2>1. (IF inMsg THEN 1 ELSE 0) = InPost
    BY DEF MsgInv, InPost
  <2> QED
    BY <2>1 DEF MsgInv, MsgsConserved, InTcpip
<1> QED
  BY <1>1, <1>2, MsgInitially, PTL DEF IfSpec

-----------------------------------------------------------------------------
(* The pbufs.                                                              *)

InTcpipPbufs == IF tpc = "input" THEN Pbufs[tframe] ELSE 0

\* The chain LwipInputTask holds is as long as its frame needs once it is allocated, so
\* that what it posts is what tcpip_thread will free.
PbufInv ==
  /\ chain \in Nat /\ freePbufs \in Nat
  /\ tframe \in Frame \cup {NoFrame} /\ (tpc = "input" => tframe \in Frame)
  /\ kept \in [Frame -> Nat]
  /\ ipc \in {"sleep", "read"} => chain = 0
  /\ ipc = "alloc" => chain < Pbufs[MyRecvbuf]
  /\ ipc \in {"type", "input", "post"} => chain = Pbufs[MyRecvbuf]
  /\ PbufsConserved

SendTyped ==
  /\ MySendbuf \in [1 .. 2 -> Frame \cup {NoFrame}]
  /\ spc \in [Sender -> {"idle", "copy", "driver"}]
  /\ want \in [Sender -> Frame \cup {NoFrame}] /\ copied \in [Sender -> 0 .. 2]

LEMMA PbufsInIsSum == \A q \in Seq(Frame) : PbufsIn(q) = SumOver(Pbufs, q)
  BY DEF PbufsIn, SumOver, SumFunction

LEMMA PbufsInNat == \A q \in Seq(Frame) : PbufsIn(q) \in Nat
<1>1. Pbufs \in [Frame -> Nat]
  BY IfAssumption
<1> QED
  BY <1>1, PbufsInIsSum, SumOverNat

LEMMA PbufsInAppend ==
  \A q \in Seq(Frame), f \in Frame : PbufsIn(Append(q, f)) = PbufsIn(q) + Pbufs[f]
<1>1. Pbufs \in [Frame -> Nat] /\ \A q \in Seq(Frame), f \in Frame : Append(q, f) \in Seq(Frame)
  BY IfAssumption
<1> QED
  BY <1>1, PbufsInIsSum, SumOverAppend, ZenonT(60)

LEMMA PbufsInTail ==
  \A q \in Seq(Frame) : q # <<>> => PbufsIn(q) = Pbufs[Head(q)] + PbufsIn(Tail(q))
<1>1. Pbufs \in [Frame -> Nat] /\ \A q \in Seq(Frame) : q # <<>> => Tail(q) \in Seq(Frame)
  BY IfAssumption
<1> QED
  BY <1>1, PbufsInIsSum, SumOverTail

\* What the stack keeps.
Worth(k) == [f \in Frame |-> k[f] * Pbufs[f]]

LEMMA WorthNat == ASSUME NEW k \in [Frame -> Nat] PROVE \A f \in Frame : Worth(k)[f] \in Nat
  BY IfAssumption DEF Worth

LEMMA KeptIsSum == PbufsKept = SumFunctionOnSet(Worth(kept), Frame)
  BY DEF PbufsKept, Worth, SumFunction

LEMMA KeptNat == ASSUME kept \in [Frame -> Nat] PROVE PbufsKept \in Nat
  BY WorthNat, KeptIsSum, SumNat, IfAssumption

\* The sum over the kept frames, from the number of one of them.
LEMMA KeptChanges ==
  ASSUME NEW k \in [Frame -> Nat], NEW l \in [Frame -> Nat], NEW f \in Frame, NEW n \in Nat,
         k[f] = n, l = [k EXCEPT ![f] = n + 1]
  PROVE  SumFunctionOnSet(Worth(l), Frame) = SumFunctionOnSet(Worth(k), Frame) + Pbufs[f]
<1> DEFINE a == Worth(k)
           b == Worth(l)
<1>1. /\ b[f] = (n + 1) * Pbufs[f] /\ a[f] = n * Pbufs[f]
      /\ \A g \in Frame \ {f} : b[g] = a[g]
  BY DEF Worth
<1>2. \A x \in Frame : a[x] \in Nat /\ b[x] \in Nat
  BY WorthNat
<1>3. (n + 1) * Pbufs[f] = n * Pbufs[f] + Pbufs[f] /\ Pbufs[f] \in Nat
  <2>1. \A m \in Nat : (n + 1) * m = n * m + m
    OBVIOUS
  <2>2. Pbufs[f] \in Nat
    BY IfAssumption
  <2> QED
    BY <2>1, <2>2
<1> HIDE DEF a, b
<1>4. SumFunctionOnSet(b, Frame) + a[f] = SumFunctionOnSet(a, Frame) + b[f]
  BY <1>1, <1>2, SumExcept, IfAssumption
<1>5. SumFunctionOnSet(a, Frame) \in Nat /\ SumFunctionOnSet(b, Frame) \in Nat /\ a[f] \in Nat
  BY <1>2, SumNat, IfAssumption
<1>6. b[f] = a[f] + Pbufs[f]
  BY <1>1, <1>3
<1> QED
  BY <1>3, <1>4, <1>5, <1>6 DEF a, b

LEMMA KeptNext == PbufsKept' = SumFunctionOnSet(Worth(kept'), Frame)
  BY DEF PbufsKept, Worth, SumFunction

LEMMA KeptGrows ==
  ASSUME kept \in [Frame -> Nat], NEW f \in Frame, kept' = [kept EXCEPT ![f] = @ + 1]
  PROVE  kept' \in [Frame -> Nat] /\ PbufsKept' = PbufsKept + Pbufs[f] /\ PbufsKept' \in Nat
<1>1. kept' \in [Frame -> Nat] /\ kept[f] \in Nat /\ kept' = [kept EXCEPT ![f] = kept[f] + 1]
  OBVIOUS
<1>2. SumFunctionOnSet(Worth(kept'), Frame) = SumFunctionOnSet(Worth(kept), Frame) + Pbufs[f]
  BY <1>1, KeptChanges, ZenonT(60)
<1>3. SumFunctionOnSet(Worth(kept'), Frame) \in Nat
  BY <1>1, WorthNat, SumNat, IfAssumption
<1> QED
  BY <1>1, <1>2, <1>3, KeptIsSum, KeptNext

LEMMA KeptShrinks ==
  ASSUME kept \in [Frame -> Nat], NEW f \in Frame, kept[f] > 0, kept' = [kept EXCEPT ![f] = @ - 1]
  PROVE  kept' \in [Frame -> Nat] /\ PbufsKept = PbufsKept' + Pbufs[f] /\ PbufsKept' \in Nat
<1>1. kept' \in [Frame -> Nat] /\ kept'[f] \in Nat /\ kept = [kept' EXCEPT ![f] = kept'[f] + 1]
  <2>1. kept[f] \in Nat /\ kept' \in [Frame -> Nat] /\ kept'[f] = kept[f] - 1
    OBVIOUS
  <2>2. \A g \in Frame : kept[g] = [kept' EXCEPT ![f] = kept'[f] + 1][g]
    BY <2>1
  <2> QED
    BY <2>1, <2>2
<1>2. SumFunctionOnSet(Worth(kept), Frame) = SumFunctionOnSet(Worth(kept'), Frame) + Pbufs[f]
  BY <1>1, KeptChanges
<1>3. SumFunctionOnSet(Worth(kept'), Frame) \in Nat
  BY <1>1, WorthNat, SumNat, IfAssumption
<1> QED
  BY <1>1, <1>2, <1>3, KeptIsSum, KeptNext

\* No frame is kept more often than there are pbufs.
LEMMA KeptBelow ==
  ASSUME kept \in [Frame -> Nat], NEW f \in Frame PROVE kept[f] <= PbufsKept
<1>1. PbufsKept = Worth(kept)[f] + SumFunctionOnSet(Worth(kept), Frame \ {f})
  BY WorthNat, KeptIsSum, SumTake, IfAssumption
<1>2. SumFunctionOnSet(Worth(kept), Frame \ {f}) \in Nat
  <2>1. IsFiniteSet(Frame \ {f})
    BY FS_Subset, IfAssumption
  <2> QED
    BY <2>1, WorthNat, SumNat
<1>3. \A n, m \in Nat : m # 0 => n <= n * m
  OBVIOUS
<1>4. kept[f] <= Worth(kept)[f] /\ Worth(kept)[f] \in Nat /\ kept[f] \in Nat
  BY <1>3, WorthNat, IfAssumption DEF Worth
<1> QED
  BY <1>1, <1>2, <1>4

LEMMA PbufInitially == ASSUME IfInit PROVE PbufInv /\ SendTyped
<1>1. PbufsKept = 0
  <2> DEFINE Z == {s \in SUBSET Frame : SumFunctionOnSet(Worth(kept), s) = 0}
  <2>1. \A f \in Frame : Worth(kept)[f] = 0
    <3>1. \A n \in Nat : 0 * n = 0
      OBVIOUS
    <3> QED
      BY <3>1, IfAssumption DEF IfInit, Worth
  <2>2. {} \in Z
    BY SumEmpty
  <2>3. \A s \in SUBSET Frame : s # {} /\ s \ {Pick(s)} \in Z => s \in Z
    <3> TAKE s \in SUBSET Frame
    <3> HAVE s # {} /\ s \ {Pick(s)} \in Z
    <3>1. IsFiniteSet(s) /\ Pick(s) \in s
      BY FS_Subset, PickIn, IfAssumption
    <3> QED
      BY <2>1, <3>1, SumStep
  <2>4. SUBSET Frame \subseteq Z
    <3>1. Z \in SUBSET SUBSET Frame
      OBVIOUS
    <3> HIDE DEF Z
    <3> QED
      BY <2>2, <2>3, <3>1, ByPick, IfAssumption
  <2> QED
    BY <2>4, KeptIsSum
<1>2. PbufsIn(<<>>) = 0
  <2>1. DOMAIN <<>> = {} /\ <<>> \in Seq(Frame)
    OBVIOUS
  <2>2. SumOver(Pbufs, <<>>) = 0
    BY <2>1, SumEmpty DEF SumOver
  <2> QED
    BY <2>1, <2>2, PbufsInIsSum
<1>3. /\ chain = 0 /\ ipc = "sleep" /\ mbox = <<>> /\ tpc = "fetch" /\ tframe = NoFrame
      /\ kept = [f \in Frame |-> 0] /\ freePbufs = PoolSize /\ PoolSize \in Nat
  BY IfAssumption DEF IfInit
<1>4. PbufsConserved
  BY <1>1, <1>2, <1>3 DEF PbufsConserved
<1>5. PbufInv
  BY <1>3, <1>4 DEF PbufInv
<1>6. SendTyped
  BY DEF IfInit, SendTyped
<1> QED
  BY <1>5, <1>6

\* Actions that touch no pbuf.
LEMMA PbufQuiet ==
  ASSUME PbufInv, UNCHANGED <<chain, freePbufs, tframe, kept, mbox, tpc>>,
         \/ UNCHANGED <<ipc, MyRecvbuf>>
         \/ ipc' \in {"sleep", "read"} /\ chain = 0
         \/ ipc' = "drop"
         \/ ipc' \in {"type", "input", "post"} /\ chain = Pbufs[MyRecvbuf] /\ MyRecvbuf' = MyRecvbuf
         \/ ipc' = "alloc" /\ chain < Pbufs[MyRecvbuf']
  PROVE  PbufInv'
<1>1. PbufsIn(mbox)' = PbufsIn(mbox) /\ PbufsKept' = PbufsKept
  BY DEF PbufsIn, PbufsKept
<1>2. PbufsConserved'
  BY <1>1 DEF PbufInv, PbufsConserved
<1> QED
  BY <1>2 DEF PbufInv

\* The parts of the sum are numbers.
Parts == /\ PbufsIn(mbox) \in Nat /\ PbufsKept \in Nat /\ InTcpipPbufs \in Nat
         /\ PoolSize = freePbufs + chain + PbufsIn(mbox) + InTcpipPbufs + PbufsKept
LEMMA PartsNat == ASSUME MsgInv, PbufInv PROVE Parts
<1>1. mbox \in Seq(Frame) /\ kept \in [Frame -> Nat]
  BY DEF MsgInv, PbufInv
<1>2. InTcpipPbufs \in Nat
  BY IfAssumption DEF PbufInv, InTcpipPbufs
<1> QED
  BY <1>1, <1>2, PbufsInNat, KeptNat DEF PbufInv, PbufsConserved, InTcpipPbufs, Parts

LEMMA InputKeepsPbufs == ASSUME MsgInv, PbufInv, InputTask PROVE PbufInv'
<1> USE DEF nic, input, tcpip, pools, send
<1>0. Parts
  BY PartsNat
<1>1. CASE Poll
  BY <1>1, PbufQuiet DEF Poll, PbufInv
<1>2. CASE Read
  <2>1. /\ ipc = "read" /\ chain = 0 /\ UNCHANGED <<chain, freePbufs, tframe, kept, mbox, tpc>>
        /\ ipc' = IF MyRecvbuf' = NoFrame THEN "sleep" ELSE "alloc"
    BY <1>2 DEF Read, PbufInv
  <2>2. MyRecvbuf' # NoFrame => MyRecvbuf' \in Frame
    BY <1>2, ReadKeeps DEF MsgInv
  <2>3. MyRecvbuf' # NoFrame => 0 < Pbufs[MyRecvbuf']
    BY <2>2, IfAssumption
  <2> QED
    BY <2>1, <2>3, PbufQuiet
<1>3. CASE Alloc
  <2>1. /\ ipc = "alloc" /\ MyRecvbuf' = MyRecvbuf /\ chain < Pbufs[MyRecvbuf]
        /\ UNCHANGED <<tframe, kept, mbox, tpc>> /\ MyRecvbuf \in Frame
    BY <1>3 DEF Alloc, PbufInv, MsgInv, Holding
  <2>2. PbufsIn(mbox)' = PbufsIn(mbox) /\ PbufsKept' = PbufsKept /\ InTcpipPbufs' = InTcpipPbufs
    BY <2>1 DEF PbufsIn, PbufsKept, InTcpipPbufs
  <2>3. chain \in Nat /\ freePbufs \in Nat /\ Pbufs[MyRecvbuf] \in Nat
    BY <2>1, IfAssumption DEF PbufInv
  <2>4. freePbufs' + chain' = freePbufs + chain /\ freePbufs' \in Nat /\ chain' \in Nat
    BY <1>3, <2>3 DEF Alloc, PbufsAfterFail
  <2>5. PbufsConserved'
    BY <1>0, <2>2, <2>3, <2>4 DEF Parts, PbufsConserved, InTcpipPbufs
  <2>6. \/ chain' = chain + 1 /\ ipc' = IF chain + 1 = Pbufs[MyRecvbuf] THEN "type" ELSE "alloc"
        \/ chain' = 0 /\ ipc' = "sleep"
    BY <1>3 DEF Alloc
  <2>7. (ipc' = "alloc" => chain' < Pbufs[MyRecvbuf']) /\ (ipc' = "type" => chain' = Pbufs[MyRecvbuf'])
    BY <2>1, <2>3, <2>6
  <2> QED
    BY <2>1, <2>4, <2>5, <2>6, <2>7 DEF PbufInv
<1>4. CASE Type
  BY <1>4, PbufQuiet DEF Type, PbufInv
<1>5. CASE Input
  BY <1>5, PbufQuiet DEF Input, PbufInv
<1>6. CASE Post
  <2>1. CASE Len(mbox) < MboxSize
    <3>1. /\ ipc = "post" /\ mbox' = Append(mbox, MyRecvbuf) /\ chain' = 0 /\ ipc' = "read"
          /\ UNCHANGED <<freePbufs, tframe, kept, tpc, MyRecvbuf>>
          /\ MyRecvbuf \in Frame /\ mbox \in Seq(Frame) /\ chain = Pbufs[MyRecvbuf]
      <4>1. Len(mbox) # MboxSize
        BY <2>1, IfAssumption DEF MsgInv
      <4> QED
        BY <1>6, <2>1, <4>1 DEF Post, PbufInv, MsgInv, Holding
    <3>2. PbufsIn(mbox)' = PbufsIn(mbox) + chain
      BY <3>1, PbufsInAppend DEF PbufsIn
    <3>3. PbufsKept' = PbufsKept /\ InTcpipPbufs' = InTcpipPbufs /\ chain \in Nat /\ freePbufs \in Nat
      BY <3>1 DEF PbufsKept, InTcpipPbufs, PbufInv
    <3>4. PbufsConserved'
      BY <1>0, <3>1, <3>2, <3>3 DEF Parts, PbufsConserved, InTcpipPbufs
    <3> QED
      BY <3>1, <3>4 DEF PbufInv
  <2>2. CASE Len(mbox) = MboxSize
    <3>1. UNCHANGED <<chain, freePbufs, tframe, kept, mbox, tpc>> /\ ipc' = "drop"
      BY <1>6, <2>2, IfAssumption DEF Post
    <3> QED
      BY <3>1, PbufQuiet
  <2> QED
    BY <1>6, <2>1, <2>2 DEF Post
<1>7. CASE Drop
  <2>1. /\ ipc' = "read" /\ chain' = 0 /\ freePbufs' = freePbufs + chain
        /\ UNCHANGED <<tframe, kept, mbox, tpc>>
    BY <1>7 DEF Drop
  <2>2. PbufsIn(mbox)' = PbufsIn(mbox) /\ PbufsKept' = PbufsKept /\ InTcpipPbufs' = InTcpipPbufs
    BY <2>1 DEF PbufsIn, PbufsKept, InTcpipPbufs
  <2>3. chain \in Nat /\ freePbufs \in Nat
    BY DEF PbufInv
  <2>4. PbufsConserved'
    BY <1>0, <2>1, <2>2, <2>3 DEF Parts, PbufsConserved, InTcpipPbufs
  <2> QED
    BY <2>1, <2>3, <2>4 DEF PbufInv
<1> QED
  BY <1>1, <1>2, <1>3, <1>4, <1>5, <1>6, <1>7 DEF InputTask

LEMMA StackKeepsPbufs == ASSUME MsgInv, PbufInv, TcpipThread \/ Release PROVE PbufInv'
<1> USE DEF nic, input, tcpip, pools, send
<1>0. Parts /\ chain \in Nat /\ freePbufs \in Nat
  BY PartsNat DEF PbufInv
<1>1. CASE Fetch
  <2>1. /\ tpc = "fetch" /\ tpc' = "input" /\ mbox # <<>> /\ mbox' = Tail(mbox) /\ tframe' = Head(mbox)
        /\ UNCHANGED <<ipc, MyRecvbuf, chain, freePbufs, kept>> /\ mbox \in Seq(Frame)
    BY <1>1 DEF Fetch, MsgInv
  <2>2. PbufsIn(mbox) = Pbufs[tframe'] + PbufsIn(mbox)'
    BY <2>1, PbufsInTail DEF PbufsIn
  <2>3. tframe' \in Frame /\ mbox' \in Seq(Frame)
    BY <2>1
  <2>4. Pbufs[tframe'] \in Nat /\ PbufsIn(mbox') \in Nat /\ PbufsIn(mbox') = PbufsIn(mbox)'
    BY <2>3, PbufsInNat, IfAssumption DEF PbufsIn
  <2>5. PbufsKept' = PbufsKept /\ InTcpipPbufs = 0
    BY <2>1 DEF PbufsKept, InTcpipPbufs
  <2>6. PbufsConserved'
    BY <1>0, <2>1, <2>2, <2>4, <2>5 DEF Parts, PbufsConserved
  <2> QED
    BY <2>1, <2>3, <2>6 DEF PbufInv
<1>2. CASE EthernetInput
  <2>1. /\ tpc = "input" /\ tpc' = "free" /\ UNCHANGED <<ipc, MyRecvbuf, chain, mbox, tframe>>
        /\ tframe \in Frame /\ kept \in [Frame -> Nat]
        /\ \/ freePbufs' = freePbufs + Pbufs[tframe] /\ UNCHANGED kept
           \/ kept' = [kept EXCEPT ![tframe] = @ + 1] /\ UNCHANGED freePbufs
    BY <1>2 DEF EthernetInput, PbufInv
  <2>2. InTcpipPbufs = Pbufs[tframe] /\ Pbufs[tframe] \in Nat /\ PbufsIn(mbox)' = PbufsIn(mbox)
    BY <2>1, IfAssumption DEF InTcpipPbufs, PbufsIn
  <2>3. freePbufs' + PbufsKept' = freePbufs + Pbufs[tframe] + PbufsKept /\ freePbufs' \in Nat
        /\ PbufsKept' \in Nat /\ kept' \in [Frame -> Nat]
    <3>1. CASE freePbufs' = freePbufs + Pbufs[tframe] /\ UNCHANGED kept
      BY <1>0, <2>1, <2>2, <3>1 DEF PbufsKept, Parts
    <3>2. CASE kept' = [kept EXCEPT ![tframe] = @ + 1] /\ UNCHANGED freePbufs
      <4>1. kept' \in [Frame -> Nat] /\ PbufsKept' = PbufsKept + Pbufs[tframe] /\ PbufsKept' \in Nat
        BY <2>1, <3>2, KeptGrows
      <4> QED
        BY <1>0, <2>2, <3>2, <4>1 DEF Parts
    <3> QED
      BY <2>1, <3>1, <3>2
  <2>4. PbufsConserved'
    BY <1>0, <2>1, <2>2, <2>3 DEF Parts, PbufsConserved
  <2> QED
    BY <2>1, <2>3, <2>4 DEF PbufInv
<1>3. CASE FreeMsg
  <2>1. /\ tpc = "free" /\ tpc' = "fetch" /\ tframe' = NoFrame
        /\ UNCHANGED <<ipc, MyRecvbuf, chain, freePbufs, kept, mbox>>
    BY <1>3 DEF FreeMsg
  <2>2. PbufsConserved'
    BY <1>0, <2>1 DEF Parts, PbufsConserved, InTcpipPbufs, PbufsIn, PbufsKept
  <2> QED
    BY <2>1, <2>2 DEF PbufInv
<1>4. CASE Release
  <2>1. PICK f \in Frame : /\ kept[f] > 0 /\ kept' = [kept EXCEPT ![f] = @ - 1]
                           /\ freePbufs' = freePbufs + Pbufs[f]
    BY <1>4 DEF Release
  <2>2. UNCHANGED <<ipc, MyRecvbuf, chain, mbox, tframe, tpc>> /\ kept \in [Frame -> Nat]
    BY <1>4 DEF Release, PbufInv
  <2>3. Pbufs[f] \in Nat
    BY <2>1, IfAssumption
  <2>6. kept' \in [Frame -> Nat] /\ PbufsKept = PbufsKept' + Pbufs[f] /\ PbufsKept' \in Nat
    BY <2>1, <2>2, KeptShrinks
  <2>8. freePbufs' + PbufsKept' = freePbufs + PbufsKept /\ freePbufs' \in Nat
    BY <1>0, <2>1, <2>3, <2>6
  <2>9. PbufsIn(mbox)' = PbufsIn(mbox) /\ InTcpipPbufs' = InTcpipPbufs
    BY <2>2 DEF PbufsIn, InTcpipPbufs
  <2>10. PbufsConserved'
    BY <1>0, <2>2, <2>6, <2>8, <2>9 DEF Parts, PbufsConserved, InTcpipPbufs
  <2> QED
    BY <2>2, <2>6, <2>8, <2>10 DEF PbufInv
<1> QED
  BY <1>1, <1>2, <1>3, <1>4 DEF TcpipThread

LEMMA PbufStep == ASSUME MsgInv, PbufInv, [IfNext]_ifVars PROVE PbufInv'
<1> USE DEF nic, input, tcpip, pools, send
<1>1. ASSUME UNCHANGED <<chain, freePbufs, tframe, kept, mbox, tpc, ipc, MyRecvbuf>> PROVE PbufInv'
  BY <1>1, PbufQuiet
<1>2. CASE UNCHANGED ifVars
  BY <1>1, <1>2 DEF ifVars
<1>3. ASSUME NEW f \in Frame, FrameArrives(f) PROVE PbufInv'
  BY <1>1, <1>3 DEF FrameArrives, Nic!Accept
<1>4. CASE SendEnds
  BY <1>1, <1>4 DEF SendEnds, Nic!EndSend
<1>5. ASSUME NEW s \in Sender, Output(s) \/ SendStep(s) PROVE PbufInv'
  BY <1>1, <1>5 DEF Output, SendStep, Copy, Copied, Transmit, Nic!StartSend
<1> QED
  BY <1>2, <1>3, <1>4, <1>5, InputKeepsPbufs, StackKeepsPbufs DEF IfNext

LEMMA SendTypedStep == ASSUME SendTyped, [IfNext]_ifVars PROVE SendTyped'
<1> USE DEF nic, input, tcpip, pools, send
<1>1. ASSUME UNCHANGED send PROVE SendTyped'
  BY <1>1 DEF SendTyped
<1>2. ASSUME NEW s \in Sender, Output(s) \/ SendStep(s) PROVE SendTyped'
  <2>1. CASE Output(s)
    BY <2>1 DEF Output, SendTyped
  <2>2. CASE Copy(s)
    <3>1. copied[s] \in 0 .. 1
      BY <2>2 DEF Copy, SendTyped
    <3> QED
      BY <2>2, <3>1 DEF Copy, EndOfCopied, SendTyped
  <2>3. CASE Copied(s)
    BY <2>3 DEF Copied, SendTyped
  <2>4. CASE Transmit(s)
    BY <2>4 DEF Transmit, AfterDriver, SendTyped
  <2> QED
    BY <1>2, <2>1, <2>2, <2>3, <2>4 DEF SendStep
<1> QED
  BY <1>1, <1>2 DEF ifVars, IfNext, FrameArrives, SendEnds, InputTask, TcpipThread, Release,
     Poll, Read, Alloc, Type, Input, Post, Drop, Fetch, EthernetInput, FreeMsg

\* Every pbuf and every message of the pools is in one place, whatever runs out
\* (pbuf_alloc, process_mac, tcpip_input, tcpip_thread).
THEOREM NothingLeaks == IfSpec => []PoolsConserved
<1>1. MsgInv /\ PbufInv /\ SendTyped /\ [IfNext]_ifVars => (MsgInv /\ PbufInv /\ SendTyped)'
  BY MsgStep, PbufStep, SendTypedStep
<1>2. MsgInv /\ PbufInv /\ SendTyped => PoolsConserved
  <2> SUFFICES ASSUME MsgInv, PbufInv, SendTyped PROVE PoolsConserved
    OBVIOUS
  <2>1. Parts /\ chain \in Nat /\ freePbufs \in Nat /\ kept \in [Frame -> Nat]
    BY PartsNat DEF PbufInv
  <2>2. chain \in 0 .. PoolSize /\ freePbufs \in 0 .. PoolSize /\ PbufsKept \in 0 .. PoolSize
    BY <2>1, IfAssumption DEF Parts
  <2>3. kept \in [Frame -> 0 .. PoolSize]
    <3>1. \A f \in Frame : kept[f] \in Nat /\ kept[f] <= PbufsKept
      BY <2>1, KeptBelow
    <3>2. \A n \in Nat, m \in 0 .. PoolSize : n <= m => n \in 0 .. PoolSize
      BY IfAssumption
    <3>3. \A f \in Frame : kept[f] \in 0 .. PoolSize
      BY <2>2, <3>1, <3>2
    <3> QED
      BY <2>1, <3>3
  <2>4. MsgsConserved /\ freeMsgs \in 0 .. MsgSize
    <3>1. (IF inMsg THEN 1 ELSE 0) = InPost /\ InPost \in Nat /\ InTcpip \in Nat
      BY DEF MsgInv, InPost, InTcpip
    <3>2. Len(mbox) \in Nat /\ freeMsgs \in Nat /\ MsgSize = freeMsgs + InPost + Len(mbox) + InTcpip
      BY DEF MsgInv
    <3>3. MsgSize \in Nat
      BY IfAssumption
    <3>4. freeMsgs \in 0 .. MsgSize
      BY <3>1, <3>2, <3>3
    <3> QED
      BY <3>1, <3>2, <3>4 DEF MsgsConserved, InTcpip
  <2>5. inMsg \in BOOLEAN /\ ipc \in {"sleep", "read", "alloc", "type", "input", "post", "drop"}
    BY DEF MsgInv, Holding
  <2>6. MySendbuf \in Seq(Frame \cup {NoFrame})
    <3>1. \A S : [1 .. 2 -> S] \subseteq Seq(S)
      BY SeqDef, 2 \in Nat
    <3> QED
      BY <3>1 DEF SendTyped
  <2>7. IfTypeOK
    BY <2>2, <2>3, <2>4, <2>5, <2>6 DEF IfTypeOK, MsgInv, PbufInv, SendTyped
  <2> QED
    BY <2>4, <2>7 DEF PoolsConserved, PbufInv
<1> QED
  BY <1>1, <1>2, MsgInitially, PbufInitially, PTL DEF IfSpec

-----------------------------------------------------------------------------
(* Sending, when one thread sends: the configuration of the repository.    *)

OneSender == \A s, u \in Sender : s = u

\* What is copied of the frame is in the send buffer, all of it when the driver is called.
SendInv ==
  /\ MySendbuf \in [1 .. 2 -> Frame \cup {NoFrame}]
  /\ spc \in [Sender -> {"idle", "copy", "driver"}]
  /\ want \in [Sender -> Frame \cup {NoFrame}] /\ copied \in [Sender -> 0 .. 2]
  /\ \A s \in Sender :
       /\ spc[s] # "copy" => copied[s] = 0
       /\ spc[s] # "idle" => want[s] \in Frame
       /\ spc[s] = "copy" => \A i \in 1 .. copied[s] : MySendbuf[i] = want[s]
       /\ spc[s] = "driver" => MySendbuf = <<want[s], want[s]>>
  /\ SentWhole

LEMMA SendInitially == IfInit => SendInv
  BY DEF IfInit, Nic!Init, SendInv, SentWhole

LEMMA SenderKeeps ==
  ASSUME OneSender, SendInv, NEW s \in Sender, Output(s) \/ SendStep(s) PROVE SendInv'
<1>0. \A u \in Sender : u = s
  BY DEF OneSender
<1>1. CASE Output(s)
  <2>1. PICK f \in Frame \ Bad : want' = [want EXCEPT ![s] = f]
    BY <1>1 DEF Output
  <2>2. /\ spc[s] = "idle" /\ spc' = [spc EXCEPT ![s] = "copy"] /\ air' = air
        /\ MySendbuf' = MySendbuf /\ copied' = copied
    BY <1>1 DEF Output, nic
  <2> QED
    BY <1>0, <2>1, <2>2 DEF SendInv, SentWhole
<1>2. CASE Copy(s)
  <2>1. /\ spc[s] = "copy" /\ copied[s] \in 0 .. 1 /\ want[s] \in Frame
        /\ MySendbuf' = [MySendbuf EXCEPT ![copied[s] + 1] = want[s]]
        /\ copied' = [copied EXCEPT ![s] = @ + 1]
        /\ spc' = spc /\ want' = want /\ air' = air
    BY <1>2 DEF Copy, EndOfCopied, nic, SendInv
  <2>2. copied'[s] = copied[s] + 1 /\ copied' \in [Sender -> 0 .. 2]
    BY <2>1 DEF SendInv
  <2>3. MySendbuf' \in [1 .. 2 -> Frame \cup {NoFrame}]
    BY <2>1 DEF SendInv
  <2>4. \A i \in 1 .. copied'[s] : MySendbuf'[i] = want[s]
    BY <2>1, <2>2 DEF SendInv
  <2> QED
    BY <1>0, <2>1, <2>2, <2>3, <2>4 DEF SendInv, SentWhole
<1>3. CASE Copied(s)
  <2>1. /\ spc[s] = "copy" /\ copied[s] = 2 /\ copied' = [copied EXCEPT ![s] = 0]
        /\ MySendbuf' = MySendbuf /\ air' = air
    BY <1>3 DEF Copied, nic
  <2>2. MySendbuf = <<want[s], want[s]>>
    BY <2>1 DEF SendInv
  <2>3. copied' \in [Sender -> 0 .. 2] /\ copied'[s] = 0
    BY <2>1 DEF SendInv
  <2>4. CASE want[s] \in Long
    <3>1. spc' = [spc EXCEPT ![s] = "idle"] /\ want' = [want EXCEPT ![s] = NoFrame]
      BY <1>3, <2>4 DEF Copied
    <3> QED
      BY <1>0, <2>1, <2>3, <3>1 DEF SendInv, SentWhole
  <2>5. CASE want[s] \notin Long
    <3>1. spc' = [spc EXCEPT ![s] = "driver"] /\ want' = want
      BY <1>3, <2>5 DEF Copied
    <3> QED
      BY <1>0, <2>1, <2>2, <2>3, <3>1 DEF SendInv, SentWhole
  <2> QED
    BY <2>4, <2>5
<1>4. CASE Transmit(s)
  <2>1. /\ spc[s] = "driver" /\ air' = MySendbuf /\ spc' = [spc EXCEPT ![s] = "idle"]
        /\ want' = [want EXCEPT ![s] = NoFrame] /\ MySendbuf' = MySendbuf /\ copied' = copied
    BY <1>4 DEF Transmit, AfterDriver, Nic!StartSend
  <2>2. want[s] \in Frame /\ air' = <<want[s], want[s]>>
    BY <2>1 DEF SendInv
  <2> QED
    BY <1>0, <2>1, <2>2 DEF SendInv, SentWhole
<1> QED
  BY <1>1, <1>2, <1>3, <1>4 DEF SendStep

LEMMA SendStepKeeps == ASSUME OneSender, SendInv, [IfNext]_ifVars PROVE SendInv'
<1>1. ASSUME UNCHANGED send, air' = air \/ air' = NoFrame PROVE SendInv'
  BY <1>1 DEF SendInv, SentWhole, send
<1>2. CASE UNCHANGED ifVars
  BY <1>1, <1>2 DEF ifVars, nic
<1>3. ASSUME NEW f \in Frame, FrameArrives(f) PROVE SendInv'
  BY <1>1, <1>3 DEF FrameArrives, Nic!Accept
<1>4. CASE SendEnds
  BY <1>1, <1>4 DEF SendEnds, Nic!EndSend
<1>5. CASE InputTask
  BY <1>1, <1>5 DEF InputTask, Poll, Read, Alloc, Type, Input, Post, Drop, nic, Nic!Forget, Nic!Receive
<1>6. CASE TcpipThread \/ Release
  BY <1>1, <1>6 DEF TcpipThread, Fetch, EthernetInput, FreeMsg, Release, nic
<1> QED
  BY <1>2, <1>3, <1>4, <1>5, <1>6, SenderKeeps DEF IfNext

\* A thread that sends alone puts whole frames on the wire, although it fills MySendbuf
\* outside the critical section; EthSend shows what two threads do (PacketSend).
THEOREM AloneSentWhole == ASSUME OneSender PROVE IfSpec => []SentWhole
<1>1. SendInv /\ [IfNext]_ifVars => SendInv'
  BY SendStepKeeps
<1>2. SendInv => SentWhole
  BY DEF SendInv
<1> QED
  BY <1>1, <1>2, SendInitially, PTL DEF IfSpec
=============================================================================
