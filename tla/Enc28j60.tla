------------------------------ MODULE Enc28j60 ------------------------------
(***************************************************************************)
(* The driver of the ENC28J60 Ethernet controller (lwip1.4/src/arch/       *)
(* enc28j60.c) and the controller it talks to over SPI.                    *)
(*                                                                         *)
(* The callers enter a critical section around enc28j60PacketSend and      *)
(* enc28j60PacketReceive (ethernetif.c:122, 151), so one of them runs at a *)
(* time.  The controller is not stopped by that: between two SPI commands  *)
(* it receives frames, ends a transmission or fails at it.                 *)
(*                                                                         *)
(* Buffer memory is counted in units; a frame takes Size[f] of them, its   *)
(* header (next-packet pointer and status) included.                       *)
(***************************************************************************)
EXTENDS Frames, Integers, Sequences

CONSTANTS
  Size,         \* frame -> units
  RxSize,       \* units of the receive ring, RXSTART_INIT .. RXSTOP_INIT
  MaxPkt        \* the most frames EPKTCNT can count, 255

ASSUME EncAssumption ==
  /\ Bad \subseteq Frame /\ NoFrame \notin Frame
  /\ RxSize \in Nat \ {0, 1} /\ MaxPkt \in Nat \ {0}
  /\ Size \in [Frame -> 1 .. RxSize]

Unit == 0 .. RxSize - 1
PC == {"idle", "txWait", "txLoad", "txStart", "txCheck",
       "rxCount", "rxHeader", "rxData", "rxFree", "rxDec"}

VARIABLES
  bank,                 \* ECON1.BSEL: the register bank the controller is in
  TXRTS, TXERIF,        \* transmission requested; EIR's transmit error flag
  wedged,               \* the transmit logic has stopped, TXRTS stays set
  txbuf,                \* the frame in the transmit buffer
  ERXWRPT, ERXRDPT,     \* write pointer; what is from here on is not overwritten
  EPKTCNT,
  rxbuf,                \* receive ring: unit -> frame, part and next-packet pointer
  Enc28j60Bank, NextPacketPtr,  \* the driver's static variables
  pc, sending,       \* place in the driver; the frame to send
  ERDPT,                \* where the driver reads
  packet                \* the frame a receive copied

tx   == <<TXRTS, TXERIF, wedged, txbuf>>
rx   == <<ERXWRPT, ERXRDPT, EPKTCNT, rxbuf>>
drv  == <<Enc28j60Bank, NextPacketPtr, pc, sending, ERDPT, packet>>
vars == <<bank, tx, rx, drv>>

\* After mymacinit: enc28j60Init enables reception, and the register written last,
\* ECOCON, leaves bank 3 selected (enc28j60.c:186, 545-546).
Init ==
  /\ bank = 3 /\ Enc28j60Bank = 3
  /\ TXRTS = FALSE /\ TXERIF = FALSE /\ wedged = FALSE /\ txbuf = NoFrame
  /\ ERXWRPT = 0 /\ ERXRDPT = 0 /\ EPKTCNT = 0 /\ NextPacketPtr = 0 /\ ERDPT = 0
  /\ rxbuf = [u \in Unit |-> [frame |-> NoFrame, part |-> 0, next |-> 0]]
  /\ pc = "idle" /\ sending = NoFrame /\ packet = NoFrame

-----------------------------------------------------------------------------
(* The controller.                                                         *)

Ahead(u, n) == (u + n) % RxSize
Dist(u, v) == (v - u + RxSize) % RxSize

\* One unit stays free, so that equal pointers mean an empty ring.
Room == RxSize - 1 - Dist(ERXRDPT, ERXWRPT)

\* A frame that has no room, or that EPKTCNT cannot count, is dropped.
Arrive(f) ==
  /\ Size[f] <= Room /\ EPKTCNT < MaxPkt
  /\ rxbuf' = [u \in Unit |->
       LET i == Dist(ERXWRPT, u) IN
       IF i < Size[f]
         THEN [frame |-> f, part |-> i, next |-> Ahead(ERXWRPT, Size[f])]
         ELSE rxbuf[u]]
  /\ ERXWRPT' = Ahead(ERXWRPT, Size[f])
  /\ EPKTCNT' = EPKTCNT + 1
  /\ UNCHANGED <<bank, tx, ERXRDPT, drv>>

\* A transmission ends well, or fails; the transmit logic may stop at a failure
\* (silicon errata, point 12, named in enc28j60.c:464).
TxDone ==
  /\ TXRTS /\ ~wedged
  /\ TXRTS' = FALSE
  /\ UNCHANGED <<bank, TXERIF, wedged, txbuf, rx, drv>>

TxFail ==
  /\ TXRTS /\ ~wedged
  /\ TXERIF' = TRUE
  /\ \/ TXRTS' = FALSE /\ UNCHANGED wedged
     \/ wedged' = TRUE /\ UNCHANGED TXRTS
  /\ UNCHANGED <<bank, txbuf, rx, drv>>

-----------------------------------------------------------------------------
(* The driver.                                                             *)

\* enc28j60SetBank: the bank is selected only if the cached number differs.
BankAfter(b) == IF b # Enc28j60Bank THEN b ELSE bank
CacheKept(b) == Enc28j60Bank                                        \* mutant
CacheAfter(b) == b
SetBank(b) == bank' = BankAfter(b) /\ Enc28j60Bank' = CacheAfter(b)

Goto(l) == pc' = l

CallSend(f) ==
  /\ pc = "idle"
  /\ sending' = f
  /\ Goto("txWait")
  /\ UNCHANGED <<bank, tx, rx, Enc28j60Bank, NextPacketPtr, ERDPT, packet>>

\* The loop on ECON1.TXRTS (bank 0 is selected for ECON1, too).
NotWaiting == TRUE                                                  \* mutants
WaitsForOther == FALSE
MaySend == ~TXRTS

SendWait ==
  /\ pc = "txWait"
  /\ SetBank(0)
  /\ IF MaySend THEN Goto("txLoad") ELSE UNCHANGED pc
  /\ UNCHANGED <<tx, rx, NextPacketPtr, sending, ERDPT, packet>>

\* EWRPT, ETXND, the control byte and the frame.
SendLoad ==
  /\ pc = "txLoad"
  /\ SetBank(0)
  /\ txbuf' = sending
  /\ Goto("txStart")
  /\ UNCHANGED <<TXRTS, TXERIF, wedged, rx, NextPacketPtr, sending, ERDPT, packet>>

SendStart ==
  /\ pc = "txStart"
  /\ TXRTS' = TRUE
  /\ Goto("txCheck")
  /\ UNCHANGED <<bank, TXERIF, wedged, txbuf, rx, Enc28j60Bank, NextPacketPtr,
                 sending, ERDPT, packet>>

\* EIR.TXERIF is looked at right after the start, and never cleared.
SendCheck ==
  /\ pc = "txCheck"
  /\ SetBank(0)
  /\ IF TXERIF THEN TXRTS' = FALSE /\ wedged' = FALSE
               ELSE UNCHANGED <<TXRTS, wedged>>
  /\ sending' = NoFrame
  /\ Goto("idle")
  /\ UNCHANGED <<TXERIF, txbuf, rx, NextPacketPtr, ERDPT, packet>>

CallReceive ==
  /\ pc = "idle"
  /\ packet' = NoFrame
  /\ Goto("rxCount")
  /\ UNCHANGED <<bank, tx, rx, Enc28j60Bank, NextPacketPtr, sending, ERDPT>>

ReceiveCount ==
  /\ pc = "rxCount"
  /\ SetBank(1)
  /\ Goto(IF EPKTCNT = 0 THEN "idle" ELSE "rxHeader")
  /\ UNCHANGED <<tx, rx, NextPacketPtr, sending, ERDPT, packet>>

\* The header the frame starts with names the place of the next frame.
ReceiveHeader ==
  /\ pc = "rxHeader"
  /\ SetBank(0)
  /\ ERDPT' = NextPacketPtr
  /\ NextPacketPtr' = rxbuf[NextPacketPtr].next
  /\ Goto("rxData")
  /\ UNCHANGED <<tx, rx, sending, packet>>

\* The frame that lies at u, if all of it is there.
FrameAt(u) ==
  LET f == rxbuf[u].frame IN
  IF f # NoFrame /\ \A i \in 0 .. Size[f] - 1 :
       rxbuf[Ahead(u, i)].frame = f /\ rxbuf[Ahead(u, i)].part = i
    THEN f ELSE NoFrame

\* A damaged frame is not copied, and the length returned is zero.
ReceiveData ==
  /\ pc = "rxData"
  /\ packet' = IF FrameAt(ERDPT) \in Bad THEN NoFrame ELSE FrameAt(ERDPT)
  /\ Goto("rxFree")
  /\ UNCHANGED <<bank, tx, rx, Enc28j60Bank, NextPacketPtr, sending, ERDPT>>

\* ERXRDPT: the controller may overwrite what has been read.
FreedAll == ERXWRPT                                                 \* mutants
FreedPastEnd == NextPacketPtr + 1
FreedTo == NextPacketPtr
ReceiveFree ==
  /\ pc = "rxFree"
  /\ SetBank(0)
  /\ ERXRDPT' = FreedTo
  /\ ERDPT' = 0
  /\ Goto("rxDec")
  /\ UNCHANGED <<tx, ERXWRPT, EPKTCNT, rxbuf, NextPacketPtr, sending, packet>>

\* ECON2.PKTDEC
CountKept == EPKTCNT                                                \* mutant
CountAfterDec == EPKTCNT - 1
ReceiveDec ==
  /\ pc = "rxDec"
  /\ EPKTCNT' = CountAfterDec
  /\ Goto("idle")
  /\ UNCHANGED <<bank, tx, ERXWRPT, ERXRDPT, rxbuf, Enc28j60Bank, NextPacketPtr,
                 sending, ERDPT, packet>>

-----------------------------------------------------------------------------
Controller == (\E f \in Frame : Arrive(f)) \/ TxDone \/ TxFail
Step == \/ SendWait \/ SendLoad \/ SendStart \/ SendCheck
        \/ ReceiveCount \/ ReceiveHeader \/ ReceiveData \/ ReceiveFree \/ ReceiveDec

Next == Controller \/ Step \/ CallReceive \/ \E f \in Frame \ Bad : CallSend(f)

Spec == Init /\ [][Next]_vars

\* Interrupts are off while a driver function runs, so nothing but its own steps
\* can hold it up; a transmission the logic is working on comes to an end.
LiveSpec == Spec /\ WF_vars(Step) /\ WF_vars(TxDone \/ TxFail)

-----------------------------------------------------------------------------
(* Properties.                                                             *)

\* Types of the controller's registers and memory and of the driver's variables.
TypeOK ==
  /\ bank \in 0 .. 3 /\ Enc28j60Bank \in 0 .. 3
  /\ TXRTS \in BOOLEAN /\ TXERIF \in BOOLEAN /\ wedged \in BOOLEAN
  /\ txbuf \in Frame \cup {NoFrame}
  /\ ERXWRPT \in Unit /\ ERXRDPT \in Unit /\ NextPacketPtr \in Unit /\ ERDPT \in Unit
  /\ EPKTCNT \in 0 .. MaxPkt
  /\ rxbuf \in [Unit -> [frame : Frame \cup {NoFrame}, part : Nat, next : Unit]]
  /\ pc \in PC
  /\ sending \in Frame \cup {NoFrame} /\ packet \in Frame \cup {NoFrame}

\* The frames the driver has not copied yet, by the chain of next-packet pointers.
FirstUnit == IF pc = "rxData" THEN ERDPT ELSE NextPacketPtr
Waiting == IF pc \in {"rxFree", "rxDec"} THEN EPKTCNT - 1 ELSE EPKTCNT
UnitOf[k \in Nat \ {0}] == IF k = 1 THEN FirstUnit ELSE rxbuf[UnitOf[k - 1]].next

\* The bank the driver thinks is selected is selected, in every function and
\* across them: a register written in the wrong bank is another register.  A frame
\* is loaded only while no transmission is under way, and one is received only
\* while there is one, whatever the controller does in between.
DriverInv ==
  /\ bank = Enc28j60Bank
  /\ pc \in {"txLoad", "txStart"} => ~TXRTS
  /\ wedged => TXRTS
  /\ TXRTS => txbuf # NoFrame
  /\ pc \in {"txWait", "txLoad"} => sending \in Frame
  /\ pc = "txStart" => txbuf \in Frame
  /\ pc \in {"rxHeader", "rxData", "rxFree", "rxDec"} => EPKTCNT > 0

\* The chain of frames the driver follows ends where the controller writes, and
\* no frame on it can be overwritten: the frames waiting and the free units never
\* overlap, although the driver frees memory before it counts the frame off.
RingIntact ==
  /\ UnitOf[Waiting + 1] = ERXWRPT
  /\ \A k \in 1 .. Waiting :
       /\ FrameAt(UnitOf[k]) # NoFrame
       /\ Dist(ERXRDPT, UnitOf[k]) < Dist(ERXRDPT, ERXWRPT)

\* The driver and the controller implement FramePath.
OnAir == IF TXRTS THEN txbuf ELSE NoFrame
RxQueue == [k \in 1 .. Waiting |-> FrameAt(UnitOf[k])]
Path == INSTANCE FramePath WITH air <- OnAir, rxq <- RxQueue
ImplementsFramePath == Path!Spec

\* What is being transmitted is not written over by the next frame.
SentAsGiven == [][TXRTS => UNCHANGED txbuf]_vars

\* A call of enc28j60PacketSend gets past its loop, whatever transmissions
\* before it did, as long as the transmit logic has not stopped: a wait here is a
\* wait of the whole gateway, with interrupts off.
SendReturnsUnlessWedged == pc = "txWait" ~> (pc = "idle" \/ wedged)

\* enc28j60PacketSend does not itself abort the frame it has started unless the
\* controller has failed at it: the interface answers ERR_OK, "if the packet
\* could be sent" (ethernetif.c:218).
AbortsOnlyFailed ==
  [][pc = "txCheck" /\ pc' = "idle" /\ TXRTS /\ ~TXRTS' => wedged]_vars
=============================================================================
