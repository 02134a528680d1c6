----------------------------- MODULE FramePath ------------------------------
(***************************************************************************)
(* What the ENC28J60 driver promises to the network interface above it:    *)
(* a frame handed to it goes on the wire as it is or not at all, and the   *)
(* frames the controller has accepted are received once each, in order,    *)
(* as they came.                                                           *)
(***************************************************************************)
EXTENDS Frames, Sequences

VARIABLES
  air,          \* the frame that is being transmitted
  rxq,          \* the accepted frames nobody has received yet, oldest first
  packet        \* what the last receive returned

Init == air = NoFrame /\ rxq = <<>> /\ packet = NoFrame

StartSend(f) == air = NoFrame /\ air' = f /\ UNCHANGED <<rxq, packet>>
EndSend == air # NoFrame /\ air' = NoFrame /\ UNCHANGED <<rxq, packet>>

Accept(f) == rxq' = Append(rxq, f) /\ UNCHANGED <<air, packet>>

\* A damaged frame is thrown away, and the caller gets nothing.
Receive ==
  /\ rxq # <<>>
  /\ packet' = IF Head(rxq) \in Bad THEN NoFrame ELSE Head(rxq)
  /\ rxq' = Tail(rxq)
  /\ UNCHANGED air

\* The next receive starts.
Forget == packet' = NoFrame /\ UNCHANGED <<air, rxq>>

Next == (\E f \in Frame : StartSend(f) \/ Accept(f)) \/ EndSend \/ Receive \/ Forget

Spec == Init /\ [][Next]_<<air, rxq, packet>>
=============================================================================
