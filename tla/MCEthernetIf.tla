--------------------------- MODULE MCEthernetIf -----------------------------
(* Instances of EthernetIf for TLC: a short frame for the stack, one of two   *)
(* pbufs for it, which is too long to be sent, one of another type and a     *)
(* damaged one, and pools so small that each runs out.                       *)
EXTENDS EthernetIf, TLC
CONSTANTS ip, big, other, dmg, t1, t2
MCPbufs == (ip :> 1) @@ (big :> 2) @@ (other :> 1) @@ (dmg :> 1)
=============================================================================
