---------------------------- MODULE MCReassHole -----------------------------
(* One datagram of four blocks, in four fragments. *)
EXTENDS IpReass
CONSTANTS d1
Blocks == {[start |-> k, end |-> k + 1] : k \in 0 .. 3}
=============================================================================
