---------------------------- MODULE MCEnc28j60 ------------------------------
(* An instance of Enc28j60 for TLC: a frame of one unit, one of two, and a   *)
(* damaged one of three, in a ring that they fill and wrap around in.        *)
EXTENDS Enc28j60, TLC
CONSTANTS f1, f2, b1
MCSize == (f1 :> 1) @@ (f2 :> 2) @@ (b1 :> 3)
=============================================================================
