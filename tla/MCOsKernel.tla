----------------------------- MODULE MCOsKernel -----------------------------
(* Instances of OsKernel for TLC. *)
EXTENDS OsKernel, TLC
CONSTANTS t1, t2, t3, s1

MCPrio2 == (t1 :> 1) @@ (t2 :> 2)
MCPrio3 == (t1 :> 0) @@ (t2 :> 1) @@ (t3 :> 2)
MCCnt1  == s1 :> 1
MCCnt0  == s1 :> 0
=============================================================================
