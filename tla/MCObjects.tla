------------------------------ MODULE MCObjects ------------------------------
(* What tasks and threads share, each kind on its own, in one run: the queues, *)
(* mailboxes and mutexes of the kernel; its event flags, which have the core   *)
(* of the kernel in common with them; and the packet buffers, the heap and the *)
(* sockets of lwIP.  A behaviour is one of one part; the variables of the      *)
(* others keep their first values.                                             *)
EXTENDS OsObjects, OsFlag, Pbuf, MemHeap, Sockets, TLC

CONSTANTS t1, t3, t4, idle                       \* tasks

VARIABLE part

\* Three tasks, and a ceiling priority above two of them.
MCBasePrio == t1 :> 0 @@ t3 :> 2 @@ t4 :> 3 @@ idle :> 4

\* Two threads select on both sockets.
MCSets == {Socket}

PartsInit ==
  /\ part \in {"objects", "flags", "pbuf", "heap", "sockets"}
  /\ Init /\ FlagInit /\ PbufInit /\ HeapInit /\ SockInit

PartsNext ==
  /\ UNCHANGED part
  /\ CASE part = "objects" -> Next /\ UNCHANGED flagVars
       [] part = "flags" -> FlagNext /\ UNCHANGED objVars
       [] OTHER -> UNCHANGED <<vars, flagVars>>
  /\ IF part = "pbuf" THEN PbufNext ELSE UNCHANGED pbufVars
  /\ IF part = "heap" THEN HeapNext ELSE UNCHANGED heapVars
  /\ IF part = "sockets" THEN SockNext ELSE UNCHANGED sockVars

PartsSpec ==
  PartsInit /\ [][PartsNext]_<<part, vars, flagVars, pbufVars, heapVars, sockVars>>
=============================================================================
