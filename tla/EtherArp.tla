------------------------------ MODULE EtherArp ------------------------------
(***************************************************************************)
(* The address resolution protocol of lwIP (netif/etharp.c), with          *)
(* ARP_QUEUEING and ETHARP_SUPPORT_STATIC_ENTRIES 0 as lwipopts.h sets     *)
(* them: one packet waits on an entry that is being resolved.  All of it   *)
(* runs in tcpip_thread, so every function is one step.                    *)
(***************************************************************************)
EXTENDS Integers, FiniteSets, FiniteSetsExt

CONSTANTS
  ArpTableSize,    \* ARP_TABLE_SIZE
  MaxAge,          \* ARP_MAXAGE
  MaxPending,      \* ARP_MAXPENDING
  AgeRerequest,    \* ARP_AGE_REREQUEST_USED
  Addr,            \* the IP addresses of the local network
  Mac,             \* hardware addresses
  NoAddr, NoMac    \* neither

ASSUME ArpAssumption ==
  /\ ArpTableSize \in Nat \ {0} /\ MaxPending \in Nat \ {0}
  /\ AgeRerequest \in Nat /\ MaxAge \in Nat /\ MaxPending < MaxAge
  /\ NoAddr \notin Addr /\ NoMac \notin Mac

VARIABLES
  arp_table,       \* the entries; q is the address the waiting packet is for
  etharp_cached_entry,
  copies,          \* ghost: the packet copies in the heap
  heard,           \* ghost: the last hardware address each host has announced
  sent             \* the IP packet the last step sent, to which host and where

arpVars == <<arp_table, etharp_cached_entry, copies, heard, sent>>

Index == 0 .. ArpTableSize - 1
EmptyEntry == [state |-> "EMPTY", ip |-> NoAddr, mac |-> NoMac, ctime |-> 0, q |-> NoAddr]
Nothing == [hop |-> NoAddr, mac |-> NoMac]

ArpInit ==
  /\ arp_table = [i \in Index |-> EmptyEntry]
  /\ etharp_cached_entry = 0
  /\ copies = 0
  /\ heard = [a \in Addr |-> NoMac]
  /\ sent = Nothing

State(i) == arp_table[i].state
Stable(i) == State(i) \in {"STABLE", "REREQUESTING"}
For(ip) == {i \in Index : State(i) # "EMPTY" /\ arp_table[i].ip = ip}
Queued(is) == Cardinality({i \in is : arp_table[i].q # NoAddr})

\* The oldest of some entries, the last one of equals.
Oldest(is) ==
  Max({i \in is : \A j \in is : arp_table[j].ctime <= arp_table[i].ctime})

\* etharp_find_entry for an address that is not in the table, with TRY_HARD:
\* the first empty entry, or else the one that hurts least.
Slot ==
  LET empty == {i \in Index : State(i) = "EMPTY"}
      stable == {i \in Index : Stable(i)}
      idle == {i \in Index : State(i) = "PENDING" /\ arp_table[i].q = NoAddr}
  IN
  IF empty # {} THEN Min(empty)
  ELSE IF stable # {} THEN Oldest(stable)
  ELSE IF idle # {} THEN Oldest(idle)
  ELSE Oldest(Index)

\* etharp_find_entry: where ip is, or is put by TRY_HARD.
Find(ip) == IF For(ip) # {} THEN Min(For(ip)) ELSE Slot

\* The entry that etharp_find_entry leaves at i = Find(ip).
FoundFresh(ip) ==                                                    \* mutant
  IF For(ip) # {} THEN [arp_table[Min(For(ip))] EXCEPT !.ctime = 0] ELSE [EmptyEntry EXCEPT !.ip = ip]
Found(ip) ==
  IF For(ip) # {} THEN arp_table[Min(For(ip))] ELSE [EmptyEntry EXCEPT !.ip = ip]
\* ... and the copies it freed with an entry it recycled.
Recycled(ip) == IF For(ip) # {} THEN 0 ELSE Queued({Slot})

-----------------------------------------------------------------------------
\* etharp_tmr, every ARP_TMR_INTERVAL.
Expired(e) == e.ctime >= MaxAge \/ (e.state = "PENDING" /\ e.ctime >= MaxPending)

etharp_tmr ==
  LET old(i) == [arp_table[i] EXCEPT !.ctime = @ + 1]
      gone == {i \in Index : State(i) # "EMPTY" /\ Expired(old(i))}
  IN
  /\ arp_table' = [i \in Index |->
       IF State(i) = "EMPTY" THEN arp_table[i]
       ELSE IF i \in gone THEN EmptyEntry
       ELSE IF State(i) = "REREQUESTING" THEN [old(i) EXCEPT !.state = "STABLE"]
       ELSE old(i)]
  /\ copies' = copies - Queued(gone)
  /\ sent' = Nothing
  /\ UNCHANGED <<etharp_cached_entry, heard>>

\* etharp_arp_input: a request or an answer from host ip.  One that is meant for
\* this interface makes an entry, any other one only updates it; the packet that
\* waits on the entry is sent.
etharp_arp_input(ip, mac, forUs) ==
  LET i == Find(ip)
      e == Found(ip)
  IN
  /\ heard' = [heard EXCEPT ![ip] = mac]
  /\ IF For(ip) # {} \/ forUs
     THEN /\ arp_table' = [arp_table EXCEPT ![i] =
               [state |-> "STABLE", ip |-> ip, mac |-> mac, ctime |-> 0, q |-> NoAddr]]
          /\ copies' = copies - Recycled(ip) - (IF e.q # NoAddr THEN 1 ELSE 0)
          /\ sent' = IF e.q # NoAddr THEN [hop |-> e.q, mac |-> mac] ELSE Nothing
     ELSE UNCHANGED <<arp_table, copies>> /\ sent' = Nothing
  /\ UNCHANGED etharp_cached_entry

\* etharp_output to a host that is in the table: the entry that was used last is
\* tried first.  An old entry is asked for again, if there is memory for a request.
BlindHint(ip) == Stable(etharp_cached_entry)                         \* mutant
HintFits(ip) == Stable(etharp_cached_entry) /\ arp_table[etharp_cached_entry].ip = ip
OutputTo(ip) ==
  IF HintFits(ip) THEN etharp_cached_entry
  ELSE Min({i \in Index : Stable(i) /\ arp_table[i].ip = ip})

etharp_output(ip) ==
  /\ HintFits(ip) \/ \E i \in For(ip) : Stable(i)
  /\ LET i == OutputTo(ip) IN
     /\ etharp_cached_entry' = i
     /\ sent' = [hop |-> ip, mac |-> arp_table[i].mac]
     /\ \/ UNCHANGED arp_table
        \/ /\ State(i) = "STABLE" /\ arp_table[i].ctime >= AgeRerequest
           /\ arp_table' = [arp_table EXCEPT ![i].state = "REREQUESTING"]
  /\ UNCHANGED <<copies, heard>>

\* etharp_output to any other host: etharp_query finds or makes an entry and
\* sends a request.  The packet is copied, and queued in the place of the one that
\* waits there already, if there is memory for it.
Kept(e) == 0                                                         \* mutant
Replaced(e) == IF e.q # NoAddr THEN 1 ELSE 0
etharp_query(ip) ==
  LET i == Find(ip)
      e == [Found(ip) EXCEPT !.state = "PENDING"]
  IN
  /\ ~HintFits(ip) /\ \A j \in For(ip) : ~Stable(j)
  /\ \/ /\ arp_table' = [arp_table EXCEPT ![i] = [e EXCEPT !.q = ip]]
        /\ copies' = copies - Recycled(ip) - Replaced(e) + 1
     \/ /\ arp_table' = [arp_table EXCEPT ![i] = e]
        /\ copies' = copies - Recycled(ip)
  /\ sent' = Nothing
  /\ UNCHANGED <<etharp_cached_entry, heard>>

\* etharp_query without a packet, which only asks.  The entry may be stable.
AskOnly(ip) ==
  /\ arp_table' = [arp_table EXCEPT ![Find(ip)] =
       IF Found(ip).state = "EMPTY" THEN [Found(ip) EXCEPT !.state = "PENDING"] ELSE Found(ip)]
  /\ copies' = copies - Recycled(ip)
  /\ sent' = Nothing
  /\ UNCHANGED <<etharp_cached_entry, heard>>

\* The interface goes down.
etharp_cleanup_netif ==
  /\ arp_table' = [i \in Index |-> EmptyEntry]
  /\ copies' = copies - Queued(Index)
  /\ sent' = Nothing
  /\ UNCHANGED <<etharp_cached_entry, heard>>

ArpNext ==
  \/ etharp_tmr \/ etharp_cleanup_netif
  \/ \E ip \in Addr : etharp_output(ip) \/ etharp_query(ip) \/ AskOnly(ip)
  \/ \E ip \in Addr, mac \in Mac, forUs \in BOOLEAN : etharp_arp_input(ip, mac, forUs)

ArpSpec == ArpInit /\ [][ArpNext]_arpVars
\* The timer is set again each time it fires (timers.c:112-118).
ArpLiveSpec == ArpSpec /\ WF_arpVars(etharp_tmr)

-----------------------------------------------------------------------------
\* Whatever order of queries, answers, recycling and ageing: a host has one
\* entry, only an entry that is being resolved has a packet waiting, and it is a
\* packet for that host; every copy in the heap waits on an entry (etharp.c:178,
\* 371, 507, 1156).
TableRight ==
  /\ \A i, j \in Index : i # j /\ State(i) # "EMPTY" /\ State(j) # "EMPTY" =>
       arp_table[i].ip # arp_table[j].ip
  /\ \A i \in Index : arp_table[i].q # NoAddr =>
       State(i) = "PENDING" /\ arp_table[i].q = arp_table[i].ip
  /\ copies = Queued(Index)

\* A packet is only ever sent to the hardware address that its next hop itself
\* announced last, also by the cached entry, which may have been recycled
\* (etharp.c:960), and after an answer that changes the address (etharp.c:490).
SentToItsHop == sent # Nothing => sent.mac = heard[sent.hop]

ArpInv == TableRight /\ SentToItsHop

\* The resolution of an address ends, answered or given up, however often packets
\* for it are queued meanwhile, and with it the wait of its packet (etharp.c:221-229).
Pending(ip) == \E i \in For(ip) : State(i) = "PENDING"
ResolutionEnds == \A ip \in Addr : Pending(ip) ~> ~Pending(ip)
=============================================================================
