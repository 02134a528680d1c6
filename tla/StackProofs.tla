---------------------------- MODULE StackProofs -----------------------------
(***************************************************************************)
(* Proofs about EtherArp, Igmp, LwipTimers and IpReass.                    *)
(*                                                                         *)
(* EtherArp, for every size of the table, every set of hosts and all ages: *)
(* a host has one entry, a packet waits only where it is resolved, no copy *)
(* of a packet is lost or freed twice, and a packet is sent to the         *)
(* hardware address that its next hop announced last.  The places that     *)
(* etharp_find_entry looks for exist: an age is a number below MaxAge, so  *)
(* there is an oldest entry.  The entry it recycles is freed with its      *)
(* packet, which is what copies counts.                                    *)
(*                                                                         *)
(* Igmp, for every set of groups, every delay and all response times but   *)
(* 1: igmp_start_timer takes a random number modulo the response time less *)
(* one, which bounds nothing when that is zero.                            *)
(*                                                                         *)
(* LwipTimers, for every set of handlers and of times: the list of times   *)
(* that count from the timer before is a list of deadlines (Deadlines),    *)
(* and no timer fires before its ticks have come, when all times are whole *)
(* ticks.  The deadlines are the sums of the first times (Dues): inserting *)
(* a timer takes its time from the next one, removing it gives it back, so *)
(* the sums of the others stay.                                            *)
(*                                                                         *)
(* IpReass, for all datagrams, all ways to cut them and all limits: the    *)
(* list is sorted by what is left of the datagrams' times, so those that   *)
(* run out and those that make room are the last ones of the list, and the *)
(* pbufs they hold are what is left of the sum.  A datagram that holds a   *)
(* last fragment knows it, so the fragment that completes it finds that it *)
(* is complete.                                                            *)
(***************************************************************************)
EXTENDS LwipTimers, EtherArp, Igmp, IpReass, NumberSets,
        FiniteSetTheorems, SequenceTheorems, TLAPS

ArpEntries ==
  [state : {"EMPTY", "PENDING", "STABLE", "REREQUESTING"}, ip : Addr \cup {NoAddr},
   mac : Mac \cup {NoMac}, ctime : 0 .. MaxAge - 1, q : Addr \cup {NoAddr}]

ArpTypeOK ==
  /\ arp_table \in [Index -> ArpEntries]
  /\ etharp_cached_entry \in Index
  /\ heard \in [Addr -> Mac \cup {NoMac}]
  /\ sent \in [hop : Addr \cup {NoAddr}, mac : Mac \cup {NoMac}]

\* A used entry is for a host, a stable one has what that host announced.
EntriesRight ==
  \A i \in Index :
    /\ State(i) # "EMPTY" => arp_table[i].ip \in Addr
    /\ Stable(i) => arp_table[i].mac = heard[arp_table[i].ip]

ArpIInv == ArpTypeOK /\ EntriesRight /\ TableRight /\ SentToItsHop

-----------------------------------------------------------------------------
(* The entry that etharp_find_entry finds.                                 *)

LEMMA IndexFinite ==
  Index \in SUBSET Nat /\ Index # {} /\ IsFiniteSet(Index)
<1>1. ArpTableSize \in Nat /\ ArpTableSize > 0
  BY ArpAssumption
<1>2. 0 \in Index /\ Index \in SUBSET Nat
  BY <1>1 DEF Index
<1>3. IsFiniteSet(0 .. ArpTableSize - 1)
  BY <1>1, FS_Interval
<1> QED
  BY <1>2, <1>3 DEF Index

LEMMA OldestIsOne ==
  ASSUME ArpTypeOK, NEW is \in SUBSET Index, is # {}
  PROVE  Oldest(is) \in is
<1> DEFINE times == {arp_table[i].ctime : i \in is}
           old == {i \in is : \A j \in is : arp_table[j].ctime <= arp_table[i].ctime}
<1>1. times \in SUBSET Nat /\ times # {} /\ \A x \in times : x <= MaxAge
  BY ArpAssumption DEF ArpTypeOK, ArpEntries
<1>2. PICK t \in times : \A y \in times : y <= t
  BY <1>1, LargestOf, ArpAssumption
<1>3. PICK i \in is : arp_table[i].ctime = t
  BY <1>2
<1>4. i \in old
  BY <1>2, <1>3
<1>5. old \in SUBSET Nat /\ \A x \in old : x <= ArpTableSize
  <2>1. ArpTableSize \in Nat
    BY ArpAssumption
  <2>2. \A x \in Index : x \in Nat /\ x <= ArpTableSize
    BY <2>1 DEF Index
  <2> QED
    BY <2>2
<1>6. Max(old) \in old
  BY <1>4, <1>5, MaxOf, ArpAssumption
<1> QED
  BY <1>6 DEF Oldest

LEMMA PlaceIsOne ==
  ASSUME ArpTypeOK
  PROVE  Slot \in Index
<1> DEFINE empty == {i \in Index : State(i) = "EMPTY"}
           stable == {i \in Index : Stable(i)}
           idle == {i \in Index : State(i) = "PENDING" /\ arp_table[i].q = NoAddr}
<1>1. empty # {} => Min(empty) \in empty
  BY MinOf, IndexFinite
<1>2. stable # {} => Oldest(stable) \in stable
  BY OldestIsOne
<1>3. idle # {} => Oldest(idle) \in idle
  BY OldestIsOne
<1>4. Oldest(Index) \in Index
  BY OldestIsOne, IndexFinite
<1> QED
  BY <1>1, <1>2, <1>3, <1>4 DEF Slot

\* It is the entry of ip, if there is one.
LEMMA FindsIt ==
  ASSUME ArpTypeOK, NEW ip
  PROVE  /\ Find(ip) \in Index
         /\ For(ip) # {} => Find(ip) \in For(ip)
  BY PlaceIsOne, MinOf, IndexFinite DEF Find, For

\* What is found there, and what was freed to make room for it.
LEMMA FoundIsRight ==
  ASSUME ArpIInv, NEW ip \in Addr
  PROVE  /\ Found(ip) \in ArpEntries /\ Found(ip).ip = ip
         /\ Found(ip).q # NoAddr => Found(ip).state = "PENDING" /\ Found(ip).q = ip
         /\ Found(ip).state \in {"STABLE", "REREQUESTING"} => Found(ip).mac = heard[ip]
<1>1. CASE For(ip) # {}
  <2>1. Min(For(ip)) \in Index /\ State(Min(For(ip))) # "EMPTY"
        /\ arp_table[Min(For(ip))].ip = ip
    BY <1>1, FindsIt DEF Find, For, ArpIInv
  <2> QED
    BY <1>1, <2>1 DEF Found, ArpIInv, ArpTypeOK, EntriesRight, TableRight, State, Stable
<1>2. CASE For(ip) = {}
  <2>1. Found(ip) = [state |-> "EMPTY", ip |-> ip, mac |-> NoMac, ctime |-> 0, q |-> NoAddr]
    BY <1>2 DEF Found, EmptyEntry
  <2> QED
    BY <2>1, ArpAssumption DEF ArpEntries
<1> QED
  BY <1>1, <1>2

-----------------------------------------------------------------------------
(* The packets that wait.                                                  *)

Waiting(t, is) == Cardinality({i \in is : t[i].q # NoAddr})

LEMMA WaitingOne ==
  ASSUME NEW t, NEW i \in Index
  PROVE  /\ Waiting(t, {i}) = IF t[i].q # NoAddr THEN 1 ELSE 0
         /\ Waiting(t, Index \ {i}) \in Nat
         /\ Waiting(t, Index) = Waiting(t, Index \ {i}) + Waiting(t, {i})
<1> DEFINE all == {j \in Index : t[j].q # NoAddr}
           others == {j \in Index \ {i} : t[j].q # NoAddr}
           own == {j \in {i} : t[j].q # NoAddr}
<1>1. IsFiniteSet(all) /\ Cardinality(all) \in Nat
  BY IndexFinite, FS_Subset, FS_CardinalityType
<1>2. others = all \ {i} /\ own = (IF i \in all THEN {i} ELSE {})
      /\ (i \in all <=> t[i].q # NoAddr)
  OBVIOUS
<1>3. /\ IsFiniteSet(all \ {i})
      /\ Cardinality(all \ {i}) = IF i \in all THEN Cardinality(all) - 1 ELSE Cardinality(all)
  <2> HIDE DEF all
  <2> QED BY <1>1, FS_RemoveElement
<1>4. Cardinality(all \ {i}) \in Nat
  BY <1>3, FS_CardinalityType
<1>5. Cardinality(own) = IF i \in all THEN 1 ELSE 0
  BY <1>2, FS_Singleton, FS_EmptySet
<1>6. /\ Waiting(t, {i}) = Cardinality(own) /\ Waiting(t, Index) = Cardinality(all)
      /\ Waiting(t, Index \ {i}) = Cardinality(all \ {i})
  BY <1>2 DEF Waiting
<1> HIDE DEF all, others, own
<1> QED
  BY <1>1, <1>2, <1>3, <1>4, <1>5, <1>6

LEMMA CopiesCounted ==
  ASSUME ArpIInv
  PROVE  copies \in Nat
<1> DEFINE all == {i \in Index : arp_table[i].q # NoAddr}
<1>1. Cardinality(all) \in Nat
  BY IndexFinite, FS_Subset, FS_CardinalityType
<1> QED
  BY <1>1 DEF ArpIInv, TableRight, Queued

\* One entry changes.
LEMMA WaitingAfter ==
  ASSUME ArpTypeOK, NEW i \in Index, NEW e,
         arp_table' = [arp_table EXCEPT ![i] = e]
  PROVE  /\ Queued(Index) \in Nat /\ Queued({i}) \in {0, 1}
         /\ Queued(Index)' =
              Queued(Index) - Queued({i}) + IF e.q # NoAddr THEN 1 ELSE 0
<1>1. {j \in Index \ {i} : arp_table[j].q # NoAddr}
      = {j \in Index \ {i} : arp_table'[j].q # NoAddr}
  BY DEF ArpTypeOK
<1>2. arp_table'[i] = e
  BY DEF ArpTypeOK
<1>3. Waiting(arp_table, Index \ {i}) = Waiting(arp_table', Index \ {i})
  BY <1>1 DEF Waiting
<1>4. /\ Queued(Index) = Waiting(arp_table, Index) /\ Queued({i}) = Waiting(arp_table, {i})
      /\ Queued(Index)' = Waiting(arp_table', Index)
  BY DEF Queued, Waiting
<1>5. /\ Waiting(arp_table, {i}) = IF arp_table[i].q # NoAddr THEN 1 ELSE 0
      /\ Waiting(arp_table, Index \ {i}) \in Nat
      /\ Waiting(arp_table, Index) = Waiting(arp_table, Index \ {i}) + Waiting(arp_table, {i})
  BY WaitingOne
<1>6. /\ Waiting(arp_table', {i}) = IF arp_table'[i].q # NoAddr THEN 1 ELSE 0
      /\ Waiting(arp_table', Index) = Waiting(arp_table', Index \ {i}) + Waiting(arp_table', {i})
  BY WaitingOne
<1> QED
  BY <1>2, <1>3, <1>4, <1>5, <1>6

\* The copies that finding an entry for ip takes off the table.
LEMMA FreedByFind ==
  ASSUME ArpIInv, NEW ip \in Addr
  PROVE  Queued({Find(ip)}) =
           Recycled(ip) + IF Found(ip).q # NoAddr THEN 1 ELSE 0
<1>1. Find(ip) \in Index /\ Slot \in Index
  BY FindsIt, PlaceIsOne DEF ArpIInv
<1>2. Queued({Find(ip)}) = IF arp_table[Find(ip)].q # NoAddr THEN 1 ELSE 0
  BY <1>1, WaitingOne DEF Queued, Waiting
<1>3. CASE For(ip) # {}
  BY <1>2, <1>3 DEF Find, Recycled, Found
<1>4. CASE For(ip) = {}
  <2>1. Found(ip).q = NoAddr
    BY <1>4 DEF Found, EmptyEntry
  <2>2. Recycled(ip) = Queued({Find(ip)})
    BY <1>4 DEF Find, Recycled
  <2> QED
    BY <1>2, <2>1, <2>2
<1> QED
  BY <1>3, <1>4

-----------------------------------------------------------------------------
(* The steps.                                                              *)

\* The entry of one host is set, where etharp_find_entry finds it.
LEMMA SetEntry ==
  ASSUME ArpIInv, NEW ip \in Addr, NEW e \in ArpEntries,
         e.ip = ip, e.q # NoAddr => e.state = "PENDING" /\ e.q = ip,
         arp_table' = [arp_table EXCEPT ![Find(ip)] = e],
         copies' = copies - Queued({Find(ip)}) + (IF e.q # NoAddr THEN 1 ELSE 0),
         heard' \in [Addr -> Mac \cup {NoMac}],
         \A a \in Addr \ {ip} : heard'[a] = heard[a],
         e.state \in {"STABLE", "REREQUESTING"} => e.mac = heard'[ip]
  PROVE  arp_table' \in [Index -> ArpEntries] /\ EntriesRight' /\ TableRight'
<1> DEFINE i == Find(ip)
<1>1. i \in Index /\ (For(ip) # {} => i \in For(ip)) /\ ArpTypeOK
  BY FindsIt DEF ArpIInv
<1>2. arp_table' \in [Index -> ArpEntries] /\ arp_table'[i] = e
      /\ \A j \in Index \ {i} : arp_table'[j] = arp_table[j]
  BY <1>1 DEF ArpTypeOK
<1>3. \A j \in Index \ {i} : State(j) # "EMPTY" => arp_table[j].ip \in Addr \ {ip}
  <2> SUFFICES ASSUME NEW j \in Index \ {i}, State(j) # "EMPTY", arp_table[j].ip = ip
               PROVE  FALSE
    BY DEF ArpIInv, EntriesRight
  <2>1. j \in For(ip)
    BY DEF For
  <2>2. i \in For(ip)
    BY <1>1, <2>1
  <2> QED
    BY <2>2 DEF For, ArpIInv, TableRight
<1>4. EntriesRight'
  <2> SUFFICES ASSUME NEW j \in Index
               PROVE  /\ State(j)' # "EMPTY" => arp_table'[j].ip \in Addr
                      /\ Stable(j)' => arp_table'[j].mac = heard'[arp_table'[j].ip]
    BY DEF EntriesRight
  <2>1. CASE j = i
    BY <1>2, <2>1 DEF State, Stable
  <2>2. CASE j # i
    BY <1>2, <1>3, <2>2 DEF State, Stable, ArpIInv, EntriesRight
  <2> QED
    BY <2>1, <2>2
<1>5. \A j, k \in Index : j # k /\ State(j)' # "EMPTY" /\ State(k)' # "EMPTY" =>
        arp_table'[j].ip # arp_table'[k].ip
  BY <1>2, <1>3 DEF State, ArpIInv, TableRight
<1>6. \A j \in Index : arp_table'[j].q # NoAddr =>
        State(j)' = "PENDING" /\ arp_table'[j].q = arp_table'[j].ip
  BY <1>2 DEF State, ArpIInv, TableRight
<1>7. copies' = Queued(Index)'
  BY <1>1, WaitingAfter DEF ArpIInv, TableRight
<1> QED
  BY <1>2, <1>4, <1>5, <1>6, <1>7 DEF TableRight

LEMMA InputStep ==
  ASSUME ArpIInv, NEW ip \in Addr, NEW mac \in Mac, NEW forUs \in BOOLEAN,
         etharp_arp_input(ip, mac, forUs)
  PROVE  ArpIInv'
<1> DEFINE e == [state |-> "STABLE", ip |-> ip, mac |-> mac, ctime |-> 0, q |-> NoAddr]
<1>1. /\ heard' \in [Addr -> Mac \cup {NoMac}] /\ heard'[ip] = mac
      /\ \A a \in Addr \ {ip} : heard'[a] = heard[a]
      /\ etharp_cached_entry' \in Index
  BY DEF etharp_arp_input, ArpIInv, ArpTypeOK
<1>2. CASE For(ip) # {} \/ forUs
  <2>1. arp_table' = [arp_table EXCEPT ![Find(ip)] = e]
    BY <1>2 DEF etharp_arp_input
  <2>2. copies' = copies - Queued({Find(ip)})
    <3>1. copies' = copies - Recycled(ip) - (IF Found(ip).q # NoAddr THEN 1 ELSE 0)
      BY <1>2 DEF etharp_arp_input
    <3>2. copies \in Nat /\ Queued({Find(ip)}) \in {0, 1}
      BY <2>1, FindsIt, WaitingAfter DEF ArpIInv, TableRight
    <3>3. Recycled(ip) \in {0, 1}
      BY PlaceIsOne, WaitingOne DEF Recycled, Queued, Waiting, ArpIInv
    <3> QED
      BY <3>1, <3>2, <3>3, FreedByFind
  <2>3. e \in ArpEntries
    BY ArpAssumption DEF ArpEntries
  <2>4. copies' = copies - Queued({Find(ip)}) + (IF e.q # NoAddr THEN 1 ELSE 0)
    <3>1. copies \in Nat /\ Queued({Find(ip)}) \in {0, 1}
      BY <2>1, FindsIt, WaitingAfter DEF ArpIInv, TableRight
    <3> QED
      BY <2>2, <3>1
  <2>5. arp_table' \in [Index -> ArpEntries] /\ EntriesRight' /\ TableRight'
    <3> HIDE DEF e
    <3> QED BY <1>1, <2>1, <2>3, <2>4, SetEntry DEF e
  <2>6. sent' = IF Found(ip).q # NoAddr THEN [hop |-> ip, mac |-> mac] ELSE Nothing
    BY <1>2, FoundIsRight DEF etharp_arp_input
  <2> QED
    BY <1>1, <2>5, <2>6 DEF ArpIInv, ArpTypeOK, SentToItsHop, Nothing
<1>3. CASE For(ip) = {} /\ ~forUs
  <2>1. UNCHANGED <<arp_table, copies>> /\ sent' = Nothing
    BY <1>3 DEF etharp_arp_input
  <2>2. \A i \in Index : State(i) # "EMPTY" => arp_table[i].ip \in Addr \ {ip}
    BY <1>3 DEF For, ArpIInv, EntriesRight
  <2>3. EntriesRight'
    <3> SUFFICES ASSUME NEW i \in Index
                 PROVE  /\ State(i)' # "EMPTY" => arp_table'[i].ip \in Addr
                        /\ Stable(i)' => arp_table'[i].mac = heard'[arp_table'[i].ip]
      BY DEF EntriesRight
    <3> QED
      BY <1>1, <2>1, <2>2 DEF ArpIInv, EntriesRight, State, Stable
  <2> QED
    BY <1>1, <2>1, <2>3 DEF ArpIInv, ArpTypeOK, TableRight, SentToItsHop, Nothing, State, Queued
<1> QED
  BY <1>2, <1>3

LEMMA QueryStep ==
  ASSUME ArpIInv, NEW ip \in Addr, etharp_query(ip)
  PROVE  ArpIInv'
<1> DEFINE e == [Found(ip) EXCEPT !.state = "PENDING"]
           f == [e EXCEPT !.q = ip]
<1>1. /\ Found(ip) \in ArpEntries /\ Found(ip).ip = ip
      /\ Found(ip).q # NoAddr => Found(ip).state = "PENDING" /\ Found(ip).q = ip
  BY FoundIsRight
<1>2. /\ e \in ArpEntries /\ e.ip = ip /\ e.state = "PENDING" /\ e.q = Found(ip).q
      /\ f \in ArpEntries /\ f.ip = ip /\ f.state = "PENDING" /\ f.q = ip
  BY <1>1 DEF ArpEntries
<1>3. copies \in Nat /\ Queued({Find(ip)}) \in {0, 1} /\ Recycled(ip) \in {0, 1}
      /\ Queued({Find(ip)}) = Recycled(ip) + IF Found(ip).q # NoAddr THEN 1 ELSE 0
  <2>1. Find(ip) \in Index /\ Slot \in Index
    BY FindsIt, PlaceIsOne DEF ArpIInv
  <2>2. copies \in Nat
    BY CopiesCounted
  <2> QED
    BY <2>1, <2>2, WaitingOne, FreedByFind DEF Recycled, Queued, Waiting
<1>4. \/ /\ arp_table' = [arp_table EXCEPT ![Find(ip)] = f]
         /\ copies' = copies - Recycled(ip) - Replaced(e) + 1
      \/ /\ arp_table' = [arp_table EXCEPT ![Find(ip)] = e]
         /\ copies' = copies - Recycled(ip)
  BY DEF etharp_query
<1>5. Replaced(e) = IF Found(ip).q # NoAddr THEN 1 ELSE 0
  BY <1>2 DEF Replaced
<1>6. UNCHANGED <<etharp_cached_entry, heard>> /\ sent' = Nothing
  BY DEF etharp_query
<1>7. ip # NoAddr
  BY ArpAssumption
<1> HIDE DEF e, f
<1>8. heard' \in [Addr -> Mac \cup {NoMac}] /\ \A a \in Addr \ {ip} : heard'[a] = heard[a]
  BY <1>6 DEF ArpIInv, ArpTypeOK
<1>9. CASE /\ arp_table' = [arp_table EXCEPT ![Find(ip)] = f]
           /\ copies' = copies - Recycled(ip) - Replaced(e) + 1
  <2>1. copies' = copies - Queued({Find(ip)}) + (IF f.q # NoAddr THEN 1 ELSE 0)
    BY <1>2, <1>3, <1>5, <1>7, <1>9
  <2>2. arp_table' \in [Index -> ArpEntries] /\ EntriesRight' /\ TableRight'
    BY <1>2, <1>8, <1>9, <2>1, SetEntry
  <2> QED
    BY <1>6, <2>2 DEF ArpIInv, ArpTypeOK, SentToItsHop, Nothing
<1>10. CASE /\ arp_table' = [arp_table EXCEPT ![Find(ip)] = e]
            /\ copies' = copies - Recycled(ip)
  <2>1. copies' = copies - Queued({Find(ip)}) + (IF e.q # NoAddr THEN 1 ELSE 0)
    BY <1>2, <1>3, <1>10
  <2>2. arp_table' \in [Index -> ArpEntries] /\ EntriesRight' /\ TableRight'
    BY <1>1, <1>2, <1>8, <1>10, <2>1, SetEntry
  <2> QED
    BY <1>6, <2>2 DEF ArpIInv, ArpTypeOK, SentToItsHop, Nothing
<1> QED
  BY <1>4, <1>9, <1>10

LEMMA AskStep ==
  ASSUME ArpIInv, NEW ip \in Addr, AskOnly(ip)
  PROVE  ArpIInv'
<1> DEFINE e == IF Found(ip).state = "EMPTY"
                THEN [Found(ip) EXCEPT !.state = "PENDING"] ELSE Found(ip)
<1>1. /\ Found(ip) \in ArpEntries /\ Found(ip).ip = ip
      /\ Found(ip).q # NoAddr => Found(ip).state = "PENDING" /\ Found(ip).q = ip
      /\ Found(ip).state \in {"STABLE", "REREQUESTING"} => Found(ip).mac = heard[ip]
  BY FoundIsRight
<1>2. /\ e \in ArpEntries /\ e.ip = ip /\ e.q = Found(ip).q
      /\ e.q # NoAddr => e.state = "PENDING" /\ e.q = ip
      /\ e.state \in {"STABLE", "REREQUESTING"} => e.mac = heard[ip]
  BY <1>1 DEF ArpEntries
<1>3. copies \in Nat /\ Recycled(ip) \in {0, 1}
      /\ Queued({Find(ip)}) = Recycled(ip) + IF Found(ip).q # NoAddr THEN 1 ELSE 0
  <2>1. Find(ip) \in Index /\ Slot \in Index
    BY FindsIt, PlaceIsOne DEF ArpIInv
  <2>2. copies \in Nat
    BY CopiesCounted
  <2> QED
    BY <2>1, <2>2, WaitingOne, FreedByFind DEF Recycled, Queued, Waiting
<1>4. /\ arp_table' = [arp_table EXCEPT ![Find(ip)] = e] /\ copies' = copies - Recycled(ip)
      /\ UNCHANGED <<etharp_cached_entry, heard>> /\ sent' = Nothing
  BY DEF AskOnly
<1> HIDE DEF e
<1>5. copies' = copies - Queued({Find(ip)}) + (IF e.q # NoAddr THEN 1 ELSE 0)
  BY <1>2, <1>3, <1>4
<1>6. heard' \in [Addr -> Mac \cup {NoMac}] /\ heard' = heard
  BY <1>4 DEF ArpIInv, ArpTypeOK
<1>7. arp_table' \in [Index -> ArpEntries] /\ EntriesRight' /\ TableRight'
  BY <1>2, <1>4, <1>5, <1>6, SetEntry
<1> QED
  BY <1>4, <1>7 DEF ArpIInv, ArpTypeOK, SentToItsHop, Nothing

\* The timer: what it frees is counted off, and no age reaches MaxAge.
LEMMA TimerStep ==
  ASSUME ArpIInv, etharp_tmr
  PROVE  ArpIInv'
<1> DEFINE old(i) == [arp_table[i] EXCEPT !.ctime = @ + 1]
           gone == {i \in Index : State(i) # "EMPTY" /\ Expired(old(i))}
           all == {i \in Index : arp_table[i].q # NoAddr}
           new == {i \in Index : arp_table'[i].q # NoAddr}
<1>1. ASSUME NEW i \in Index
      PROVE  arp_table[i] \in ArpEntries /\ arp_table[i].ctime \in 0 .. MaxAge - 1
  BY DEF ArpIInv, ArpTypeOK, ArpEntries
<1>2. ASSUME NEW i \in Index
      PROVE  arp_table'[i] = IF State(i) = "EMPTY" THEN arp_table[i]
                             ELSE IF i \in gone THEN EmptyEntry
                             ELSE IF State(i) = "REREQUESTING" THEN [old(i) EXCEPT !.state = "STABLE"]
                             ELSE old(i)
  BY DEF etharp_tmr
<1>3. MaxAge \in Nat /\ MaxAge > 0
  BY ArpAssumption
<1>4. EmptyEntry \in ArpEntries /\ EmptyEntry.q = NoAddr /\ EmptyEntry.state = "EMPTY"
  BY <1>3 DEF EmptyEntry, ArpEntries
<1>5. ASSUME NEW i \in Index, State(i) # "EMPTY", i \notin gone
      PROVE  /\ arp_table'[i] \in ArpEntries /\ arp_table'[i].ip = arp_table[i].ip
             /\ arp_table'[i].mac = arp_table[i].mac /\ arp_table'[i].q = arp_table[i].q
             /\ Stable(i)' <=> Stable(i)
             /\ arp_table'[i].state = "PENDING" <=> arp_table[i].state = "PENDING"
             /\ arp_table'[i].state # "EMPTY"
  <2>1. arp_table[i].ctime + 1 \in 0 .. MaxAge - 1
    BY <1>1, <1>3, <1>5 DEF Expired, ArpEntries
  <2> DEFINE e == arp_table[i]
             o == old(i)
  <2>2. /\ o \in ArpEntries /\ o.ip = e.ip /\ o.mac = e.mac /\ o.q = e.q
        /\ o.state = e.state
    BY <1>1, <2>1 DEF ArpEntries
  <2>3. CASE e.state = "REREQUESTING"
    <3>1. arp_table'[i] = [o EXCEPT !.state = "STABLE"]
      BY <1>2, <1>5, <2>3 DEF State
    <3> HIDE DEF e, o
    <3>2. /\ [o EXCEPT !.state = "STABLE"] \in ArpEntries
          /\ [o EXCEPT !.state = "STABLE"].ip = e.ip /\ [o EXCEPT !.state = "STABLE"].mac = e.mac
          /\ [o EXCEPT !.state = "STABLE"].q = e.q
          /\ [o EXCEPT !.state = "STABLE"].state = "STABLE"
      BY <2>2 DEF ArpEntries
    <3> QED
      BY <2>3, <3>1, <3>2 DEF State, Stable, e
  <2>4. CASE e.state # "REREQUESTING"
    <3>1. arp_table'[i] = o
      BY <1>2, <1>5, <2>4 DEF State
    <3> HIDE DEF o
    <3> QED
      BY <1>5, <2>2, <2>4, <3>1 DEF State, Stable
  <2> QED
    BY <2>3, <2>4
<1>6. arp_table' \in [Index -> ArpEntries]
  <2>1. \A i \in Index : arp_table'[i] \in ArpEntries
    BY <1>1, <1>2, <1>4, <1>5
  <2> QED
    BY <2>1 DEF etharp_tmr
<1>7. \A i \in Index : State(i)' # "EMPTY" => State(i) # "EMPTY" /\ i \notin gone
  BY <1>2, <1>4 DEF State
<1>8. EntriesRight'
  <2> SUFFICES ASSUME NEW i \in Index
               PROVE  /\ State(i)' # "EMPTY" => arp_table'[i].ip \in Addr
                      /\ Stable(i)' => arp_table'[i].mac = heard'[arp_table'[i].ip]
    BY DEF EntriesRight
  <2>1. heard' = heard
    BY DEF etharp_tmr
  <2>2. Stable(i)' => State(i)' # "EMPTY"
    BY DEF Stable, State
  <2> QED
    BY <1>5, <1>7, <2>1, <2>2 DEF ArpIInv, EntriesRight
<1>9. \A i \in Index : arp_table'[i].q # NoAddr => i \notin gone /\ State(i) = "PENDING"
        /\ arp_table[i].q # NoAddr
  BY <1>2, <1>4, <1>5 DEF ArpIInv, TableRight
<1>10. \A i, j \in Index : i # j /\ State(i)' # "EMPTY" /\ State(j)' # "EMPTY" =>
         arp_table'[i].ip # arp_table'[j].ip
  <2> SUFFICES ASSUME NEW i \in Index, NEW j \in Index, i # j,
                      State(i)' # "EMPTY", State(j)' # "EMPTY"
               PROVE  arp_table'[i].ip # arp_table'[j].ip
    OBVIOUS
  <2>1. arp_table'[i].ip = arp_table[i].ip /\ arp_table'[j].ip = arp_table[j].ip
    BY <1>5, <1>7
  <2>2. State(i) # "EMPTY" /\ State(j) # "EMPTY"
    BY <1>7
  <2> QED
    BY <2>1, <2>2 DEF ArpIInv, TableRight
<1>11. \A i \in Index : arp_table'[i].q # NoAddr =>
         State(i)' = "PENDING" /\ arp_table'[i].q = arp_table'[i].ip
  BY <1>5, <1>9 DEF ArpIInv, TableRight, State
<1>12. copies' = Queued(Index)'
  <2>1. new = all \ gone
    <3>1. \A i \in Index : i \in new => i \in all /\ i \notin gone
      BY <1>9
    <3>2. \A i \in Index : i \in all /\ i \notin gone => i \in new
      BY <1>5 DEF ArpIInv, TableRight
    <3> QED
      BY <3>1, <3>2
  <2>2. IsFiniteSet(all)
    BY IndexFinite, FS_Subset
  <2>3. all \cap gone = {i \in gone : arp_table[i].q # NoAddr}
    OBVIOUS
  <2>4. copies' = copies - Queued(gone)
    BY DEF etharp_tmr
  <2>5. Queued(gone) = Cardinality(all \cap gone)
    BY <2>3 DEF Queued
  <2>6. copies = Cardinality(all)
    BY DEF ArpIInv, TableRight, Queued
  <2>7. Queued(Index)' = Cardinality(new)
    BY DEF Queued
  <2> HIDE DEF new, all, gone
  <2>8. Cardinality(all \ gone) = Cardinality(all) - Cardinality(all \cap gone)
    BY <2>2, FS_Difference
  <2> QED
    BY <2>1, <2>4, <2>5, <2>6, <2>7, <2>8
<1>13. UNCHANGED <<etharp_cached_entry, heard>> /\ sent' = Nothing
  BY DEF etharp_tmr
<1>14. TableRight'
  BY <1>10, <1>11, <1>12 DEF TableRight
<1> QED
  BY <1>6, <1>8, <1>13, <1>14 DEF ArpIInv, ArpTypeOK, SentToItsHop, Nothing

LEMMA OutputStep ==
  ASSUME ArpIInv, NEW ip \in Addr, etharp_output(ip)
  PROVE  ArpIInv'
<1> DEFINE i == OutputTo(ip)
           fit == {j \in Index : Stable(j) /\ arp_table[j].ip = ip}
<1>1. i \in Index /\ Stable(i) /\ arp_table[i].ip = ip
  <2>1. CASE HintFits(ip)
    BY <2>1 DEF HintFits, OutputTo, ArpIInv, ArpTypeOK
  <2>2. CASE ~HintFits(ip)
    <3>1. fit # {}
      BY <2>2 DEF etharp_output, For
    <3>2. Min(fit) \in fit
      BY <3>1, MinOf, IndexFinite
    <3> QED
      BY <2>2, <3>2 DEF OutputTo
  <2> QED
    BY <2>1, <2>2
<1>2. sent' = [hop |-> ip, mac |-> arp_table[i].mac] /\ heard' = heard /\ copies' = copies
      /\ etharp_cached_entry' = i
  BY DEF etharp_output
<1>3. arp_table[i].mac = heard[ip] /\ heard[ip] \in Mac \cup {NoMac}
  BY <1>1 DEF ArpIInv, EntriesRight, ArpTypeOK
<1>4. \/ UNCHANGED arp_table
      \/ arp_table' = [arp_table EXCEPT ![i].state = "REREQUESTING"]
  BY DEF etharp_output
<1> HIDE DEF i
<1>5. arp_table' \in [Index -> ArpEntries] /\ \A j \in Index :
        /\ arp_table'[j].ip = arp_table[j].ip /\ arp_table'[j].mac = arp_table[j].mac
        /\ arp_table'[j].q = arp_table[j].q
        /\ Stable(j)' <=> Stable(j)
        /\ State(j)' = "PENDING" <=> State(j) = "PENDING"
        /\ State(j)' = "EMPTY" <=> State(j) = "EMPTY"
  BY <1>1, <1>4 DEF ArpIInv, ArpTypeOK, ArpEntries, State, Stable
<1>6. EntriesRight'
  BY <1>2, <1>5 DEF ArpIInv, EntriesRight
<1>7. Queued(Index)' = Queued(Index)
  <2>1. {j \in Index : arp_table'[j].q # NoAddr} = {j \in Index : arp_table[j].q # NoAddr}
    BY <1>5
  <2> QED
    BY <2>1 DEF Queued
<1>8. TableRight'
  BY <1>2, <1>5, <1>7 DEF ArpIInv, TableRight
<1> QED
  BY <1>1, <1>2, <1>3, <1>5, <1>6, <1>8 DEF ArpIInv, ArpTypeOK, SentToItsHop

LEMMA AllEmpty ==
  /\ [i \in Index |-> EmptyEntry] \in [Index -> ArpEntries]
         /\ Waiting([i \in Index |-> EmptyEntry], Index) = 0
<1>1. EmptyEntry \in ArpEntries /\ EmptyEntry.q = NoAddr
  BY ArpAssumption DEF EmptyEntry, ArpEntries
<1>2. {i \in Index : [j \in Index |-> EmptyEntry][i].q # NoAddr} = {}
  BY <1>1
<1> QED
  BY <1>1, <1>2, FS_EmptySet DEF Waiting

LEMMA CleanupStep ==
  ASSUME ArpIInv, etharp_cleanup_netif
  PROVE  ArpIInv'
<1>1. /\ arp_table' = [i \in Index |-> EmptyEntry] /\ copies' = copies - Queued(Index)
      /\ UNCHANGED <<etharp_cached_entry, heard>> /\ sent' = Nothing
  BY DEF etharp_cleanup_netif
<1>2. arp_table' \in [Index -> ArpEntries] /\ Waiting(arp_table', Index) = 0
  BY <1>1, AllEmpty
<1>3. Queued(Index)' = 0
  BY <1>2 DEF Queued, Waiting
<1>4. copies' = 0
  BY <1>1, CopiesCounted DEF ArpIInv, TableRight
<1>5. \A i \in Index : State(i)' = "EMPTY" /\ arp_table'[i].q = NoAddr
  BY <1>1 DEF State, EmptyEntry
<1>6. EntriesRight' /\ TableRight'
  BY <1>3, <1>4, <1>5 DEF EntriesRight, TableRight, State, Stable
<1> QED
  BY <1>1, <1>2, <1>6 DEF ArpIInv, ArpTypeOK, SentToItsHop, Nothing

-----------------------------------------------------------------------------
LEMMA ArpInitRight ==
  ASSUME ArpInit
  PROVE  ArpIInv
<1>1. arp_table \in [Index -> ArpEntries] /\ Waiting(arp_table, Index) = 0
  BY AllEmpty DEF ArpInit
<1>2. Queued(Index) = copies
  BY <1>1 DEF Queued, Waiting, ArpInit
<1>3. \A i \in Index : State(i) = "EMPTY" /\ arp_table[i].q = NoAddr
  BY DEF State, EmptyEntry, ArpInit
<1>4. 0 \in Index
  BY ArpAssumption DEF Index
<1> QED
  BY <1>1, <1>2, <1>3, <1>4
  DEF ArpInit, ArpIInv, ArpTypeOK, EntriesRight, TableRight, SentToItsHop, Nothing, State, Stable

LEMMA ArpStepRight ==
  ASSUME ArpIInv, [ArpNext]_arpVars
  PROVE  ArpIInv'
<1>1. CASE UNCHANGED arpVars
  BY <1>1 DEF arpVars, ArpIInv, ArpTypeOK, EntriesRight, TableRight, SentToItsHop, State, Stable, Queued
<1>2. CASE etharp_tmr
  BY <1>2, TimerStep
<1>3. CASE etharp_cleanup_netif
  BY <1>3, CleanupStep
<1>4. CASE \E ip \in Addr : etharp_output(ip) \/ etharp_query(ip) \/ AskOnly(ip)
  BY <1>4, OutputStep, QueryStep, AskStep
<1>5. CASE \E ip \in Addr, mac \in Mac, forUs \in BOOLEAN : etharp_arp_input(ip, mac, forUs)
  BY <1>5, InputStep
<1> QED
  BY <1>1, <1>2, <1>3, <1>4, <1>5 DEF ArpNext

\* Whatever queries, answers, ageing and recycling come in which order: one entry for
\* a host, no packet waits where nothing is resolved, none is lost or freed twice
\* (etharp.c:178, 371, 507, 1156), and one that is sent goes to the hardware address
\* its next hop announced last, also through the cached entry, which may have been
\* recycled for another host (etharp.c:960, 490).
THEOREM TableCorrect == ArpSpec => []ArpInv
<1>1. ArpInit => ArpIInv
  BY ArpInitRight
<1>2. ArpIInv /\ [ArpNext]_arpVars => ArpIInv'
  BY ArpStepRight
<1>3. ArpIInv => ArpInv
  BY DEF ArpIInv, ArpInv
<1> QED
  BY <1>1, <1>2, <1>3, PTL DEF ArpSpec

-----------------------------------------------------------------------------
(* IGMP.                                                                   *)

IgmpEntries == [state : {"IDLE", "DELAYING"}, timer : Nat, use : Nat, last : BOOLEAN]

IgmpTypeOK ==
  /\ Members \subseteq Address
  /\ igmp_group_list \in [Members -> IgmpEntries]
  /\ users \in [Group -> Nat]
  /\ reporter \in [Address -> {"nobody", "us", "other"}]
  /\ due \in [Address -> Nat \cup {NotDue}]

\* The timer of a group with a query to answer runs, and ends before its time.
TimerRuns ==
  \A g \in Address : due[g] # NotDue =>
    g \in Members /\ Entry(g).state = "DELAYING" /\ 0 < Entry(g).timer /\ Entry(g).timer <= due[g]

\* An interface that is stopped is in no group.
StoppedIsEmpty == allsystems \notin Members => Members = {}

\* The host that reported last is delaying: only another one's report ends that.
LastDelays == \A g \in Members : Entry(g).last => Entry(g).state = "DELAYING"

IgmpIInv == IgmpTypeOK /\ TimerRuns /\ StoppedIsEmpty /\ LastDelays /\ UseCounted /\ StaysWhileUsed /\ LastIsUs

-----------------------------------------------------------------------------
LEMMA IgmpInitKeeps == IgmpInit => IgmpIInv
<1> SUFFICES ASSUME IgmpInit PROVE IgmpIInv
  OBVIOUS
<1>1. Members = {allsystems} /\ Entry(allsystems) = AllSystemsEntry
  BY DEF IgmpInit, Members, Entry
<1>2. IgmpTypeOK
  BY <1>1 DEF IgmpTypeOK, IgmpInit, Members, IgmpEntries, AllSystemsEntry, Address, NotDue
<1> QED
  BY <1>1, <1>2, IgmpAssumption
     DEF IgmpIInv, TimerRuns, StoppedIsEmpty, LastDelays, UseCounted, StaysWhileUsed, LastIsUs, IgmpInit, AllSystemsEntry, NotDue

\* A timer that is set runs out before the response time.
LEMMA TimesBelow == ASSUME NEW m \in Nat \ {0, 1}, NEW t \in Times(m) PROVE t \in Nat /\ 0 < t /\ t < m
  BY DEF Times

\* An entry after a query: its timer is not set to a later time, and not past the
\* response time.
After(e, f, m) ==
  /\ f \in IgmpEntries /\ f.use = e.use /\ f.last = e.last
  /\ f.state = "DELAYING" /\ 0 < f.timer /\ f.timer <= m
  /\ e.state = "DELAYING" /\ 0 < e.timer => f.timer <= e.timer

LEMMA EntryAfter ==
  ASSUME NEW e \in IgmpEntries, NEW m \in Nat \ {0, 1}, NEW t \in Times(m), NEW f
  PROVE  f = (IF SetsTimer(e, m) THEN [e EXCEPT !.timer = t, !.state = "DELAYING"] ELSE e)
           => After(e, f, m)
<1>1. t \in Nat /\ 0 < t /\ t < m /\ e.timer \in Nat
  BY TimesBelow DEF IgmpEntries
<1>2. ASSUME SetsTimer(e, m), f = [e EXCEPT !.timer = t, !.state = "DELAYING"]
      PROVE  After(e, f, m)
  <2>1. e.state = "DELAYING" /\ 0 < e.timer => m < e.timer
    BY <1>2 DEF SetsTimer, IgmpEntries
  <2>2. /\ f \in IgmpEntries /\ f.use = e.use /\ f.last = e.last
        /\ f.state = "DELAYING" /\ f.timer = t
    BY <1>1, <1>2 DEF IgmpEntries
  <2> QED
    BY <1>1, <2>1, <2>2 DEF After
<1>3. ASSUME ~ SetsTimer(e, m), f = e
      PROVE  After(e, f, m)
  <2>1. e.state = "DELAYING" /\ e.timer # 0 /\ ~ (m < e.timer)
    BY <1>3 DEF SetsTimer, IgmpEntries
  <2> QED
    BY <1>1, <1>3, <2>1 DEF After
<1> QED
  BY <1>2, <1>3

\* A query or a report of all groups adds and removes no entry.
LEMMA AskedEntries ==
  ASSUME IgmpTypeOK, NEW gs \in SUBSET Members, NEW m \in Nat \ {0, 1}, Asked(gs, m)
  PROVE  /\ Members' = Members
         /\ igmp_group_list' \in [Members -> IgmpEntries]
         /\ \A g \in Members : IF g \in gs THEN After(igmp_group_list[g], igmp_group_list'[g], m)
                               ELSE igmp_group_list'[g] = igmp_group_list[g]
<1>1. PICK time \in [gs -> Times(m)] :
        igmp_group_list' = [g \in Members |->
          IF g \in gs /\ SetsTimer(Entry(g), m)
          THEN [Entry(g) EXCEPT !.timer = time[g], !.state = "DELAYING"] ELSE Entry(g)]
  BY DEF Asked
<1>2. \A g \in Members : igmp_group_list[g] \in IgmpEntries
  BY DEF IgmpTypeOK
<1>3. Members' = Members
  BY <1>1 DEF Members
<1>4. \A g \in gs : After(igmp_group_list[g], igmp_group_list'[g], m)
  <2> TAKE g \in gs
  <2>1. igmp_group_list'[g] = IF SetsTimer(igmp_group_list[g], m)
          THEN [igmp_group_list[g] EXCEPT !.timer = time[g], !.state = "DELAYING"]
          ELSE igmp_group_list[g]
    BY <1>1 DEF Entry
  <2>2. time[g] \in Times(m)
    OBVIOUS
  <2> QED
    BY <1>2, <2>1, <2>2, EntryAfter
<1>5. \A g \in Members : g \notin gs => igmp_group_list'[g] = igmp_group_list[g]
  BY <1>1 DEF Entry
<1>6. \A g \in Members : igmp_group_list'[g] \in IgmpEntries
  BY <1>2, <1>4, <1>5 DEF After
<1>7. igmp_group_list' = [g \in Members |-> igmp_group_list'[g]]
  BY <1>1
<1> QED
  BY <1>3, <1>4, <1>5, <1>6, <1>7

LEMMA QueryKeeps ==
  ASSUME IgmpIInv, NEW gs \in SUBSET Members, NEW m \in Nat \ {0, 1}, Query(gs, m)
  PROVE  IgmpIInv'
<1> USE DEF IgmpIInv
<1> DEFINE New(g) == IF g \in gs THEN Sooner(g, m) ELSE due[g]
<1>1. due' = [g \in Address |-> New(g)] /\ users' = users /\ reporter' = reporter
  BY DEF Query
<1>2. /\ Members' = Members
      /\ igmp_group_list' \in [Members -> IgmpEntries]
      /\ \A g \in Members : IF g \in gs THEN After(igmp_group_list[g], igmp_group_list'[g], m)
                            ELSE igmp_group_list'[g] = igmp_group_list[g]
  BY AskedEntries DEF Query
<1>3. \A g \in Members : igmp_group_list[g] \in IgmpEntries /\ igmp_group_list'[g] \in IgmpEntries
  BY <1>2 DEF IgmpTypeOK
<1>4. IgmpTypeOK'
  BY <1>1, <1>2 DEF IgmpTypeOK, Sooner
<1>5. TimerRuns'
  <2> SUFFICES ASSUME NEW g \in Address, New(g) # NotDue
               PROVE  /\ g \in Members /\ igmp_group_list'[g].state = "DELAYING"
                      /\ 0 < igmp_group_list'[g].timer /\ igmp_group_list'[g].timer <= New(g)
    BY <1>1, <1>2 DEF TimerRuns, Entry
  <2>1. CASE g \in gs
    <3>1. After(igmp_group_list[g], igmp_group_list'[g], m)
      BY <1>2, <2>1
    <3>2. CASE New(g) = m
      BY <2>1, <3>1, <3>2 DEF After
    <3>3. CASE New(g) = due[g] /\ due[g] # NotDue
      <4>1. igmp_group_list[g].state = "DELAYING" /\ 0 < igmp_group_list[g].timer
            /\ igmp_group_list[g].timer <= due[g] /\ due[g] \in Nat
        BY <3>3 DEF TimerRuns, Entry, IgmpTypeOK, NotDue
      <4> QED
        BY <1>3, <2>1, <3>1, <3>3, <4>1 DEF After, IgmpEntries
    <3> QED
      BY <2>1, <3>2, <3>3 DEF Sooner
  <2>2. CASE g \notin gs
    BY <1>2, <2>2 DEF TimerRuns, Entry
  <2> QED
    BY <2>1, <2>2
<1>6. \A g \in Members : /\ igmp_group_list'[g].use = igmp_group_list[g].use
                         /\ igmp_group_list'[g].last = igmp_group_list[g].last
  BY <1>2 DEF After
<1>7. UseCounted' /\ StaysWhileUsed' /\ LastIsUs' /\ LastDelays' /\ StoppedIsEmpty'
  BY <1>1, <1>2, <1>6 DEF UseCounted, StaysWhileUsed, LastIsUs, LastDelays, StoppedIsEmpty, Entry, After
<1> QED
  BY <1>4, <1>5, <1>7

LEMMA GeneralQueryKeeps ==
  ASSUME 1 \notin Resp, IgmpIInv, NEW m \in Resp, GeneralQuery(m)
  PROVE  IgmpIInv'
<1>1. m \in Nat \ {1} /\ V1Tmr \in Nat \ {0, 1}
  BY IgmpAssumption
<1> DEFINE time == IF m = 0 THEN V1Tmr ELSE m
<1>2. time \in Nat \ {0, 1} /\ Query(Members \ {allsystems}, time)
  BY <1>1 DEF GeneralQuery
<1> QED
  BY <1>2, QueryKeeps

LEMMA GroupQueryKeeps ==
  ASSUME 1 \notin Resp, IgmpIInv, NEW m \in Resp, m > 0, NEW g \in Address, GroupQuery(g, m)
  PROVE  IgmpIInv'
<1>1. m \in Nat \ {0, 1} /\ {g} \in SUBSET Members /\ Query({g}, m)
  BY IgmpAssumption DEF GroupQuery
<1> QED
  BY <1>1, QueryKeeps

LEMMA ReportGroupsKeeps ==
  ASSUME IgmpIInv, igmp_report_groups
  PROVE  IgmpIInv'
<1> USE DEF IgmpIInv
<1>1. UNCHANGED <<users, reporter, due>> /\ Asked(Members, JoinTmr) /\ JoinTmr \in Nat \ {0, 1}
  BY IgmpAssumption DEF igmp_report_groups
<1>2. /\ Members' = Members
      /\ igmp_group_list' \in [Members -> IgmpEntries]
      /\ \A g \in Members : After(igmp_group_list[g], igmp_group_list'[g], JoinTmr)
  BY <1>1, AskedEntries
<1>3. IgmpTypeOK'
  BY <1>1, <1>2 DEF IgmpTypeOK
<1>4. TimerRuns'
  <2> SUFFICES ASSUME NEW g \in Address, due[g] # NotDue
               PROVE  /\ g \in Members /\ igmp_group_list'[g].state = "DELAYING"
                      /\ 0 < igmp_group_list'[g].timer /\ igmp_group_list'[g].timer <= due[g]
    BY <1>1, <1>2 DEF TimerRuns, Entry
  <2>1. /\ g \in Members /\ igmp_group_list[g].state = "DELAYING" /\ 0 < igmp_group_list[g].timer
        /\ igmp_group_list[g].timer <= due[g] /\ due[g] \in Nat
    BY DEF TimerRuns, Entry, IgmpTypeOK, NotDue
  <2>2. igmp_group_list[g] \in IgmpEntries /\ igmp_group_list'[g] \in IgmpEntries
    BY <1>2, <2>1 DEF IgmpTypeOK
  <2> QED
    BY <1>2, <2>1, <2>2 DEF After, IgmpEntries
<1>5. UseCounted' /\ StaysWhileUsed' /\ LastIsUs' /\ LastDelays' /\ StoppedIsEmpty'
  BY <1>1, <1>2 DEF UseCounted, StaysWhileUsed, LastIsUs, LastDelays, StoppedIsEmpty, Entry, After
<1> QED
  BY <1>3, <1>4, <1>5

LEMMA ReportHeardKeeps ==
  ASSUME IgmpIInv, NEW g \in Address, ReportHeard(g)
  PROVE  IgmpIInv'
<1> USE DEF IgmpIInv
<1> DEFINE e == igmp_group_list[g]  f == IF e.state = "DELAYING" THEN Heard(e) ELSE e
<1>1. /\ g \in Members /\ users' = users
      /\ igmp_group_list' = [igmp_group_list EXCEPT ![g] = f]
      /\ reporter' = [reporter EXCEPT ![g] = "other"]
      /\ due' = [due EXCEPT ![g] = NotDue]
  BY DEF ReportHeard
<1>2. e \in IgmpEntries
  BY <1>1 DEF IgmpTypeOK
<1>3. f \in IgmpEntries /\ f.use = e.use /\ ~ f.last
  <2>0. e.last => e.state = "DELAYING"
    BY <1>1 DEF LastDelays, Entry
  <2>1. CASE e.state = "DELAYING"
    BY <1>2, <2>1 DEF Heard, IgmpEntries
  <2>2. CASE e.state # "DELAYING"
    BY <1>2, <2>0, <2>2 DEF IgmpEntries
  <2> QED
    BY <2>1, <2>2
<1>4. Members' = Members
  BY <1>1 DEF Members, IgmpTypeOK
<1>5. IgmpTypeOK'
  BY <1>1, <1>3, <1>4 DEF IgmpTypeOK
<1>6. \A x \in Members : igmp_group_list'[x] = IF x = g THEN f ELSE igmp_group_list[x]
  BY <1>1 DEF IgmpTypeOK
<1>7. TimerRuns' /\ StoppedIsEmpty'
  BY <1>1, <1>4, <1>6 DEF TimerRuns, StoppedIsEmpty, IgmpTypeOK, Entry
<1>8. StaysWhileUsed' /\ UseCounted'
  BY <1>1, <1>3, <1>4, <1>6 DEF StaysWhileUsed, UseCounted, Entry
<1>9. LastDelays' /\ LastIsUs'
  BY <1>1, <1>3, <1>4, <1>6 DEF LastDelays, LastIsUs, IgmpTypeOK, Entry
<1> QED
  BY <1>5, <1>7, <1>8, <1>9

\* Joins, leaves, the timer, stop and start change the entries one at a time or all.
LEMMA JoinKeeps ==
  ASSUME IgmpIInv, NEW g \in Group, igmp_joingroup(g)
  PROVE  IgmpIInv'
<1> USE DEF IgmpIInv
<1>0. /\ g \in Address /\ due' = due /\ users' = [users EXCEPT ![g] = @ + 1]
      /\ allsystems \in Members /\ allsystems # g /\ users[g] \in Nat
  BY IgmpAssumption DEF igmp_joingroup, Address, IgmpTypeOK
<1>3. /\ users' \in [Group -> Nat]
      /\ \A x \in Group : users'[x] = IF x = g THEN users[g] + 1 ELSE users[x]
  BY <1>0 DEF IgmpTypeOK
<1>1. CASE g \in Members
  <2> DEFINE e == igmp_group_list[g]  f == [e EXCEPT !.use = @ + 1]
  <2>1. igmp_group_list' = [igmp_group_list EXCEPT ![g] = f] /\ reporter' = reporter
    BY <1>1 DEF igmp_joingroup
  <2>2. e \in IgmpEntries
    BY <1>1 DEF IgmpTypeOK
  <2>3. e.use \in Nat
    BY <2>2 DEF IgmpEntries
  <2>4. e.use + 1 \in Nat
    BY <2>3
  <2>5. /\ f \in IgmpEntries /\ f.use = e.use + 1
        /\ f.last = e.last /\ f.timer = e.timer /\ f.state = e.state
    BY <2>2, <2>4 DEF IgmpEntries
  <2>6. Members' = Members
    BY <2>1 DEF Members, IgmpTypeOK
  <2>7. \A x \in Members : igmp_group_list'[x] = IF x = g THEN f ELSE igmp_group_list[x]
    BY <2>1 DEF IgmpTypeOK
  <2>8. IgmpTypeOK'
    <3>1. igmp_group_list' \in [Members -> IgmpEntries]
      BY <2>1, <2>5 DEF IgmpTypeOK
    <3> QED
      BY <1>0, <1>3, <2>1, <2>6, <3>1 DEF IgmpTypeOK
  <2>9. TimerRuns' /\ StoppedIsEmpty'
    BY <1>0, <2>5, <2>6, <2>7 DEF TimerRuns, StoppedIsEmpty, Entry
  <2>10. UseCounted'
    BY <1>1, <1>3, <2>5, <2>6, <2>7 DEF UseCounted, Entry
  <2>11. StaysWhileUsed'
    BY <1>0, <1>1, <1>3, <2>6 DEF StaysWhileUsed
  <2>12. LastDelays' /\ LastIsUs'
    BY <2>1, <2>5, <2>6, <2>7 DEF LastDelays, LastIsUs, Entry
  <2> QED
    BY <2>8, <2>9, <2>10, <2>11, <2>12
<1>2. CASE g \notin Members
  <2>1. PICK ok \in BOOLEAN, time \in Times(JoinTmr) :
          LET e == [state |-> "DELAYING", timer |-> time, use |-> 1, last |-> FALSE] IN
          /\ igmp_group_list' = [x \in Members \cup {g} |-> IF x = g THEN Sent(e, ok) ELSE Entry(x)]
          /\ reporter' = [reporter EXCEPT ![g] = ReporterAfter(g, ok)]
    BY <1>2 DEF igmp_joingroup
  <2> DEFINE e == [state |-> "DELAYING", timer |-> time, use |-> 1, last |-> FALSE]
             f == Sent(e, ok)
  <2>2. time \in Nat
    BY <2>1, TimesBelow, IgmpAssumption
  <2>3. f \in IgmpEntries /\ f.use = 1 /\ f.state = "DELAYING" /\ (f.last => ok)
    BY <2>2 DEF IgmpEntries, Sent
  <2>4. users[g] = 0 /\ due[g] = NotDue
    BY <1>0, <1>2 DEF StaysWhileUsed, TimerRuns
  <2>5. Members' = Members \cup {g}
    BY <2>1 DEF Members
  <2>6. \A x \in Members' : igmp_group_list'[x] = IF x = g THEN f ELSE igmp_group_list[x]
    BY <2>1, <2>5 DEF Entry
  <2>7. igmp_group_list' \in [Members' -> IgmpEntries]
    <3>1. \A x \in Members' : igmp_group_list'[x] \in IgmpEntries
      BY <2>3, <2>5, <2>6 DEF IgmpTypeOK
    <3>2. igmp_group_list' = [x \in Members' |-> igmp_group_list'[x]]
      BY <2>1, <2>5
    <3> QED
      BY <3>1, <3>2
  <2>8. /\ reporter' \in [Address -> {"nobody", "us", "other"}]
        /\ ok => reporter'[g] = "us"
        /\ \A x \in Address : x # g => reporter'[x] = reporter[x]
    BY <1>0, <2>1 DEF IgmpTypeOK, ReporterAfter
  <2>9. IgmpTypeOK'
    BY <1>0, <2>5, <2>7, <2>8 DEF IgmpTypeOK
  <2>10. TimerRuns' /\ StoppedIsEmpty'
    BY <1>0, <2>4, <2>5, <2>6 DEF TimerRuns, StoppedIsEmpty, Entry
  <2>11. UseCounted' /\ StaysWhileUsed'
    <3>1. users'[g] = 1
      BY <1>3, <2>4
    <3>2. StaysWhileUsed'
      BY <1>3, <2>5, <3>1 DEF StaysWhileUsed
    <3>3. UseCounted'
      BY <1>3, <2>3, <2>5, <2>6, <3>1 DEF UseCounted, Entry
    <3> QED
      BY <3>2, <3>3
  <2>12. LastDelays' /\ LastIsUs'
    BY <2>3, <2>5, <2>6, <2>8 DEF LastDelays, LastIsUs, IgmpTypeOK, Entry
  <2> QED
    BY <2>9, <2>10, <2>11, <2>12
<1> QED
  BY <1>1, <1>2

LEMMA LeaveKeeps ==
  ASSUME IgmpIInv, NEW g \in Group, igmp_leavegroup(g)
  PROVE  IgmpIInv'
<1> USE DEF IgmpIInv
<1>0. /\ g \in Address /\ users' = [users EXCEPT ![g] = @ - 1]
      /\ users[g] \in Nat /\ users[g] > 0 /\ g \in Members
      /\ igmp_group_list[g].use = users[g] /\ allsystems # g
  BY IgmpAssumption DEF igmp_leavegroup, Address, IgmpTypeOK, StaysWhileUsed, UseCounted, Entry
<1>3. /\ users' \in [Group -> Nat]
      /\ \A x \in Group : users'[x] = IF x = g THEN users[g] - 1 ELSE users[x]
  BY <1>0 DEF IgmpTypeOK
<1>1. CASE Leaves(Entry(g))
  <2>1. /\ igmp_group_list' = [x \in Members \ {g} |-> igmp_group_list[x]]
        /\ reporter' = [reporter EXCEPT ![g] = "nobody"]
        /\ due' = [due EXCEPT ![g] = NotDue]
    BY <1>1 DEF igmp_leavegroup, Restrict
  <2>2. Members' = Members \ {g} /\ users[g] = 1
    BY <1>0, <1>1, <2>1 DEF Members, Leaves, Entry
  <2>3. IgmpTypeOK'
    BY <1>0, <2>1, <2>2 DEF IgmpTypeOK
  <2>4. TimerRuns'
    BY <1>0, <2>1, <2>2 DEF TimerRuns, IgmpTypeOK, Entry
  <2>5. UseCounted' /\ StaysWhileUsed'
    BY <1>0, <2>1, <2>2 DEF UseCounted, StaysWhileUsed, IgmpTypeOK, Entry
  <2>6. LastDelays' /\ LastIsUs' /\ StoppedIsEmpty'
    <3>1. \A x \in Members \ {g} : reporter'[x] = reporter[x]
      BY <2>1 DEF IgmpTypeOK
    <3> QED
      BY <1>0, <2>1, <2>2, <3>1 DEF LastDelays, LastIsUs, StoppedIsEmpty, Entry
  <2> QED
    BY <2>3, <2>4, <2>5, <2>6
<1>2. CASE ~ Leaves(Entry(g))
  <2> DEFINE e == igmp_group_list[g]  f == [e EXCEPT !.use = @ - 1]
  <2>1. igmp_group_list' = [igmp_group_list EXCEPT ![g] = f] /\ reporter' = reporter /\ due' = due
    BY <1>2 DEF igmp_leavegroup
  <2>2. e \in IgmpEntries /\ e.use = users[g] /\ users[g] > 1
    BY <1>0, <1>2 DEF IgmpTypeOK, Leaves, Entry
  <2>3. e.use - 1 \in Nat
    BY <1>0, <2>2
  <2>5. /\ f \in IgmpEntries /\ f.use = e.use - 1
        /\ f.last = e.last /\ f.timer = e.timer /\ f.state = e.state
    BY <2>2, <2>3 DEF IgmpEntries
  <2>6. Members' = Members
    BY <2>1 DEF Members, IgmpTypeOK
  <2>7. \A x \in Members : igmp_group_list'[x] = IF x = g THEN f ELSE igmp_group_list[x]
    BY <2>1 DEF IgmpTypeOK
  <2>8. IgmpTypeOK'
    BY <1>0, <2>1, <2>2, <2>5, <2>6 DEF IgmpTypeOK
  <2>9. TimerRuns' /\ StoppedIsEmpty'
    BY <2>1, <2>5, <2>6, <2>7 DEF TimerRuns, StoppedIsEmpty, Entry
  <2>10. UseCounted' /\ StaysWhileUsed'
    <3>1. users'[g] > 0 /\ f.use = users'[g]
      BY <1>0, <1>3, <2>2, <2>5
    <3> QED
      BY <1>0, <1>3, <2>6, <2>7, <3>1 DEF UseCounted, StaysWhileUsed, Entry
  <2>12. LastDelays' /\ LastIsUs'
    BY <2>1, <2>5, <2>6, <2>7 DEF LastDelays, LastIsUs, Entry
  <2> QED
    BY <2>8, <2>9, <2>10, <2>12
<1> QED
  BY <1>1, <1>2

\* The timers of all groups count at once.
Counted(e) == [e EXCEPT !.timer = IF @ > 0 THEN @ - 1 ELSE 0]

LEMMA CountedEntry ==
  ASSUME NEW e \in IgmpEntries
  PROVE  /\ Counted(e) \in IgmpEntries /\ Counted(e).use = e.use
         /\ Counted(e).last = e.last /\ Counted(e).state = e.state
         /\ Counted(e).timer = IF e.timer > 0 THEN e.timer - 1 ELSE 0
<1> DEFINE t == IF e.timer > 0 THEN e.timer - 1 ELSE 0
<1>1. e.timer \in Nat
  BY DEF IgmpEntries
<1>2. t \in Nat
  BY <1>1
<1>3. Counted(e) = [e EXCEPT !.timer = t]
  BY DEF Counted
<1> HIDE DEF t
<1>4. /\ Counted(e) \in IgmpEntries /\ Counted(e).use = e.use
      /\ Counted(e).last = e.last /\ Counted(e).state = e.state
      /\ Counted(e).timer = t
  BY <1>2, <1>3 DEF IgmpEntries
<1> QED
  BY <1>4 DEF t

LEMMA SentEntry ==
  ASSUME NEW e \in IgmpEntries, NEW ok \in BOOLEAN
  PROVE  /\ Sent(e, ok) \in IgmpEntries /\ Sent(e, ok).use = e.use
         /\ Sent(e, ok).timer = e.timer /\ Sent(e, ok).state = e.state
         /\ Sent(e, ok).last = (ok \/ e.last)
  BY DEF Sent, IgmpEntries

LEMMA TimerKeeps ==
  ASSUME IgmpIInv, igmp_tmr
  PROVE  IgmpIInv'
<1> USE DEF IgmpIInv
<1> DEFINE f(g, k) == IF Fires(g) THEN Sent(Counted(igmp_group_list[g]), k) ELSE Counted(igmp_group_list[g])
<1>1. PICK ok \in [Members -> BOOLEAN] :
    /\ igmp_group_list' = [g \in Members |->
         LET e == [Entry(g) EXCEPT !.timer = IF @ > 0 THEN @ - 1 ELSE 0] IN
         IF Fires(g) THEN Sent(e, ok[g]) ELSE e]
    /\ reporter' = [g \in Address |->
         IF g \in Members /\ Fires(g) THEN ReporterAfter(g, ok[g]) ELSE reporter[g]]
    /\ due' = [g \in Address |->
         IF due[g] = NotDue \/ Fires(g) THEN NotDue ELSE due[g] - 1]
    /\ users' = users
  BY DEF igmp_tmr
<1>2. igmp_group_list' = [g \in Members |-> f(g, ok[g])]
  BY <1>1 DEF Entry, Counted
<1>3. Members' = Members
  BY <1>2 DEF Members
<1>4. ASSUME NEW g \in Members
      PROVE  /\ igmp_group_list'[g] \in IgmpEntries
             /\ igmp_group_list'[g].use = igmp_group_list[g].use
             /\ igmp_group_list'[g].state = igmp_group_list[g].state
             /\ igmp_group_list'[g].timer =
                  IF igmp_group_list[g].timer > 0 THEN igmp_group_list[g].timer - 1 ELSE 0
             /\ igmp_group_list'[g].last = (igmp_group_list[g].last \/ (Fires(g) /\ ok[g]))
  <2> DEFINE e == igmp_group_list[g]
  <2>1. e \in IgmpEntries /\ ok[g] \in BOOLEAN
    BY DEF IgmpTypeOK
  <2>2. /\ Counted(e) \in IgmpEntries /\ Counted(e).use = e.use
        /\ Counted(e).last = e.last /\ Counted(e).state = e.state
        /\ Counted(e).timer = IF e.timer > 0 THEN e.timer - 1 ELSE 0
    BY <2>1, CountedEntry
  <2>3. CASE Fires(g)
    <3>1. igmp_group_list'[g] = Sent(Counted(e), ok[g])
      BY <1>2, <2>3
    <3>2. /\ Sent(Counted(e), ok[g]) \in IgmpEntries /\ Sent(Counted(e), ok[g]).use = Counted(e).use
          /\ Sent(Counted(e), ok[g]).timer = Counted(e).timer
          /\ Sent(Counted(e), ok[g]).state = Counted(e).state
          /\ Sent(Counted(e), ok[g]).last = (ok[g] \/ Counted(e).last)
      BY <2>1, <2>2, SentEntry
    <3> HIDE DEF e
    <3>3. igmp_group_list'[g].last = (e.last \/ (Fires(g) /\ ok[g]))
      BY <2>2, <2>3, <3>1, <3>2, Zenon
    <3>4. /\ igmp_group_list'[g] \in IgmpEntries /\ igmp_group_list'[g].use = e.use
          /\ igmp_group_list'[g].state = e.state
          /\ igmp_group_list'[g].timer = IF e.timer > 0 THEN e.timer - 1 ELSE 0
      BY <2>2, <3>1, <3>2
    <3> QED
      BY <3>3, <3>4, Zenon DEF e
  <2>4. CASE ~ Fires(g)
    <3>1. igmp_group_list'[g] = Counted(e)
      BY <1>2, <2>4
    <3> HIDE DEF e
    <3>2. igmp_group_list'[g].last = (e.last \/ (Fires(g) /\ ok[g]))
      <4>1. e.last = TRUE \/ e.last = FALSE
        BY <2>1 DEF IgmpEntries
      <4> QED
        BY <2>2, <2>4, <3>1, <4>1, Zenon
    <3>3. /\ igmp_group_list'[g] \in IgmpEntries /\ igmp_group_list'[g].use = e.use
          /\ igmp_group_list'[g].state = e.state
          /\ igmp_group_list'[g].timer = IF e.timer > 0 THEN e.timer - 1 ELSE 0
      BY <2>2, <3>1
    <3> QED
      BY <3>2, <3>3, Zenon DEF e
  <2> QED
    BY <2>3, <2>4
<1>5. IgmpTypeOK'
  <2>1. igmp_group_list' \in [Members -> IgmpEntries]
    BY <1>2, <1>4
  <2>2. reporter' \in [Address -> {"nobody", "us", "other"}]
    BY <1>1 DEF IgmpTypeOK, ReporterAfter
  <2>3. due' \in [Address -> Nat \cup {NotDue}]
    <3>1. \A g \in Address : due[g] # NotDue => due[g] \in Nat /\ due[g] > 0
      BY DEF IgmpTypeOK, TimerRuns, Entry, IgmpEntries, NotDue
    <3> QED
      BY <1>1, <3>1 DEF NotDue
  <2> QED
    BY <1>1, <1>3, <2>1, <2>2, <2>3 DEF IgmpTypeOK
<1>6. TimerRuns'
  <2> SUFFICES ASSUME NEW g \in Address, due'[g] # NotDue
               PROVE  /\ g \in Members /\ igmp_group_list'[g].state = "DELAYING"
                      /\ 0 < igmp_group_list'[g].timer /\ igmp_group_list'[g].timer <= due'[g]
    BY <1>3 DEF TimerRuns, Entry
  <2>1. due[g] # NotDue /\ ~ Fires(g) /\ due'[g] = due[g] - 1 /\ due[g] \in Nat
    BY <1>1 DEF IgmpTypeOK
  <2>2. /\ g \in Members /\ igmp_group_list[g].state = "DELAYING"
        /\ 0 < igmp_group_list[g].timer /\ igmp_group_list[g].timer <= due[g]
    BY <2>1 DEF TimerRuns, Entry
  <2>3. igmp_group_list[g].timer \in Nat /\ igmp_group_list[g].timer # 1
    BY <2>1, <2>2 DEF IgmpTypeOK, IgmpEntries, Fires, Entry
  <2> QED
    BY <1>4, <2>1, <2>2, <2>3
<1>7. UseCounted' /\ StaysWhileUsed' /\ StoppedIsEmpty'
  BY <1>1, <1>3, <1>4 DEF UseCounted, StaysWhileUsed, StoppedIsEmpty, Entry
<1>8. LastDelays' /\ LastIsUs'
  <2> SUFFICES ASSUME NEW g \in Members, igmp_group_list'[g].last
               PROVE  igmp_group_list[g].state = "DELAYING" /\ reporter'[g] = "us"
    BY <1>3, <1>4 DEF LastDelays, LastIsUs, Entry
  <2>1. g \in Address
    BY DEF IgmpTypeOK
  <2>2. CASE Fires(g) /\ ok[g]
    BY <1>1, <2>1, <2>2 DEF Fires, Entry, ReporterAfter
  <2>3. CASE ~ (Fires(g) /\ ok[g])
    <3>1. igmp_group_list[g].last
      BY <1>4, <2>3, Zenon
    <3> QED
      BY <1>1, <2>1, <2>3, <3>1 DEF LastDelays, LastIsUs, Entry, ReporterAfter
  <2> QED
    BY <2>2, <2>3
<1> QED
  BY <1>5, <1>6, <1>7, <1>8

LEMMA StopKeeps == ASSUME IgmpIInv, igmp_stop PROVE IgmpIInv'
<1>1. Members' = {}
  BY DEF igmp_stop, Members, Restrict
<1>2. igmp_group_list' = [g \in {} |-> igmp_group_list[g]]
  BY DEF igmp_stop, Restrict
<1>3. IgmpTypeOK'
  BY <1>1, <1>2 DEF IgmpIInv, IgmpTypeOK, igmp_stop, NotDue
<1> QED
  BY <1>1, <1>3 DEF IgmpIInv, TimerRuns, StoppedIsEmpty, LastDelays, UseCounted, StaysWhileUsed,
     LastIsUs, igmp_stop

LEMMA StartKeeps == ASSUME IgmpIInv, igmp_start PROVE IgmpIInv'
<1>1. /\ Members' = {allsystems} /\ igmp_group_list'[allsystems] = AllSystemsEntry
      /\ Members = {} /\ allsystems \notin Group
      /\ UNCHANGED <<users, reporter, due>>
  BY IgmpAssumption DEF igmp_start, Members, IgmpIInv, StoppedIsEmpty
<1>2. AllSystemsEntry \in IgmpEntries
  BY DEF AllSystemsEntry, IgmpEntries
<1>3. IgmpTypeOK'
  BY <1>1, <1>2 DEF IgmpIInv, IgmpTypeOK, igmp_start, Address
<1>4. ~ AllSystemsEntry.last
  BY DEF AllSystemsEntry
<1> QED
  BY <1>1, <1>3, <1>4 DEF IgmpIInv, TimerRuns, StoppedIsEmpty, LastDelays, UseCounted, StaysWhileUsed,
     LastIsUs, Entry

LEMMA IgmpStepKeeps == ASSUME 1 \notin Resp, IgmpIInv, IgmpNext PROVE IgmpIInv'
<1>1. CASE igmp_tmr  BY <1>1, TimerKeeps
<1>2. CASE igmp_report_groups  BY <1>2, ReportGroupsKeeps
<1>3. CASE igmp_stop  BY <1>3, StopKeeps
<1>4. CASE igmp_start  BY <1>4, StartKeeps
<1>5. CASE \E m \in Resp : GeneralQuery(m) \/ \E g \in Address : m > 0 /\ GroupQuery(g, m)
  BY <1>5, GeneralQueryKeeps, GroupQueryKeeps
<1>6. CASE \E g \in Address : ReportHeard(g)  BY <1>6, ReportHeardKeeps
<1>7. CASE \E g \in Group : igmp_joingroup(g) \/ igmp_leavegroup(g)
  BY <1>7, JoinKeeps, LeaveKeeps
<1> QED
  BY <1>1, <1>2, <1>3, <1>4, <1>5, <1>6, <1>7 DEF IgmpNext

\* A group has its entry exactly as long as somebody who joined it has not left, a leave
\* message is sent only by the host that reported last, and every query is answered
\* within its time, for all groups and delays and all response times above 1.
THEOREM MembershipCorrect ==
  ASSUME 1 \notin Resp
  PROVE  IgmpSpec => []IgmpInv
<1>1. IgmpInit => IgmpIInv
  BY IgmpInitKeeps
<1>2. IgmpIInv /\ [IgmpNext]_igmpVars => IgmpIInv'
  <2> SUFFICES ASSUME IgmpIInv, [IgmpNext]_igmpVars PROVE IgmpIInv'
    OBVIOUS
  <2>1. CASE IgmpNext
    BY <2>1, IgmpStepKeeps
  <2>2. CASE UNCHANGED igmpVars
    BY <2>2 DEF IgmpIInv, IgmpTypeOK, TimerRuns, StoppedIsEmpty, LastDelays, UseCounted, StaysWhileUsed,
       LastIsUs, igmpVars, Members, Entry
  <2> QED
    BY <2>1, <2>2
<1>3. IgmpIInv => IgmpInv
  <2> SUFFICES ASSUME IgmpIInv PROVE AnsweredInTime
    BY DEF IgmpIInv, IgmpInv
  <2>1. \A g \in Address : due[g] # NotDue => due[g] \in Nat /\ due[g] > 0
    BY DEF IgmpIInv, IgmpTypeOK, TimerRuns, Entry, IgmpEntries, NotDue
  <2> QED
    BY <2>1 DEF AnsweredInTime, NotDue
<1> QED
  BY <1>1, <1>2, <1>3, PTL DEF IgmpSpec

-----------------------------------------------------------------------------
(* Sums of the first values of a sequence, and sequences with one more or less. *)

\* Sums of the first i values exist.
LEMMA PrefixSums ==
  ASSUME NEW f
  PROVE  \E g : g = [i \in Nat |-> IF i = 0 THEN 0 ELSE g[i - 1] + f[i]]
<1> DEFINE Good(g, n) == g[0] = 0 /\ \A i \in 1 .. n : g[i] = g[i - 1] + f[i]
           N == {n \in Nat : \E g : Good(g, n)}
           Same(n) == \A g, e : Good(g, n) /\ Good(e, n) => g[n] = e[n]
           U == {n \in Nat : Same(n)}
<1>1. Nat \subseteq N
  <2>1. 0 \in N
    <3>1. Good([i \in Nat |-> 0], 0)
      OBVIOUS
    <3> QED
      BY <3>1
  <2>2. ASSUME NEW n \in Nat, n \in N PROVE n + 1 \in N
    <3>1. PICK g : Good(g, n)
      BY <2>2
    <3> DEFINE e == [i \in Nat |-> IF i = n + 1 THEN g[n] + f[n + 1] ELSE g[i]]
    <3>2. \A i \in 1 .. n + 1 : e[i] = e[i - 1] + f[i]
      <4> TAKE i \in 1 .. n + 1
      <4>1. CASE i = n + 1
        <5>1. e[i] = g[n] + f[n + 1] /\ e[i - 1] = g[n]
          BY <4>1
        <5> QED
          BY <4>1, <5>1
      <4>2. CASE i # n + 1
        <5>1. i \in 1 .. n /\ i - 1 \in Nat /\ i - 1 # n + 1 /\ i \in Nat
          BY <4>2
        <5>2. e[i] = g[i] /\ e[i - 1] = g[i - 1]
          BY <4>2, <5>1
        <5> QED
          BY <3>1, <5>1, <5>2
      <4> QED
        BY <4>1, <4>2
    <3>3. e[0] = 0
      BY <3>1
    <3>4. Good(e, n + 1)
      BY <3>2, <3>3
    <3>5. \E x : Good(x, n + 1)
      <4> HIDE DEF Good, e
      <4> QED
        BY <3>4
    <3> QED
      BY <3>5
  <2> HIDE DEF N
  <2> QED
    BY <2>1, <2>2, NatSet
<1>2. ASSUME NEW n \in Nat, NEW m \in Nat, m <= n, NEW g, Good(g, n) PROVE Good(g, m)
  BY <1>2
<1>3. Nat \subseteq U
  <2>1. 0 \in U
    OBVIOUS
  <2>2. ASSUME NEW n \in Nat, n \in U PROVE n + 1 \in U
    <3>1. ASSUME NEW g, NEW e, Good(g, n + 1), Good(e, n + 1) PROVE g[n + 1] = e[n + 1]
      <4>1. Good(g, n) /\ Good(e, n)
        <5>1. n + 1 \in Nat /\ n <= n + 1
          OBVIOUS
        <5> HIDE DEF Good
        <5> QED
          BY <5>1, <3>1, <1>2
      <4>2. g[n] = e[n]
        <5> HIDE DEF Good
        <5> QED
          BY <4>1, <2>2
      <4>3. n + 1 \in 1 .. n + 1 /\ (n + 1) - 1 = n
        OBVIOUS
      <4> QED
        BY <3>1, <4>2, <4>3
    <3>2. Same(n + 1)
      <4> HIDE DEF Good
      <4> QED
        BY <3>1
    <3> HIDE DEF Same
    <3> QED
      BY <3>2
  <2> HIDE DEF U
  <2> QED
    BY <2>1, <2>2, NatSet
<1> DEFINE c == [n \in Nat |-> CHOOSE g : Good(g, n)]
           G == [n \in Nat |-> c[n][n]]
<1>4. \A n \in Nat : Good(c[n], n)
  <2> HIDE DEF Good
  <2> QED
    BY <1>1
<1>5. \A n \in Nat : Same(n)
  <2> HIDE DEF Same
  <2> QED
    BY <1>3
<1> HIDE DEF c
<1>6. G[0] = 0
  BY <1>4
<1>7. \A n \in Nat : G[n + 1] = G[n] + f[n + 1]
  <2> TAKE n \in Nat
  <2>1. n + 1 \in Nat /\ n <= n + 1
    OBVIOUS
  <2>2. Good(c[n + 1], n + 1) /\ Good(c[n], n)
    <3> HIDE DEF Good
    <3> QED
      BY <2>1, <1>4
  <2>3. Good(c[n + 1], n)
    <3> HIDE DEF Good
    <3> QED
      BY <2>1, <2>2, <1>2
  <2>4. c[n + 1][n] = c[n][n]
    <3> HIDE DEF Good
    <3> QED
      BY <2>2, <2>3, <1>5
  <2>5. c[n + 1][n + 1] = c[n + 1][n] + f[n + 1]
    <3>1. n + 1 \in 1 .. n + 1 /\ (n + 1) - 1 = n
      OBVIOUS
    <3> QED
      BY <2>2, <3>1
  <2> QED
    BY <2>1, <2>4, <2>5
<1>8. G = [i \in Nat |-> IF i = 0 THEN 0 ELSE G[i - 1] + f[i]]
  <2>1. ASSUME NEW i \in Nat PROVE G[i] = IF i = 0 THEN 0 ELSE G[i - 1] + f[i]
    <3>1. CASE i = 0
      BY <3>1, <1>6
    <3>2. CASE i # 0
      <4>1. PICK n \in Nat : i = n + 1 /\ i - 1 = n
        BY <3>2
      <4>2. G[n + 1] = G[n] + f[n + 1]
        BY <1>7
      <4> HIDE DEF G
      <4> QED
        BY <4>1, <4>2, <3>2
    <3> QED
      BY <3>1, <3>2
  <2>2. G = [i \in Nat |-> G[i]]
    OBVIOUS
  <2> HIDE DEF G
  <2> QED
    BY <2>1, <2>2
<1> HIDE DEF G
<1> QED
  BY <1>8

\* What InsertAt and RemoveAt do.
LEMMA InsertedAt ==
  ASSUME NEW E, NEW s \in Seq(E), NEW i \in 1 .. Len(s) + 1, NEW e \in E
  PROVE  /\ InsertAt(s, i, e) \in Seq(E) /\ Len(InsertAt(s, i, e)) = Len(s) + 1
         /\ \A j \in 1 .. Len(s) + 1 : InsertAt(s, i, e)[j] =
              IF j < i THEN s[j] ELSE IF j = i THEN e ELSE s[j - 1]
<1> DEFINE a == SubSeq(s, 1, i - 1)
           b == SubSeq(s, i, Len(s))
<1>1. /\ a \in Seq(E) /\ Len(a) = i - 1 /\ \A j \in 1 .. i - 1 : a[j] = s[j]
      /\ b \in Seq(E) /\ Len(b) = Len(s) - i + 1 /\ \A j \in 1 .. Len(s) - i + 1 : b[j] = s[i + j - 1]
  OBVIOUS
<1>2. <<e>> \in Seq(E) /\ Len(<<e>>) = 1 /\ <<e>>[1] = e
  OBVIOUS
<1> DEFINE c == a \o <<e>>
<1> HIDE DEF a, b
<1>3. /\ c \in Seq(E) /\ Len(c) = i
      /\ \A j \in 1 .. i : c[j] = IF j < i THEN s[j] ELSE e
  BY <1>1, <1>2
<1> HIDE DEF c
<1>4. /\ c \o b \in Seq(E) /\ Len(c \o b) = Len(s) + 1
      /\ \A j \in 1 .. Len(s) + 1 : (c \o b)[j] = IF j <= i THEN c[j] ELSE b[j - i]
  <2>1. /\ c \o b \in Seq(E) /\ Len(c \o b) = Len(c) + Len(b)
        /\ \A j \in 1 .. Len(c) + Len(b) :
             (c \o b)[j] = IF j <= Len(c) THEN c[j] ELSE b[j - Len(c)]
    BY <1>1, <1>3, ConcatProperties
  <2>2. Len(c) + Len(b) = Len(s) + 1 /\ Len(c) = i
    BY <1>1, <1>3
  <2> QED
    BY <2>1, <2>2
<1>5. InsertAt(s, i, e) = c \o b
  BY DEF InsertAt, a, b, c
<1>6. ASSUME NEW j \in 1 .. Len(s) + 1
      PROVE  (c \o b)[j] = IF j < i THEN s[j] ELSE IF j = i THEN e ELSE s[j - 1]
  <2>1. CASE j <= i
    BY <2>1, <1>3, <1>4
  <2>2. CASE ~(j <= i)
    <3>1. j - i \in 1 .. Len(s) - i + 1 /\ i + (j - i) - 1 = j - 1
      BY <2>2
    <3> QED
      BY <2>2, <3>1, <1>1, <1>4
  <2> QED
    BY <2>1, <2>2
<1> QED
  BY <1>4, <1>5, <1>6

LEMMA RemovedAt ==
  ASSUME NEW E, NEW s \in Seq(E), NEW i \in 1 .. Len(s)
  PROVE  /\ RemoveAt(s, i) \in Seq(E) /\ Len(RemoveAt(s, i)) = Len(s) - 1
         /\ \A j \in 1 .. Len(s) - 1 : RemoveAt(s, i)[j] = IF j < i THEN s[j] ELSE s[j + 1]
<1> DEFINE a == SubSeq(s, 1, i - 1)
           b == SubSeq(s, i + 1, Len(s))
<1>1. /\ a \in Seq(E) /\ Len(a) = i - 1 /\ \A j \in 1 .. i - 1 : a[j] = s[j]
      /\ b \in Seq(E) /\ Len(b) = Len(s) - i /\ \A j \in 1 .. Len(s) - i : b[j] = s[i + j]
  OBVIOUS
<1> HIDE DEF a, b
<1>2. /\ a \o b \in Seq(E) /\ Len(a \o b) = Len(s) - 1
      /\ \A j \in 1 .. Len(s) - 1 : (a \o b)[j] = IF j < i THEN a[j] ELSE b[j - i + 1]
  <2>1. /\ a \o b \in Seq(E) /\ Len(a \o b) = Len(a) + Len(b)
        /\ \A j \in 1 .. Len(a) + Len(b) :
             (a \o b)[j] = IF j <= Len(a) THEN a[j] ELSE b[j - Len(a)]
    BY <1>1, ConcatProperties
  <2>2. Len(a) + Len(b) = Len(s) - 1 /\ Len(a) = i - 1
    BY <1>1
  <2> QED
    BY <2>1, <2>2
<1>3. RemoveAt(s, i) = a \o b
  BY DEF RemoveAt, a, b
<1>4. ASSUME NEW j \in 1 .. Len(s) - 1
      PROVE  (a \o b)[j] = IF j < i THEN s[j] ELSE s[j + 1]
  <2>1. CASE j < i
    BY <2>1, <1>1, <1>2
  <2>2. CASE ~(j < i)
    <3>1. j - i + 1 \in 1 .. Len(s) - i /\ i + (j - i + 1) = j + 1
      BY <2>2
    <3> QED
      BY <2>2, <3>1, <1>1, <1>2
  <2> QED
    BY <2>1, <2>2
<1> QED
  BY <1>2, <1>3, <1>4

-----------------------------------------------------------------------------
(* Lists of timers.                                                        *)

Timer == [h : Handler, time : Nat, real : Nat]

\* DueAt of any list.
Dues(list) ==
  CHOOSE d : d = [i \in Nat |-> IF i = 0 THEN 0 ELSE d[i - 1] + list[i].time]

LEMMA DueAtIsDues == DueAt = Dues(next_timeout)
  BY DEF DueAt, Dues

LEMMA DuesStep ==
  ASSUME NEW list
  PROVE  /\ Dues(list)[0] = 0
         /\ \A i \in Nat \ {0} : Dues(list)[i] = Dues(list)[i - 1] + list[i].time
<1> DEFINE f == [i \in Nat |-> list[i].time]
<1>1. PICK g : g = [i \in Nat |-> IF i = 0 THEN 0 ELSE g[i - 1] + f[i]]
  <2> HIDE DEF f
  <2> QED
    BY PrefixSums
<1>2. \A i \in Nat : g[i] = IF i = 0 THEN 0 ELSE g[i - 1] + list[i].time
  BY <1>1
<1>3. g = [i \in Nat |-> IF i = 0 THEN 0 ELSE g[i - 1] + list[i].time]
  <2>1. g = [i \in Nat |-> g[i]]
    BY <1>1
  <2> QED
    BY <1>2, <2>1
<1>4. Dues(list) = [i \in Nat |-> IF i = 0 THEN 0 ELSE Dues(list)[i - 1] + list[i].time]
  BY <1>3 DEF Dues
<1>5. /\ Dues(list)[0] = 0
      /\ \A i \in Nat \ {0} : Dues(list)[i] = Dues(list)[i - 1] + list[i].time
  BY <1>4
<1> QED
  BY <1>5

LEMMA DuesNext ==
  ASSUME NEW list, NEW i \in Nat
  PROVE  Dues(list)[i + 1] = Dues(list)[i] + list[i + 1].time
<1>1. i + 1 \in Nat \ {0} /\ (i + 1) - 1 = i
  OBVIOUS
<1>2. Dues(list)[i + 1] = Dues(list)[(i + 1) - 1] + list[i + 1].time
  BY <1>1, DuesStep
<1> QED
  BY <1>1, <1>2

LEMMA TimerAt ==
  ASSUME NEW list \in Seq(Timer)
  PROVE  \A i \in 1 .. Len(list) : /\ list[i] \in Timer
                                  /\ list[i].h \in Handler /\ list[i].time \in Nat /\ list[i].real \in Nat
<1>1. \A i \in 1 .. Len(list) : list[i] \in Timer
  BY ElementOfSeq
<1> QED
  BY <1>1 DEF Timer

LEMMA DuesNat ==
  ASSUME NEW list \in Seq(Timer)
  PROVE  \A i \in 0 .. Len(list) : Dues(list)[i] \in Nat
<1> DEFINE N == {n \in Nat : n <= Len(list) => Dues(list)[n] \in Nat}
<1>1. 0 \in N
  BY DuesStep
<1>2. ASSUME NEW n \in Nat, n \in N PROVE n + 1 \in N
  <2>1. CASE n + 1 <= Len(list)
    <3>1. Dues(list)[n + 1] = Dues(list)[n] + list[n + 1].time
      BY DuesNext
    <3>2. list[n + 1].time \in Nat
      BY <2>1, TimerAt
    <3> QED
      BY <1>2, <2>1, <3>1, <3>2
  <2> QED
    BY <2>1
<1> HIDE DEF N
<1>3. Nat \subseteq N
  BY <1>1, <1>2, NatSet
<1> QED
  BY <1>3 DEF N

\* Deadlines do not come before those in front of them.
LEMMA DuesOrdered ==
  ASSUME NEW list \in Seq(Timer), NEW i \in 0 .. Len(list), NEW k \in i .. Len(list)
  PROVE  Dues(list)[i] <= Dues(list)[k]
<1> DEFINE N == {n \in Nat : i <= n /\ n <= Len(list) => Dues(list)[i] <= Dues(list)[n]}
<1>0. \A n \in 0 .. Len(list) : Dues(list)[n] \in Nat
  BY DuesNat
<1>1. 0 \in N
  BY <1>0
<1>2. ASSUME NEW n \in Nat, n \in N PROVE n + 1 \in N
  <2>1. CASE i <= n /\ n + 1 <= Len(list)
    <3>1. Dues(list)[n + 1] = Dues(list)[n] + list[n + 1].time
      BY DuesNext
    <3>2. list[n + 1].time \in Nat
      BY <2>1, TimerAt
    <3> QED
      BY <1>0, <1>2, <2>1, <3>1, <3>2
  <2>2. CASE ~(i <= n /\ n + 1 <= Len(list))
    <3>1. i <= n + 1 /\ n + 1 <= Len(list) => i = n + 1
      BY <2>2
    <3> QED
      BY <3>1, <1>0
  <2> QED
    BY <2>1, <2>2
<1> HIDE DEF N
<1>3. Nat \subseteq N
  BY <1>1, <1>2, NatSet
<1> QED
  BY <1>3 DEF N

\* The places i .. n of q are the places i + a .. n + a of p, where the times after the
\* first of them are the same, and the deadlines less c.
Fits(p, q, a, i, n) == i <= n /\ n <= Len(q) /\ 0 <= i + a /\ n + a <= Len(p)
SameTimes(p, q, a, i, n) == \A j \in i + 1 .. n : q[j].time = p[j + a].time
Shifted(p, q, a, c, i, n) == \A j \in i .. n : Dues(q)[j] = Dues(p)[j + a] + c

\* Two lists with the same times, perhaps at other places, after places whose deadlines
\* differ by c.
LEMMA DuesShift ==
  ASSUME NEW p \in Seq(Timer), NEW q \in Seq(Timer), NEW a \in Int, NEW c \in Int,
         NEW i \in Nat, NEW n \in Nat, Fits(p, q, a, i, n),
         Shifted(p, q, a, c, i, i), SameTimes(p, q, a, i, n)
  PROVE  Shifted(p, q, a, c, i, n)
<1> DEFINE N == {m \in Nat : i <= m /\ m <= n => Dues(q)[m] = Dues(p)[m + a] + c}
<1> USE DEF Fits, Shifted, SameTimes
<1>0. \A m \in 0 .. Len(p) : Dues(p)[m] \in Nat
  BY DuesNat
<1>00. Dues(q)[i] = Dues(p)[i + a] + c
  OBVIOUS
<1>1. 0 \in N
  <2>1. i <= 0 => i = 0
    OBVIOUS
  <2> QED
    BY <2>1, <1>00
<1>2. ASSUME NEW m \in Nat, m \in N PROVE m + 1 \in N
  <2>1. CASE i <= m /\ m + 1 <= n
    <3>1. Dues(q)[m + 1] = Dues(q)[m] + q[m + 1].time
      BY DuesNext
    <3>2. Dues(p)[m + a + 1] = Dues(p)[m + a] + p[m + a + 1].time
      <4>1. m + a + 1 \in Nat \ {0} /\ m + a + 1 - 1 = m + a
        BY <2>1
      <4> QED
        BY <4>1, DuesStep
    <3>3. m + 1 \in i + 1 .. n /\ m + 1 + a = m + a + 1 /\ m + a + 1 \in 1 .. Len(p) /\ m + a \in 0 .. Len(p)
      BY <2>1
    <3>4. q[m + 1].time = p[m + a + 1].time
      BY <3>3
    <3>5. p[m + a + 1].time \in Nat
      BY <3>3, TimerAt
    <3>6. Dues(p)[m + a] \in Nat /\ Dues(q)[m] = Dues(p)[m + a] + c
      BY <1>0, <1>2, <2>1, <3>3
    <3> QED
      BY <3>1, <3>2, <3>3, <3>4, <3>5, <3>6, SMTT(30)
  <2>2. CASE ~(i <= m /\ m + 1 <= n)
    <3>1. i <= m + 1 /\ m + 1 <= n => i = m + 1
      BY <2>2
    <3>2. i <= m + 1 /\ m + 1 <= n => Dues(q)[m + 1] = Dues(p)[(m + 1) + a] + c
      BY <3>1, <1>00
    <3> QED
      BY <3>2
  <2> QED
    BY <2>1, <2>2
<1> HIDE DEF N
<1>3. Nat \subseteq N
  BY <1>1, <1>2, NatSet
<1> QED
  BY <1>3 DEF N

-----------------------------------------------------------------------------
(* What the functions on the list do to deadlines.                         *)

LEMMA LessFields ==
  ASSUME NEW list \in Seq(Timer), NEW i \in Nat, NEW d \in Int,
         i \in 1 .. Len(list) => list[i].time - d \in Nat
  PROVE  /\ Less(list, i, d) \in Seq(Timer) /\ Len(Less(list, i, d)) = Len(list)
         /\ \A j \in 1 .. Len(list) :
              /\ Less(list, i, d)[j].h = list[j].h /\ Less(list, i, d)[j].real = list[j].real
              /\ Less(list, i, d)[j].time = IF j = i THEN list[j].time - d ELSE list[j].time
<1>1. DOMAIN list = 1 .. Len(list)
  OBVIOUS
<1>2. CASE i \in 1 .. Len(list)
  <2>1. PICK e : e = [list[i] EXCEPT !.time = @ - d]
    OBVIOUS
  <2>2. /\ e \in Timer
        /\ e.h = list[i].h /\ e.real = list[i].real /\ e.time = list[i].time - d
    <3>1. list[i] \in [h : Handler, time : Nat, real : Nat]
      BY <1>2, TimerAt DEF Timer
    <3> QED
      BY <1>2, <2>1, <3>1 DEF Timer
  <2>3. Less(list, i, d) = [list EXCEPT ![i] = e]
    BY <1>1, <1>2, <2>1 DEF Less
  <2>4. /\ [list EXCEPT ![i] = e] \in Seq(Timer) /\ Len([list EXCEPT ![i] = e]) = Len(list)
        /\ \A j \in 1 .. Len(list) : [list EXCEPT ![i] = e][j] = IF j = i THEN e ELSE list[j]
    BY <1>2, <2>2, ExceptSeq
  <2> QED
    BY <2>2, <2>3, <2>4
<1>3. CASE i \notin 1 .. Len(list)
  <2>1. Less(list, i, d) = list
    BY <1>1, <1>3 DEF Less
  <2> QED
    BY <1>3, <2>1
<1> QED
  BY <1>2, <1>3

\* List q is list with a timer of handler g at i, that is due in ms.
WithNew(q, list, i, ms, g) ==
  /\ q \in Seq(Timer) /\ Len(q) = Len(list) + 1
  /\ \A j \in 1 .. i - 1 :
       q[j].h = list[j].h /\ q[j].real = list[j].real /\ Dues(q)[j] = Dues(list)[j]
  /\ q[i].h = g /\ q[i].real = ms /\ Dues(q)[i] = ms
  /\ \A j \in i .. Len(list) :
       /\ q[j + 1].h = list[j].h /\ q[j + 1].real = list[j].real
       /\ Dues(q)[j + 1] = Dues(list)[j]

\* A timer is put where it is due later than all timers before it, or with the last of
\* them, and sooner than the next.
LEMMA InsertedDues ==
  ASSUME NEW list \in Seq(Timer), NEW i \in 1 .. Len(list) + 1, NEW ms \in Nat, NEW g \in Handler,
         NEW d, d = ms - Dues(list)[i - 1], d \in Nat,
         i <= Len(list) => list[i].time > d,
         NEW q, q = InsertAt(Less(list, i, d), i, [h |-> g, time |-> d, real |-> ms])
  PROVE  WithNew(q, list, i, ms, g)
<1>1. PICK l : l = Less(list, i, d)
  OBVIOUS
<1>2. /\ l \in Seq(Timer) /\ Len(l) = Len(list)
      /\ \A j \in 1 .. Len(list) :
           /\ l[j].h = list[j].h /\ l[j].real = list[j].real
           /\ l[j].time = IF j = i THEN list[j].time - d ELSE list[j].time
  <2>1. i \in 1 .. Len(list) => list[i].time - d \in Nat
    BY TimerAt
  <2>2. i \in Nat /\ d \in Int
    OBVIOUS
  <2> QED
    BY <1>1, <2>1, <2>2, LessFields
<1>3. PICK e : e = [h |-> g, time |-> d, real |-> ms]
  OBVIOUS
<1>4. e \in Timer /\ e.h = g /\ e.time = d /\ e.real = ms
  BY <1>3 DEF Timer
<1>5. q = InsertAt(l, i, e)
  BY <1>1, <1>3
<1>6. /\ q \in Seq(Timer) /\ Len(q) = Len(list) + 1
      /\ \A j \in 1 .. Len(list) + 1 : q[j] = IF j < i THEN l[j] ELSE IF j = i THEN e ELSE l[j - 1]
  <2>1. i \in 1 .. Len(l) + 1
    BY <1>2
  <2>2. /\ InsertAt(l, i, e) \in Seq(Timer) /\ Len(InsertAt(l, i, e)) = Len(l) + 1
        /\ \A j \in 1 .. Len(l) + 1 : InsertAt(l, i, e)[j] =
             IF j < i THEN l[j] ELSE IF j = i THEN e ELSE l[j - 1]
    BY <2>1, <1>2, <1>4, InsertedAt
  <2>3. Len(l) = Len(list)
    BY <1>2
  <2> QED
    BY <2>2, <2>3, <1>5
<1>7. \A j \in 1 .. i - 1 : q[j] = l[j] /\ j \in 1 .. Len(list) /\ j # i /\ j \in 1 .. Len(q)
  BY <1>6, SMTT(30)
<1>8. q[i] = e /\ i \in 1 .. Len(q)
  BY <1>6
<1>9. \A j \in i .. Len(list) : q[j + 1] = l[j] /\ j \in 1 .. Len(list) /\ j + 1 \in 1 .. Len(q)
  <2> TAKE j \in i .. Len(list)
  <2>1. j + 1 \in 1 .. Len(list) + 1 /\ ~(j + 1 < i) /\ j + 1 # i /\ (j + 1) - 1 = j
    OBVIOUS
  <2> QED
    BY <2>1, <1>6
<1>10. Shifted(list, q, 0, 0, 0, i - 1)
  <2>1. Shifted(list, q, 0, 0, 0, 0)
    BY DuesStep DEF Shifted
  <2>2. SameTimes(list, q, 0, 0, i - 1)
    BY <1>2, <1>7 DEF SameTimes
  <2>3. Fits(list, q, 0, 0, i - 1) /\ 0 \in Int /\ 0 \in Nat /\ i - 1 \in Nat
    BY <1>6 DEF Fits
  <2> QED
    BY <2>1, <2>2, <2>3, <1>6, DuesShift
<1>11. \A j \in 1 .. i - 1 : Dues(q)[j] = Dues(list)[j]
  <2>1. \A j \in 0 .. Len(list) : Dues(list)[j] \in Nat
    BY DuesNat
  <2> QED
    BY <2>1, <1>10 DEF Shifted
<1>12. Dues(q)[i - 1] = Dues(list)[i - 1] /\ Dues(list)[i - 1] \in Nat
  <2>1. i - 1 \in 0 .. i - 1 /\ i - 1 \in 0 .. Len(list)
    OBVIOUS
  <2>2. Dues(list)[i - 1] \in Nat
    BY <2>1, DuesNat
  <2> QED
    BY <2>1, <2>2, <1>10 DEF Shifted
<1>13. Dues(q)[i] = ms
  <2>1. Dues(q)[i] = Dues(q)[i - 1] + q[i].time
    BY DuesStep
  <2> QED
    BY <2>1, <1>4, <1>8, <1>12
<1>14. \A j \in i .. Len(list) : Dues(q)[j + 1] = Dues(list)[j]
  <2>1. CASE i <= Len(list)
    <3>1. Dues(q)[i + 1] = Dues(list)[i]
      <4>1. Dues(q)[i + 1] = Dues(q)[i] + q[i + 1].time /\ Dues(list)[i] = Dues(list)[i - 1] + list[i].time
        <5>1. i \in Nat /\ i \in Nat \ {0}
          OBVIOUS
        <5>2. Dues(q)[i + 1] = Dues(q)[i] + q[i + 1].time
          BY <5>1, DuesNext
        <5>3. Dues(list)[i] = Dues(list)[i - 1] + list[i].time
          BY <5>1, DuesStep
        <5> QED
          BY <5>2, <5>3
      <4>2. q[i + 1].time = list[i].time - d /\ list[i].time \in Nat
        BY <2>1, <1>2, <1>9, TimerAt
      <4> QED
        BY <4>1, <4>2, <1>12, <1>13
    <3>2. Dues(list)[i] \in Nat
      BY <2>1, DuesNat
    <3>3. Shifted(list, q, -1, 0, i + 1, i + 1)
      BY <3>1, <3>2 DEF Shifted
    <3>4. ASSUME NEW j \in i + 1 + 1 .. Len(q) PROVE q[j].time = list[j + (-1)].time
      <4>1. j - 1 \in i .. Len(list) /\ j = (j - 1) + 1 /\ j - 1 # i /\ j + (-1) = j - 1
        BY <1>6
      <4>2. q[(j - 1) + 1] = l[j - 1] /\ j - 1 \in 1 .. Len(list)
        BY <1>9, <4>1
      <4>3. l[j - 1].time = list[j - 1].time
        BY <1>2, <4>1, <4>2
      <4> QED
        BY <4>1, <4>2, <4>3
    <3>5. /\ Fits(list, q, -1, i + 1, Len(q)) /\ SameTimes(list, q, -1, i + 1, Len(q))
          /\ i + 1 \in Nat /\ Len(q) \in Nat /\ -1 \in Int /\ 0 \in Int
      BY <2>1, <1>6, <3>4 DEF Fits, SameTimes
    <3>6. Shifted(list, q, -1, 0, i + 1, Len(q))
      BY <3>3, <3>5, <1>6, DuesShift
    <3>7. \A j \in i .. Len(list) : j + 1 \in i + 1 .. Len(q) /\ (j + 1) + (-1) = j /\ j \in 0 .. Len(list)
      BY <1>6
    <3>8. \A j \in 0 .. Len(list) : Dues(list)[j] \in Nat
      BY DuesNat
    <3> QED
      BY <3>6, <3>7, <3>8 DEF Shifted
  <2> QED
    BY <2>1
<1>15. \A j \in 1 .. i - 1 :
        q[j].h = list[j].h /\ q[j].real = list[j].real /\ Dues(q)[j] = Dues(list)[j]
  BY <1>2, <1>7, <1>11
<1>16. \A j \in i .. Len(list) :
         /\ q[j + 1].h = list[j].h /\ q[j + 1].real = list[j].real
         /\ Dues(q)[j + 1] = Dues(list)[j]
  BY <1>2, <1>9, <1>14
<1>17. q[i].h = g /\ q[i].real = ms
  BY <1>4, <1>8
<1> QED
  BY <1>6, <1>13, <1>15, <1>16, <1>17 DEF WithNew

\* List q is list without the timer at i.
Without(q, list, i) ==
  /\ q \in Seq(Timer) /\ Len(q) = Len(list) - 1
  /\ \A j \in 1 .. i - 1 :
       q[j].h = list[j].h /\ q[j].real = list[j].real /\ Dues(q)[j] = Dues(list)[j]
  /\ \A j \in i .. Len(list) - 1 :
       /\ q[j].h = list[j + 1].h /\ q[j].real = list[j + 1].real
       /\ Dues(q)[j] = Dues(list)[j + 1]

\* A timer that is taken out moves no other.
LEMMA RemovedDues ==
  ASSUME NEW list \in Seq(Timer), NEW i \in 1 .. Len(list),
         NEW q, q = RemoveAt(Less(list, i + 1, -list[i].time), i)
  PROVE  Without(q, list, i)
<1>0. PICK d : d = -list[i].time
  OBVIOUS
<1>1. PICK l : l = Less(list, i + 1, d)
  OBVIOUS
<1>2. list[i].time \in Nat /\ d \in Int /\ \A j \in 1 .. Len(list) : list[j].time - d \in Nat
  BY <1>0, TimerAt
<1>3. /\ l \in Seq(Timer) /\ Len(l) = Len(list)
      /\ \A j \in 1 .. Len(list) :
           /\ l[j].h = list[j].h /\ l[j].real = list[j].real
           /\ l[j].time = IF j = i + 1 THEN list[j].time - d ELSE list[j].time
  <2>1. i + 1 \in Nat
    OBVIOUS
  <2> QED
    BY <1>1, <1>2, <2>1, LessFields
<1>4. /\ q \in Seq(Timer) /\ Len(q) = Len(list) - 1
      /\ \A j \in 1 .. Len(list) - 1 : q[j] = IF j < i THEN l[j] ELSE l[j + 1]
  <2>1. q = RemoveAt(l, i)
    BY <1>0, <1>1
  <2>2. l \in Seq(Timer) /\ Len(l) = Len(list) /\ i \in 1 .. Len(l)
    BY <1>3
  <2>3. /\ RemoveAt(l, i) \in Seq(Timer) /\ Len(RemoveAt(l, i)) = Len(l) - 1
        /\ \A j \in 1 .. Len(l) - 1 : RemoveAt(l, i)[j] = IF j < i THEN l[j] ELSE l[j + 1]
    BY <2>2, RemovedAt
  <2> QED
    BY <2>1, <2>2, <2>3
<1>5. \A j \in 1 .. i - 1 : q[j] = l[j] /\ j \in 1 .. Len(list) /\ j # i + 1 /\ j \in 1 .. Len(q)
  BY <1>4
<1>6. \A j \in i .. Len(list) - 1 : q[j] = l[j + 1] /\ j + 1 \in 1 .. Len(list) /\ j \in 1 .. Len(q)
  BY <1>4
<1>7. \A j \in 0 .. Len(list) : Dues(list)[j] \in Nat
  BY DuesNat
<1>8. Shifted(list, q, 0, 0, 0, i - 1)
  <2>1. Shifted(list, q, 0, 0, 0, 0)
    BY DuesStep DEF Shifted
  <2>2. SameTimes(list, q, 0, 0, i - 1)
    BY <1>3, <1>5 DEF SameTimes
  <2>3. Fits(list, q, 0, 0, i - 1) /\ 0 \in Int /\ 0 \in Nat /\ i - 1 \in Nat
    BY <1>4 DEF Fits
  <2> QED
    BY <2>1, <2>2, <2>3, <1>4, DuesShift
<1>9. \A j \in 0 .. i - 1 : Dues(q)[j] = Dues(list)[j]
  BY <1>7, <1>8 DEF Shifted
<1>10. \A j \in i .. Len(list) - 1 : Dues(q)[j] = Dues(list)[j + 1]
  <2>1. CASE i <= Len(list) - 1
    <3>1. Dues(q)[i] = Dues(list)[i + 1]
      <4>1. /\ Dues(q)[i] = Dues(q)[i - 1] + q[i].time
            /\ Dues(list)[i] = Dues(list)[i - 1] + list[i].time
        BY DuesStep
      <4>2. Dues(list)[i + 1] = Dues(list)[i] + list[i + 1].time
        <5>1. i \in Nat
          OBVIOUS
        <5> QED
          BY <5>1, DuesNext
      <4>3. q[i].time = list[i + 1].time - d /\ list[i + 1].time \in Nat /\ list[i].time \in Nat
        BY <2>1, <1>3, <1>6, TimerAt
      <4>4. Dues(q)[i - 1] = Dues(list)[i - 1] /\ Dues(list)[i - 1] \in Nat
        BY <1>7, <1>9
      <4> QED
        BY <4>1, <4>2, <4>3, <4>4, <1>0
    <3>2. Dues(list)[i + 1] \in Nat
      BY <2>1, <1>7
    <3>3. Shifted(list, q, 1, 0, i, i)
      BY <3>1, <3>2 DEF Shifted
    <3>4. ASSUME NEW j \in i + 1 .. Len(q) PROVE q[j].time = list[j + 1].time
      <4>1. j \in i .. Len(list) - 1 /\ j + 1 # i + 1
        BY <1>4
      <4> QED
        BY <4>1, <1>3, <1>6
    <3>5. /\ Fits(list, q, 1, i, Len(q)) /\ SameTimes(list, q, 1, i, Len(q))
          /\ i \in Nat /\ Len(q) \in Nat /\ 1 \in Int /\ 0 \in Int
      BY <2>1, <1>4, <3>4 DEF Fits, SameTimes
    <3>6. Shifted(list, q, 1, 0, i, Len(q))
      BY <3>3, <3>5, <1>4, DuesShift
    <3> QED
      BY <3>6, <1>4, <1>7 DEF Shifted
  <2> QED
    BY <2>1
<1>11. \A j \in 1 .. i - 1 :
        q[j].h = list[j].h /\ q[j].real = list[j].real /\ Dues(q)[j] = Dues(list)[j]
  BY <1>3, <1>5, <1>9
<1>12. \A j \in i .. Len(list) - 1 :
         /\ q[j].h = list[j + 1].h /\ q[j].real = list[j + 1].real
         /\ Dues(q)[j] = Dues(list)[j + 1]
  BY <1>3, <1>6, <1>10
<1> QED
  BY <1>4, <1>11, <1>12 DEF Without

\* Time that is taken off the first timer is taken off all.
LEMMA FirstLess ==
  ASSUME NEW list \in Seq(Timer), list # <<>>, NEW d \in 0 .. list[1].time,
         NEW q, q = Less(list, 1, d)
  PROVE  /\ q \in Seq(Timer) /\ Len(q) = Len(list) /\ q # <<>>
         /\ \A j \in 1 .. Len(list) :
              q[j].h = list[j].h /\ q[j].real = list[j].real /\ Dues(q)[j] = Dues(list)[j] - d
<1>1. Len(list) >= 1 /\ list[1].time \in Nat
  <2>1. Len(list) >= 1
    OBVIOUS
  <2> QED
    BY <2>1, TimerAt
<1>2. /\ q \in Seq(Timer) /\ Len(q) = Len(list)
      /\ \A j \in 1 .. Len(list) :
           /\ q[j].h = list[j].h /\ q[j].real = list[j].real
           /\ q[j].time = IF j = 1 THEN list[j].time - d ELSE list[j].time
  <2>1. 1 \in Nat /\ d \in Int /\ list[1].time - d \in Nat
    BY <1>1
  <2> QED
    BY <2>1, LessFields
<1>3. Dues(q)[1] = Dues(list)[1] + (-d)
  <2>1. Dues(q)[1] = 0 + q[1].time /\ Dues(list)[1] = 0 + list[1].time
    BY DuesStep
  <2>2. q[1].time = list[1].time - d
    BY <1>1, <1>2
  <2> QED
    BY <2>1, <2>2, <1>1
<1>4. Shifted(list, q, 0, -d, 1, Len(q))
  <2>1. /\ Fits(list, q, 0, 1, Len(q)) /\ 1 \in Nat /\ Len(q) \in Nat /\ 0 \in Int /\ -d \in Int
    BY <1>1, <1>2 DEF Fits
  <2>2. SameTimes(list, q, 0, 1, Len(q))
    BY <1>2 DEF SameTimes
  <2>3. Shifted(list, q, 0, -d, 1, 1)
    BY <1>3 DEF Shifted
  <2> QED
    BY <2>1, <2>2, <2>3, <1>2, DuesShift
<1>5. \A j \in 0 .. Len(list) : Dues(list)[j] \in Nat
  BY DuesNat
<1> QED
  BY <1>1, <1>2, <1>4, <1>5 DEF Shifted

\* The first timer leaves the list.
LEMMA TailDues ==
  ASSUME NEW list \in Seq(Timer), list # <<>>, NEW q, q = Tail(list)
  PROVE  /\ q \in Seq(Timer) /\ Len(q) = Len(list) - 1
         /\ \A j \in 1 .. Len(q) :
              /\ q[j].h = list[j + 1].h /\ q[j].real = list[j + 1].real
              /\ Dues(q)[j] = Dues(list)[j + 1] - list[1].time
<1>1. Len(list) >= 1 /\ list[1].time \in Nat
  <2>1. Len(list) >= 1
    OBVIOUS
  <2> QED
    BY <2>1, TimerAt
<1>2. /\ q \in Seq(Timer) /\ Len(q) = Len(list) - 1
      /\ \A j \in 1 .. Len(q) : q[j] = list[j + 1]
  BY HeadTailProperties
<1>3. Dues(q)[0] = Dues(list)[0 + 1] + (-list[1].time)
  <2>1. Dues(q)[0] = 0 /\ Dues(list)[1] = 0 + list[1].time
    BY DuesStep
  <2> QED
    BY <2>1, <1>1
<1>4. Shifted(list, q, 1, -list[1].time, 0, Len(q))
  <2>1. /\ Fits(list, q, 1, 0, Len(q)) /\ 0 \in Nat /\ Len(q) \in Nat
        /\ 1 \in Int /\ -list[1].time \in Int
    BY <1>1, <1>2 DEF Fits
  <2>2. SameTimes(list, q, 1, 0, Len(q))
    BY <1>2 DEF SameTimes
  <2>3. Shifted(list, q, 1, -list[1].time, 0, 0)
    BY <1>3 DEF Shifted
  <2> QED
    BY <2>1, <2>2, <2>3, <1>2, DuesShift
<1>5. \A j \in 0 .. Len(list) : Dues(list)[j] \in Nat
  BY DuesNat
<1> QED
  BY <1>1, <1>2, <1>4, <1>5 DEF Shifted

\* The ghost has nothing to do with deadlines.
LEMMA LaterDues ==
  ASSUME NEW list \in Seq(Timer), NEW q, q = Later(list)
  PROVE  /\ q \in Seq(Timer) /\ Len(q) = Len(list)
         /\ \A j \in 1 .. Len(q) :
              /\ q[j].h = list[j].h /\ q[j].time = list[j].time /\ Dues(q)[j] = Dues(list)[j]
              /\ q[j].real = IF list[j].real > TickMs THEN list[j].real - TickMs ELSE 0
<1>1. q = [i \in 1 .. Len(list) |->
             [list[i] EXCEPT !.real = IF @ > TickMs THEN @ - TickMs ELSE 0]]
  BY DEF Later
<1>2. ASSUME NEW j \in 1 .. Len(list)
      PROVE  /\ q[j] \in Timer /\ q[j].h = list[j].h /\ q[j].time = list[j].time
             /\ q[j].real = IF list[j].real > TickMs THEN list[j].real - TickMs ELSE 0
  <2>1. list[j] \in [h : Handler, time : Nat, real : Nat]
    BY TimerAt DEF Timer
  <2>2. q[j] = [list[j] EXCEPT !.real = IF @ > TickMs THEN @ - TickMs ELSE 0]
    BY <1>1
  <2>3. (IF list[j].real > TickMs THEN list[j].real - TickMs ELSE 0) \in Nat
    BY <2>1, TimersAssumption
  <2> QED
    BY <2>1, <2>2, <2>3 DEF Timer
<1>3. q \in Seq(Timer) /\ Len(q) = Len(list)
  <2>1. q \in [1 .. Len(list) -> Timer]
    BY <1>1, <1>2
  <2>2. Len(list) \in Nat
    OBVIOUS
  <2> QED
    BY <2>1, <2>2
<1>4. Shifted(list, q, 0, 0, 0, Len(q))
  <2>1. Shifted(list, q, 0, 0, 0, 0)
    BY DuesStep DEF Shifted
  <2>2. SameTimes(list, q, 0, 0, Len(q))
    BY <1>2, <1>3 DEF SameTimes
  <2>3. Fits(list, q, 0, 0, Len(q)) /\ 0 \in Nat /\ Len(q) \in Nat /\ 0 \in Int
    BY <1>3 DEF Fits
  <2> QED
    BY <2>1, <2>2, <2>3, <1>3, DuesShift
<1>5. \A j \in 0 .. Len(list) : Dues(list)[j] \in Nat
  BY DuesNat
<1> QED
  BY <1>2, <1>3, <1>4, <1>5 DEF Shifted

\* The place that sys_timeout finds is behind all timers that are due no later.
LEMMA PlaceRight ==
  ASSUME next_timeout \in Seq(Timer), NEW ms \in Nat
  PROVE  /\ Place(ms) \in 1 .. Len(next_timeout) + 1
         /\ Place(ms) <= Len(next_timeout) =>
              next_timeout[Place(ms)].time > ms - Dues(next_timeout)[Place(ms) - 1]
         /\ ms - Dues(next_timeout)[Place(ms) - 1] \in Nat
         /\ \A j \in 1 .. Len(next_timeout) : Dues(next_timeout)[j] <= ms <=> j < Place(ms)
<1> DEFINE n == Len(next_timeout)
           S == {i \in 1 .. n + 1 : i <= n => StopsAt(i, ms)}
<1>0. n \in Nat /\ \A j \in 0 .. n : Dues(next_timeout)[j] \in Nat
  BY DuesNat
<1>1. PICK i \in 1 .. n + 1 : /\ i <= n => StopsAt(i, ms)
                              /\ \A j \in 1 .. i - 1 : ~StopsAt(j, ms)
  <2>1. S \in SUBSET Nat /\ n + 1 \in S
    BY <1>0
  <2>2. Min(S) \in S /\ \A y \in S : Min(S) <= y
    <3> HIDE DEF S
    <3> QED
      BY <2>1, MinOf
  <2>3. \A j \in 1 .. Min(S) - 1 : ~StopsAt(j, ms)
    <3>1. \A j \in 1 .. Min(S) - 1 : j \in 1 .. n + 1 /\ j <= n /\ ~(Min(S) <= j)
      BY <2>2, <1>0
    <3> QED
      BY <3>1, <2>2
  <2> QED
    BY <2>2, <2>3
<1>2. PICK p : p = Place(ms)
  OBVIOUS
<1>3. /\ p \in 1 .. n + 1
      /\ p <= n => StopsAt(p, ms)
      /\ \A j \in 1 .. p - 1 : ~StopsAt(j, ms)
  BY <1>1, <1>2 DEF Place
<1>4. p <= n => next_timeout[p].time > ms - Dues(next_timeout)[p - 1]
  BY <1>3, DueAtIsDues DEF StopsAt
<1>5. \A j \in 1 .. p - 1 : Dues(next_timeout)[j] <= ms
  <2> TAKE j \in 1 .. p - 1
  <2>1. j \in 1 .. n /\ j - 1 \in 0 .. n
    BY <1>3
  <2>2. ~(next_timeout[j].time > ms - Dues(next_timeout)[j - 1])
    BY <1>3, DueAtIsDues DEF StopsAt
  <2>3. Dues(next_timeout)[j] = Dues(next_timeout)[j - 1] + next_timeout[j].time
    BY DuesStep
  <2>4. next_timeout[j].time \in Nat /\ Dues(next_timeout)[j - 1] \in Nat
    BY <2>1, <1>0, TimerAt
  <2> QED
    BY <2>2, <2>3, <2>4
<1>6. Dues(next_timeout)[p - 1] <= ms
  <2>1. CASE p = 1
    BY <2>1, DuesStep
  <2>2. CASE p # 1
    <3>1. p - 1 \in 1 .. p - 1
      BY <2>2, <1>3
    <3> QED
      BY <3>1, <1>5
  <2> QED
    BY <2>1, <2>2
<1>7. p - 1 \in 0 .. n
  BY <1>3, <1>0
<1>8. ASSUME NEW j \in 1 .. n, ~(j < p) PROVE ~(Dues(next_timeout)[j] <= ms)
  <2>1. p <= n /\ p \in 0 .. n /\ j \in p .. n /\ p \in Nat \ {0}
    BY <1>3, <1>8, <1>0
  <2>2. Dues(next_timeout)[p] <= Dues(next_timeout)[j]
    BY <2>1, DuesOrdered
  <2>3. Dues(next_timeout)[p] = Dues(next_timeout)[p - 1] + next_timeout[p].time
    BY <2>1, DuesStep
  <2>4. next_timeout[p].time \in Nat
    BY <2>1, <1>3, TimerAt
  <2>5. Dues(next_timeout)[p - 1] \in Nat /\ Dues(next_timeout)[j] \in Nat /\ Dues(next_timeout)[p] \in Nat
    BY <1>0, <1>7, <2>1
  <2> QED
    BY <1>4, <2>1, <2>2, <2>3, <2>4, <2>5
<1>9. \A j \in 1 .. n : Dues(next_timeout)[j] <= ms <=> j < p
  <2> TAKE j \in 1 .. n
  <2>1. CASE j < p
    <3>1. j \in 1 .. p - 1
      BY <2>1, <1>3
    <3> QED
      BY <2>1, <3>1, <1>5
  <2>2. CASE ~(j < p)
    BY <2>2, <1>8
  <2> QED
    BY <2>1, <2>2
<1>10. ms - Dues(next_timeout)[p - 1] \in Nat
  BY <1>0, <1>6, <1>7
<1> HIDE DEF n
<1> QED
  BY <1>2, <1>3, <1>4, <1>9, <1>10 DEF n

-----------------------------------------------------------------------------
(* The list and the thread.                                                *)

Distinct(list) == \A i, j \in 1 .. Len(list) : list[i].h = list[j].h => i = j

\* A wait for ever is one without timers, and only a wait with timers times out.
WaitRight(list, pc, dly) ==
  /\ pc = "wait" => (list = <<>> <=> dly = 0)
  /\ pc = "timedOut" => list # <<>>

ListIInv ==
  /\ TypeOK /\ Distinct(next_timeout)
  /\ WaitRight(next_timeout, tpc, OSTCBDly)

LEMMA SameLength ==
  ASSUME NEW p \in Seq(Timer), NEW q \in Seq(Timer), Len(p) = Len(q)
  PROVE  p = <<>> <=> q = <<>>
  OBVIOUS

LEMMA TickList ==
  ASSUME ListIInv, Tick PROVE ListIInv'
<1>1. next_timeout \in Seq(Timer)
  BY DEF ListIInv, TypeOK, Timer
<1>2. /\ next_timeout' \in Seq(Timer) /\ Len(next_timeout') = Len(next_timeout)
      /\ \A j \in 1 .. Len(next_timeout') : next_timeout'[j].h = next_timeout[j].h
  <2>1. next_timeout' = Later(next_timeout)
    BY DEF Tick
  <2> QED
    BY <1>1, <2>1, LaterDues
<1>3. next_timeout' = <<>> <=> next_timeout = <<>>
  BY <1>1, <1>2, SameLength
<1>4. /\ tpc' \in {"run", "pend", "wait", "woken", "timedOut"}
      /\ OSTCBDly' \in 0 .. MaxTicks /\ waited' \in Nat /\ mail' \in 0 .. MaxMail
  BY TimersAssumption DEF ListIInv, TypeOK, Tick
<1>5. Distinct(next_timeout')
  BY <1>2 DEF ListIInv, Distinct
<1>6. WaitRight(next_timeout', tpc', OSTCBDly')
  <2>1. OSTCBDly \in Nat
    BY TimersAssumption DEF ListIInv, TypeOK
  <2>2. tpc' = IF tpc = "wait" /\ OSTCBDly = 1 THEN "timedOut" ELSE tpc
    BY DEF Tick
  <2>3. OSTCBDly' = IF OSTCBDly > 0 THEN OSTCBDly - 1 ELSE 0
    BY DEF Tick
  <2> QED
    BY <1>3, <2>1, <2>2, <2>3 DEF ListIInv, WaitRight
<1> QED
  BY <1>2, <1>4, <1>5, <1>6 DEF ListIInv, TypeOK, Timer

\* What a step of tcpip_thread that changes the list must do.
LEMMA RunsList ==
  ASSUME ListIInv, next_timeout' \in Seq(Timer), Distinct(next_timeout'), tpc' = "run",
         OSTCBDly' = OSTCBDly, waited' \in Nat, mail' = mail
  PROVE  ListIInv'
  BY DEF ListIInv, TypeOK, Timer, WaitRight

LEMMA SetList ==
  ASSUME ListIInv, NEW g \in Handler, NEW ms \in Msecs, sys_timeout(g, ms)
  PROVE  ListIInv'
<1>1. next_timeout \in Seq(Timer) /\ ms \in Nat
  BY TimersAssumption DEF ListIInv, TypeOK, Timer
<1>2. PICK i : i = Place(ms)
  OBVIOUS
<1>3. PICK d : d = ms - Dues(next_timeout)[i - 1]
  OBVIOUS
<1>4. /\ i \in 1 .. Len(next_timeout) + 1 /\ d \in Nat
      /\ i <= Len(next_timeout) => next_timeout[i].time > d
  BY <1>1, <1>2, <1>3, PlaceRight
<1>5. next_timeout' = InsertAt(Less(next_timeout, i, d), i, [h |-> g, time |-> d, real |-> ms])
  BY <1>2, <1>3, DueAtIsDues DEF sys_timeout, Inserted
<1>6. /\ next_timeout' \in Seq(Timer) /\ Len(next_timeout') = Len(next_timeout) + 1
      /\ \A j \in 1 .. i - 1 : next_timeout'[j].h = next_timeout[j].h
      /\ next_timeout'[i].h = g
      /\ \A j \in i .. Len(next_timeout) : next_timeout'[j + 1].h = next_timeout[j].h
  <2>1. WithNew(next_timeout', next_timeout, i, ms, g)
    BY <1>1, <1>3, <1>4, <1>5, InsertedDues
  <2> QED
    BY <2>1 DEF WithNew
<1>7. \A j \in 1 .. Len(next_timeout) : next_timeout[j].h # g
  BY <1>1 DEF sys_timeout, IsSet
<1>8. Distinct(next_timeout')
  <2> DEFINE was(j) == IF j < i THEN j ELSE j - 1
  <2>1. \A j \in 1 .. Len(next_timeout') : j # i =>
          was(j) \in 1 .. Len(next_timeout) /\ next_timeout'[j].h = next_timeout[was(j)].h
    <3> TAKE j \in 1 .. Len(next_timeout')
    <3>1. CASE j < i
      <4>1. j \in 1 .. i - 1 /\ j \in 1 .. Len(next_timeout)
        BY <3>1, <1>4, <1>6
      <4> QED
        BY <3>1, <4>1, <1>6
    <3>2. CASE j > i
      <4>1. j - 1 \in i .. Len(next_timeout) /\ (j - 1) + 1 = j
        BY <3>2, <1>4, <1>6
      <4>2. next_timeout'[(j - 1) + 1].h = next_timeout[j - 1].h
        BY <4>1, <1>6
      <4> QED
        BY <3>2, <4>1, <4>2, <1>4
    <3> QED
      BY <3>1, <3>2, <1>4
  <2>2. ASSUME NEW j \in 1 .. Len(next_timeout'), NEW k \in 1 .. Len(next_timeout'),
               next_timeout'[j].h = next_timeout'[k].h
        PROVE  j = k
    <3>1. CASE j = i \/ k = i
      <4> HIDE DEF was
      <4> QED
        BY <2>1, <2>2, <3>1, <1>6, <1>7
    <3>2. CASE j # i /\ k # i
      <4>1. next_timeout[was(j)].h = next_timeout[was(k)].h
             /\ was(j) \in 1 .. Len(next_timeout) /\ was(k) \in 1 .. Len(next_timeout)
        <5> HIDE DEF was
        <5> QED
          BY <2>1, <2>2, <3>2
      <4>2. was(j) = was(k)
        <5> HIDE DEF was
        <5> QED
          BY <4>1 DEF ListIInv, Distinct
      <4> QED
        BY <3>2, <4>2, <1>4
    <3> QED
      BY <3>1, <3>2
  <2> QED
    BY <2>2 DEF Distinct
<1>9. tpc' = "run" /\ OSTCBDly' = OSTCBDly /\ waited' = waited /\ mail' = mail /\ waited \in Nat
  BY DEF sys_timeout, ListIInv, TypeOK
<1> QED
  BY <1>6, <1>8, <1>9, RunsList

LEMMA TakeOutList ==
  ASSUME ListIInv, NEW g \in Handler, sys_untimeout(g)
  PROVE  ListIInv'
<1>1. next_timeout \in Seq(Timer)
  BY DEF ListIInv, TypeOK, Timer
<1>2. PICK i \in 1 .. Len(next_timeout) : next_timeout' = Removed(i)
  BY <1>1 DEF sys_untimeout
<1>3. next_timeout' = RemoveAt(Less(next_timeout, i + 1, -next_timeout[i].time), i)
  BY <1>2 DEF Removed
<1>4. /\ next_timeout' \in Seq(Timer) /\ Len(next_timeout') = Len(next_timeout) - 1
      /\ \A j \in 1 .. i - 1 : next_timeout'[j].h = next_timeout[j].h
      /\ \A j \in i .. Len(next_timeout) - 1 : next_timeout'[j].h = next_timeout[j + 1].h
  <2>1. Without(next_timeout', next_timeout, i)
    BY <1>1, <1>3, RemovedDues
  <2> QED
    BY <2>1 DEF Without
<1> DEFINE was(j) == IF j < i THEN j ELSE j + 1
<1>5. \A j \in 1 .. Len(next_timeout') :
        was(j) \in 1 .. Len(next_timeout) /\ next_timeout'[j].h = next_timeout[was(j)].h
  <2> TAKE j \in 1 .. Len(next_timeout')
  <2>1. CASE j < i
    <3>1. j \in 1 .. i - 1 /\ was(j) = j
      BY <2>1
    <3> QED
      BY <3>1, <1>4
  <2>2. CASE ~(j < i)
    <3>1. j \in i .. Len(next_timeout) - 1 /\ was(j) = j + 1 /\ j + 1 \in 1 .. Len(next_timeout)
      BY <2>2, <1>4
    <3> QED
      BY <3>1, <1>4
  <2> QED
    BY <2>1, <2>2
<1>6. Distinct(next_timeout')
  <2>1. ASSUME NEW j \in 1 .. Len(next_timeout'), NEW k \in 1 .. Len(next_timeout'),
               next_timeout'[j].h = next_timeout'[k].h
        PROVE  j = k
    <3>1. was(j) = was(k)
      <4> HIDE DEF was
      <4> QED
        BY <1>5, <2>1 DEF ListIInv, Distinct
    <3> QED
      BY <3>1
  <2> QED
    BY <2>1 DEF Distinct
<1>7. tpc' = "run" /\ OSTCBDly' = OSTCBDly /\ waited' = waited /\ mail' = mail /\ waited \in Nat
  BY DEF sys_untimeout, ListIInv, TypeOK
<1> QED
  BY <1>4, <1>6, <1>7, RunsList

\* What Received does to the list.
LEMMA ReceivedTakes ==
  ASSUME ListIInv, Received, next_timeout # <<>>
  PROVE  \E d \in 0 .. next_timeout[1].time :
           /\ next_timeout' = Less(next_timeout, 1, d)
           /\ d = IF waited * TickMs < next_timeout[1].time THEN waited * TickMs
                  ELSE next_timeout[1].time
<1>1. next_timeout \in Seq(Timer) /\ Len(next_timeout) >= 1 /\ waited * TickMs \in Nat
  <2>1. next_timeout \in Seq(Timer) /\ waited \in Nat /\ TickMs \in Nat
    BY TimersAssumption DEF ListIInv, TypeOK, Timer
  <2>2. Len(next_timeout) >= 1
    BY <2>1
  <2> QED
    BY <2>1, <2>2
<1>2. next_timeout[1].time \in Nat /\ Head(next_timeout) = next_timeout[1]
  BY <1>1, TimerAt
<1>3. PICK w : w = waited * TickMs
  OBVIOUS
<1>4. next_timeout' = IF w < next_timeout[1].time THEN Less(next_timeout, 1, w)
                      ELSE Less(next_timeout, 1, next_timeout[1].time)
  BY <1>2, <1>3 DEF Received, TimeNeeded
<1>5. w \in Nat
  BY <1>1, <1>3
<1>6. CASE w < next_timeout[1].time
  BY <1>2, <1>3, <1>4, <1>5, <1>6
<1>7. CASE ~(w < next_timeout[1].time)
  BY <1>2, <1>3, <1>4, <1>5, <1>7
<1> QED
  BY <1>6, <1>7

LEMMA ReceivedList ==
  ASSUME ListIInv, Received PROVE ListIInv'
<1>1. tpc' = "run" /\ OSTCBDly' = OSTCBDly /\ waited' = 0 /\ mail' = mail
  BY DEF Received
<1>2. next_timeout \in Seq(Timer)
  BY DEF ListIInv, TypeOK, Timer
<1>3. CASE next_timeout = <<>>
  <2>1. next_timeout' = <<>>
    BY <1>3 DEF Received
  <2>2. next_timeout' \in Seq(Timer) /\ Distinct(next_timeout')
    BY <2>1 DEF Distinct
  <2> QED
    BY <1>1, <2>2, RunsList
<1>4. CASE next_timeout # <<>>
  <2>1. PICK d \in 0 .. next_timeout[1].time : next_timeout' = Less(next_timeout, 1, d)
    BY <1>4, ReceivedTakes
  <2>2. /\ next_timeout' \in Seq(Timer) /\ Len(next_timeout') = Len(next_timeout)
        /\ \A j \in 1 .. Len(next_timeout) : next_timeout'[j].h = next_timeout[j].h
    BY <1>2, <1>4, <2>1, FirstLess
  <2>3. Distinct(next_timeout')
    BY <2>2 DEF Distinct, ListIInv
  <2> QED
    BY <1>1, <2>2, <2>3, RunsList
<1> QED
  BY <1>3, <1>4

LEMMA FireList ==
  ASSUME ListIInv, Fire PROVE ListIInv' /\ next_timeout # <<>>
<1>1. next_timeout \in Seq(Timer) /\ next_timeout # <<>>
  BY DEF ListIInv, TypeOK, Timer, Fire, HeadDue, WaitRight
<1>2. /\ next_timeout' \in Seq(Timer) /\ Len(next_timeout') = Len(next_timeout) - 1
      /\ \A j \in 1 .. Len(next_timeout') : next_timeout'[j].h = next_timeout[j + 1].h
  <2>1. next_timeout' = Tail(next_timeout)
    BY DEF Fire
  <2> QED
    BY <1>1, <2>1, TailDues
<1>3. Distinct(next_timeout')
  <2>1. \A j \in 1 .. Len(next_timeout') : j + 1 \in 1 .. Len(next_timeout)
    BY <1>1, <1>2
  <2>2. ASSUME NEW j \in 1 .. Len(next_timeout'), NEW k \in 1 .. Len(next_timeout'),
               next_timeout'[j].h = next_timeout'[k].h
        PROVE  j = k
    <3>1. j + 1 = k + 1
      BY <1>2, <2>1, <2>2 DEF ListIInv, Distinct
    <3> QED
      BY <3>1
  <2> QED
    BY <2>2 DEF Distinct
<1>4. tpc' = "run" /\ OSTCBDly' = OSTCBDly /\ waited' = 0 /\ mail' = mail
  BY DEF Fire
<1> QED
  BY <1>1, <1>2, <1>3, <1>4, RunsList

\* OSSemPend asks for a wait that ends, if there is a timer.
LEMMA WaitTicksRange ==
  ASSUME ListIInv, next_timeout # <<>>
  PROVE  WaitTicks \in 1 .. MaxTicks
<1>1. Head(next_timeout).time \in Nat
  <2>1. next_timeout \in Seq(Timer)
    BY DEF ListIInv, TypeOK, Timer
  <2>2. Head(next_timeout) \in Timer
    BY <2>1
  <2> QED
    BY <2>2 DEF Timer
<1>2. PICK k : k = Head(next_timeout).time \div TickMs
  OBVIOUS
<1>3. k \in Int
  BY <1>1, <1>2, TimersAssumption
<1> QED
  BY <1>2, <1>3, TimersAssumption DEF WaitTicks

LEMMA QuietList ==
  ASSUME ListIInv, Post \/ TakeAtOnce \/ StartWait \/ Pend \/ UNCHANGED vars
  PROVE  ListIInv'
<1>1. CASE Post
  BY <1>1, TimersAssumption DEF Post, ListIInv, TypeOK, WaitRight
<1>2. CASE TakeAtOnce
  BY <1>2, TimersAssumption DEF TakeAtOnce, ListIInv, TypeOK, WaitRight
<1>3. CASE StartWait
  BY <1>3, TimersAssumption DEF StartWait, ListIInv, TypeOK, WaitRight
<1>4. CASE Pend
  <2>1. CASE next_timeout = <<>>
    BY <1>4, <2>1, TimersAssumption DEF Pend, ListIInv, TypeOK, WaitRight
  <2>2. CASE next_timeout # <<>>
    <3>1. WaitTicks \in 1 .. MaxTicks
      BY <2>2, WaitTicksRange
    <3> QED
      BY <1>4, <2>2, <3>1, TimersAssumption DEF Pend, ListIInv, TypeOK, WaitRight
  <2> QED
    BY <2>1, <2>2
<1>5. CASE UNCHANGED vars
  BY <1>5 DEF vars, ListIInv, TypeOK, WaitRight
<1> QED
  BY <1>1, <1>2, <1>3, <1>4, <1>5

LEMMA InitList == Init => ListIInv
<1>1. <<>> \in Seq(Timer) /\ Distinct(<<>>)
  BY DEF Distinct
<1> QED
  BY <1>1, TimersAssumption DEF Init, ListIInv, TypeOK, WaitRight, Timer

LEMMA NextList ==
  ASSUME ListIInv, [Next]_vars PROVE ListIInv'
  BY TickList, SetList, TakeOutList, ReceivedList, FireList, QuietList DEF Next, Fetch

-----------------------------------------------------------------------------
(* The list stands for a set of deadlines.                                 *)

Deadline == [h : Handler, left : Nat]
Upcoming(list) == [i \in 1 .. Len(list) |-> [h |-> list[i].h, left |-> Dues(list)[i]]]
Mapped == [i \in DOMAIN next_timeout |-> [h |-> next_timeout[i].h, left |-> DueAt[i]]]

LEMMA MappedIs ==
  ASSUME next_timeout \in Seq(Timer) PROVE Mapped = Upcoming(next_timeout)
<1>1. DOMAIN next_timeout = 1 .. Len(next_timeout)
  OBVIOUS
<1> QED
  BY <1>1, DueAtIsDues DEF Mapped, Upcoming

LEMMA PendingFields ==
  ASSUME NEW list \in Seq(Timer)
  PROVE  /\ Upcoming(list) \in Seq(Deadline) /\ Len(Upcoming(list)) = Len(list)
         /\ DOMAIN Upcoming(list) = 1 .. Len(list)
         /\ \A i \in 1 .. Len(list) : /\ Upcoming(list)[i].h = list[i].h
                                      /\ Upcoming(list)[i].left = Dues(list)[i]
         /\ list # <<>> => /\ Upcoming(list) # <<>>
                           /\ Head(Upcoming(list)) = Upcoming(list)[1]
                           /\ Head(Upcoming(list)).left = list[1].time
<1>1. \A i \in 1 .. Len(list) :
        [h |-> list[i].h, left |-> Dues(list)[i]] \in [h : Handler, left : Nat]
  BY TimerAt, DuesNat
<1>2. Len(list) \in Nat
  OBVIOUS
<1>3. /\ Upcoming(list) \in [1 .. Len(list) -> Deadline]
      /\ \A i \in 1 .. Len(list) : /\ Upcoming(list)[i].h = list[i].h
                                   /\ Upcoming(list)[i].left = Dues(list)[i]
  BY <1>1 DEF Upcoming, Deadline
<1>4. Upcoming(list) \in Seq(Deadline) /\ Len(Upcoming(list)) = Len(list)
  BY <1>2, <1>3
<1>5. ASSUME list # <<>>
      PROVE  /\ Upcoming(list) # <<>> /\ Head(Upcoming(list)) = Upcoming(list)[1]
             /\ Head(Upcoming(list)).left = list[1].time
  <2>1. 1 \in 1 .. Len(list) /\ list[1].time \in Nat
    <3>1. 1 \in 1 .. Len(list)
      BY <1>5
    <3> QED
      BY <3>1, TimerAt
  <2>2. Dues(list)[1] = 0 + list[1].time
    BY DuesStep
  <2>3. Upcoming(list) # <<>> /\ Head(Upcoming(list)) = Upcoming(list)[1]
    BY <1>4, <2>1
  <2> QED
    BY <1>3, <2>1, <2>2, <2>3
<1> QED
  BY <1>3, <1>4, <1>5

LEMMA SameSeq ==
  ASSUME NEW E, NEW p \in Seq(E), NEW q \in Seq(E), Len(p) = Len(q),
         \A i \in 1 .. Len(p) : p[i] = q[i]
  PROVE  p = q
  OBVIOUS

LEMMA SameDeadline ==
  ASSUME NEW a \in Deadline, NEW b \in Deadline, a.h = b.h, a.left = b.left
  PROVE  a = b
  BY DEF Deadline

LEMMA SamePending ==
  ASSUME NEW list \in Seq(Timer), NEW s \in Seq(Deadline), Len(s) = Len(list),
         \A i \in 1 .. Len(list) : s[i].h = list[i].h /\ s[i].left = Dues(list)[i]
  PROVE  Upcoming(list) = s
<1>1. /\ Upcoming(list) \in Seq(Deadline) /\ Len(Upcoming(list)) = Len(s)
      /\ \A i \in 1 .. Len(s) : /\ Upcoming(list)[i].h = s[i].h
                                /\ Upcoming(list)[i].left = s[i].left
  BY PendingFields
<1>2. \A i \in 1 .. Len(s) : Upcoming(list)[i] \in Deadline /\ s[i] \in Deadline
  BY <1>1, ElementOfSeq
<1>3. \A i \in 1 .. Len(s) : Upcoming(list)[i] = s[i]
  BY <1>1, <1>2, SameDeadline
<1> QED
  BY <1>1, <1>3, SameSeq

LEMMA SetRefines ==
  ASSUME ListIInv, NEW g \in Handler, NEW ms \in Msecs, sys_timeout(g, ms)
  PROVE  Upcoming(next_timeout') =
           InsertAt(Upcoming(next_timeout),
                    Cardinality({i \in DOMAIN Upcoming(next_timeout) :
                                   Upcoming(next_timeout)[i].left <= ms}) + 1,
                    [h |-> g, left |-> ms])
<1>1. next_timeout \in Seq(Timer) /\ ms \in Nat
  BY TimersAssumption DEF ListIInv, TypeOK, Timer
<1>2. PICK i : i = Place(ms)
  OBVIOUS
<1>3. PICK d : d = ms - Dues(next_timeout)[i - 1]
  OBVIOUS
<1>4. /\ i \in 1 .. Len(next_timeout) + 1 /\ d \in Nat
      /\ i <= Len(next_timeout) => next_timeout[i].time > d
      /\ \A j \in 1 .. Len(next_timeout) : Dues(next_timeout)[j] <= ms <=> j < i
  BY <1>1, <1>2, <1>3, PlaceRight
<1>5. next_timeout' = InsertAt(Less(next_timeout, i, d), i, [h |-> g, time |-> d, real |-> ms])
  BY <1>2, <1>3, DueAtIsDues DEF sys_timeout, Inserted
<1>6. /\ next_timeout' \in Seq(Timer) /\ Len(next_timeout') = Len(next_timeout) + 1
      /\ \A j \in 1 .. i - 1 : /\ next_timeout'[j].h = next_timeout[j].h
                               /\ Dues(next_timeout')[j] = Dues(next_timeout)[j]
      /\ next_timeout'[i].h = g /\ Dues(next_timeout')[i] = ms
      /\ \A j \in i .. Len(next_timeout) :
           /\ next_timeout'[j + 1].h = next_timeout[j].h
           /\ Dues(next_timeout')[j + 1] = Dues(next_timeout)[j]
  <2>1. WithNew(next_timeout', next_timeout, i, ms, g)
    BY <1>1, <1>3, <1>4, <1>5, InsertedDues
  <2> QED
    BY <2>1 DEF WithNew
<1>7. PICK p : p = Upcoming(next_timeout)
  OBVIOUS
<1>8. /\ p \in Seq(Deadline) /\ Len(p) = Len(next_timeout) /\ DOMAIN p = 1 .. Len(next_timeout)
      /\ \A j \in 1 .. Len(next_timeout) :
           p[j].h = next_timeout[j].h /\ p[j].left = Dues(next_timeout)[j]
  BY <1>1, <1>7, PendingFields
<1>9. Cardinality({j \in DOMAIN p : p[j].left <= ms}) = i - 1
  <2>1. {j \in DOMAIN p : p[j].left <= ms} = 1 .. i - 1
    BY <1>4, <1>8
  <2>2. Cardinality(1 .. i - 1) = i - 1
    <3>1. PICK m : m = i - 1
      OBVIOUS
    <3>2. 1 \in Int /\ m \in Int /\ m - 1 + 1 = m /\ (1 > m => m = 0)
      BY <1>4, <3>1
    <3>3. Cardinality(1 .. m) = IF 1 > m THEN 0 ELSE m - 1 + 1
      BY <3>2, FS_Interval
    <3> QED
      BY <3>1, <3>2, <3>3
  <2> QED
    BY <2>1, <2>2
<1>10. PICK e : e = [h |-> g, left |-> ms]
  OBVIOUS
<1>11. e \in Deadline /\ e.h = g /\ e.left = ms
  BY <1>1, <1>10 DEF Deadline
<1>12. PICK s : s = InsertAt(p, i, e)
  OBVIOUS
<1>13. /\ s \in Seq(Deadline) /\ Len(s) = Len(next_timeout) + 1
       /\ \A j \in 1 .. Len(next_timeout) + 1 :
            s[j] = IF j < i THEN p[j] ELSE IF j = i THEN e ELSE p[j - 1]
  <2>1. i \in 1 .. Len(p) + 1
    BY <1>4, <1>8
  <2>2. /\ InsertAt(p, i, e) \in Seq(Deadline) /\ Len(InsertAt(p, i, e)) = Len(p) + 1
        /\ \A j \in 1 .. Len(p) + 1 : InsertAt(p, i, e)[j] =
             IF j < i THEN p[j] ELSE IF j = i THEN e ELSE p[j - 1]
    <3>1. p \in Seq(Deadline) /\ e \in Deadline
      BY <1>8, <1>11
    <3> QED
      BY <2>1, <3>1, InsertedAt
  <2> QED
    BY <2>2, <1>8, <1>12
<1>14. ASSUME NEW j \in 1 .. Len(next_timeout')
       PROVE  s[j].h = next_timeout'[j].h /\ s[j].left = Dues(next_timeout')[j]
  <2>1. CASE j < i
    <3>1. j \in 1 .. i - 1 /\ j \in 1 .. Len(next_timeout) /\ s[j] = p[j]
      BY <2>1, <1>4, <1>6, <1>13
    <3> QED
      BY <3>1, <1>6, <1>8
  <2>2. CASE j = i
    <3>1. s[j] = e
      BY <2>2, <1>6, <1>13
    <3> QED
      BY <2>2, <3>1, <1>6, <1>11
  <2>3. CASE j > i
    <3>1. j - 1 \in i .. Len(next_timeout) /\ (j - 1) + 1 = j /\ j - 1 \in 1 .. Len(next_timeout)
      BY <2>3, <1>4, <1>6
    <3>2. s[j] = p[j - 1]
      BY <2>3, <1>4, <1>6, <1>13
    <3>3. /\ next_timeout'[(j - 1) + 1].h = next_timeout[j - 1].h
          /\ Dues(next_timeout')[(j - 1) + 1] = Dues(next_timeout)[j - 1]
      BY <3>1, <1>6
    <3> QED
      BY <3>1, <3>2, <3>3, <1>8
  <2> QED
    BY <2>1, <2>2, <2>3, <1>4
<1>15. Upcoming(next_timeout') = s
  BY <1>6, <1>13, <1>14, SamePending
<1>16. (i - 1) + 1 = i
  BY <1>4
<1> QED
  BY <1>7, <1>9, <1>10, <1>12, <1>15, <1>16

LEMMA TakeOutRefines ==
  ASSUME ListIInv, NEW g \in Handler, sys_untimeout(g)
  PROVE  Upcoming(next_timeout') = RemoveFirstMatch(Upcoming(next_timeout), LAMBDA e : e.h = g)
<1>1. next_timeout \in Seq(Timer)
  BY DEF ListIInv, TypeOK, Timer
<1>2. PICK i \in 1 .. Len(next_timeout) : next_timeout[i].h = g /\ next_timeout' = Removed(i)
  BY <1>1 DEF sys_untimeout
<1>3. next_timeout' = RemoveAt(Less(next_timeout, i + 1, -next_timeout[i].time), i)
  BY <1>2 DEF Removed
<1>4. /\ next_timeout' \in Seq(Timer) /\ Len(next_timeout') = Len(next_timeout) - 1
      /\ \A j \in 1 .. i - 1 : /\ next_timeout'[j].h = next_timeout[j].h
                               /\ Dues(next_timeout')[j] = Dues(next_timeout)[j]
      /\ \A j \in i .. Len(next_timeout) - 1 :
           /\ next_timeout'[j].h = next_timeout[j + 1].h
           /\ Dues(next_timeout')[j] = Dues(next_timeout)[j + 1]
  <2>1. Without(next_timeout', next_timeout, i)
    BY <1>1, <1>3, RemovedDues
  <2> QED
    BY <2>1 DEF Without
<1>5. PICK p : p = Upcoming(next_timeout)
  OBVIOUS
<1>6. /\ p \in Seq(Deadline) /\ Len(p) = Len(next_timeout)
      /\ \A j \in 1 .. Len(next_timeout) :
           p[j].h = next_timeout[j].h /\ p[j].left = Dues(next_timeout)[j]
  BY <1>1, <1>5, PendingFields
<1>7. {j \in 1 .. Len(p) : p[j].h = g} = {i}
  BY <1>2, <1>6 DEF ListIInv, Distinct
<1>8. SelectInSeq(p, LAMBDA e : e.h = g) = i
  <2>1. Min({i}) = i
    <3>1. {i} \in SUBSET Nat /\ {i} # {}
      OBVIOUS
    <3>2. Min({i}) \in {i}
      BY <3>1, MinOf
    <3> QED
      BY <3>2
  <2>2. SelectInSeq(p, LAMBDA e : e.h = g) = Min({i})
    BY <1>7 DEF SelectInSeq
  <2> QED
    BY <2>1, <2>2
<1>9. RemoveFirstMatch(p, LAMBDA e : e.h = g) = RemoveAt(p, i)
  <2>1. \E j \in 1 .. Len(p) : p[j].h = g
    BY <1>7
  <2> QED
    BY <2>1, <1>8 DEF RemoveFirstMatch
<1>10. PICK s : s = RemoveAt(p, i)
  OBVIOUS
<1>11. /\ s \in Seq(Deadline) /\ Len(s) = Len(next_timeout) - 1
       /\ \A j \in 1 .. Len(next_timeout) - 1 : s[j] = IF j < i THEN p[j] ELSE p[j + 1]
  <2>1. i \in 1 .. Len(p)
    BY <1>6
  <2> QED
    BY <2>1, <1>6, <1>10, RemovedAt
<1>12. ASSUME NEW j \in 1 .. Len(next_timeout')
       PROVE  s[j].h = next_timeout'[j].h /\ s[j].left = Dues(next_timeout')[j]
  <2>1. CASE j < i
    <3>1. j \in 1 .. i - 1 /\ j \in 1 .. Len(next_timeout) /\ s[j] = p[j]
      BY <2>1, <1>4, <1>11
    <3> QED
      BY <3>1, <1>4, <1>6
  <2>2. CASE ~(j < i)
    <3>1. /\ j \in i .. Len(next_timeout) - 1 /\ j + 1 \in 1 .. Len(next_timeout)
          /\ s[j] = p[j + 1]
      BY <2>2, <1>4, <1>11
    <3> QED
      BY <3>1, <1>4, <1>6
  <2> QED
    BY <2>1, <2>2
<1>13. Upcoming(next_timeout') = s
  BY <1>4, <1>11, <1>12, SamePending
<1> QED
  BY <1>5, <1>9, <1>10, <1>13

\* Deadlines that are d nearer.
Nearer(p, d) == [i \in DOMAIN p |-> [p[i] EXCEPT !.left = @ - d]]

LEMMA NearerFields ==
  ASSUME NEW p \in Seq(Deadline), NEW d \in Nat, \A i \in 1 .. Len(p) : p[i].left - d \in Nat
  PROVE  /\ Nearer(p, d) \in Seq(Deadline) /\ Len(Nearer(p, d)) = Len(p)
         /\ \A i \in 1 .. Len(p) : /\ Nearer(p, d)[i].h = p[i].h
                                   /\ Nearer(p, d)[i].left = p[i].left - d
<1>1. DOMAIN p = 1 .. Len(p) /\ Len(p) \in Nat
  OBVIOUS
<1>2. ASSUME NEW i \in 1 .. Len(p)
      PROVE  /\ Nearer(p, d)[i] \in Deadline
             /\ Nearer(p, d)[i].h = p[i].h /\ Nearer(p, d)[i].left = p[i].left - d
  <2>1. p[i] \in [h : Handler, left : Nat]
    BY ElementOfSeq DEF Deadline
  <2>2. Nearer(p, d)[i] = [p[i] EXCEPT !.left = @ - d]
    BY <1>1 DEF Nearer
  <2> QED
    BY <2>1, <2>2 DEF Deadline
<1>3. Nearer(p, d) \in [1 .. Len(p) -> Deadline]
  BY <1>1, <1>2 DEF Nearer
<1> QED
  BY <1>1, <1>2, <1>3

LEMMA ReceivedRefines ==
  ASSUME ListIInv, Received
  PROVE  \/ Upcoming(next_timeout') = Upcoming(next_timeout)
         \/ /\ Upcoming(next_timeout) # <<>>
            /\ \E d \in 1 .. Head(Upcoming(next_timeout)).left :
                 Upcoming(next_timeout') = Nearer(Upcoming(next_timeout), d)
<1>1. next_timeout \in Seq(Timer)
  BY DEF ListIInv, TypeOK, Timer
<1>2. CASE next_timeout = <<>>
  BY <1>2 DEF Received
<1>3. CASE next_timeout # <<>>
  <2>1. PICK d \in 0 .. next_timeout[1].time : next_timeout' = Less(next_timeout, 1, d)
    BY <1>3, ReceivedTakes
  <2>2. /\ next_timeout' \in Seq(Timer) /\ Len(next_timeout') = Len(next_timeout)
        /\ \A j \in 1 .. Len(next_timeout) :
             /\ next_timeout'[j].h = next_timeout[j].h
             /\ Dues(next_timeout')[j] = Dues(next_timeout)[j] - d
    BY <1>1, <1>3, <2>1, FirstLess
  <2>3. PICK p : p = Upcoming(next_timeout)
    OBVIOUS
  <2>4. /\ p \in Seq(Deadline) /\ Len(p) = Len(next_timeout)
        /\ \A j \in 1 .. Len(next_timeout) :
             p[j].h = next_timeout[j].h /\ p[j].left = Dues(next_timeout)[j]
        /\ p # <<>> /\ Head(p).left = next_timeout[1].time
    BY <1>1, <1>3, <2>3, PendingFields
  <2>5. d \in Nat /\ \A j \in 1 .. Len(p) : p[j].left - d \in Nat
    <3>1. next_timeout[1].time \in Nat
      BY <1>1, <1>3, TimerAt
    <3>2. \A j \in 1 .. Len(p) : Dues(next_timeout')[j] \in Nat
      BY <2>2, <2>4, DuesNat
    <3> QED
      BY <3>1, <3>2, <2>2, <2>4
  <2>6. Upcoming(next_timeout') = Nearer(p, d)
    <3>1. /\ Nearer(p, d) \in Seq(Deadline) /\ Len(Nearer(p, d)) = Len(p)
          /\ \A j \in 1 .. Len(p) : /\ Nearer(p, d)[j].h = p[j].h
                                    /\ Nearer(p, d)[j].left = p[j].left - d
      BY <2>4, <2>5, NearerFields
    <3>2. \A j \in 1 .. Len(next_timeout') :
            /\ Nearer(p, d)[j].h = next_timeout'[j].h
            /\ Nearer(p, d)[j].left = Dues(next_timeout')[j]
      BY <3>1, <2>2, <2>4
    <3>3. Len(Nearer(p, d)) = Len(next_timeout')
      BY <3>1, <2>2, <2>4
    <3> QED
      BY <3>1, <3>2, <3>3, <2>2, SamePending
  <2>7. CASE d = 0
    <3>1. \A j \in 1 .. Len(next_timeout') :
            p[j].h = next_timeout'[j].h /\ p[j].left = Dues(next_timeout')[j]
      <4>1. \A j \in 1 .. Len(next_timeout) : Dues(next_timeout)[j] \in Nat
        BY <1>1, DuesNat
      <4> QED
        BY <4>1, <2>2, <2>4, <2>7
    <3>2. Len(p) = Len(next_timeout')
      BY <2>2, <2>4
    <3>3. Upcoming(next_timeout') = p
      BY <3>1, <3>2, <2>2, <2>4, SamePending
    <3> QED
      BY <2>3, <3>3
  <2>8. CASE d # 0
    <3>1. d \in 1 .. Head(p).left
      BY <2>4, <2>5, <2>8
    <3> QED
      BY <3>1, <2>3, <2>4, <2>6
  <2> QED
    BY <2>7, <2>8
<1> QED
  BY <1>2, <1>3

LEMMA FireRefines ==
  ASSUME ListIInv, Fire
  PROVE  /\ Upcoming(next_timeout) # <<>>
         /\ Upcoming(next_timeout') =
              Nearer(Tail(Upcoming(next_timeout)), Head(Upcoming(next_timeout)).left)
<1>1. next_timeout \in Seq(Timer) /\ next_timeout # <<>>
  BY FireList DEF ListIInv, TypeOK, Timer
<1>2. /\ next_timeout' \in Seq(Timer) /\ Len(next_timeout') = Len(next_timeout) - 1
      /\ \A j \in 1 .. Len(next_timeout') :
           /\ next_timeout'[j].h = next_timeout[j + 1].h
           /\ Dues(next_timeout')[j] = Dues(next_timeout)[j + 1] - next_timeout[1].time
  <2>1. next_timeout' = Tail(next_timeout)
    BY DEF Fire
  <2> QED
    BY <1>1, <2>1, TailDues
<1>3. PICK p : p = Upcoming(next_timeout)
  OBVIOUS
<1>4. /\ p \in Seq(Deadline) /\ Len(p) = Len(next_timeout)
      /\ \A j \in 1 .. Len(next_timeout) :
           p[j].h = next_timeout[j].h /\ p[j].left = Dues(next_timeout)[j]
      /\ p # <<>> /\ Head(p).left = next_timeout[1].time
  BY <1>1, <1>3, PendingFields
<1>5. PICK r : r = Tail(p)
  OBVIOUS
<1>6. /\ r \in Seq(Deadline) /\ Len(r) = Len(next_timeout')
      /\ \A j \in 1 .. Len(r) : r[j] = p[j + 1] /\ j + 1 \in 1 .. Len(next_timeout)
  <2>1. r \in Seq(Deadline) /\ Len(r) = Len(p) - 1 /\ \A j \in 1 .. Len(r) : r[j] = p[j + 1]
    BY <1>4, <1>5, HeadTailProperties
  <2> QED
    BY <2>1, <1>2, <1>4
<1>7. PICK d : d = next_timeout[1].time
  OBVIOUS
<1>8. d \in Nat /\ \A j \in 1 .. Len(r) : r[j].left - d \in Nat
  <2>1. d \in Nat
    <3>1. 1 \in 1 .. Len(next_timeout)
      BY <1>1
    <3> QED
      BY <3>1, <1>1, <1>7, TimerAt
  <2>2. \A j \in 1 .. Len(r) : Dues(next_timeout')[j] \in Nat
    BY <1>2, <1>6, DuesNat
  <2>3. ASSUME NEW j \in 1 .. Len(r) PROVE r[j].left - d \in Nat
    <3>1. r[j] = p[j + 1] /\ j + 1 \in 1 .. Len(next_timeout)
      BY <1>6
    <3>2. p[j + 1].left = Dues(next_timeout)[j + 1]
      BY <1>4, <3>1
    <3>3. j \in 1 .. Len(next_timeout')
      BY <1>6
    <3>4. Dues(next_timeout')[j] = Dues(next_timeout)[j + 1] - d
      BY <1>2, <1>7, <3>3
    <3> QED
      BY <2>2, <3>1, <3>2, <3>4
  <2> QED
    BY <2>1, <2>3
<1>9. /\ Nearer(r, d) \in Seq(Deadline) /\ Len(Nearer(r, d)) = Len(r)
      /\ \A j \in 1 .. Len(r) : /\ Nearer(r, d)[j].h = r[j].h
                                /\ Nearer(r, d)[j].left = r[j].left - d
  BY <1>6, <1>8, NearerFields
<1>10. \A j \in 1 .. Len(next_timeout') :
         /\ Nearer(r, d)[j].h = next_timeout'[j].h
         /\ Nearer(r, d)[j].left = Dues(next_timeout')[j]
  <2> TAKE j \in 1 .. Len(next_timeout')
  <2>1. j \in 1 .. Len(r) /\ r[j] = p[j + 1] /\ j + 1 \in 1 .. Len(next_timeout)
    BY <1>6
  <2>2. p[j + 1].h = next_timeout[j + 1].h /\ p[j + 1].left = Dues(next_timeout)[j + 1]
    BY <1>4, <2>1
  <2>3. Nearer(r, d)[j].h = r[j].h /\ Nearer(r, d)[j].left = r[j].left - d
    BY <1>9, <2>1
  <2>4. /\ next_timeout'[j].h = next_timeout[j + 1].h
        /\ Dues(next_timeout')[j] = Dues(next_timeout)[j + 1] - next_timeout[1].time
    BY <1>2
  <2> QED
    BY <1>7, <2>1, <2>2, <2>3, <2>4
<1>11. Upcoming(next_timeout') = Nearer(r, d)
  BY <1>2, <1>6, <1>9, <1>10, SamePending
<1> QED
  BY <1>3, <1>4, <1>5, <1>7, <1>11

LEMMA TickRefines ==
  ASSUME ListIInv, Tick PROVE Upcoming(next_timeout') = Upcoming(next_timeout)
<1>1. next_timeout \in Seq(Timer)
  BY DEF ListIInv, TypeOK, Timer
<1>2. /\ next_timeout' \in Seq(Timer) /\ Len(next_timeout') = Len(next_timeout)
      /\ \A j \in 1 .. Len(next_timeout') :
           next_timeout'[j].h = next_timeout[j].h /\ Dues(next_timeout')[j] = Dues(next_timeout)[j]
  <2>1. next_timeout' = Later(next_timeout)
    BY DEF Tick
  <2> QED
    BY <1>1, <2>1, LaterDues
<1>3. PICK p : p = Upcoming(next_timeout)
  OBVIOUS
<1>4. /\ p \in Seq(Deadline) /\ Len(p) = Len(next_timeout')
      /\ \A j \in 1 .. Len(next_timeout') :
           p[j].h = next_timeout'[j].h /\ p[j].left = Dues(next_timeout')[j]
  BY <1>1, <1>2, <1>3, PendingFields
<1>5. Upcoming(next_timeout') = p
  BY <1>2, <1>4, SamePending
<1> QED
  BY <1>3, <1>5

\* A step of the timers is one of Deadlines or leaves the deadlines as they are.
LEMMA StepRefines ==
  ASSUME ListIInv, ListIInv', [Next]_vars
  PROVE  [Timers!Next]_Mapped
<1>1. next_timeout \in Seq(Timer) /\ next_timeout' \in Seq(Timer)
  BY DEF ListIInv, TypeOK, Timer
<1>2. Mapped = Upcoming(next_timeout) /\ Mapped' = Upcoming(next_timeout')
  <2>1. Mapped = Upcoming(next_timeout)
    BY <1>1, MappedIs
  <2>2. DOMAIN next_timeout' = 1 .. Len(next_timeout')
    BY <1>1
  <2>3. DueAt' = Dues(next_timeout')
    BY DEF DueAt, Dues
  <2>4. Mapped' = Upcoming(next_timeout')
    BY <2>2, <2>3 DEF Mapped, Upcoming
  <2> QED
    BY <2>1, <2>4
<1>3. CASE \E g \in Handler : \E ms \in Msecs : sys_timeout(g, ms)
  <2>1. PICK g \in Handler, ms \in Msecs : sys_timeout(g, ms)
    BY <1>3
  <2>2. Mapped' = InsertAt(Mapped, Cardinality({i \in DOMAIN Mapped : Mapped[i].left <= ms}) + 1,
                           [h |-> g, left |-> ms])
    BY <1>2, <2>1, SetRefines
  <2>3. \A s, i, e : Timers!InsertAt(s, i, e) = InsertAt(s, i, e)
    BY DEF Timers!InsertAt, InsertAt
  <2>4. \A s : Timers!Cardinality(s) = Cardinality(s)
    BY DEF Timers!Cardinality, Cardinality
  <2>5. Timers!Set(g, ms)
    BY <2>2, <2>3, <2>4 DEF Timers!Set, Timers!NoLater, Mapped
  <2> QED
    BY <2>5 DEF Timers!Next
<1>4. CASE \E g \in Handler : sys_untimeout(g)
  <2>1. PICK g \in Handler : sys_untimeout(g)
    BY <1>4
  <2>2. Mapped' = RemoveFirstMatch(Mapped, LAMBDA e : e.h = g)
    BY <1>2, <2>1, TakeOutRefines
  <2>3. Timers!RemoveFirstMatch(Mapped, LAMBDA e : e.h = g)
          = RemoveFirstMatch(Mapped, LAMBDA e : e.h = g)
    BY DEF Timers!RemoveFirstMatch, RemoveFirstMatch, Timers!RemoveAt, RemoveAt,
           Timers!SelectInSeq, SelectInSeq, Timers!Min, Min
  <2>4. Timers!Cancel(g)
    BY <2>2, <2>3 DEF Timers!Cancel, Mapped
  <2> QED
    BY <2>4 DEF Timers!Next
<1>5. CASE Received
  <2>1. CASE Upcoming(next_timeout') = Upcoming(next_timeout)
    BY <1>2, <2>1
  <2>2. CASE Upcoming(next_timeout') # Upcoming(next_timeout)
    <3>1. Mapped # <<>> /\ \E d \in 1 .. Head(Mapped).left : Mapped' = Nearer(Mapped, d)
      BY <1>2, <1>5, <2>2, ReceivedRefines
    <3>2. Timers!Elapse
      BY <3>1 DEF Timers!Elapse, Timers!Sooner, Nearer, Mapped
    <3> QED
      BY <3>2 DEF Timers!Next
  <2> QED
    BY <2>1, <2>2
<1>6. CASE Fire
  <2>1. Timers!Fire
    BY <1>2, <1>6, FireRefines DEF Timers!Fire, Timers!Sooner, Nearer, Mapped
  <2> QED
    BY <2>1 DEF Timers!Next
<1>7. CASE Tick
  BY <1>2, <1>7, TickRefines
<1>8. CASE Post \/ TakeAtOnce \/ StartWait \/ Pend \/ UNCHANGED vars
  <2>1. UNCHANGED next_timeout
    BY <1>8 DEF Post, TakeAtOnce, StartWait, Pend, vars
  <2> QED
    BY <1>2, <2>1
<1> QED
  BY <1>3, <1>4, <1>5, <1>6, <1>7, <1>8 DEF Next, Fetch

\* For all timers, times and ticks, the list of differences and the waits of
\* tcpip_thread behave as the set of deadlines it stands for.
THEOREM TimersAreDeadlines == Spec => ImplementsDeadlines
<1>1. Init => Timers!Init
  BY DEF Init, Timers!Init
<1>2. Spec => []ListIInv
  <2>1. Init => ListIInv
    BY InitList
  <2>2. ListIInv /\ [Next]_vars => ListIInv'
    BY NextList
  <2> QED
    BY <2>1, <2>2, PTL DEF Spec
<1>3. ListIInv /\ ListIInv' /\ [Next]_vars => [Timers!Next]_Mapped
  BY StepRefines
<1> QED
  BY <1>1, <1>2, <1>3, PTL DEF Spec, ImplementsDeadlines, Timers!Spec, Mapped

-----------------------------------------------------------------------------
(* No timer fires early.                                                   *)

\* All times are whole ticks and no longer than a wait can be, as the timers of the
\* stack are (between 100 and 60000 milliseconds, in ticks of 5).
WholeTicks == \A ms \in Msecs : \E k \in 1 .. MaxTicks : ms = k * TickMs

InTicks(x) == \E k \in 0 .. MaxTicks : x = k * TickMs

\* How many ticks the first deadline is away, against the ticks that were counted and
\* those left to wait.
FirstOnTime(list, pc, dly, w) ==
  list # <<>> =>
    \E k \in 0 .. MaxTicks :
      /\ Dues(list)[1] = k * TickMs /\ w <= k
      /\ pc = "wait" => k <= dly + w
      /\ pc = "timedOut" => k = w

\* By the clock, a timer has at most as long to go as its deadline says.
NoneLate(list, w) ==
  \A i \in 1 .. Len(list) :
    /\ InTicks(Dues(list)[i])
    /\ list[i].real = 0 \/ list[i].real + w * TickMs <= Dues(list)[i]

OnTime(list, pc, dly, w) ==
  /\ NoneLate(list, w) /\ FirstOnTime(list, pc, dly, w)
  /\ pc = "run" => w = 0

TimersIInv == ListIInv /\ OnTime(next_timeout, tpc, OSTCBDly, waited)

LEMMA TickTimes ==
  /\ \A a \in Nat : a * TickMs \in Nat /\ (a + 1) * TickMs = a * TickMs + TickMs
  /\ \A a, b \in Nat : a < b <=> a * TickMs < b * TickMs
  /\ \A a, b \in Nat : a <= b => (b - a) * TickMs = b * TickMs - a * TickMs
  /\ 0 * TickMs = 0
<1>1. TickMs \in Nat /\ TickMs >= 1
  BY TimersAssumption
<1>2. \A a \in Nat : a * TickMs \in Nat /\ (a + 1) * TickMs = a * TickMs + TickMs
  BY <1>1
<1>3. ASSUME NEW a \in Nat, NEW b \in Nat, a < b PROVE a * TickMs < b * TickMs
  <2>1. PICK c \in Nat : b = a + c /\ c >= 1
    BY <1>3
  <2>2. b * TickMs = a * TickMs + c * TickMs
    BY <2>1, <1>1
  <2>3. c * TickMs >= 1
    BY <2>1, <1>1
  <2> QED
    BY <2>2, <2>3, <1>2
<1>4. ASSUME NEW a \in Nat, NEW b \in Nat, a * TickMs < b * TickMs PROVE a < b
  <2>1. CASE a = b
    BY <1>2, <1>4, <2>1
  <2>2. CASE b < a
    <3>1. b * TickMs < a * TickMs
      BY <1>3, <2>2
    <3> QED
      BY <3>1, <1>2, <1>4
  <2> QED
    BY <2>1, <2>2
<1>5. \A a, b \in Nat : a <= b => (b - a) * TickMs = b * TickMs - a * TickMs
  BY <1>1
<1> QED
  BY <1>1, <1>2, <1>3, <1>4, <1>5

LEMMA WholeDiv == ASSUME NEW k \in Nat PROVE (k * TickMs) \div TickMs = k
<1>1. TickMs \in Nat /\ TickMs >= 1
  BY TimersAssumption
<1> QED
  BY <1>1

LEMMA FirstDue ==
  ASSUME NEW list \in Seq(Timer), list # <<>>
  PROVE  /\ 1 \in 1 .. Len(list) /\ Head(list) = list[1]
         /\ list[1].time \in Nat /\ Dues(list)[1] = list[1].time
<1>1. 1 \in 1 .. Len(list) /\ Head(list) = list[1]
  OBVIOUS
<1>2. list[1].time \in Nat
  BY <1>1, TimerAt
<1>3. Dues(list)[1] = 0 + list[1].time
  BY DuesStep
<1> QED
  BY <1>1, <1>2, <1>3

LEMMA OnTimeTypes ==
  ASSUME TimersIInv
  PROVE  /\ next_timeout \in Seq(Timer) /\ waited \in Nat /\ OSTCBDly \in Nat
         /\ NoneLate(next_timeout, waited) /\ FirstOnTime(next_timeout, tpc, OSTCBDly, waited)
         /\ tpc = "run" => waited = 0
         /\ tpc \in {"run", "pend", "wait", "woken", "timedOut"}
  BY TimersAssumption DEF TimersIInv, ListIInv, OnTime, TypeOK, Timer

LEMMA TickOnTime ==
  ASSUME TimersIInv, Tick
  PROVE  OnTime(next_timeout', tpc', OSTCBDly', waited')
<1>1. /\ next_timeout \in Seq(Timer) /\ waited \in Nat /\ OSTCBDly \in Nat
      /\ NoneLate(next_timeout, waited) /\ FirstOnTime(next_timeout, tpc, OSTCBDly, waited)
      /\ tpc = "run" => waited = 0
  BY OnTimeTypes
<1>2. /\ next_timeout' \in Seq(Timer) /\ Len(next_timeout') = Len(next_timeout)
      /\ \A j \in 1 .. Len(next_timeout') :
           /\ Dues(next_timeout')[j] = Dues(next_timeout)[j]
           /\ next_timeout'[j].real = IF next_timeout[j].real > TickMs
                                      THEN next_timeout[j].real - TickMs ELSE 0
  <2>1. next_timeout' = Later(next_timeout)
    BY DEF Tick
  <2> QED
    BY <1>1, <2>1, LaterDues
<1>3. next_timeout' = <<>> <=> next_timeout = <<>>
  BY <1>1, <1>2, SameLength
<1>4. waited' = waited \/ waited' = waited + 1
  BY DEF Tick
<1>5. NoneLate(next_timeout', waited')
  <2>1. \A j \in 1 .. Len(next_timeout') : InTicks(Dues(next_timeout')[j])
    BY <1>1, <1>2 DEF NoneLate
  <2>2. ASSUME NEW j \in 1 .. Len(next_timeout'), next_timeout'[j].real # 0
        PROVE  next_timeout'[j].real + waited' * TickMs <= Dues(next_timeout')[j]
    <3>1. /\ next_timeout[j].real # 0 /\ next_timeout[j].real \in Nat
          /\ next_timeout'[j].real = next_timeout[j].real - TickMs
      BY <2>2, <1>1, <1>2, TimerAt, TimersAssumption
    <3>2. next_timeout[j].real + waited * TickMs <= Dues(next_timeout)[j]
      BY <3>1, <1>1, <1>2 DEF NoneLate
    <3>3. Dues(next_timeout')[j] = Dues(next_timeout)[j] /\ Dues(next_timeout)[j] \in Nat
      BY <1>1, <1>2, DuesNat
    <3>4. waited * TickMs \in Nat /\ (waited + 1) * TickMs = waited * TickMs + TickMs
      BY <1>1, TickTimes
    <3>5. TickMs \in Nat
      BY TimersAssumption
    <3>6. waited' * TickMs <= waited * TickMs + TickMs
      BY <1>4, <3>4, <3>5
    <3>7. waited' * TickMs \in Nat
      <4>1. waited' \in Nat
        BY <1>1, <1>4
      <4> QED
        BY <4>1, TickTimes
    <3>8. PICK w1, w2 : w1 = waited * TickMs /\ w2 = waited' * TickMs
      OBVIOUS
    <3> QED
      BY <3>1, <3>2, <3>3, <3>4, <3>5, <3>6, <3>7, <3>8
  <2> QED
    BY <2>1, <2>2 DEF NoneLate
<1>6. FirstOnTime(next_timeout', tpc', OSTCBDly', waited')
  <2> SUFFICES ASSUME next_timeout' # <<>>
               PROVE  \E k \in 0 .. MaxTicks :
                        /\ Dues(next_timeout')[1] = k * TickMs /\ waited' <= k
                        /\ tpc' = "wait" => k <= OSTCBDly' + waited'
                        /\ tpc' = "timedOut" => k = waited'
    BY DEF FirstOnTime
  <2>1. PICK k \in 0 .. MaxTicks :
          /\ Dues(next_timeout)[1] = k * TickMs /\ waited <= k
          /\ tpc = "wait" => k <= OSTCBDly + waited
          /\ tpc = "timedOut" => k = waited
    BY <1>1, <1>3 DEF FirstOnTime
  <2>2. Dues(next_timeout')[1] = k * TickMs
    BY <1>1, <1>2, <1>3, <2>1, FirstDue
  <2>3. k \in Nat
    BY TimersAssumption
  <2>4. waited * TickMs < Head(next_timeout).time <=> waited < k
    <3>1. Head(next_timeout).time = k * TickMs
      BY <1>1, <1>3, <2>1, FirstDue
    <3> QED
      BY <3>1, <1>1, <2>3, TickTimes
  <2>5. waited' = IF tpc # "run" /\ waited < k THEN waited + 1 ELSE waited
    <3>1. next_timeout # <<>>
      BY <1>3
    <3> QED
      BY <2>4, <3>1 DEF Tick
  <2>6. /\ OSTCBDly' = IF OSTCBDly > 0 THEN OSTCBDly - 1 ELSE 0
        /\ tpc' = IF tpc = "wait" /\ OSTCBDly = 1 THEN "timedOut" ELSE tpc
    BY DEF Tick
  <2>7. waited' <= k
    BY <1>1, <2>1, <2>3, <2>5
  <2>8. tpc' = "wait" => k <= OSTCBDly' + waited'
    BY <1>1, <2>1, <2>3, <2>5, <2>6
  <2>9. tpc' = "timedOut" => k = waited'
    BY <1>1, <2>1, <2>3, <2>5, <2>6
  <2> QED
    BY <2>2, <2>7, <2>8, <2>9
<1>7. tpc' = "run" => waited' = 0
  BY <1>1 DEF Tick
<1> QED
  BY <1>5, <1>6, <1>7 DEF OnTime

\* A list whose deadlines are d ticks nearer, after the d ticks that were waited.
LEMMA NearerOnTime ==
  ASSUME NEW q \in Seq(Timer), NEW d \in Nat,
         \A i \in 1 .. Len(q) : \E x \in Nat, y \in Nat :
           /\ q[i].real = 0 \/ q[i].real + d * TickMs <= x
           /\ Dues(q)[i] = x - d * TickMs /\ x = y * TickMs /\ y <= MaxTicks,
         NEW pc, pc = "run", NEW dly
  PROVE  OnTime(q, pc, dly, 0)
<1>0. d * TickMs \in Nat
  BY TickTimes
<1>1. ASSUME NEW i \in 1 .. Len(q)
      PROVE  /\ \E k \in 0 .. MaxTicks : Dues(q)[i] = k * TickMs
             /\ q[i].real = 0 \/ q[i].real + 0 * TickMs <= Dues(q)[i]
  <2>1. PICK x \in Nat, y \in Nat :
           /\ q[i].real = 0 \/ q[i].real + d * TickMs <= x
           /\ Dues(q)[i] = x - d * TickMs /\ x = y * TickMs /\ y <= MaxTicks
    BY <1>1
  <2>2. Dues(q)[i] \in Nat /\ q[i].real \in Nat
    BY DuesNat, TimerAt
  <2>3. ~(x < d * TickMs)
    BY <1>0, <2>1, <2>2
  <2>4. d <= y
    BY <2>1, <2>3, TickTimes
  <2>5. y - d \in 0 .. MaxTicks /\ (y - d) * TickMs = y * TickMs - d * TickMs
    BY <2>1, <2>4, TickTimes, TimersAssumption
  <2>6. Dues(q)[i] = (y - d) * TickMs
    BY <2>1, <2>5
  <2>7. q[i].real = 0 \/ q[i].real + 0 * TickMs <= Dues(q)[i]
    <3>1. PICK z \in Nat : z = d * TickMs
      BY <1>0
    <3>2. q[i].real = 0 \/ q[i].real <= Dues(q)[i]
      BY <3>1, <2>1, <2>2
    <3>3. 0 * TickMs = 0
      BY TickTimes
    <3> QED
      BY <3>2, <3>3, <2>2
  <2> QED
    BY <2>5, <2>6, <2>7
<1>2. NoneLate(q, 0)
  BY <1>1 DEF NoneLate, InTicks
<1>3. FirstOnTime(q, pc, dly, 0)
  <2> SUFFICES ASSUME q # <<>>
               PROVE  \E k \in 0 .. MaxTicks : Dues(q)[1] = k * TickMs /\ 0 <= k
    BY DEF FirstOnTime
  <2>1. 1 \in 1 .. Len(q)
    OBVIOUS
  <2>2. PICK k \in 0 .. MaxTicks : Dues(q)[1] = k * TickMs
    BY <1>1, <2>1
  <2>3. 0 <= k
    BY TimersAssumption
  <2> QED
    BY <2>2, <2>3
<1> QED
  BY <1>2, <1>3 DEF OnTime

LEMMA ReceivedOnTime ==
  ASSUME TimersIInv, Received
  PROVE  OnTime(next_timeout', tpc', OSTCBDly', waited')
<1>1. /\ next_timeout \in Seq(Timer) /\ waited \in Nat
      /\ NoneLate(next_timeout, waited) /\ FirstOnTime(next_timeout, tpc, OSTCBDly, waited)
  BY OnTimeTypes
<1>2. tpc' = "run" /\ waited' = 0
  BY DEF Received
<1>3. CASE next_timeout = <<>>
  <2>1. next_timeout' = <<>>
    BY <1>3 DEF Received
  <2> QED
    BY <1>2, <2>1 DEF OnTime, NoneLate, FirstOnTime
<1>4. CASE next_timeout # <<>>
  <2>1. PICK k \in 0 .. MaxTicks : Dues(next_timeout)[1] = k * TickMs /\ waited <= k
    BY <1>1, <1>4 DEF FirstOnTime
  <2>2. PICK d \in 0 .. next_timeout[1].time :
           /\ next_timeout' = Less(next_timeout, 1, d)
           /\ d = IF waited * TickMs < next_timeout[1].time THEN waited * TickMs
                  ELSE next_timeout[1].time
    BY <1>4, ReceivedTakes DEF TimersIInv
  <2>3. d = waited * TickMs
    <3>1. next_timeout[1].time = k * TickMs
      BY <1>1, <1>4, <2>1, FirstDue
    <3>2. k \in Nat
      BY TimersAssumption
    <3>3. CASE waited < k
      BY <1>1, <2>2, <3>1, <3>2, <3>3, TickTimes
    <3>4. CASE waited = k
      BY <2>2, <3>1, <3>4
    <3> QED
      BY <1>1, <2>1, <3>2, <3>3, <3>4
  <2>4. /\ next_timeout' \in Seq(Timer) /\ Len(next_timeout') = Len(next_timeout)
        /\ \A j \in 1 .. Len(next_timeout) :
             /\ next_timeout'[j].real = next_timeout[j].real
             /\ Dues(next_timeout')[j] = Dues(next_timeout)[j] - d
    BY <1>1, <1>4, <2>2, FirstLess
  <2>5. ASSUME NEW i \in 1 .. Len(next_timeout')
        PROVE  \E x \in Nat, y \in Nat :
                 /\ next_timeout'[i].real = 0 \/ next_timeout'[i].real + waited * TickMs <= x
                 /\ Dues(next_timeout')[i] = x - waited * TickMs
                 /\ x = y * TickMs /\ y <= MaxTicks
    <3>1. PICK y \in 0 .. MaxTicks : Dues(next_timeout)[i] = y * TickMs
      BY <1>1, <2>4 DEF NoneLate, InTicks
    <3>2. /\ next_timeout[i].real = 0 \/ next_timeout[i].real + waited * TickMs <= Dues(next_timeout)[i]
          /\ Dues(next_timeout)[i] \in Nat /\ y \in Nat /\ y <= MaxTicks
      BY <1>1, <2>4, DuesNat, TimersAssumption DEF NoneLate
    <3>3. /\ next_timeout'[i].real = next_timeout[i].real
          /\ Dues(next_timeout')[i] = Dues(next_timeout)[i] - waited * TickMs
      BY <2>3, <2>4
    <3> QED
      BY <3>1, <3>2, <3>3
  <2>6. OnTime(next_timeout', tpc', OSTCBDly', 0)
    BY <1>1, <1>2, <2>4, <2>5, NearerOnTime
  <2> QED
    BY <1>2, <2>6
<1> QED
  BY <1>3, <1>4

LEMMA FireOnTime ==
  ASSUME TimersIInv, Fire
  PROVE  OnTime(next_timeout', tpc', OSTCBDly', waited')
<1>1. /\ next_timeout \in Seq(Timer) /\ waited \in Nat
      /\ NoneLate(next_timeout, waited) /\ FirstOnTime(next_timeout, tpc, OSTCBDly, waited)
      /\ tpc = "run" => waited = 0
  BY OnTimeTypes
<1>2. tpc' = "run" /\ waited' = 0 /\ next_timeout' = Tail(next_timeout)
  BY DEF Fire
<1>3. next_timeout # <<>>
  BY FireList DEF TimersIInv
<1>4. next_timeout[1].time = waited * TickMs
  <2>1. PICK k \in 0 .. MaxTicks : /\ Dues(next_timeout)[1] = k * TickMs
                                   /\ tpc = "timedOut" => k = waited
    BY <1>1, <1>3 DEF FirstOnTime
  <2>2. /\ Dues(next_timeout)[1] = next_timeout[1].time
        /\ Head(next_timeout) = next_timeout[1]
    BY <1>1, <1>3, FirstDue
  <2>3. CASE tpc = "timedOut"
    BY <2>1, <2>2, <2>3
  <2>4. CASE tpc = "run" /\ HeadDue
    <3>1. next_timeout[1].time = 0 /\ waited = 0
      BY <1>1, <2>2, <2>4 DEF HeadDue
    <3> QED
      BY <3>1, TickTimes
  <2> QED
    BY <2>3, <2>4 DEF Fire
<1>5. /\ next_timeout' \in Seq(Timer) /\ Len(next_timeout') = Len(next_timeout) - 1
      /\ \A j \in 1 .. Len(next_timeout') :
           /\ next_timeout'[j].real = next_timeout[j + 1].real
           /\ Dues(next_timeout')[j] = Dues(next_timeout)[j + 1] - waited * TickMs
  BY <1>1, <1>2, <1>3, <1>4, TailDues
<1>6. ASSUME NEW i \in 1 .. Len(next_timeout')
      PROVE  \E x \in Nat, y \in Nat :
               /\ next_timeout'[i].real = 0 \/ next_timeout'[i].real + waited * TickMs <= x
               /\ Dues(next_timeout')[i] = x - waited * TickMs
               /\ x = y * TickMs /\ y <= MaxTicks
  <2>0. PICK j \in 1 .. Len(next_timeout) : j = i + 1
    BY <1>1, <1>5
  <2>1. PICK y \in 0 .. MaxTicks : Dues(next_timeout)[j] = y * TickMs
    BY <1>1 DEF NoneLate, InTicks
  <2>2. /\ next_timeout[j].real = 0 \/ next_timeout[j].real + waited * TickMs <= Dues(next_timeout)[j]
        /\ Dues(next_timeout)[j] \in Nat /\ y \in Nat /\ y <= MaxTicks
    BY <1>1, DuesNat, TimersAssumption DEF NoneLate
  <2>3. /\ next_timeout'[i].real = next_timeout[j].real
        /\ Dues(next_timeout')[i] = Dues(next_timeout)[j] - waited * TickMs
    BY <1>5, <2>0
  <2> QED
    BY <2>1, <2>2, <2>3
<1>7. OnTime(next_timeout', tpc', OSTCBDly', 0)
  BY <1>1, <1>2, <1>5, <1>6, NearerOnTime
<1> QED
  BY <1>2, <1>7

\* In tcpip_thread's own time nothing has been waited, so that every list with deadlines in
\* ticks will do in which no timer has longer to go by the clock.
LEMMA RunsOnTime ==
  ASSUME NEW q \in Seq(Timer), NEW dly,
         \A i \in 1 .. Len(q) : InTicks(Dues(q)[i]) /\ q[i].real <= Dues(q)[i]
  PROVE  OnTime(q, "run", dly, 0)
<1>1. \A i \in 1 .. Len(q) : q[i].real \in Nat
  BY TimerAt
<1>2. NoneLate(q, 0)
  <2>1. 0 * TickMs = 0
    BY TickTimes
  <2>2. \A i \in 1 .. Len(q) : q[i].real + 0 * TickMs = q[i].real
    BY <1>1, <2>1
  <2> QED
    BY <2>2 DEF NoneLate
<1>3. FirstOnTime(q, "run", dly, 0)
  <2> SUFFICES ASSUME q # <<>>
               PROVE  \E k \in 0 .. MaxTicks : Dues(q)[1] = k * TickMs /\ 0 <= k
    BY DEF FirstOnTime
  <2>1. 1 \in 1 .. Len(q)
    OBVIOUS
  <2>2. PICK k \in 0 .. MaxTicks : Dues(q)[1] = k * TickMs
    BY <2>1 DEF InTicks
  <2>3. 0 <= k
    BY TimersAssumption
  <2> QED
    BY <2>2, <2>3
<1> QED
  BY <1>2, <1>3 DEF OnTime

LEMMA RunningOnTime ==
  ASSUME TimersIInv, tpc = "run"
  PROVE  /\ waited = 0
         /\ \A i \in 1 .. Len(next_timeout) :
              /\ InTicks(Dues(next_timeout)[i])
              /\ next_timeout[i].real <= Dues(next_timeout)[i]
<1>1. next_timeout \in Seq(Timer) /\ NoneLate(next_timeout, 0) /\ waited = 0
  BY OnTimeTypes
<1>2. \A i \in 1 .. Len(next_timeout) : Dues(next_timeout)[i] \in Nat /\ next_timeout[i].real \in Nat
  BY <1>1, TimerAt, DuesNat
<1>3. 0 * TickMs = 0
  BY TickTimes
<1>4. \A i \in 1 .. Len(next_timeout) : next_timeout[i].real + 0 * TickMs = next_timeout[i].real
  BY <1>2, <1>3
<1> QED
  BY <1>1, <1>2, <1>4 DEF NoneLate

LEMMA SetOnTime ==
  ASSUME WholeTicks, TimersIInv, NEW g \in Handler, NEW ms \in Msecs, sys_timeout(g, ms)
  PROVE  OnTime(next_timeout', tpc', OSTCBDly', waited')
<1>1. next_timeout \in Seq(Timer) /\ ms \in Nat /\ tpc = "run"
  BY TimersAssumption, OnTimeTypes DEF sys_timeout
<1>2. PICK i : i = Place(ms)
  OBVIOUS
<1>3. PICK d : d = ms - Dues(next_timeout)[i - 1]
  OBVIOUS
<1>4. /\ i \in 1 .. Len(next_timeout) + 1 /\ d \in Nat
      /\ i <= Len(next_timeout) => next_timeout[i].time > d
  BY <1>1, <1>2, <1>3, PlaceRight
<1>5. next_timeout' = InsertAt(Less(next_timeout, i, d), i, [h |-> g, time |-> d, real |-> ms])
  BY <1>2, <1>3, DueAtIsDues DEF sys_timeout, Inserted
<1>6. /\ next_timeout' \in Seq(Timer) /\ Len(next_timeout') = Len(next_timeout) + 1
      /\ \A j \in 1 .. i - 1 : /\ next_timeout'[j].real = next_timeout[j].real
                               /\ Dues(next_timeout')[j] = Dues(next_timeout)[j]
      /\ next_timeout'[i].real = ms /\ Dues(next_timeout')[i] = ms
      /\ \A j \in i .. Len(next_timeout) :
           /\ next_timeout'[j + 1].real = next_timeout[j].real
           /\ Dues(next_timeout')[j + 1] = Dues(next_timeout)[j]
  <2>1. WithNew(next_timeout', next_timeout, i, ms, g)
    BY <1>1, <1>3, <1>4, <1>5, InsertedDues
  <2> QED
    BY <2>1 DEF WithNew
<1>7. /\ waited = 0
      /\ \A j \in 1 .. Len(next_timeout) :
           InTicks(Dues(next_timeout)[j]) /\ next_timeout[j].real <= Dues(next_timeout)[j]
  BY <1>1, RunningOnTime
<1>8. InTicks(ms)
  BY TimersAssumption DEF WholeTicks, InTicks
<1>9. ASSUME NEW j \in 1 .. Len(next_timeout')
      PROVE  InTicks(Dues(next_timeout')[j]) /\ next_timeout'[j].real <= Dues(next_timeout')[j]
  <2>1. CASE j < i
    <3>1. j \in 1 .. i - 1 /\ j \in 1 .. Len(next_timeout)
      BY <2>1, <1>4, <1>6
    <3> QED
      BY <3>1, <1>6, <1>7
  <2>2. CASE j = i
    BY <2>2, <1>1, <1>6, <1>8
  <2>3. CASE j > i
    <3>1. PICK l \in i .. Len(next_timeout) : j = l + 1
      <4>1. j - 1 \in i .. Len(next_timeout) /\ j = (j - 1) + 1
        BY <2>3, <1>4, <1>6
      <4> QED
        BY <4>1
    <3>2. l \in 1 .. Len(next_timeout)
      BY <1>4
    <3> QED
      BY <3>1, <3>2, <1>6, <1>7
  <2> QED
    BY <2>1, <2>2, <2>3, <1>4
<1>10. tpc' = "run" /\ waited' = 0
  BY <1>1, <1>7 DEF sys_timeout
<1>11. OnTime(next_timeout', "run", OSTCBDly', 0)
  BY <1>6, <1>9, RunsOnTime
<1> QED
  BY <1>10, <1>11

LEMMA TakeOutOnTime ==
  ASSUME TimersIInv, NEW g \in Handler, sys_untimeout(g)
  PROVE  OnTime(next_timeout', tpc', OSTCBDly', waited')
<1>1. next_timeout \in Seq(Timer) /\ tpc = "run"
  BY OnTimeTypes DEF sys_untimeout
<1>2. PICK i \in 1 .. Len(next_timeout) : next_timeout' = Removed(i)
  BY <1>1 DEF sys_untimeout
<1>3. next_timeout' = RemoveAt(Less(next_timeout, i + 1, -next_timeout[i].time), i)
  BY <1>2 DEF Removed
<1>4. /\ next_timeout' \in Seq(Timer) /\ Len(next_timeout') = Len(next_timeout) - 1
      /\ \A j \in 1 .. i - 1 : /\ next_timeout'[j].real = next_timeout[j].real
                               /\ Dues(next_timeout')[j] = Dues(next_timeout)[j]
      /\ \A j \in i .. Len(next_timeout) - 1 :
           /\ next_timeout'[j].real = next_timeout[j + 1].real
           /\ Dues(next_timeout')[j] = Dues(next_timeout)[j + 1]
  <2>1. Without(next_timeout', next_timeout, i)
    BY <1>1, <1>3, RemovedDues
  <2> QED
    BY <2>1 DEF Without
<1>5. /\ waited = 0
      /\ \A j \in 1 .. Len(next_timeout) :
           InTicks(Dues(next_timeout)[j]) /\ next_timeout[j].real <= Dues(next_timeout)[j]
  BY <1>1, RunningOnTime
<1>6. ASSUME NEW j \in 1 .. Len(next_timeout')
      PROVE  InTicks(Dues(next_timeout')[j]) /\ next_timeout'[j].real <= Dues(next_timeout')[j]
  <2>1. CASE j < i
    <3>1. j \in 1 .. i - 1 /\ j \in 1 .. Len(next_timeout)
      BY <2>1, <1>4
    <3> QED
      BY <3>1, <1>4, <1>5
  <2>2. CASE ~(j < i)
    <3>1. j \in i .. Len(next_timeout) - 1 /\ j + 1 \in 1 .. Len(next_timeout)
      BY <2>2, <1>4
    <3> QED
      BY <3>1, <1>4, <1>5
  <2> QED
    BY <2>1, <2>2
<1>7. tpc' = "run" /\ waited' = 0
  BY <1>1, <1>5 DEF sys_untimeout
<1>8. OnTime(next_timeout', "run", OSTCBDly', 0)
  BY <1>4, <1>6, RunsOnTime
<1> QED
  BY <1>7, <1>8

LEMMA PendOnTime ==
  ASSUME TimersIInv, Pend
  PROVE  OnTime(next_timeout', tpc', OSTCBDly', waited')
<1>1. /\ next_timeout \in Seq(Timer) /\ waited \in Nat
      /\ NoneLate(next_timeout, waited) /\ FirstOnTime(next_timeout, tpc, OSTCBDly, waited)
  BY OnTimeTypes
<1>2. UNCHANGED <<next_timeout, waited>>
  BY DEF Pend
<1>3. tpc' \in {"woken", "wait"}
  BY DEF Pend
<1>4. FirstOnTime(next_timeout, tpc', OSTCBDly', waited)
  <2> SUFFICES ASSUME next_timeout # <<>>
               PROVE  \E k \in 0 .. MaxTicks :
                        /\ Dues(next_timeout)[1] = k * TickMs /\ waited <= k
                        /\ tpc' = "wait" => k <= OSTCBDly' + waited
    BY <1>3 DEF FirstOnTime
  <2>1. PICK k \in 0 .. MaxTicks : Dues(next_timeout)[1] = k * TickMs /\ waited <= k
    BY <1>1 DEF FirstOnTime
  <2>2. Head(next_timeout).time = k * TickMs /\ k \in Nat
    BY <1>1, <2>1, FirstDue, TimersAssumption
  <2>3. Head(next_timeout).time \div TickMs = k
    BY <2>2, WholeDiv
  <2>4. k <= WaitTicks /\ WaitTicks \in Nat
    BY <2>3, TimersAssumption DEF WaitTicks
  <2>5. tpc' = "wait" => OSTCBDly' = WaitTicks
    BY DEF Pend
  <2>6. tpc' = "wait" => k <= OSTCBDly' + waited
    BY <1>1, <2>2, <2>4, <2>5
  <2> QED
    BY <2>1, <2>6
<1> QED
  BY <1>1, <1>2, <1>3, <1>4 DEF OnTime

LEMMA QuietOnTime ==
  ASSUME TimersIInv, Post \/ TakeAtOnce \/ StartWait \/ UNCHANGED vars
  PROVE  OnTime(next_timeout', tpc', OSTCBDly', waited')
<1>1. /\ NoneLate(next_timeout, waited) /\ FirstOnTime(next_timeout, tpc, OSTCBDly, waited)
      /\ tpc = "run" => waited = 0
  BY OnTimeTypes
<1>2. next_timeout' = next_timeout /\ waited' = waited
  BY <1>1 DEF Post, TakeAtOnce, StartWait, vars
<1>3. \/ tpc' = tpc /\ OSTCBDly' = OSTCBDly
      \/ tpc' \in {"woken", "pend"}
  BY DEF Post, TakeAtOnce, StartWait, vars
<1>4. FirstOnTime(next_timeout, tpc', OSTCBDly', waited)
  BY <1>1, <1>3 DEF FirstOnTime
<1>5. tpc' = "run" => waited = 0
  BY <1>1, <1>3
<1> QED
  BY <1>1, <1>2, <1>4, <1>5 DEF OnTime

LEMMA NextOnTime ==
  ASSUME WholeTicks, TimersIInv, [Next]_vars PROVE TimersIInv'
<1>1. ListIInv'
  BY NextList DEF TimersIInv
<1>2. OnTime(next_timeout', tpc', OSTCBDly', waited')
  BY TickOnTime, SetOnTime, TakeOutOnTime, ReceivedOnTime, FireOnTime, PendOnTime, QuietOnTime
     DEF Next, Fetch
<1>3. OnTime(next_timeout, tpc, OSTCBDly, waited)'
  BY <1>2 DEF OnTime, NoneLate, FirstOnTime, InTicks, Dues
<1> QED
  BY <1>1, <1>3 DEF TimersIInv

LEMMA OnTimeEarly ==
  ASSUME TimersIInv PROVE TimersInv
<1>1. /\ next_timeout \in Seq(Timer) /\ waited \in Nat
      /\ NoneLate(next_timeout, waited) /\ FirstOnTime(next_timeout, tpc, OSTCBDly, waited)
      /\ tpc = "run" => waited = 0
  BY OnTimeTypes
<1>2. ASSUME tpc = "timedOut" \/ (tpc = "run" /\ HeadDue)
      PROVE  Head(next_timeout).real = 0
  <2>1. next_timeout # <<>>
    BY <1>2 DEF HeadDue, TimersIInv, ListIInv, WaitRight
  <2>2. /\ 1 \in 1 .. Len(next_timeout) /\ Head(next_timeout) = next_timeout[1]
        /\ next_timeout[1].real \in Nat /\ Dues(next_timeout)[1] = next_timeout[1].time
    BY <1>1, <2>1, FirstDue, TimerAt
  <2>3. PICK k \in 0 .. MaxTicks : /\ Dues(next_timeout)[1] = k * TickMs
                                   /\ tpc = "timedOut" => k = waited
    BY <1>1, <2>1 DEF FirstOnTime
  <2>4. Dues(next_timeout)[1] = waited * TickMs
    <3>1. CASE tpc = "timedOut"
      BY <2>3, <3>1
    <3>2. CASE tpc = "run" /\ HeadDue
      <4>1. next_timeout[1].time = 0 /\ waited = 0
        BY <1>1, <2>2, <3>2 DEF HeadDue
      <4> QED
        BY <4>1, <2>2, TickTimes
    <3> QED
      BY <1>2, <3>1, <3>2
  <2>5. waited * TickMs \in Nat
    BY <1>1, TickTimes
  <2>6. next_timeout[1].real = 0 \/ next_timeout[1].real + waited * TickMs <= waited * TickMs
    BY <1>1, <2>2, <2>4 DEF NoneLate
  <2> QED
    BY <2>2, <2>5, <2>6
<1> QED
  BY <1>2 DEF TimersInv, NeverEarly, TimersIInv, ListIInv

\* For all timers, and all times that are whole ticks and no longer than a wait: the list is
\* one of times, and no timer fires before as many ticks have come as it was set to.
THEOREM TimersOnTime == ASSUME WholeTicks PROVE Spec => []TimersInv
<1>1. Init => TimersIInv
  <2>1. ASSUME Init PROVE OnTime(next_timeout, tpc, OSTCBDly, waited)
    BY <2>1 DEF Init, OnTime, NoneLate, FirstOnTime
  <2> QED
    BY <2>1, InitList DEF TimersIInv
<1>2. TimersIInv /\ [Next]_vars => TimersIInv'
  BY NextOnTime
<1>3. TimersIInv => TimersInv
  BY OnTimeEarly
<1> QED
  BY <1>1, <1>2, <1>3, PTL DEF Spec

-----------------------------------------------------------------------------
(* Reassembly.                                                             *)

\* The list of datagrams: new ones come in front with the whole time, so it is sorted by
\* what is left of their times, and the oldest, the last of equals, is the last one.
ReassEntry == [id : Datagram, timer : 0 .. ReassMaxAge, last : BOOLEAN, p : Seq(Pieces)]
EntryIds(list) == \A j, k \in DOMAIN list : list[j].id = list[k].id => j = k
Sorted(list) == \A j, k \in DOMAIN list : j < k => list[j].timer >= list[k].timer
\* Whoever holds a last fragment knows that there is one, and is not complete.
SawLast(r) == \A j \in DOMAIN r.p : r.p[j].end = Length => r.last
Unfinished(list) == \A k \in DOMAIN list : SawLast(list[k]) /\ ~Tiles(list[k].p)
ReassList(list) == list \in Seq(ReassEntry) /\ EntryIds(list) /\ Sorted(list) /\ Unfinished(list)
ReassIInv ==
  /\ ReassList(reassdatagrams) /\ Len(reassdatagrams) <= MaxDatagrams
  /\ ip_reass_pbufcount = AllPbufs(reassdatagrams) /\ ip_reass_pbufcount <= MaxPbufs
  /\ Length <= 3 => DeliveredWhole

\* The types of the parts.
LEMMA PieceIs ==
  ASSUME NEW f \in Pieces
  PROVE  /\ f.start \in Nat /\ f.end \in Nat /\ Clen(f) \in Nat \ {0}
         /\ f.start < f.end /\ f.end <= Length
  BY ReassAssumption DEF Clen

LEMMA EntryIs ==
  ASSUME NEW r \in ReassEntry
  PROVE  r.id \in Datagram /\ r.timer \in 0 .. ReassMaxAge /\ r.last \in BOOLEAN /\ r.p \in Seq(Pieces)
  BY DEF ReassEntry

LEMMA IndicesFinite == ASSUME NEW X, NEW s \in Seq(X), NEW S \in SUBSET DOMAIN s PROVE IsFiniteSet(S)
<1>1. DOMAIN s = 1 .. Len(s) /\ Len(s) \in Nat
  OBVIOUS
<1>2. IsFiniteSet(DOMAIN s)
  BY <1>1, FS_Interval
<1> QED
  BY <1>2, FS_Subset

\* What a chain and a part of the list hold.
LEMMA PbufsNat == ASSUME NEW p \in Seq(Pieces) PROVE Pbufs(p) \in Nat
<1>1. IsFiniteSet(DOMAIN p)
  BY IndicesFinite
<1>2. \A k \in DOMAIN p : [j \in DOMAIN p |-> Clen(p[j])][k] \in Nat
  BY PieceIs
<1> QED
  BY <1>1, <1>2, SumNat DEF Pbufs

LEMMA HeldNat ==
  ASSUME NEW list \in Seq(ReassEntry), NEW S \in SUBSET DOMAIN list
  PROVE  /\ IsFiniteSet(S) /\ Held(list, S) \in Nat
         /\ \A k \in S : [j \in DOMAIN list |-> Pbufs(list[j].p)][k] \in Nat
<1>1. IsFiniteSet(S)
  BY IndicesFinite
<1>2. \A k \in S : [j \in DOMAIN list |-> Pbufs(list[j].p)][k] \in Nat
  BY PbufsNat, EntryIs
<1> QED
  BY <1>1, <1>2, SumNat DEF Held

LEMMA HeldUnion ==
  ASSUME NEW list \in Seq(ReassEntry), NEW S \in SUBSET DOMAIN list, NEW T \in SUBSET DOMAIN list,
         S \cap T = {}
  PROVE  Held(list, S \cup T) = Held(list, S) + Held(list, T)
<1>1. IsFiniteSet(S) /\ IsFiniteSet(T)
  BY HeldNat
<1>2. \A k \in S \cup T : [j \in DOMAIN list |-> Pbufs(list[j].p)][k] \in Nat
  BY HeldNat
<1> QED
  BY <1>1, <1>2, SumUnion DEF Held

\* Lists that agree on S hold the same there.
LEMMA HeldSame ==
  ASSUME NEW list \in Seq(ReassEntry), NEW other \in Seq(ReassEntry), NEW S,
         S \subseteq DOMAIN list, S \subseteq DOMAIN other, \A k \in S : list[k].p = other[k].p
  PROVE  Held(list, S) = Held(other, S)
<1>1. IsFiniteSet(S)
  BY HeldNat
<1>2. \A k \in S : [j \in DOMAIN list |-> Pbufs(list[j].p)][k] = [j \in DOMAIN other |-> Pbufs(other[j].p)][k]
  OBVIOUS
<1> QED
  BY <1>1, <1>2, SumSame DEF Held

\* The first m of a list.
LEMMA FrontOf ==
  ASSUME NEW list \in Seq(ReassEntry), ReassList(list), NEW m \in 0 .. Len(list), NEW q \in Seq(ReassEntry),
         Len(q) = m, \A i \in 1 .. m : q[i] = list[i]
  PROVE  ReassList(q) /\ AllPbufs(list) = AllPbufs(q) + Held(list, m + 1 .. Len(list))
<1>1. DOMAIN q = 1 .. m /\ DOMAIN list = 1 .. Len(list) /\ 1 .. m \subseteq DOMAIN list
  OBVIOUS
<1>2. EntryIds(q) /\ Sorted(q) /\ Unfinished(q)
  <2>1. \A i \in DOMAIN q : i \in DOMAIN list /\ q[i] = list[i]
    BY <1>1
  <2>2. EntryIds(list) /\ Sorted(list) /\ Unfinished(list)
    BY DEF ReassList
  <2>3. EntryIds(q) /\ Unfinished(q)
    BY <2>1, <2>2 DEF EntryIds, Unfinished
  <2>4. Sorted(q)
    BY <2>1, <2>2 DEF Sorted
  <2> QED
    BY <2>3, <2>4
<1>3. Held(list, 1 .. m) = Held(q, 1 .. m)
  BY <1>1, HeldSame
<1>4. PICK T : T = m + 1 .. Len(list)
  OBVIOUS
<1>5. T \subseteq DOMAIN list /\ 1 .. m \cap T = {} /\ 1 .. m \cup T = DOMAIN list
  BY <1>1, <1>4
<1>6. Held(list, DOMAIN list) = Held(list, 1 .. m) + Held(list, T)
  <2>1. PICK S : S = 1 .. m
    OBVIOUS
  <2>2. S \in SUBSET DOMAIN list /\ T \in SUBSET DOMAIN list /\ S \cap T = {}
    BY <1>1, <1>5, <2>1, Zenon
  <2>3. Held(list, S \cup T) = Held(list, S) + Held(list, T)
    BY <2>2, HeldUnion, Zenon
  <2> QED
    BY <1>5, <2>1, <2>3, Zenon
<1> QED
  BY <1>1, <1>2, <1>3, <1>4, <1>6 DEF AllPbufs, ReassList

-----------------------------------------------------------------------------
(* Room is made.                                                           *)

\* What is left of a list when room has been made, and what was freed.
RoomOf(list, l, freed) ==
  /\ ReassList(l) /\ Len(l) <= Len(list) /\ freed \in Nat
  /\ AllPbufs(list) = AllPbufs(l) + freed
  /\ freed > 0 => Len(l) < Len(list)

LEMMA AllNat == ASSUME NEW list, ReassList(list) PROVE AllPbufs(list) \in Nat
<1>1. list \in Seq(ReassEntry) /\ DOMAIN list \in SUBSET DOMAIN list
  BY DEF ReassList
<1> QED
  BY <1>1, HeldNat DEF AllPbufs

LEMMA NoneHeld == ASSUME NEW list PROVE Held(list, {}) = 0
  BY SumEmpty DEF Held

LEMMA RoomInRight == ASSUME NEW list, ReassList(list) PROVE RoomOf(list, RoomIn(list).list, RoomIn(list).freed)
<1>1. AllPbufs(list) \in Nat /\ Len(list) \in Nat
  BY AllNat DEF ReassList
<1> QED
  BY <1>1 DEF RoomOf, RoomIn

\* The loop of ip_reass_remove_oldest_datagram ends, at the latest with an empty list.
LEMMA GivenUpIs ==
  ASSUME NEW list \in Seq(ReassEntry), NEW id, NEW needed
  PROVE  GivenUp(list, id, needed) \in 0 .. Len(list)
<1> DEFINE N == {n \in 0 .. Len(list) : \/ Enough(list, id, needed, n)
                                        \/ OldestBut(Shorter(list, n), id) # Len(list) - n}
<1>1. PICK l : l = Shorter(list, Len(list))
  OBVIOUS
<1>2. DOMAIN l = {}
  <2>1. l = SubSeq(list, 1, 0)
    BY <1>1 DEF Shorter
  <2>2. l = <<>>
    BY <2>1
  <2> QED
    BY <2>2
<1>3. Enough(list, id, needed, Len(list))
  BY <1>1, <1>2 DEF Enough, Others
<1>4. Len(list) \in N
  BY <1>3
<1>5. N \in SUBSET Nat /\ N # {}
  BY <1>4
<1>6. Min(N) \in N
  BY <1>5, MinOf
<1>7. GivenUp(list, id, needed) = Min(N)
  BY DEF GivenUp
<1> QED
  BY <1>6, <1>7

LEMMA RemoveRight ==
  ASSUME NEW list, ReassList(list), NEW id, NEW needed, NEW r, r = RemoveOldest(list, id, needed)
  PROVE  RoomOf(list, r.list, r.freed)
<1>1. list \in Seq(ReassEntry) /\ Len(list) \in Nat /\ DOMAIN list = 1 .. Len(list)
  BY DEF ReassList
<1>2. PICK n \in 0 .. Len(list) : n = GivenUp(list, id, needed)
  BY <1>1, GivenUpIs
<1>3. r.list = SubSeq(list, 1, Len(list) - n) /\ r.freed = Held(list, Len(list) - n + 1 .. Len(list))
  BY <1>2 DEF RemoveOldest, Shorter, Freed
<1>4. PICK m \in 0 .. Len(list) : m = Len(list) - n
  BY <1>1, <1>2
<1>5. PICK q : q = SubSeq(list, 1, m)
  OBVIOUS
<1>6. q \in Seq(ReassEntry) /\ Len(q) = m /\ \A i \in 1 .. m : q[i] = list[i]
  BY <1>1, <1>2, <1>4, <1>5
<1>7. ReassList(q) /\ AllPbufs(list) = AllPbufs(q) + Held(list, m + 1 .. Len(list))
  BY <1>1, <1>6, FrontOf
<1>8. m + 1 .. Len(list) \in SUBSET DOMAIN list
  BY <1>1, <1>4
<1>9. Held(list, m + 1 .. Len(list)) \in Nat
  BY <1>1, <1>8, HeldNat
<1>10. Held(list, m + 1 .. Len(list)) > 0 => m < Len(list)
  <2> SUFFICES ASSUME m = Len(list) PROVE Held(list, m + 1 .. Len(list)) = 0
    BY <1>1, <1>2, <1>4, <1>9
  <2>1. m + 1 .. Len(list) = {}
    BY <1>1
  <2> QED
    BY <2>1, NoneHeld
<1>11. r.list = q /\ r.freed = Held(list, m + 1 .. Len(list))
  BY <1>3, <1>4, <1>5
<1> QED
  BY <1>1, <1>4, <1>6, <1>7, <1>9, <1>10, <1>11 DEF RoomOf

\* Room is made twice.
LEMMA RoomTwice ==
  ASSUME NEW list, NEW l, NEW m, NEW x, NEW y, list \in Seq(ReassEntry), RoomOf(list, l, x), RoomOf(l, m, y)
  PROVE  RoomOf(list, m, x + y)
<1>1. Len(list) \in Nat /\ Len(l) \in Nat /\ Len(m) \in Nat /\ AllPbufs(m) \in Nat
  BY AllNat DEF RoomOf, ReassList
<1> QED
  BY <1>1 DEF RoomOf

-----------------------------------------------------------------------------
(* A fragment goes into its chain.                                         *)

LEMMA StopIs ==
  ASSUME NEW p \in Seq(Pieces), NEW f \in Pieces
  PROVE  WalkStops(p, f) \in 1 .. Len(p) + 1
<1> DEFINE B == {k \in DOMAIN p : f.start < p[k].start}
<1>1. B \in SUBSET Nat /\ B \subseteq 1 .. Len(p) /\ Len(p) \in Nat
  OBVIOUS
<1>2. CASE B = {}
  BY <1>1, <1>2 DEF WalkStops
<1>3. CASE B # {}
  <2>1. Min(B) \in B
    BY <1>1, <1>3, MinOf
  <2>2. WalkStops(p, f) = Min(B)
    BY <1>3 DEF WalkStops
  <2> QED
    BY <1>1, <2>1, <2>2
<1> QED
  BY <1>2, <1>3

\* c is the chain p with f before its k-th fragment.
Spliced(c, p, f, k) ==
  /\ c \in Seq(Pieces) /\ Len(c) = Len(p) + 1 /\ k \in 1 .. Len(p) + 1 /\ c[k] = f
  /\ \A j \in 1 .. k - 1 : c[j] = p[j]
  /\ \A j \in k .. Len(p) : c[j + 1] = p[j]

LEMMA ChainedIs ==
  ASSUME NEW p \in Seq(Pieces), NEW f \in Pieces
  PROVE  Spliced(Chained(p, f), p, f, WalkStops(p, f))
<1>0. PICK k, c : k = WalkStops(p, f) /\ c = Chained(p, f)
  OBVIOUS
<1>1. k \in 1 .. Len(p) + 1 /\ Len(p) \in Nat
  BY <1>0, StopIs
<1>2. c = SubSeq(p, 1, k - 1) \o <<f>> \o SubSeq(p, k, Len(p))
  BY <1>0 DEF Chained, InsertAt
<1>3. PICK a : a = SubSeq(p, 1, k - 1)
  OBVIOUS
<1>4. PICK b : b = SubSeq(p, k, Len(p))
  OBVIOUS
<1>5. a \in Seq(Pieces) /\ Len(a) = k - 1 /\ \A j \in 1 .. k - 1 : a[j] = p[j]
  BY <1>1, <1>3
<1>6. b \in Seq(Pieces) /\ Len(b) = Len(p) + 1 - k /\ \A j \in 1 .. Len(b) : b[j] = p[k + j - 1]
  BY <1>1, <1>4
<1>7. PICK d : d = a \o <<f>>
  OBVIOUS
<1>8. d \in Seq(Pieces) /\ Len(d) = k /\ d[k] = f /\ \A j \in 1 .. k - 1 : d[j] = p[j]
  BY <1>1, <1>5, <1>7
<1>9. c = d \o b
  BY <1>2, <1>3, <1>4, <1>7
<1>10. c \in Seq(Pieces) /\ Len(c) = Len(p) + 1
  <2>1. c \in Seq(Pieces) /\ Len(c) = Len(d) + Len(b)
    BY <1>6, <1>8, <1>9
  <2> QED
    BY <1>1, <1>6, <1>8, <2>1
<1>11. \A j \in 1 .. k : c[j] = d[j]
  BY <1>1, <1>6, <1>8, <1>9
<1>12. \A j \in k .. Len(p) : c[j + 1] = p[j]
  <2> TAKE j \in k .. Len(p)
  <2>1. c[j + 1] = b[j + 1 - k]
    BY <1>1, <1>6, <1>8, <1>9
  <2>2. PICK i \in 1 .. Len(b) : i = j + 1 - k
    BY <1>1, <1>6
  <2>3. b[i] = p[k + i - 1] /\ k + i - 1 = j
    BY <1>1, <1>6, <2>2
  <2> QED
    BY <2>1, <2>2, <2>3
<1>13. c[k] = f /\ \A j \in 1 .. k - 1 : c[j] = p[j]
  BY <1>1, <1>8, <1>11
<1> QED
  BY <1>0, <1>1, <1>10, <1>12, <1>13 DEF Spliced

LEMMA ChainedHolds ==
  ASSUME NEW p \in Seq(Pieces), NEW f \in Pieces
  PROVE  Pbufs(Chained(p, f)) = Pbufs(p) + Clen(f)
<1>1. PICK k, c : k = WalkStops(p, f) /\ c = Chained(p, f)
  OBVIOUS
<1>2. /\ c \in Seq(Pieces) /\ Len(c) = Len(p) + 1 /\ k \in 1 .. Len(p) + 1 /\ c[k] = f
      /\ \A j \in 1 .. k - 1 : c[j] = p[j]
      /\ \A j \in k .. Len(p) : c[j + 1] = p[j]
  <2>1. Spliced(c, p, f, k)
    BY <1>1, ChainedIs
  <2> QED
    BY <2>1 DEF Spliced
<1>3. PICK g : g = [j \in DOMAIN p |-> Clen(p[j])]
  OBVIOUS
<1>4. PICK h : h = [j \in DOMAIN c |-> Clen(c[j])]
  OBVIOUS
<1>5. PICK n \in Nat : n = Len(p)
  OBVIOUS
<1>6. DOMAIN p = 1 .. n /\ DOMAIN c = 1 .. n + 1 /\ k \in 1 .. n + 1
  BY <1>2, <1>5
<1>7. \A j \in 1 .. n : g[j] = Clen(p[j]) /\ g[j] \in Nat
  BY <1>3, <1>6, PieceIs
<1>8. \A j \in 1 .. n + 1 : h[j] = Clen(c[j])
  BY <1>4, <1>6
<1>9. h[k] = Clen(f) /\ Clen(f) \in Nat
  BY <1>2, <1>6, <1>8, PieceIs
<1>10. \A j \in 1 .. k - 1 : h[j] = g[j]
  <2> TAKE j \in 1 .. k - 1
  <2>1. j \in 1 .. n /\ j \in 1 .. n + 1
    BY <1>6
  <2>2. c[j] = p[j]
    BY <1>2
  <2> QED
    BY <1>7, <1>8, <2>1, <2>2
<1>11. \A j \in k .. n : h[j + 1] = g[j]
  <2> TAKE j \in k .. n
  <2>1. j \in 1 .. n /\ j + 1 \in 1 .. n + 1 /\ c[j + 1] = p[j]
    BY <1>2, <1>5, <1>6
  <2> QED
    BY <1>7, <1>8, <2>1
<1>12. SumFunctionOnSet(h, 1 .. n + 1) = SumFunctionOnSet(g, 1 .. n) + h[k]
  <2>1. HasMore(h, g, n, k)
    BY <1>5, <1>6, <1>7, <1>9, <1>10, <1>11 DEF HasMore
  <2> QED
    BY <2>1, SumSpliced
<1>13. Pbufs(p) = SumFunctionOnSet(g, 1 .. n) /\ Pbufs(c) = SumFunctionOnSet(h, 1 .. n + 1)
  BY <1>3, <1>4, <1>6 DEF Pbufs
<1> QED
  BY <1>1, <1>9, <1>12, <1>13

-----------------------------------------------------------------------------
(* A datagram goes into the list, or out of it.                            *)

\* l is the list q with one more, r, at place k.
OneMore(l, q, k, r) ==
  /\ l \in Seq(ReassEntry) /\ q \in Seq(ReassEntry) /\ Len(l) = Len(q) + 1 /\ k \in 1 .. Len(q) + 1
  /\ l[k] = r
  /\ \A j \in 1 .. k - 1 : l[j] = q[j]
  /\ \A j \in k .. Len(q) : l[j + 1] = q[j]

LEMMA OneMoreHeld ==
  ASSUME NEW l, NEW q, NEW k, NEW r, OneMore(l, q, k, r)
  PROVE  AllPbufs(l) = AllPbufs(q) + Pbufs(r.p)
<1>2. /\ l \in Seq(ReassEntry) /\ q \in Seq(ReassEntry) /\ Len(l) = Len(q) + 1 /\ k \in 1 .. Len(q) + 1
      /\ l[k] = r
      /\ \A j \in 1 .. k - 1 : l[j] = q[j]
      /\ \A j \in k .. Len(q) : l[j + 1] = q[j]
  BY DEF OneMore
<1>3. PICK g : g = [j \in DOMAIN q |-> Pbufs(q[j].p)]
  OBVIOUS
<1>4. PICK h : h = [j \in DOMAIN l |-> Pbufs(l[j].p)]
  OBVIOUS
<1>5. PICK n \in Nat : n = Len(q)
  BY <1>2
<1>6. DOMAIN q = 1 .. n /\ DOMAIN l = 1 .. n + 1 /\ k \in 1 .. n + 1
  BY <1>2, <1>5
<1>7. \A j \in 1 .. n : g[j] = Pbufs(q[j].p) /\ g[j] \in Nat
  BY <1>2, <1>3, <1>6, EntryIs, PbufsNat
<1>8. \A j \in 1 .. n + 1 : h[j] = Pbufs(l[j].p) /\ h[j] \in Nat
  BY <1>2, <1>4, <1>6, EntryIs, PbufsNat
<1>9. h[k] = Pbufs(r.p) /\ h[k] \in Nat
  BY <1>2, <1>6, <1>8
<1>10. \A j \in 1 .. k - 1 : h[j] = g[j]
  <2> TAKE j \in 1 .. k - 1
  <2>1. j \in 1 .. n /\ j \in 1 .. n + 1
    BY <1>6
  <2>2. l[j] = q[j]
    BY <1>2
  <2> QED
    BY <1>7, <1>8, <2>1, <2>2
<1>11. \A j \in k .. n : h[j + 1] = g[j]
  <2> TAKE j \in k .. n
  <2>1. j \in 1 .. n /\ j + 1 \in 1 .. n + 1 /\ l[j + 1] = q[j]
    BY <1>2, <1>5, <1>6
  <2> QED
    BY <1>7, <1>8, <2>1
<1>12. SumFunctionOnSet(h, 1 .. n + 1) = SumFunctionOnSet(g, 1 .. n) + h[k]
  <2>1. HasMore(h, g, n, k)
    BY <1>5, <1>6, <1>7, <1>9, <1>10, <1>11 DEF HasMore
  <2> QED
    BY <2>1, SumSpliced
<1>13. AllPbufs(q) = SumFunctionOnSet(g, 1 .. n) /\ AllPbufs(l) = SumFunctionOnSet(h, 1 .. n + 1)
  BY <1>3, <1>4, <1>6 DEF AllPbufs, Held
<1> QED
  BY <1>9, <1>12, <1>13

LEMMA TakenOut ==
  ASSUME NEW l, ReassList(l), NEW k \in DOMAIN l, NEW q, q = RemoveAt(l, k)
  PROVE  ReassList(q) /\ OneMore(l, q, k, l[k])
<1>1. l \in Seq(ReassEntry) /\ Len(l) \in Nat /\ DOMAIN l = 1 .. Len(l)
  BY DEF ReassList
<1>2. PICK a : a = SubSeq(l, 1, k - 1)
  OBVIOUS
<1>3. PICK b : b = SubSeq(l, k + 1, Len(l))
  OBVIOUS
<1>4. a \in Seq(ReassEntry) /\ Len(a) = k - 1 /\ \A j \in 1 .. k - 1 : a[j] = l[j]
  BY <1>1, <1>2
<1>5. b \in Seq(ReassEntry) /\ Len(b) = Len(l) - k /\ \A j \in 1 .. Len(b) : b[j] = l[k + j]
  BY <1>1, <1>3
<1>6. q = a \o b
  BY <1>2, <1>3 DEF RemoveAt
<1>7. q \in Seq(ReassEntry) /\ Len(q) = Len(a) + Len(b)
  <2>1. a \in Seq(ReassEntry) /\ b \in Seq(ReassEntry)
    BY <1>4, <1>5
  <2> QED
    BY <1>6, <2>1
<1>8. Len(l) = Len(q) + 1 /\ k \in 1 .. Len(q) + 1 /\ Len(q) \in Nat
  <2>1. Len(a) = k - 1 /\ Len(b) = Len(l) - k /\ Len(q) = Len(a) + Len(b)
    BY <1>4, <1>5, <1>7
  <2>2. k \in 1 .. Len(l) /\ Len(l) \in Nat
    BY <1>1
  <2>3. Len(q) = Len(l) - 1
    BY <2>1, <2>2
  <2> QED
    BY <2>2, <2>3
<1>9. \A j \in 1 .. k - 1 : q[j] = l[j]
  BY <1>1, <1>4, <1>5, <1>6
<1>10. \A j \in k .. Len(q) : l[j + 1] = q[j]
  <2> TAKE j \in k .. Len(q)
  <2>1. PICK i \in 1 .. Len(b) : i = j - (k - 1)
    BY <1>1, <1>4, <1>5, <1>8
  <2>2. q[j] = b[i]
    <3>1. a \in Seq(ReassEntry) /\ b \in Seq(ReassEntry) /\ j = Len(a) + i
      BY <1>1, <1>4, <1>5, <2>1
    <3>2. (a \o b)[Len(a) + i] = b[i]
      BY <2>1, <3>1
    <3> QED
      BY <1>6, <3>1, <3>2
  <2>3. b[i] = l[k + i] /\ k + i = j + 1
    <3>1. k + i = j + 1
      BY <1>1, <2>1
    <3> QED
      BY <1>5, <2>1, <3>1
  <2> QED
    BY <2>2, <2>3
<1>11. OneMore(l, q, k, l[k])
  BY <1>1, <1>7, <1>8, <1>9, <1>10 DEF OneMore
<1>12. DOMAIN q = 1 .. Len(q)
  BY <1>7
<1> DEFINE u(j) == IF j < k THEN j ELSE j + 1
<1>13. \A j \in DOMAIN q : u(j) \in DOMAIN l /\ q[j] = l[u(j)]
  <2> TAKE j \in DOMAIN q
  <2>1. CASE j < k
    BY <1>1, <1>8, <1>9, <1>12, <2>1
  <2>2. CASE ~ (j < k)
    BY <1>1, <1>8, <1>10, <1>12, <2>2
  <2> QED
    BY <2>1, <2>2
<1>14. \A i, j \in DOMAIN q : (u(i) = u(j) => i = j) /\ (i < j => u(i) < u(j))
  BY <1>1, <1>8, <1>12
<1> HIDE DEF u
<1>15. EntryIds(l) /\ Sorted(l) /\ Unfinished(l)
  BY DEF ReassList
<1>16. EntryIds(q)
  BY <1>13, <1>14, <1>15 DEF EntryIds
<1>17. Sorted(q)
  BY <1>13, <1>14, <1>15 DEF Sorted
<1>18. Unfinished(q)
  BY <1>13, <1>15 DEF Unfinished
<1> QED
  BY <1>7, <1>11, <1>16, <1>17, <1>18 DEF ReassList

LEMMA NewIs ==
  ASSUME NEW id \in Datagram, NEW r, r = NewDatagram(id)
  PROVE  /\ r \in ReassEntry /\ r.id = id /\ r.timer = ReassMaxAge
         /\ r.p = <<>> /\ Pbufs(r.p) = 0 /\ SawLast(r) /\ ~Tiles(r.p)
<1>1. ReassMaxAge \in 0 .. ReassMaxAge /\ <<>> \in Seq(Pieces)
  BY ReassAssumption
<1>2. r \in ReassEntry /\ r.id = id /\ r.timer = ReassMaxAge /\ r.p = <<>>
  BY <1>1 DEF NewDatagram, ReassEntry
<1>3. DOMAIN r.p = {}
  BY <1>2
<1>4. Pbufs(r.p) = 0
  BY <1>3, SumEmpty DEF Pbufs
<1> QED
  BY <1>2, <1>3, <1>4 DEF SawLast, Tiles

LEMMA PutInFront ==
  ASSUME NEW list \in Seq(ReassEntry), NEW r \in ReassEntry, NEW l, l = <<r>> \o list
  PROVE  OneMore(l, list, 1, r)
<1>1. l \in Seq(ReassEntry) /\ Len(l) = Len(list) + 1 /\ Len(list) \in Nat /\ l[1] = r
  OBVIOUS
<1>2. \A j \in 1 .. Len(list) : l[j + 1] = list[j]
  OBVIOUS
<1> QED
  BY <1>1, <1>2 DEF OneMore

LEMMA WithRight ==
  ASSUME NEW list, ReassList(list), NEW id \in Datagram, NEW l, l = WithDatagram(list, id)
  PROVE  /\ ReassList(l) /\ AllPbufs(l) = AllPbufs(list) /\ Known(l, id)
         /\ Len(l) = IF Known(list, id) THEN Len(list) ELSE Len(list) + 1
<1>1. CASE Known(list, id)
  BY <1>1 DEF WithDatagram
<1>2. CASE ~Known(list, id)
  <2>1. PICK r : r = NewDatagram(id)
    OBVIOUS
  <2>2. /\ r \in ReassEntry /\ r.id = id /\ r.timer = ReassMaxAge
        /\ r.p = <<>> /\ Pbufs(r.p) = 0 /\ SawLast(r) /\ ~Tiles(r.p)
    BY <2>1, NewIs
  <2>3. l = <<r>> \o list /\ list \in Seq(ReassEntry)
    BY <1>2, <2>1 DEF WithDatagram, ReassList
  <2>4. OneMore(l, list, 1, r)
    BY <2>2, <2>3, PutInFront
  <2>5. /\ l \in Seq(ReassEntry) /\ Len(l) = Len(list) + 1 /\ Len(list) \in Nat /\ l[1] = r
        /\ \A j \in 1 .. Len(list) : l[j + 1] = list[j]
    BY <2>3, <2>4 DEF OneMore
  <2>6. DOMAIN l = 1 .. Len(list) + 1 /\ DOMAIN list = 1 .. Len(list)
    BY <2>3, <2>5
  <2>7. \A i \in DOMAIN l : i = 1 \/ (i - 1 \in DOMAIN list /\ l[i] = list[i - 1])
    <3> TAKE i \in DOMAIN l
    <3> SUFFICES ASSUME i # 1 PROVE i - 1 \in DOMAIN list /\ l[i] = list[i - 1]
      OBVIOUS
    <3>1. PICK j : j = i - 1
      OBVIOUS
    <3>2. j \in 1 .. Len(list) /\ j + 1 = i
      BY <2>5, <2>6, <3>1
    <3>3. l[i] = list[j]
      BY <2>5, <3>2
    <3> QED
      BY <2>6, <3>1, <3>2, <3>3
  <2>8. EntryIds(list) /\ Sorted(list) /\ Unfinished(list)
    BY DEF ReassList
  <2>9. \A i \in DOMAIN list : list[i].id # id
    BY <1>2 DEF Known
  <2>10. EntryIds(l)
    <3> SUFFICES ASSUME NEW i \in DOMAIN l, NEW j \in DOMAIN l, l[i].id = l[j].id PROVE i = j
      BY DEF EntryIds
    <3>1. CASE i = 1 \/ j = 1
      BY <2>2, <2>5, <2>7, <2>9, <3>1
    <3>2. CASE i # 1 /\ j # 1
      <4>1. i - 1 \in DOMAIN list /\ j - 1 \in DOMAIN list /\ list[i - 1].id = list[j - 1].id
        BY <2>7, <3>2
      <4>2. i - 1 = j - 1
        BY <2>8, <4>1 DEF EntryIds
      <4> QED
        BY <2>6, <4>2
    <3> QED
      BY <3>1, <3>2
  <2>11. Sorted(l)
    <3> SUFFICES ASSUME NEW i \in DOMAIN l, NEW j \in DOMAIN l, i < j PROVE l[i].timer >= l[j].timer
      BY DEF Sorted
    <3>1. j # 1 /\ j - 1 \in DOMAIN list /\ l[j] = list[j - 1]
      BY <2>6, <2>7
    <3>2. CASE i = 1
      <4>1. list[j - 1] \in ReassEntry
        BY <2>3, <3>1
      <4>2. list[j - 1].timer \in 0 .. ReassMaxAge
        BY <4>1, EntryIs
      <4> QED
        BY <2>2, <2>5, <3>1, <3>2, <4>2, ReassAssumption
    <3>3. CASE i # 1
      <4>1. i - 1 \in DOMAIN list /\ l[i] = list[i - 1] /\ i - 1 < j - 1
        BY <2>6, <2>7, <3>3
      <4> QED
        BY <2>8, <3>1, <4>1 DEF Sorted
    <3> QED
      BY <3>2, <3>3
  <2>12. Unfinished(l)
    BY <2>2, <2>5, <2>7, <2>8 DEF Unfinished
  <2>13. AllPbufs(l) = AllPbufs(list)
    <3>1. AllPbufs(list) \in Nat
      BY AllNat
    <3> QED
      BY <2>2, <2>4, <3>1, OneMoreHeld
  <2>14. Known(l, id)
    BY <2>2, <2>5, <2>6 DEF Known
  <2> QED
    BY <1>2, <2>5, <2>10, <2>11, <2>12, <2>13, <2>14 DEF ReassList
<1> QED
  BY <1>1, <1>2

\* A datagram of the list is given another chain or flag.
CanReplace(l, k, e) ==
  /\ k \in DOMAIN l /\ e \in ReassEntry /\ e.id = l[k].id /\ e.timer = l[k].timer
  /\ SawLast(e) /\ ~Tiles(e.p)
Put(l, k, e) == [l EXCEPT ![k] = e]
HasInstead(q, l, k, e) ==
  /\ ReassList(q) /\ Len(q) = Len(l)
  /\ AllPbufs(q) + Pbufs(l[k].p) = AllPbufs(l) + Pbufs(e.p)
LEMMA PutRight ==
  ASSUME NEW l, ReassList(l), NEW k, NEW e, CanReplace(l, k, e)
  PROVE  HasInstead(Put(l, k, e), l, k, e)
<1> PICK q : q = [l EXCEPT ![k] = e]
  OBVIOUS
<1> /\ k \in DOMAIN l /\ e \in ReassEntry /\ e.id = l[k].id /\ e.timer = l[k].timer
    /\ SawLast(e) /\ ~Tiles(e.p)
  BY DEF CanReplace
<1>1. l \in Seq(ReassEntry) /\ q \in Seq(ReassEntry) /\ DOMAIN q = DOMAIN l /\ Len(q) = Len(l)
  BY DEF ReassList
<1>2. \A j \in DOMAIN l : q[j] = IF j = k THEN e ELSE l[j]
  BY <1>1
<1>3. EntryIds(l) /\ Sorted(l) /\ Unfinished(l)
  BY DEF ReassList
<1>4. \A j \in DOMAIN l : q[j].id = l[j].id /\ q[j].timer = l[j].timer
  BY <1>2
<1>5. EntryIds(q)
  BY <1>1, <1>3, <1>4 DEF EntryIds
<1>6. Sorted(q)
  BY <1>1, <1>3, <1>4 DEF Sorted
<1>7. Unfinished(q)
  BY <1>1, <1>2, <1>3 DEF Unfinished
<1>8. PICK f : f = [j \in DOMAIN l |-> Pbufs(l[j].p)]
  OBVIOUS
<1>9. PICK g : g = [j \in DOMAIN q |-> Pbufs(q[j].p)]
  OBVIOUS
<1>10. PICK S : S = DOMAIN l
  OBVIOUS
<1>11. IsFiniteSet(S)
  BY <1>1, <1>10, IndicesFinite
<1>12. (\A x \in S : f[x] \in Nat) /\ g[k] \in Nat
  <2>1. \A x \in S : f[x] = Pbufs(l[x].p) /\ l[x] \in ReassEntry
    BY <1>1, <1>8, <1>10
  <2>2. g[k] = Pbufs(e.p)
    BY <1>1, <1>2, <1>9
  <2> QED
    BY <2>1, <2>2, EntryIs, PbufsNat
<1>13. (\A x \in S \ {k} : g[x] = f[x]) /\ k \in S
  BY <1>1, <1>2, <1>8, <1>9, <1>10
<1>14. SumFunctionOnSet(g, S) + f[k] = SumFunctionOnSet(f, S) + g[k]
  BY <1>11, <1>12, <1>13, SumExcept, SMT
<1>15. AllPbufs(l) = SumFunctionOnSet(f, S) /\ AllPbufs(q) = SumFunctionOnSet(g, S)
  BY <1>1, <1>8, <1>9, <1>10 DEF AllPbufs, Held
<1>16. f[k] = Pbufs(l[k].p) /\ g[k] = Pbufs(e.p)
  BY <1>1, <1>2, <1>8, <1>9
<1> QED
  BY <1>1, <1>5, <1>6, <1>7, <1>14, <1>15, <1>16 DEF ReassList, HasInstead, Put

-----------------------------------------------------------------------------
(* What is complete is found to be, and what is delivered is complete.     *)

\* Valid and Rejected, of the chain with f in it and the place of f.
ValidAt(p, c, k) ==
  /\ \A j \in 1 .. k - 2 : Adjoin(p, j)
  /\ k = Len(p) + 1 /\ k > 1 => Adjoin(c, k - 1)
  /\ c[1].start = 0
  /\ \A j \in k .. Len(c) - 1 : Adjoin(c, j)
RejectedAt(p, f, k) ==
  \/ \E j \in 1 .. k - 1 : f.start < p[j].end
  \/ k > 1 /\ k <= Len(p) /\ f.end > p[k].start

LEMMA PlacedAt ==
  ASSUME NEW p, NEW f, NEW c, NEW k, k = WalkStops(p, f), c = Chained(p, f)
  PROVE  (Valid(p, f) <=> ValidAt(p, c, k)) /\ (Rejected(p, f) <=> RejectedAt(p, f, k))
  BY DEF Valid, ValidAt, Rejected, RejectedAt

LEMMA CompleteValid ==
  ASSUME NEW p \in Seq(Pieces), NEW f \in Pieces, Tiles(Chained(p, f))
  PROVE  Valid(p, f)
<1>1. PICK k, c : k = WalkStops(p, f) /\ c = Chained(p, f)
  OBVIOUS
<1>2. Spliced(c, p, f, k)
  BY <1>1, ChainedIs
<1>3. Len(c) = Len(p) + 1 /\ Len(p) \in Nat /\ k \in 1 .. Len(p) + 1 /\ \A j \in 1 .. k - 1 : c[j] = p[j]
  BY <1>2 DEF Spliced
<1>4. c[1].start = 0 /\ \A j \in 1 .. Len(c) - 1 : Adjoin(c, j)
  BY <1>1 DEF Tiles
<1>5. \A j \in 1 .. k - 2 : Adjoin(p, j)
  <2> TAKE j \in 1 .. k - 2
  <2>1. c[j] = p[j] /\ c[j + 1] = p[j + 1] /\ j \in 1 .. Len(c) - 1
    BY <1>3
  <2>2. Adjoin(c, j)
    BY <1>4, <2>1
  <2> QED
    BY <2>1, <2>2 DEF Adjoin
<1>6. k = Len(p) + 1 /\ k > 1 => Adjoin(c, k - 1)
  BY <1>3, <1>4
<1>7. \A j \in k .. Len(c) - 1 : Adjoin(c, j)
  BY <1>3, <1>4
<1>8. ValidAt(p, c, k)
  BY <1>4, <1>5, <1>6, <1>7 DEF ValidAt
<1> QED
  BY <1>1, <1>8, PlacedAt

\* With at most three blocks, a fragment between two others leaves no hole before it.
LEMMA ShortWhole ==
  ASSUME NEW p \in Seq(Pieces), NEW f \in Pieces, NEW c, c = Chained(p, f),
         ~Rejected(p, f), Valid(p, f), Last(c).end = Length, Length <= 3
  PROVE  Tiles(c)
<1>1. PICK k : k = WalkStops(p, f)
  OBVIOUS
<1>2. Spliced(c, p, f, k)
  BY <1>1, ChainedIs
<1>3. /\ c \in Seq(Pieces) /\ Len(c) = Len(p) + 1 /\ Len(p) \in Nat /\ k \in 1 .. Len(p) + 1
      /\ c[k] = f /\ \A j \in 1 .. k - 1 : c[j] = p[j]
  BY <1>2 DEF Spliced
<1>4. \A j \in k .. Len(p) : c[j + 1] = p[j]
  BY <1>2 DEF Spliced
<1>5. ValidAt(p, c, k) /\ ~RejectedAt(p, f, k)
  BY <1>1, PlacedAt
<1>6. \A j \in 1 .. Len(p) : Adjoin(c, j)
  <2> TAKE j \in 1 .. Len(p)
  <2>1. CASE j < k - 1
    <3>1. j \in 1 .. k - 2 /\ c[j] = p[j] /\ c[j + 1] = p[j + 1]
      BY <1>3, <2>1
    <3>2. Adjoin(p, j)
      BY <1>5, <3>1 DEF ValidAt
    <3> QED
      BY <3>1, <3>2 DEF Adjoin
  <2>2. CASE j >= k
    <3>1. j \in k .. Len(c) - 1
      BY <1>3, <2>2
    <3> QED
      BY <1>5, <3>1 DEF ValidAt
  <2>3. CASE j = k - 1 /\ k = Len(p) + 1
    BY <1>3, <1>5, <2>3 DEF ValidAt
  <2>4. CASE j = k - 1 /\ k <= Len(p)
    <3>1. c[j] = p[j] /\ c[j + 1] = f /\ k \in 1 .. Len(p) /\ k > 1 /\ j \in 1 .. k - 1
      BY <1>3, <2>4
    <3>2. p[j] \in Pieces /\ p[k] \in Pieces
      BY <1>3, <3>1
    <3>3. f.start >= p[j].end /\ f.end <= p[k].start
      <4>1. p[j].end \in Nat /\ p[k].start \in Nat /\ f.start \in Nat /\ f.end \in Nat
        BY <3>2, PieceIs
      <4> QED
        BY <1>3, <1>5, <3>1, <4>1 DEF RejectedAt
    <3>4. /\ p[j].start \in Nat /\ p[j].end \in Nat /\ p[j].start < p[j].end
          /\ p[k].start \in Nat /\ p[k].end \in Nat /\ p[k].start < p[k].end /\ p[k].end <= Length
          /\ f.start \in Nat /\ f.end \in Nat /\ f.start < f.end
      BY <3>2, PieceIs
    <3>5. p[j].end = f.start
      BY <3>3, <3>4, ReassAssumption
    <3> QED
      BY <3>1, <3>5 DEF Adjoin
  <2> QED
    BY <1>3, <2>1, <2>2, <2>3, <2>4
<1>7. c # <<>> /\ c[1].start = 0 /\ c[Len(c)].end = Length
  BY <1>3, <1>5 DEF ValidAt, Last
<1> QED
  BY <1>3, <1>6, <1>7 DEF Tiles

\* The entry of a datagram in the list, with the flag of the last fragment.
LEMMA WhereIs ==
  ASSUME NEW l, NEW id, Known(l, id)
  PROVE  Where(l, id) \in DOMAIN l /\ l[Where(l, id)].id = id
  BY DEF Known, Where

LEMMA MarkedIs ==
  ASSUME NEW r \in ReassEntry, NEW f \in Pieces, NEW m, m = Marked(r, f)
  PROVE  /\ m \in ReassEntry /\ m.id = r.id /\ m.timer = r.timer /\ m.p = r.p
         /\ m.last <=> (r.last \/ f.end = Length)
<1>1. r.last \in BOOLEAN
  BY EntryIs
<1>2. PICK b \in BOOLEAN : b = (r.last \/ f.end = Length)
  OBVIOUS
<1>3. m = [r EXCEPT !.last = b]
  BY <1>2 DEF Marked
<1> QED
  BY <1>2, <1>3 DEF ReassEntry

\* The entry with the fragment in its chain: complete only if it was found to be.
Grown(m, f) == [m EXCEPT !.p = Chained(m.p, f)]
Grows(e, f, m, q) ==
  /\ SawLast(m)
  /\ q \in ReassEntry /\ q.id = e.id /\ q.timer = e.timer /\ q.p = Chained(e.p, f)
  /\ SawLast(q) /\ (Tiles(q.p) => m.last /\ Valid(e.p, f))
LEMMA GrownIs ==
  ASSUME NEW e \in ReassEntry, SawLast(e), NEW f \in Pieces
  PROVE  Grows(e, f, Marked(e, f), Grown(Marked(e, f), f))
<1> PICK m : m = Marked(e, f)
  OBVIOUS
<1> PICK q : q = [m EXCEPT !.p = Chained(m.p, f)]
  OBVIOUS
<1>1. /\ m \in ReassEntry /\ m.id = e.id /\ m.timer = e.timer /\ m.p = e.p
      /\ m.last <=> (e.last \/ f.end = Length)
  BY MarkedIs
<1>2. PICK c : c = Chained(e.p, f)
  OBVIOUS
<1>3. PICK p \in Seq(Pieces) : p = e.p
  BY EntryIs
<1>4. PICK k : k = WalkStops(p, f)
  OBVIOUS
<1>5. Spliced(c, p, f, k)
  BY <1>2, <1>3, <1>4, ChainedIs
<1>6. /\ c \in Seq(Pieces) /\ Len(c) = Len(p) + 1 /\ Len(p) \in Nat /\ k \in 1 .. Len(p) + 1
      /\ c[k] = f
      /\ \A j \in 1 .. k - 1 : c[j] = p[j]
      /\ \A j \in k .. Len(p) : c[j + 1] = p[j]
  BY <1>5 DEF Spliced
<1>7. q \in ReassEntry /\ q.id = e.id /\ q.timer = e.timer /\ q.p = c /\ q.last = m.last
  BY <1>1, <1>2, <1>6 DEF ReassEntry
<1>8. \A j \in DOMAIN p : p[j].end = Length => m.last
  BY <1>1, <1>3 DEF SawLast
<1>9. SawLast(m)
  BY <1>1, <1>3, <1>8 DEF SawLast
<1>10. \A j \in DOMAIN c : c[j].end = Length => m.last
  <2> TAKE j \in DOMAIN c
  <2>1. CASE j < k
    BY <1>6, <1>8, <2>1
  <2>2. CASE j = k
    BY <1>1, <1>6, <2>2
  <2>3. CASE j > k
    <3>1. PICK i : i = j - 1
      OBVIOUS
    <3>2. i \in k .. Len(p) /\ i \in DOMAIN p /\ i + 1 = j
      BY <1>6, <2>3, <3>1
    <3>3. c[j] = p[i]
      BY <1>6, <3>2
    <3> QED
      BY <1>8, <3>2, <3>3
  <2> QED
    BY <1>6, <2>1, <2>2, <2>3
<1>11. SawLast(q)
  BY <1>7, <1>10 DEF SawLast
<1>12. Tiles(c) => m.last /\ Valid(p, f)
  <2> SUFFICES ASSUME Tiles(c) PROVE m.last /\ Valid(p, f)
    OBVIOUS
  <2>1. c[Len(c)].end = Length /\ Len(c) \in DOMAIN c
    BY <1>6 DEF Tiles
  <2>2. Valid(p, f)
    BY <1>2, <1>3, CompleteValid
  <2> QED
    BY <1>10, <2>1, <2>2
<1> QED
  BY <1>2, <1>3, <1>7, <1>9, <1>11, <1>12 DEF Grows, Grown

-----------------------------------------------------------------------------
(* The steps.                                                              *)

LEMMA ReassPrimed ==
  ASSUME ReassList(reassdatagrams'), Len(reassdatagrams') <= MaxDatagrams,
         ip_reass_pbufcount' = AllPbufs(reassdatagrams'), ip_reass_pbufcount' <= MaxPbufs,
         Length <= 3 /\ delivered' # NothingDelivered => Tiles(delivered'.p)
  PROVE  ReassIInv'
  BY DEF ReassIInv, DeliveredWhole, ReassList, EntryIds, Sorted, Unfinished, SawLast, Tiles, Adjoin,
         AllPbufs, Held, Pbufs, Clen, NothingDelivered, ReassEntry

LEMMA StoreRight ==
  ASSUME ReassIInv, NEW list, ReassList(list), NEW count, count = AllPbufs(list),
         NEW id \in Datagram, NEW f \in Pieces, count + Clen(f) <= MaxPbufs,
         Len(list) <= MaxDatagrams, Known(list, id) \/ Len(list) < MaxDatagrams,
         Store(list, id, f, count)
  PROVE  ReassIInv'
<1>1. PICK l : l = WithDatagram(list, id)
  OBVIOUS
<1>2. /\ ReassList(l) /\ AllPbufs(l) = AllPbufs(list) /\ Known(l, id)
      /\ Len(l) = IF Known(list, id) THEN Len(list) ELSE Len(list) + 1
  BY <1>1, WithRight
<1>3. PICK k : k = Where(l, id)
  OBVIOUS
<1>4. k \in DOMAIN l /\ l[k].id = id
  BY <1>2, <1>3, WhereIs
<1>5. PICK m : m = Marked(l[k], f)
  OBVIOUS
<1>6. PICK q : q = [m EXCEPT !.p = Chained(m.p, f)]
  OBVIOUS
<1>7. l \in Seq(ReassEntry) /\ Len(list) \in Nat /\ Len(l) \in Nat /\ l[k] \in ReassEntry
      /\ SawLast(l[k]) /\ ~Tiles(l[k].p)
  BY <1>2, <1>4 DEF ReassList, Unfinished
<1>8. Len(l) <= MaxDatagrams
  BY <1>2, <1>7, ReassAssumption
<1>9. /\ m \in ReassEntry /\ m.id = l[k].id /\ m.timer = l[k].timer /\ m.p = l[k].p
  BY <1>5, <1>7, MarkedIs
<1>10. /\ SawLast(m)
       /\ q \in ReassEntry /\ q.id = l[k].id /\ q.timer = l[k].timer /\ q.p = Chained(l[k].p, f)
       /\ SawLast(q) /\ (Tiles(q.p) => m.last /\ Valid(l[k].p, f))
  <2>1. PICK e : e = l[k]
    OBVIOUS
  <2>2. e \in ReassEntry /\ SawLast(e) /\ m = Marked(e, f)
    BY <1>5, <1>7, <2>1
  <2>3. /\ SawLast(m)
        /\ q \in ReassEntry /\ q.id = e.id /\ q.timer = e.timer /\ q.p = Chained(e.p, f)
        /\ SawLast(q) /\ (Tiles(q.p) => m.last /\ Valid(e.p, f))
    <3>1. Grows(e, f, Marked(e, f), Grown(Marked(e, f), f))
      BY <2>2, GrownIs
    <3>2. q = Grown(Marked(e, f), f)
      BY <1>6, <2>2 DEF Grown
    <3>3. Grows(e, f, m, q)
      BY <2>2, <3>1, <3>2
    <3> QED
      BY <3>3 DEF Grows
  <2> QED
    BY <2>1, <2>3
<1>11. /\ Pbufs(l[k].p) \in Nat /\ Clen(f) \in Nat /\ Pbufs(q.p) = Pbufs(l[k].p) + Clen(f)
       /\ AllPbufs(l) \in Nat
  <2>1. l[k].p \in Seq(Pieces)
    BY <1>7, EntryIs
  <2> QED
    BY <1>2, <1>10, <2>1, AllNat, PbufsNat, PieceIs, ChainedHolds
<1>12. CASE Rejected(m.p, f)
  <2>1. /\ reassdatagrams' = [l EXCEPT ![k] = m] /\ delivered' = NothingDelivered
        /\ ip_reass_pbufcount' = count + Clen(f) - Clen(f)
    BY <1>1, <1>3, <1>5, <1>12 DEF Store, CountedOff
  <2>2. PICK n : n = [l EXCEPT ![k] = m]
    OBVIOUS
  <2>3. /\ ReassList(n) /\ Len(n) = Len(l)
        /\ AllPbufs(n) + Pbufs(l[k].p) = AllPbufs(l) + Pbufs(m.p)
    <3>1. CanReplace(l, k, m)
      BY <1>4, <1>7, <1>9, <1>10 DEF CanReplace
    <3> QED
      <4>1. HasInstead(Put(l, k, m), l, k, m) /\ n = Put(l, k, m)
        BY <1>2, <2>2, <3>1, PutRight DEF Put
      <4> QED
        BY <4>1 DEF HasInstead
  <2>4. AllPbufs(n) \in Nat
    BY <2>3, AllNat
  <2>5. AllPbufs(n) = count /\ count <= MaxPbufs
    BY <1>2, <1>9, <1>11, <2>3, <2>4, ReassAssumption
  <2> QED
    BY <1>8, <1>11, <2>1, <2>2, <2>3, <2>4, <2>5, ReassPrimed
<1>13. CASE ~Rejected(m.p, f) /\ ~(m.last /\ Valid(m.p, f))
  <2>1. /\ reassdatagrams' = [l EXCEPT ![k] = q] /\ delivered' = NothingDelivered
        /\ ip_reass_pbufcount' = count + Clen(f)
    BY <1>1, <1>3, <1>5, <1>6, <1>13 DEF Store
  <2>2. PICK n : n = [l EXCEPT ![k] = q]
    OBVIOUS
  <2>3. /\ ReassList(n) /\ Len(n) = Len(l)
        /\ AllPbufs(n) + Pbufs(l[k].p) = AllPbufs(l) + Pbufs(q.p)
    <3>1. CanReplace(l, k, q)
      BY <1>4, <1>9, <1>10, <1>13 DEF CanReplace
    <3> QED
      <4>1. HasInstead(Put(l, k, q), l, k, q) /\ n = Put(l, k, q)
        BY <1>2, <2>2, <3>1, PutRight DEF Put
      <4> QED
        BY <4>1 DEF HasInstead
  <2>4. AllPbufs(n) \in Nat
    BY <2>3, AllNat
  <2>5. AllPbufs(n) = count + Clen(f)
    BY <1>2, <1>11, <2>3, <2>4
  <2> QED
    BY <1>8, <2>1, <2>2, <2>3, <2>5, ReassPrimed
<1>14. CASE ~Rejected(m.p, f) /\ m.last /\ Valid(m.p, f) /\ Last(q.p).end = Length
  <2>1. /\ reassdatagrams' = RemoveAt(l, k) /\ delivered' = [id |-> id, p |-> q.p]
        /\ ip_reass_pbufcount' = count + Clen(f) - Pbufs(q.p)
    BY <1>1, <1>3, <1>5, <1>6, <1>14 DEF Store
  <2>2. PICK n : n = RemoveAt(l, k)
    OBVIOUS
  <2>3. ReassList(n) /\ OneMore(l, n, k, l[k])
    BY <1>2, <1>4, <2>2, TakenOut
  <2>4. AllPbufs(l) = AllPbufs(n) + Pbufs(l[k].p) /\ AllPbufs(n) \in Nat
    BY <2>3, OneMoreHeld, AllNat
  <2>5. Len(l) = Len(n) + 1 /\ Len(n) \in Nat
    BY <2>3 DEF OneMore, ReassList
  <2>6. count + Clen(f) - Pbufs(q.p) = AllPbufs(n) /\ AllPbufs(n) <= MaxPbufs
    BY <1>2, <1>11, <2>4, ReassAssumption
  <2>7. Length <= 3 => Tiles(q.p)
    <3>1. l[k].p \in Seq(Pieces)
      BY <1>7, EntryIs
    <3> QED
      BY <1>9, <1>10, <1>14, <3>1, ShortWhole
  <2>8. delivered'.p = q.p
    BY <2>1
  <2>9. Len(n) <= MaxDatagrams
    BY <1>8, <2>5, ReassAssumption
  <2> QED
    BY <2>1, <2>2, <2>3, <2>6, <2>7, <2>8, <2>9, ReassPrimed
<1>15. CASE ~Rejected(m.p, f) /\ m.last /\ Valid(m.p, f) /\ Last(q.p).end # Length
  <2>1. UNCHANGED <<reassdatagrams, ip_reass_pbufcount, delivered>>
    BY <1>1, <1>3, <1>5, <1>6, <1>15 DEF Store, Stop
  <2> QED
    BY <2>1, ReassPrimed DEF ReassIInv, DeliveredWhole
<1> QED
  BY <1>12, <1>13, <1>14, <1>15

\* The list is sorted by what is left of the datagrams' times, so the living come first.
Living(list) == {k \in DOMAIN list : list[k].timer > 0}

LEMMA LivingFirst ==
  ASSUME NEW list, ReassList(list), NEW live, live = Living(list)
  PROVE  \E m \in 0 .. Len(list) : live = 1 .. m
<1>1. list \in Seq(ReassEntry) /\ Len(list) \in Nat /\ DOMAIN list = 1 .. Len(list) /\ Sorted(list)
  BY DEF ReassList
<1>2. \A k \in DOMAIN list : list[k].timer \in Nat
  <2> TAKE k \in DOMAIN list
  <2>1. list[k].timer \in 0 .. ReassMaxAge
    BY <1>1, EntryIs
  <2> QED
    BY <2>1, ReassAssumption
<1>5. live = {k \in DOMAIN list : list[k].timer > 0}
  BY DEF Living
<1> DEFINE dead == DOMAIN list \ live
<1>3. CASE dead = {}
  <2>1. live = 1 .. Len(list)
    BY <1>1, <1>3, <1>5
  <2>2. Len(list) \in 0 .. Len(list)
    BY <1>1
  <2> QED
    BY <2>1, <2>2, Zenon
<1>4. CASE dead # {}
  <2>1. PICK d : d = Min(dead)
    OBVIOUS
  <2>2. d \in dead /\ \A y \in dead : d <= y
    <3>1. dead \in SUBSET Nat
      BY <1>1
    <3> QED
      BY <1>4, <2>1, <3>1, MinOf
  <2>3. d \in 1 .. Len(list) /\ list[d].timer = 0
    BY <1>1, <1>2, <1>5, <2>2
  <2>4. \A k \in DOMAIN list : d <= k => list[k].timer = 0
    <3> SUFFICES ASSUME NEW k \in DOMAIN list, d < k PROVE list[k].timer = 0
      BY <1>1, <2>3
    <3>1. list[d].timer >= list[k].timer
      BY <1>1, <2>3 DEF Sorted
    <3> QED
      BY <1>2, <2>3, <3>1
  <2>5. live = 1 .. d - 1
    <3>1. \A k \in DOMAIN list : k \in live <=> k < d
      BY <1>1, <1>5, <2>2, <2>3, <2>4
    <3> QED
      BY <1>1, <1>5, <2>3, <3>1
  <2>6. PICK m \in 0 .. Len(list) : m = d - 1
    BY <1>1, <2>3
  <2> QED
    BY <2>5, <2>6
<1> QED
  BY <1>3, <1>4

LEMMA ThoseFirst ==
  ASSUME NEW list \in Seq(ReassEntry), NEW m \in 0 .. Len(list), NEW q, q = Those(list, 1 .. m)
  PROVE  q = [i \in 1 .. m |-> list[i]] /\ q \in Seq(ReassEntry) /\ Len(q) = m
<1>1. Len(list) \in Nat /\ DOMAIN list = 1 .. Len(list)
  OBVIOUS
<1>2. Cardinality(1 .. m) = m
  <2>1. Cardinality(1 .. m) = IF 1 > m THEN 0 ELSE m - 1 + 1
    BY <1>1, FS_Interval
  <2> QED
    BY <1>1, <2>1
<1>3. \A i \in 1 .. m : Nth(1 .. m, i) = i
  <2> TAKE i \in 1 .. m
  <2>1. \A k \in 1 .. m : Cardinality({j \in 1 .. m : j <= k}) = k
    <3> TAKE k \in 1 .. m
    <3>1. {j \in 1 .. m : j <= k} = 1 .. k
      BY <1>1
    <3>2. Cardinality(1 .. k) = IF 1 > k THEN 0 ELSE k - 1 + 1
      BY <1>1, FS_Interval
    <3>3. k >= 1 /\ k - 1 + 1 = k /\ ~(1 > k)
      BY <1>1
    <3>4. Cardinality(1 .. k) = k
      BY <3>2, <3>3, Zenon
    <3> QED
      BY <3>1, <3>4, Zenon
  <2>2. i \in 1 .. m /\ Cardinality({j \in 1 .. m : j <= i}) = i
    BY <2>1
  <2>3. Nth(1 .. m, i) \in 1 .. m /\ Cardinality({j \in 1 .. m : j <= Nth(1 .. m, i)}) = i
    BY <2>2 DEF Nth
  <2> QED
    BY <2>1, <2>3
<1>4. q = [i \in 1 .. m |-> list[i]]
  BY <1>2, <1>3 DEF Those
<1>5. q \in Seq(ReassEntry) /\ Len(q) = m
  BY <1>1, <1>4
<1> QED
  BY <1>4, <1>5

LEMMA AgedIs ==
  ASSUME NEW r \in ReassEntry, r.timer > 0
  PROVE  Aged(r) \in ReassEntry /\ Aged(r).id = r.id /\ Aged(r).timer = r.timer - 1
         /\ Aged(r).last = r.last /\ Aged(r).p = r.p
<1>1. PICK t \in 0 .. ReassMaxAge : t = r.timer - 1
  BY EntryIs, ReassAssumption
<1>2. Aged(r) = [r EXCEPT !.timer = t]
  BY <1>1 DEF Aged
<1> QED
  BY <1>1, <1>2 DEF ReassEntry

LEMMA TimerRight == ASSUME ReassIInv, ip_reass_tmr PROVE ReassIInv'
<1>1. PICK list : list = reassdatagrams
  OBVIOUS
<1>2. ReassList(list) /\ list \in Seq(ReassEntry) /\ Len(list) \in Nat /\ DOMAIN list = 1 .. Len(list)
  BY <1>1 DEF ReassIInv, ReassList
<1>3. PICK live : live = Living(list)
  OBVIOUS
<1>4. PICK m \in 0 .. Len(list) : live = 1 .. m
  <2>1. ReassList(list)
    BY <1>2
  <2> QED
    BY <1>3, <2>1, LivingFirst, Zenon
<1>5. PICK q : q = Those(list, live)
  OBVIOUS
<1>6. q = [i \in 1 .. m |-> list[i]] /\ q \in Seq(ReassEntry) /\ Len(q) = m
  BY <1>2, <1>4, <1>5, ThoseFirst
<1>7. PICK n : n = [k \in DOMAIN q |-> Aged(q[k])]
  OBVIOUS
<1>8. PICK gone : gone = DOMAIN list \ live
  OBVIOUS
<1>9. /\ reassdatagrams' = n /\ delivered' = NothingDelivered
      /\ ip_reass_pbufcount' = ip_reass_pbufcount - Held(list, gone)
  BY <1>1, <1>3, <1>5, <1>7, <1>8 DEF ip_reass_tmr, Living
<1>10. gone = m + 1 .. Len(list)
  BY <1>2, <1>4, <1>8
<1>11. DOMAIN q = 1 .. m /\ \A i \in 1 .. m : q[i] = list[i]
  BY <1>6
<1>12. ReassList(q) /\ AllPbufs(list) = AllPbufs(q) + Held(list, gone)
  BY <1>2, <1>6, <1>10, <1>11, FrontOf
<1>13. \A i \in DOMAIN q : q[i] \in ReassEntry /\ q[i].timer > 0
  BY <1>2, <1>3, <1>4, <1>6, <1>11 DEF Living
<1>14. DOMAIN n = DOMAIN q /\ \A i \in DOMAIN q :
         /\ n[i] \in ReassEntry /\ n[i].id = q[i].id /\ n[i].timer = q[i].timer - 1
         /\ n[i].last = q[i].last /\ n[i].p = q[i].p
  BY <1>7, <1>13, AgedIs
<1>15. n \in Seq(ReassEntry) /\ Len(n) = m
  BY <1>2, <1>6, <1>7, <1>11, <1>14
<1>16. EntryIds(q) /\ Sorted(q) /\ Unfinished(q)
  BY <1>12 DEF ReassList
<1>17. EntryIds(n)
  BY <1>14, <1>16 DEF EntryIds
<1>18. Sorted(n)
  <2> SUFFICES ASSUME NEW i \in DOMAIN q, NEW j \in DOMAIN q, i < j PROVE n[i].timer >= n[j].timer
    BY <1>14 DEF Sorted
  <2>1. q[i].timer >= q[j].timer
    BY <1>16 DEF Sorted
  <2>2. q[i].timer \in 0 .. ReassMaxAge /\ q[j].timer \in 0 .. ReassMaxAge
    BY <1>13, EntryIs
  <2> QED
    BY <1>14, <2>1, <2>2, ReassAssumption
<1>19. Unfinished(n)
  BY <1>14, <1>16 DEF Unfinished, SawLast
<1>20. AllPbufs(n) = AllPbufs(q)
  <2>1. \A k \in DOMAIN q : n[k].p = q[k].p
    BY <1>14
  <2> QED
    BY <1>6, <1>14, <1>15, <2>1, HeldSame DEF AllPbufs
<1>21. ReassList(n) /\ Len(n) <= MaxDatagrams
  <2>1. Len(list) <= MaxDatagrams
    BY <1>1 DEF ReassIInv
  <2> QED
    BY <1>2, <1>15, <1>17, <1>18, <1>19, <2>1, ReassAssumption DEF ReassList
<1>22. AllPbufs(q) \in Nat /\ Held(list, gone) \in Nat
  BY <1>2, <1>8, <1>12, AllNat, HeldNat
<1>23. ip_reass_pbufcount = AllPbufs(list) /\ ip_reass_pbufcount <= MaxPbufs
  BY <1>1 DEF ReassIInv
<1>24. ip_reass_pbufcount - Held(list, gone) = AllPbufs(n) /\ AllPbufs(n) <= MaxPbufs
  BY <1>12, <1>20, <1>22, <1>23, ReassAssumption
<1> QED
  BY <1>9, <1>21, <1>24, ReassPrimed

LEMMA InputRight ==
  ASSUME ReassIInv, NEW id \in Datagram, NEW f \in Pieces, ip_reass(id, f)
  PROVE  ReassIInv'
<1>1. PICK list : list = reassdatagrams
  OBVIOUS
<1>2. /\ ReassList(list) /\ list \in Seq(ReassEntry) /\ Len(list) \in Nat /\ Len(list) <= MaxDatagrams
      /\ ip_reass_pbufcount = AllPbufs(list) /\ ip_reass_pbufcount <= MaxPbufs
  BY <1>1 DEF ReassIInv, ReassList
<1>3. PICK a : a = RoomForPbufs(id, f)
  OBVIOUS
<1>4. PICK b : b = RoomForDatagram(a.list, id, f)
  OBVIOUS
<1>5. RoomOf(list, a.list, a.freed)
  <2>1. CASE Over(f)
    BY <1>1, <1>2, <1>3, <2>1, RemoveRight DEF RoomForPbufs
  <2>2. CASE ~Over(f)
    BY <1>1, <1>2, <1>3, <2>2, RoomInRight DEF RoomForPbufs
  <2> QED
    BY <2>1, <2>2
<1>6. ReassList(a.list) /\ a.freed \in Nat /\ Len(a.list) \in Nat /\ Len(a.list) <= Len(list)
  BY <1>5 DEF RoomOf, ReassList
<1>7. RoomOf(a.list, b.list, b.freed)
  <2>1. CASE ~Known(a.list, id) /\ Len(a.list) = MaxDatagrams
    BY <1>4, <1>6, <2>1, RemoveRight DEF RoomForDatagram
  <2>2. CASE ~ (~Known(a.list, id) /\ Len(a.list) = MaxDatagrams)
    BY <1>4, <1>6, <2>2, RoomInRight DEF RoomForDatagram
  <2> QED
    BY <2>1, <2>2
<1>8. ReassList(b.list) /\ b.freed \in Nat /\ Len(b.list) \in Nat /\ Len(b.list) <= Len(a.list)
      /\ (b.freed > 0 => Len(b.list) < Len(a.list))
  BY <1>7 DEF RoomOf, ReassList
<1>9. AllPbufs(list) = AllPbufs(a.list) + a.freed /\ AllPbufs(a.list) = AllPbufs(b.list) + b.freed
  BY <1>5, <1>7 DEF RoomOf
<1>10. AllPbufs(list) \in Nat /\ AllPbufs(a.list) \in Nat /\ AllPbufs(b.list) \in Nat /\ Clen(f) \in Nat \ {0}
  BY <1>2, <1>6, <1>8, AllNat, PieceIs
<1>11. MaxPbufs \in Nat /\ MaxDatagrams \in Nat
  BY ReassAssumption
<1>12. CASE Stop
  BY <1>12, ReassPrimed DEF ReassIInv, DeliveredWhole, Stop
<1>13. CASE /\ reassdatagrams' = a.list /\ delivered' = NothingDelivered
            /\ ip_reass_pbufcount' = ip_reass_pbufcount - a.freed
  <2>1. ip_reass_pbufcount' = AllPbufs(a.list) /\ ip_reass_pbufcount' <= MaxPbufs /\ Len(a.list) <= MaxDatagrams
    BY <1>2, <1>6, <1>9, <1>10, <1>11, <1>13
  <2> QED
    BY <1>6, <1>13, <2>1, ReassPrimed
<1>14. CASE /\ reassdatagrams' = b.list /\ delivered' = NothingDelivered
            /\ ip_reass_pbufcount' = ip_reass_pbufcount - a.freed - b.freed
  <2>1. /\ ip_reass_pbufcount' = ip_reass_pbufcount - a.freed - b.freed
        /\ ip_reass_pbufcount = AllPbufs(b.list) + b.freed + a.freed
    BY <1>2, <1>6, <1>8, <1>9, <1>10, <1>14
  <2>2. ip_reass_pbufcount' = AllPbufs(b.list)
    BY <1>6, <1>8, <1>10, <2>1
  <2>3. ip_reass_pbufcount' <= MaxPbufs
    BY <1>2, <1>6, <1>8, <1>10, <1>11, <2>1, <2>2
  <2>4. Len(b.list) <= MaxDatagrams
    BY <1>2, <1>6, <1>8, <1>11
  <2> QED
    BY <1>8, <1>14, <2>2, <2>3, <2>4, ReassPrimed
<1>15. CASE /\ ~StillOver(a, f) /\ ~NoDatagramLeft(a.list, id, b, f)
            /\ Store(b.list, id, f, ip_reass_pbufcount - a.freed - b.freed)
  <2>1. PICK count : count = ip_reass_pbufcount - a.freed - b.freed
    OBVIOUS
  <2>2. count = AllPbufs(b.list)
    BY <1>2, <1>6, <1>8, <1>9, <1>10, <2>1
  <2>3. count + Clen(f) <= MaxPbufs
    <3>1. ip_reass_pbufcount - a.freed + Clen(f) <= MaxPbufs
      BY <1>2, <1>6, <1>10, <1>11, <1>15 DEF StillOver, Over
    <3>2. ip_reass_pbufcount \in Nat /\ a.freed \in Nat /\ b.freed \in Nat
          /\ Clen(f) \in Nat /\ MaxPbufs \in Nat
      BY <1>2, <1>6, <1>8, <1>10, <1>11
    <3> QED
      BY <2>1, <3>1, <3>2
  <2>4. Len(b.list) <= MaxDatagrams
    BY <1>2, <1>6, <1>8, <1>11
  <2>5. Known(b.list, id) \/ Len(b.list) < MaxDatagrams
    <3>1. CASE ~Known(a.list, id) /\ Len(a.list) = MaxDatagrams
      <4>1. b.freed > 0
        BY <1>8, <1>10, <1>15, <3>1 DEF NoDatagramLeft
      <4> QED
        BY <1>8, <3>1, <4>1
    <3>2. CASE ~Known(a.list, id) /\ Len(a.list) # MaxDatagrams
      BY <1>2, <1>6, <1>8, <1>11, <3>2
    <3>3. CASE Known(a.list, id)
      BY <1>4, <3>3 DEF RoomForDatagram, RoomIn
    <3> QED
      BY <3>1, <3>2, <3>3
  <2>6. Store(b.list, id, f, count)
    BY <1>15, <2>1
  <2> QED
    BY <1>8, <2>2, <2>3, <2>4, <2>5, <2>6, StoreRight
<1> QED
  BY <1>3, <1>4, <1>12, <1>13, <1>14, <1>15 DEF ip_reass

LEMMA ReassStart == ReassInit => ReassIInv
<1> SUFFICES ASSUME ReassInit PROVE ReassIInv
  OBVIOUS
<1>1. reassdatagrams = <<>> /\ ip_reass_pbufcount = 0 /\ delivered = NothingDelivered
  BY DEF ReassInit
<1>2. DOMAIN reassdatagrams = {} /\ Len(reassdatagrams) = 0 /\ reassdatagrams \in Seq(ReassEntry)
  BY <1>1
<1>3. ReassList(reassdatagrams)
  BY <1>2 DEF ReassList, EntryIds, Sorted, Unfinished
<1>4. AllPbufs(reassdatagrams) = 0
  BY <1>2, NoneHeld DEF AllPbufs
<1> QED
  BY <1>1, <1>2, <1>3, <1>4, ReassAssumption DEF ReassIInv, DeliveredWhole

\* For all datagrams, however they are cut and their fragments come, and all limits: the count
\* of pbufs is that of the fragments held, a datagram is in the list once, none that is
\* complete stays there, and what is delivered of at most three blocks is whole.
THEOREM ReassemblyCorrect == ReassSpec => []ReassInv
<1>1. ReassInit => ReassIInv
  BY ReassStart
<1>2. ReassIInv /\ [ReassNext]_reassVars => ReassIInv'
  <2> SUFFICES ASSUME ReassIInv, [ReassNext]_reassVars PROVE ReassIInv'
    OBVIOUS
  <2>1. CASE ip_reass_tmr
    BY <2>1, TimerRight
  <2>2. ASSUME NEW id \in Datagram, NEW f \in Pieces, ip_reass(id, f) PROVE ReassIInv'
    BY <2>2, InputRight
  <2>3. CASE UNCHANGED reassVars
    BY <2>3, ReassPrimed DEF ReassIInv, DeliveredWhole, reassVars
  <2> QED
    BY <2>1, <2>2, <2>3 DEF ReassNext
<1>3. ReassIInv => ReassInv
  BY DEF ReassIInv, ReassInv, ReassList, EntryIds, Unfinished
<1> QED
  BY <1>1, <1>2, <1>3, PTL DEF ReassSpec
=============================================================================
