------------------------------- MODULE IpReass -------------------------------
(***************************************************************************)
(* Reassembly of IP datagrams (core/ipv4/ip_frag.c, ip_reass), in          *)
(* tcpip_thread.  Lengths and offsets are counted in blocks of 8 octets;   *)
(* a fragment takes one pbuf per block.  The network may lose, repeat and  *)
(* reorder fragments and cut a repeated datagram in other places.          *)
(***************************************************************************)
EXTENDS Integers, SequencesExt, FiniteSetsExt, Functions

CONSTANTS
  Datagram,        \* source, destination and identification of a datagram
  NoDatagram,
  Length,          \* the length of every datagram
  Pieces,          \* the fragments it is cut into: records of start and end
  MaxPbufs,        \* IP_REASS_MAX_PBUFS
  MaxDatagrams,    \* MEMP_NUM_REASSDATA
  ReassMaxAge      \* IP_REASS_MAXAGE

ASSUME ReassAssumption ==
  /\ NoDatagram \notin Datagram /\ Length \in Nat \ {0}
  /\ Pieces \subseteq [start : Nat, end : Nat]
  /\ \A f \in Pieces : f.start < f.end /\ f.end <= Length /\ f # [start |-> 0, end |-> Length]
  /\ MaxPbufs \in Nat /\ MaxDatagrams \in Nat \ {0} /\ ReassMaxAge \in Nat

VARIABLES
  reassdatagrams,      \* the datagrams in the making, the newest first
  ip_reass_pbufcount,
  delivered,           \* the datagram that the last step completed
  halted               \* whether an assertion has stopped tcpip_thread

reassVars == <<reassdatagrams, ip_reass_pbufcount, delivered, halted>>

NothingDelivered == [id |-> NoDatagram, p |-> <<>>]

ReassInit ==
  /\ reassdatagrams = <<>> /\ ip_reass_pbufcount = 0
  /\ delivered = NothingDelivered /\ halted = FALSE

Clen(f) == f.end - f.start
Pbufs(p) == SumFunctionOnSet([k \in DOMAIN p |-> Clen(p[k])], DOMAIN p)

\* The pbufs of the datagrams of the list whose indices are in S.
Held(list, S) == SumFunctionOnSet([k \in DOMAIN list |-> Pbufs(list[k].p)], S)
AllPbufs(list) == Held(list, DOMAIN list)

-----------------------------------------------------------------------------
(* Giving up a datagram to make room.                                      *)

\* The datagrams of the list that are not id, and the oldest of them, the last of equals.
Others(list, id) == {k \in DOMAIN list : list[k].id # id}
OldestBut(list, id) ==
  Max({k \in Others(list, id) : \A j \in Others(list, id) : list[k].timer <= list[j].timer})

\* ip_reass_remove_oldest_datagram.  It takes the last but one datagram of the list
\* for the predecessor of the oldest: if the oldest is not the last one, the
\* assertions of ip_reass_free_complete_datagram stop the thread (ok is FALSE).  So
\* datagrams go from the end, n of them, until there is room or no other one.
Shorter(list, n) == SubSeq(list, 1, Len(list) - n)
Freed(list, n) == Held(list, Len(list) - n + 1 .. Len(list))
Enough(list, id, needed, n) ==
  \/ Others(Shorter(list, n), id) = {}
  \/ n > 0 /\ Freed(list, n) >= needed
GivenUp(list, id, needed) ==
  Min({n \in 0 .. Len(list) : \/ Enough(list, id, needed, n)
                             \/ OldestBut(Shorter(list, n), id) # Len(list) - n})
RemoveOldest(list, id, needed) ==
  LET n == GivenUp(list, id, needed)
  IN  [list |-> Shorter(list, n), freed |-> Freed(list, n), ok |-> Enough(list, id, needed, n)]

RoomIn(list) == [list |-> list, freed |-> 0, ok |-> TRUE]

\* Room in the count of pbufs, as ip_reass makes it first, ...
Over(f) == ip_reass_pbufcount + Clen(f) > MaxPbufs
RoomForPbufs(id, f) ==
  IF Over(f) THEN RemoveOldest(reassdatagrams, id, Clen(f))
  ELSE RoomIn(reassdatagrams)
StillOver(room, f) ==
  Over(f) /\ (room.freed = 0 \/ ip_reass_pbufcount - room.freed + Clen(f) > MaxPbufs)

\* ... and an ip_reassdata for a datagram that is not in the list.
Known(list, id) == \E k \in DOMAIN list : list[k].id = id
RoomForDatagram(list, id, f) ==
  IF ~Known(list, id) /\ Len(list) = MaxDatagrams
  THEN RemoveOldest(list, id, Clen(f)) ELSE RoomIn(list)
NoDatagramLeft(list, id, room, f) ==
  ~Known(list, id) /\ Len(list) = MaxDatagrams /\ room.freed < Clen(f)

-----------------------------------------------------------------------------
(* ip_reass_chain_frag_into_datagram_and_validate.                         *)

\* Where the walk along the chain p stops: at the first fragment behind f.
WalkStops(p, f) ==
  LET behind == {k \in DOMAIN p : f.start < p[k].start} IN
  IF behind = {} THEN Len(p) + 1 ELSE Min(behind)

\* f is in the chain already, or overlaps it.  A fragment in front of all others
\* is not compared with the one it precedes.
Rejected(p, f) ==
  LET k == WalkStops(p, f) IN
  \/ \E j \in 1 .. k - 1 : f.start < p[j].end
  \/ k > 1 /\ k <= Len(p) /\ f.end > p[k].start
Chained(p, f) == InsertAt(p, WalkStops(p, f), f)

Adjoin(p, k) == p[k].end = p[k + 1].start

\* valid: the fragments before f follow each other, as the walk saw them; f
\* follows them, which is looked at only if it is the last one; and with the last
\* fragment there, the first one begins the datagram and all behind f follow.
AnyStart(p, f) ==                                                    \* mutant
  LET c == Chained(p, f) IN \A j \in 1 .. Len(c) - 1 : Adjoin(c, j)
Valid(p, f) ==
  LET k == WalkStops(p, f)
      c == Chained(p, f)
  IN
  /\ \A j \in 1 .. k - 2 : Adjoin(p, j)
  /\ k = Len(p) + 1 /\ k > 1 => Adjoin(c, k - 1)
  /\ c[1].start = 0
  /\ \A j \in k .. Len(c) - 1 : Adjoin(c, j)

-----------------------------------------------------------------------------
\* The list with a fragment f of datagram id: its datagram, new ones in front,
\* and the flag that the last fragment has been seen, also when f is rejected.
NewDatagram(id) == [id |-> id, timer |-> ReassMaxAge, last |-> FALSE, p |-> <<>>]
WithDatagram(list, id) == IF Known(list, id) THEN list ELSE <<NewDatagram(id)>> \o list
Where(list, id) == CHOOSE k \in DOMAIN list : list[k].id = id
MarkedFresh(r, f) == [r EXCEPT !.last = @ \/ f.end = Length, !.timer = ReassMaxAge] \* mutant
Marked(r, f) == [r EXCEPT !.last = @ \/ f.end = Length]

\* The fragment is counted before it is stored, and off again when it is rejected.
NotCountedOff(f) == 0                                                \* mutant
CountedOff(f) == Clen(f)

Stop == halted' = TRUE /\ UNCHANGED <<reassdatagrams, ip_reass_pbufcount, delivered>>

\* What follows the last fragment that was seen need not be there: an assertion stops
\* the thread if a datagram without holes ends before its length.
Store(list, id, f, count) ==
  LET l == WithDatagram(list, id)
      k == Where(l, id)
      r == Marked(l[k], f)
      q == [r EXCEPT !.p = Chained(r.p, f)]
  IN
  IF Rejected(r.p, f)
  THEN /\ reassdatagrams' = [l EXCEPT ![k] = r] /\ delivered' = NothingDelivered
       /\ ip_reass_pbufcount' = count + Clen(f) - CountedOff(f) /\ UNCHANGED halted
  ELSE IF ~ (r.last /\ Valid(r.p, f))
  THEN /\ reassdatagrams' = [l EXCEPT ![k] = q] /\ delivered' = NothingDelivered
       /\ ip_reass_pbufcount' = count + Clen(f) /\ UNCHANGED halted
  ELSE IF Last(q.p).end = Length
  THEN /\ reassdatagrams' = RemoveAt(l, k) /\ delivered' = [id |-> id, p |-> q.p]
       /\ ip_reass_pbufcount' = count + Clen(f) - Pbufs(q.p) /\ UNCHANGED halted
  ELSE Stop

ip_reass(id, f) ==
  LET a == RoomForPbufs(id, f)
      b == RoomForDatagram(a.list, id, f)
  IN
  /\ ~halted
  /\ \/ ~a.ok /\ Stop
     \/ a.ok /\ ~StillOver(a, f) /\ ~b.ok /\ Stop
     \/ /\ a.ok /\ StillOver(a, f)
        /\ reassdatagrams' = a.list
        /\ ip_reass_pbufcount' = ip_reass_pbufcount - a.freed
        /\ delivered' = NothingDelivered /\ UNCHANGED halted
     \/ /\ a.ok /\ ~StillOver(a, f) /\ b.ok /\ NoDatagramLeft(a.list, id, b, f)
        /\ reassdatagrams' = b.list
        /\ ip_reass_pbufcount' = ip_reass_pbufcount - a.freed - b.freed
        /\ delivered' = NothingDelivered /\ UNCHANGED halted
     \/ /\ a.ok /\ ~StillOver(a, f) /\ b.ok /\ ~NoDatagramLeft(a.list, id, b, f)
        /\ Store(b.list, id, f, ip_reass_pbufcount - a.freed - b.freed)

\* ip_reass_tmr, every second: each datagram has ReassMaxAge seconds from its first
\* fragment on.  Those are the members of a list at the indices S, in their order.
Nth(S, i) == CHOOSE k \in S : Cardinality({j \in S : j <= k}) = i
Those(list, S) == [i \in 1 .. Cardinality(S) |-> list[Nth(S, i)]]
Aged(r) == [r EXCEPT !.timer = @ - 1]
ip_reass_tmr ==
  LET live == {k \in DOMAIN reassdatagrams : reassdatagrams[k].timer > 0}
      left == Those(reassdatagrams, live)
  IN
  /\ ~halted
  /\ reassdatagrams' = [k \in DOMAIN left |-> Aged(left[k])]
  /\ ip_reass_pbufcount' = ip_reass_pbufcount - Held(reassdatagrams, DOMAIN reassdatagrams \ live)
  /\ delivered' = NothingDelivered /\ UNCHANGED halted

ReassNext == ip_reass_tmr \/ \E id \in Datagram, f \in Pieces : ip_reass(id, f)

ReassSpec == ReassInit /\ [][ReassNext]_reassVars
\* The timer is set again each time it fires (timers.c:98-104).
LiveReassSpec == ReassSpec /\ WF_reassVars(ip_reass_tmr)

-----------------------------------------------------------------------------
Tiles(p) == /\ p # <<>> /\ p[1].start = 0 /\ p[Len(p)].end = Length
            /\ \A k \in 1 .. Len(p) - 1 : Adjoin(p, k)

\* What ip_reass returns is the whole datagram (ip_frag.c:331, 472-476).  It is not
\* for datagrams of four fragments and more, see the README.
DeliveredWhole == delivered # NothingDelivered => Tiles(delivered.p)

\* The count of pbufs is that of the fragments held and within its limit, a
\* datagram is in the list once, none that is complete is left there, however
\* its fragments came (ip_frag.c:206, 466, 505, 605), and one that is too short for
\* four fragments is delivered whole.
ReassInv ==
  /\ ip_reass_pbufcount = AllPbufs(reassdatagrams) /\ ip_reass_pbufcount <= MaxPbufs
  /\ Len(reassdatagrams) <= MaxDatagrams
  /\ \A j, k \in DOMAIN reassdatagrams :
       reassdatagrams[j].id = reassdatagrams[k].id => j = k
  /\ \A k \in DOMAIN reassdatagrams : ~Tiles(reassdatagrams[k].p)
  /\ Length <= 3 => DeliveredWhole

\* A datagram in the making does not hold its pbufs for ever, even if fragments of
\* it keep coming (ip_frag.c:131-144), unless an assertion stops the thread.
InTheMaking(id) == Known(reassdatagrams, id)
ReassemblyEnds == \A id \in Datagram : InTheMaking(id) ~> (~InTheMaking(id) \/ halted)
=============================================================================
