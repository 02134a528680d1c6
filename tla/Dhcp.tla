-------------------------------- MODULE Dhcp --------------------------------
(***************************************************************************)
(* The DHCP client of an interface (core/dhcp.c), the task that waits for  *)
(* its address (netapp/lwipconfig.c), a server, and a network that loses,  *)
(* delays and reorders.  Each function of the client is an operator on its *)
(* record; what it sends is in the record's out.                           *)
(*                                                                         *)
(* The coarse timer counts minutes; a request times out when nothing is on *)
(* the way.                                                                *)
(***************************************************************************)
EXTENDS Integers, FiniteSets

CONSTANTS
  Addr,            \* addresses of the server
  static,          \* the address lwip_dhcp_task falls back to
  none,            \* IP_ADDR_ANY
  T1, T2,          \* the times of a lease, in ticks of dhcp_coarse_tmr
  TickMod,         \* 2^16: t1_timeout and t2_timeout are u16_t
  TryMod,          \* 2^8: tries is an u8_t
  Xids,            \* 2^32: number of transactions
  OfferServer,     \* whether offers carry a server ID
  Short,           \* the types of messages there may be no memory for
  MaxLate          \* bound: steps with an early timeout or without memory, changes
                   \* of the network, and refusals

ASSUME DhcpAssumption ==
  /\ none \notin Addr /\ static \notin Addr /\ none # static
  /\ T1 \in Nat /\ T2 \in Nat \ {0} /\ TickMod \in Nat /\ T1 < TickMod /\ T2 < TickMod
  /\ TryMod \in Nat /\ TryMod > 9 /\ Xids \in Nat \ {0, 1} /\ MaxLate \in Nat
  /\ OfferServer \subseteq BOOLEAN
  /\ Short \subseteq {"DISCOVER", "REQUEST", "DECLINE", "RELEASE"}

VARIABLES
  client,          \* struct dhcp, with the address and the flag NETIF_FLAG_UP
  task,            \* lwip_dhcp_task: "polling", "unset", "failed" or "done"
  net,             \* messages on the way
  reachable,       \* whether the network reaches the server
  granted,         \* ghost: the addresses the server has acknowledged
  moved,           \* ghost: dhcp_network_changed was called
  late             \* how much of MaxLate is spent

dhcpVars == <<client, task, net, reachable, granted, moved, late>>

Waiting == {"SELECTING", "REQUESTING", "CHECKING", "BACKING_OFF", "RENEWING",
            "REBINDING", "REBOOTING"}

-----------------------------------------------------------------------------
\* dhcp_set_state, and dhcp_create_msg: a new transaction for the first try, unless
\* there is no memory for it; c.short has the messages of this step without memory.
SetState(c, state) ==
  IF c.state = state THEN c ELSE [c EXCEPT !.state = state, !.tries = 0, !.timer = FALSE]
Send(c, type, addr) ==
  LET xid == IF c.tries = 0 THEN (c.xid + 1) % Xids ELSE c.xid IN
  IF type \in c.short THEN [c EXCEPT !.short = @ \ {type}]
  ELSE [c EXCEPT !.xid = xid, !.out = {[type |-> type, xid |-> xid, addr |-> addr]}]

\* One more try, and the timeout for it.  Some timeouts are a multiple of tries.
NextTry(c) == (c.tries + 1) % TryMod
Untimed(c) == [c EXCEPT !.tries = NextTry(c)]                        \* mutant
Try(c) == [c EXCEPT !.tries = NextTry(c), !.timer = TRUE]
TryTimes(c) == [c EXCEPT !.tries = NextTry(c), !.timer = NextTry(c) # 0]

Discover(c) == Try(Send(SetState([c EXCEPT !.offered = none], "SELECTING"), "DISCOVER", none))
Select(c) == LET d == SetState(c, "REQUESTING") IN Try(Send(d, "REQUEST", d.offered))
Check(c) == Try(SetState(c, "CHECKING"))
Renew(c) == LET d == SetState(c, "RENEWING") IN TryTimes(Send(d, "REQUEST", d.ip))
Rebind(c) == LET d == SetState(c, "REBINDING") IN TryTimes(Send(d, "REQUEST", d.ip))
Reboot(c) == LET d == SetState(c, "REBOOTING") IN TryTimes(Send(d, "REQUEST", d.offered))

\* dhcp_bind.
Lease(c) == [t1 |-> IF c.lease /\ T1 > 0 THEN T1 ELSE 1, t2 |-> IF c.lease THEN T2 ELSE 1]
Leases(c, ip) ==
  LET l == Lease(c)
      d == [c EXCEPT !.t1 = IF l.t1 >= l.t2 THEN 0 ELSE l.t1, !.t2 = l.t2, !.ip = ip, !.up = TRUE]
  IN SetState(d, "BOUND")
KeepAddress(c) == Leases(c, IF c.ip = none THEN c.offered ELSE c.ip)    \* mutant
Bind(c) == Leases(c, c.offered)

\* dhcp_release; its message goes to the server address that was cleared before.
OnlyDown(c) == [c EXCEPT !.up = FALSE]                               \* mutant
Deconfigured(c) == [c EXCEPT !.ip = none, !.up = FALSE]
Release(c) ==
  LET d == SetState([c EXCEPT !.offered = none, !.lease = FALSE], "OFF") IN
  Deconfigured(Try([Send(d, "RELEASE", none) EXCEPT !.out = {}]))

\* The other handlers.
Decline(c) == LET d == SetState(c, "BACKING_OFF") IN Try(Send(d, "DECLINE", d.offered))
Nak(c) == Discover(SetState(Deconfigured(c), "BACKING_OFF"))
Answered(c) == [c EXCEPT !.timer = FALSE]
Offer(c, m) == IF m.server THEN Select([Answered(c) EXCEPT !.offered = m.addr]) ELSE Answered(c)
NetworkChanged(c) ==
  CASE c.state \in {"REBINDING", "RENEWING", "BOUND", "REBOOTING"} ->
         Reboot([c EXCEPT !.up = FALSE, !.tries = 0])
    [] c.state = "OFF" -> c
    [] OTHER -> Discover([c EXCEPT !.tries = 0])

\* dhcp_recv.
Expected(c, m) == m.xid = c.xid
Recv(c, m) ==
  CASE ~Expected(c, m) -> c
    [] Expected(c, m) /\ m.type = "ACK" /\ c.state = "REQUESTING" ->
         Check([c EXCEPT !.lease = TRUE, !.offered = m.addr])
    [] Expected(c, m) /\ m.type = "ACK" /\ c.state \in {"REBOOTING", "REBINDING", "RENEWING"} ->
         Bind(c)
    [] Expected(c, m) /\ m.type = "NAK"
         /\ c.state \in {"REBOOTING", "REQUESTING", "REBINDING", "RENEWING"} -> Nak(c)
    [] Expected(c, m) /\ m.type = "OFFER" /\ c.state = "SELECTING" -> Offer(c, m)
    [] OTHER -> c

\* dhcp_timeout.
TimedOut(c) ==
  CASE c.state \in {"BACKING_OFF", "SELECTING"} -> Discover(c)
    [] c.state = "REQUESTING" -> IF c.tries <= 5 THEN Select(c) ELSE Discover(Release(c))
    [] c.state = "CHECKING" -> IF c.tries <= 1 THEN Check(c) ELSE Bind(c)
    [] c.state = "RENEWING" -> Renew(c)
    [] c.state = "REBINDING" -> IF c.tries <= 8 THEN Rebind(c) ELSE Discover(Release(c))
    [] c.state = "REBOOTING" -> IF c.tries < 2 THEN Reboot(c) ELSE Discover(c)
    [] OTHER -> c

\* dhcp_coarse_tmr: the counters wrap around, and run whatever the state is.
Renewable == {"REQUESTING", "BOUND", "RENEWING"}
Before(t) == (t - 1) % TickMod
CoarseTick(c) ==
  LET d == [c EXCEPT !.t2 = Before(@)]
      e == [d EXCEPT !.t1 = Before(@)]
  IN
  CASE c.t2 = 1 -> IF c.state \in Renewable THEN Rebind(d) ELSE d
    [] c.t2 # 1 /\ c.t1 = 1 -> IF c.state \in Renewable THEN Renew(e) ELSE e
    [] OTHER -> e

-----------------------------------------------------------------------------
\* dhcp_start, which lwip_dhcp_task calls once.  Without memory for its first message
\* the client is stopped again.
Fresh ==
  [state |-> "OFF", tries |-> 0, timer |-> FALSE, xid |-> 0, lease |-> FALSE,
   offered |-> none, t1 |-> 0, t2 |-> 0, ip |-> none, up |-> TRUE, out |-> {}, short |-> {}]
Start(c) == IF c.short = {} THEN Discover(c) ELSE SetState(Discover(c), "OFF")

\* The client becomes c.  Messages of a transaction are gone before its number is
\* used again.
Old(xid) == {m \in net : m.xid = xid /\ xid # client.xid}
Becomes(next, left) ==
  \E c \in {next} :
    /\ c.short = {} /\ client' = [c EXCEPT !.out = {}]
    /\ net' = (left \ Old(c.xid)) \cup (IF reachable THEN c.out ELSE {})

DhcpInit ==
  /\ \E s \in SUBSET (Short \cap {"DISCOVER"}) :
       LET c == Start([Fresh EXCEPT !.short = s]) IN
       client = [c EXCEPT !.out = {}] /\ net = c.out
  /\ task = "polling" /\ reachable = TRUE /\ granted = {} /\ moved = FALSE /\ late = 0

\* The client in a step without memory for the messages in s.
Without(s) == [client EXCEPT !.short = s]
Counted(free) == IF free THEN UNCHANGED late ELSE late < MaxLate /\ late' = late + 1

dhcp_recv(m) ==
  /\ m \in net /\ m.type \in {"OFFER", "ACK", "NAK"}
  /\ \E s \in SUBSET Short :
       Counted(s = {}) /\ Becomes(Recv(Without(s), m), net \ {m})
  /\ UNCHANGED <<task, reachable, granted, moved>>

dhcp_fine_tmr ==
  /\ client.timer
  /\ \E s \in SUBSET Short :
       Counted(net = {} /\ s = {}) /\ Becomes(TimedOut(Answered(Without(s))), net)
  /\ UNCHANGED <<task, reachable, granted, moved>>
dhcp_coarse_tmr ==
  /\ \E s \in SUBSET Short :
       Counted(net = {} /\ s = {}) /\ Becomes(CoarseTick(Without(s)), net)
  /\ UNCHANGED <<task, reachable, granted, moved>>

dhcp_network_changed ==
  /\ \E s \in SUBSET Short : Counted(FALSE) /\ Becomes(NetworkChanged(Without(s)), net)
  /\ moved' = TRUE /\ UNCHANGED <<task, reachable, granted>>

\* Another host answers the question for the offered address.
dhcp_arp_reply ==
  /\ client.state = "CHECKING"
  /\ \E s \in SUBSET Short : Counted(FALSE) /\ Becomes(Decline(Without(s)), net)
  /\ UNCHANGED <<task, reachable, granted, moved>>

-----------------------------------------------------------------------------
\* The server answers, or refuses an address it has given away.
Reply(m, type, addr, server) ==
  net' = (net \ {m}) \cup {[type |-> type, xid |-> m.xid, addr |-> addr, server |-> server]}
Answers(m) ==
  /\ m \in net
  /\ \/ /\ m.type = "DISCOVER"
        /\ \E a \in Addr, server \in OfferServer : Reply(m, "OFFER", a, server)
        /\ UNCHANGED <<granted, late>>
     \/ /\ m.type = "REQUEST" /\ m.addr \in Addr
        /\ Reply(m, "ACK", m.addr, TRUE)
        /\ granted' = granted \cup {m.addr} /\ UNCHANGED late
     \/ /\ m.type = "REQUEST" /\ m.addr # none /\ (m.addr \in Addr => late < MaxLate)
        /\ Reply(m, "NAK", none, TRUE)
        /\ late' = IF m.addr \in Addr THEN late + 1 ELSE late
        /\ UNCHANGED granted
     \/ /\ m.type = "DECLINE" \/ (m.type = "REQUEST" /\ m.addr = none)
        /\ net' = net \ {m} /\ UNCHANGED <<granted, late>>
  /\ UNCHANGED <<client, task, reachable, moved>>

\* The network fails with what is on the way, and works again.
Fails == reachable /\ reachable' = FALSE /\ net' = {} /\ UNCHANGED <<client, task, granted, moved, late>>
Works == ~reachable /\ reachable' = TRUE /\ UNCHANGED <<client, task, net, granted, moved, late>>

\* lwip_dhcp_task, every 50 ticks: it reads the address, then tries, and then writes;
\* tcpip_thread may run in between.
ReadsAddress ==
  /\ task = "polling" /\ task' = IF client.ip # none THEN "done" ELSE "unset"
  /\ UNCHANGED client
ReadsTries ==
  /\ task = "unset" /\ task' = IF client.tries > 5 THEN "failed" ELSE "polling"
  /\ UNCHANGED client
WritesStatic ==
  /\ task = "failed" /\ task' = "done"
  /\ client' = [client EXCEPT !.ip = static]
lwip_dhcp_task ==
  /\ ReadsAddress \/ ReadsTries \/ WritesStatic
  /\ UNCHANGED <<net, reachable, granted, moved, late>>

Delivers == \E m \in net : Answers(m) \/ dhcp_recv(m)

DhcpNext ==
  \/ dhcp_fine_tmr \/ dhcp_coarse_tmr \/ dhcp_network_changed \/ dhcp_arp_reply
  \/ Fails \/ Works \/ lwip_dhcp_task
  \/ Delivers

DhcpSpec ==
  /\ DhcpInit /\ [][DhcpNext]_dhcpVars
  /\ WF_dhcpVars(Delivers) /\ WF_dhcpVars(dhcp_fine_tmr) /\ WF_dhcpVars(dhcp_coarse_tmr)

-----------------------------------------------------------------------------
\* The interface is up only with an address the server has acknowledged, or with
\* the fallback, whatever was answered late or in another transaction: when an ACK
\* comes while renewing, rebinding or rebooting, the client is "already bound to the
\* given lease address" (dhcp.c:1609), and binds the offered one.
OnlyGranted ==
  client.up /\ client.ip # none => client.ip \in granted \cup {static}

\* A client that waits for an answer has its timer running; it stops only while
\* renewing, when tries has wrapped around to 0 (dhcp.c:1062-1065).
Timed ==
  client.state \in Waiting =>
    client.timer \/ (client.state = "RENEWING" /\ client.tries = 0)

\* Both, as long as no change of the network brings the client from one lease to
\* the next with the timers of the first still running.
DhcpInv == (moved \/ OnlyGranted) /\ Timed

\* When the server stays reachable, a client that was started is bound again and again,
\* to what it was offered: also when lwip_dhcp_task has written the static address over
\* the address of a lease (lwipconfig.c:116-120).
Bound == client.state = "BOUND" /\ client.up /\ client.ip = client.offered
BoundAgain == client.state # "OFF" /\ <>[]reachable => []<>Bound
=============================================================================
