------------------------------ MODULE Sockets ------------------------------
(***************************************************************************)
(* Waiting for data on several sockets (api/sockets.c: lwip_select,        *)
(* event_callback, lwip_recvfrom, lwip_accept and lwip_close, with what    *)
(* they use of api_lib.c and api_msg.c).  Application threads select and   *)
(* receive, tcpip_thread puts data into the mailboxes of connections; both *)
(* call event_callback.  SYS_ARCH_PROTECT makes an action atomic, and the  *)
(* threads interleave between such actions.                                *)
(*                                                                         *)
(* Sockets are looked at for reading, without MSG_PEEK, and one is closed  *)
(* only while no other thread uses it: a thread in lwip_select would stop  *)
(* in an assertion (sockets.c:1190).                                       *)
(***************************************************************************)
EXTENDS Integers, FiniteSets, SequencesExt

CONSTANTS
  Thread,          \* application threads
  tcpip,           \* tcpip_thread
  Socket,          \* indices of sockets[]
  MboxSize,        \* size of a recvmbox
  Sets             \* the sets threads select on

NoSocket == -1
ASSUME SockAssumption ==
  /\ IsFiniteSet(Thread) /\ tcpip \notin Thread
  /\ MboxSize \in Nat \ {0} /\ Socket \subseteq Nat /\ Sets \subseteq SUBSET Socket

Actor == Thread \cup {tcpip}

VARIABLES
  conn,            \* the connection of each socket: see States
  early,           \* the data counted in conn->socket before there is a socket
  mail,            \* the number of messages in each recvmbox
  rcvevent, select_waiting,      \* of each lwip_sock
  select_cb_list,  \* the threads whose select_cb is on the list
  signalled,       \* sem_signalled of each thread's select_cb
  sem,             \* its semaphore
  call,            \* what each application thread is doing
  event,           \* the event_callback each thread is in
  posted           \* the socket tcpip_thread has just posted data for, or NoSocket

sockVars == <<conn, early, mail, rcvevent, select_waiting, select_cb_list,
              signalled, sem, call, event, posted>>

\* "none", then "pending" until lwip_accept has it, "claimed" by alloc_socket and
\* "reset" by it, and "open" once conn->socket is set; at last "closing".
States == {"none", "pending", "claimed", "reset", "open", "closing"}

\* What a thread does: a step pc of a call on the sockets set, of which it still has
\* to look at todo; ready are those that had data, timed whether it has a timeout.
NoCall == [pc |-> "idle", set |-> {}, todo |-> {}, ready |-> {}, timed |-> FALSE]

\* The socket an event is about, the select_cb it looks at, and whether the list has
\* changed since (last_select_cb_ctr # select_cb_ctr).
NoEvent == [s |-> NoSocket, scb |-> tcpip, stale |-> FALSE]
Running(a) == event[a] # NoEvent

SockInit ==
  /\ conn = [s \in Socket |-> "none"]
  /\ early = [s \in Socket |-> 0] /\ mail = [s \in Socket |-> 0]
  /\ rcvevent = [s \in Socket |-> 0] /\ select_waiting = [s \in Socket |-> 0]
  /\ select_cb_list = <<>>
  /\ signalled = [t \in Thread |-> FALSE] /\ sem = [t \in Thread |-> 0]
  /\ call = [t \in Thread |-> NoCall]
  /\ event = [a \in Actor |-> NoEvent]
  /\ posted = NoSocket

Readable(s) == rcvevent[s] > 0
Lowest(set) == CHOOSE s \in set : \A x \in set : s <= x
OnList(t) == \E i \in DOMAIN select_cb_list : select_cb_list[i] = t
At(list, t) == CHOOSE i \in DOMAIN list : list[i] = t

-----------------------------------------------------------------------------
\* event_callback looks at one select_cb of the list and leaves the protection.
Signals(t, s, n) == ~signalled[t] /\ s \in call[t].set /\ n > 0
LookAt(a, t, s, n) ==
  /\ event' = [event EXCEPT ![a] = [s |-> s, scb |-> t, stale |-> FALSE]]
  /\ IF Signals(t, s, n)
     THEN /\ signalled' = [signalled EXCEPT ![t] = TRUE]
          /\ sem' = [sem EXCEPT ![t] = @ + 1]
     ELSE UNCHANGED <<signalled, sem>>

\* Its first part: the event is counted, at the socket or for lwip_accept, and the
\* list is gone through if a select waits for the socket.
Unwaited(s) == select_waiting[s] = 0
EventOf(a, s, delta) ==
  IF conn[s] # "open"
  THEN /\ early' = [early EXCEPT ![s] = IF delta > 0 THEN @ + 1 ELSE @]
       /\ UNCHANGED <<rcvevent, event, signalled, sem>>
  ELSE /\ rcvevent' = [rcvevent EXCEPT ![s] = @ + delta]
       /\ UNCHANGED early
       /\ IF Unwaited(s) \/ select_cb_list = <<>>
          THEN UNCHANGED <<event, signalled, sem>>
          ELSE LookAt(a, Head(select_cb_list), s, rcvevent[s] + delta)

\* Its loop: from the head again if the list has changed, else to the next one.
OnlyNext(e) == FALSE                                                 \* mutant
Again(e) == e.stale
Following(list, e) ==
  IF Again(e) THEN list ELSE SubSeq(list, At(list, e.scb) + 1, Len(list))
event_callback(a) ==
  LET e == event[a]
      list == Following(select_cb_list, e)
  IN
  /\ Running(a)
  /\ IF list = <<>>
     THEN event' = [event EXCEPT ![a] = NoEvent] /\ UNCHANGED <<signalled, sem>>
     ELSE LookAt(a, Head(list), e.s, rcvevent[e.s])
  /\ UNCHANGED <<conn, early, mail, rcvevent, select_waiting, select_cb_list, call, posted>>

\* recv_udp and recv_tcp, in tcpip_thread: the data is posted, and then counted.
TcpipReady == ~Running(tcpip) /\ posted = NoSocket
recv_udp(s) ==
  /\ TcpipReady /\ conn[s] \notin {"none", "closing"} /\ mail[s] < MboxSize
  /\ mail' = [mail EXCEPT ![s] = @ + 1]
  /\ posted' = s
  /\ UNCHANGED <<conn, early, rcvevent, select_waiting, select_cb_list, signalled, sem, call, event>>
Posted ==
  /\ posted # NoSocket /\ posted' = NoSocket
  /\ EventOf(tcpip, posted, 1)
  /\ UNCHANGED <<conn, mail, select_waiting, select_cb_list, call>>

-----------------------------------------------------------------------------
Does(t, pc) == call[t].pc = pc /\ ~Running(t)
Goes(t, pc) == call' = [call EXCEPT ![t].pc = pc, ![t].todo = call[t].set]
Returns(t) == call' = [call EXCEPT ![t] = NoCall]
Listed(list) ==
  /\ select_cb_list' = list
  /\ event' = [a \in Actor |-> IF Running(a) THEN [event[a] EXCEPT !.stale = TRUE] ELSE NoEvent]
OtherVars == <<conn, early, mail, rcvevent>>

\* lwip_select on some open sockets, with or without a timeout.
lwip_select(t, set, timed) ==
  /\ Does(t, "idle") /\ \A s \in set : conn[s] = "open"
  /\ call' = [call EXCEPT ![t] =
       [pc |-> "scan1", set |-> set, todo |-> set, ready |-> {}, timed |-> timed]]
  /\ UNCHANGED <<OtherVars, select_waiting, select_cb_list, signalled, sem, event, posted>>

\* lwip_selscan looks at one socket after the other.
Scans == {"scan1", "scan2", "scan3"}
lwip_selscan(t) ==
  /\ call[t].pc \in Scans /\ ~Running(t) /\ call[t].todo # {}
  /\ LET s == Lowest(call[t].todo) IN
     call' = [call EXCEPT ![t].todo = @ \ {s},
                          ![t].ready = @ \cup {x \in {s} : Readable(x)}]
  /\ UNCHANGED <<OtherVars, select_waiting, select_cb_list, signalled, sem, event, posted>>

\* After a scan that found something, and after one that did not.
Scanned(t) ==
  /\ call[t].pc \in Scans /\ ~Running(t) /\ call[t].todo = {}
  /\ CASE call[t].pc = "scan3" \/ (call[t].pc = "scan1" /\ call[t].ready # {}) -> Returns(t)
       [] call[t].pc = "scan1" /\ call[t].ready = {} -> Goes(t, "link")
       [] call[t].pc = "scan2" /\ call[t].ready = {} -> Goes(t, "wait")
       [] OTHER -> Goes(t, "unregister")
  /\ UNCHANGED <<OtherVars, select_waiting, select_cb_list, signalled, sem, event, posted>>

Link(t) ==
  /\ Does(t, "link")
  /\ Listed(<<t>> \o select_cb_list)
  /\ signalled' = [signalled EXCEPT ![t] = FALSE] /\ sem' = [sem EXCEPT ![t] = 0]
  /\ Goes(t, "register")
  /\ UNCHANGED <<OtherVars, select_waiting, posted>>

\* select_waiting of one socket after the other, and what comes after the last.
NoSecondScan == "wait"                                               \* mutant
AfterRegister == "scan2"
Counts(t, delta, next) ==
  /\ IF call[t].todo # {}
     THEN LET s == Lowest(call[t].todo) IN
          /\ select_waiting' = [select_waiting EXCEPT ![s] = @ + delta]
          /\ call' = [call EXCEPT ![t].todo = @ \ {s}]
     ELSE Goes(t, next) /\ UNCHANGED select_waiting
  /\ UNCHANGED <<OtherVars, select_cb_list, signalled, sem, event, posted>>
Register(t) == Does(t, "register") /\ Counts(t, 1, AfterRegister)
Unregister(t) == Does(t, "unregister") /\ Counts(t, -1, "unlink")

SelectWait(t) ==
  /\ Does(t, "wait")
  /\ \/ sem[t] > 0 /\ sem' = [sem EXCEPT ![t] = @ - 1] /\ Goes(t, "unregister")
     \/ call[t].timed /\ UNCHANGED sem
        /\ call' = [call EXCEPT ![t].pc = "unregister", ![t].todo = call[t].set, ![t].timed = FALSE,
                                ![t].ready = {-1}]
  /\ UNCHANGED <<OtherVars, select_waiting, select_cb_list, signalled, event, posted>>

\* A select whose time is up (ready is {-1}) returns, another one scans again.
Unlink(t) ==
  /\ Does(t, "unlink")
  /\ Listed(RemoveAt(select_cb_list, At(select_cb_list, t)))
  /\ IF call[t].ready = {-1} THEN Returns(t)
     ELSE call' = [call EXCEPT ![t].pc = "scan3", ![t].todo = call[t].set, ![t].ready = {}]
  /\ UNCHANGED <<OtherVars, select_waiting, signalled, sem, posted>>

-----------------------------------------------------------------------------
\* lwip_recvfrom: netconn_recv_data takes a message, and counts it afterwards.
lwip_recvfrom(t, s) ==
  /\ Does(t, "idle") /\ conn[s] = "open" /\ mail[s] > 0
  /\ mail' = [mail EXCEPT ![s] = @ - 1]
  /\ call' = [call EXCEPT ![t] = [NoCall EXCEPT !.pc = "received", !.set = {s}]]
  /\ UNCHANGED <<conn, early, rcvevent, select_waiting, select_cb_list, signalled, sem, event, posted>>
Received(t) ==
  /\ Does(t, "received")
  /\ \A s \in call[t].set : EventOf(t, s, -1)
  /\ Returns(t)
  /\ UNCHANGED <<conn, mail, select_waiting, select_cb_list, posted>>

\* A connection comes in, and data for it (recv_tcp) before lwip_accept has it.
Connected(s) ==
  /\ conn[s] = "none" /\ conn' = [conn EXCEPT ![s] = "pending"]
  /\ UNCHANGED <<early, mail, rcvevent, select_waiting, select_cb_list, signalled, sem, call, event, posted>>

\* lwip_accept: alloc_socket in two steps, then the data that came early is counted.
CountsEarly(s) == rcvevent[s] + early[s]
Forgets(s) == rcvevent[s]                                            \* mutant
Assigned(s) == CountsEarly(s)
lwip_accept(t, s) ==
  /\ Does(t, "idle") /\ conn[s] = "pending"
  /\ call' = [call EXCEPT ![t] = [NoCall EXCEPT !.pc = "accept", !.set = {s}]]
  /\ conn' = [conn EXCEPT ![s] = "claimed"]
  /\ UNCHANGED <<early, mail, rcvevent, select_waiting, select_cb_list, signalled, sem, event, posted>>
Accepting(t) ==
  /\ Does(t, "accept")
  /\ \E s \in call[t].set :
       \/ /\ conn[s] = "claimed"
          /\ conn' = [conn EXCEPT ![s] = "reset"]
          /\ rcvevent' = [rcvevent EXCEPT ![s] = 0]
          /\ select_waiting' = [select_waiting EXCEPT ![s] = 0]
          /\ UNCHANGED <<early, call>>
       \/ /\ conn[s] = "reset"
          /\ conn' = [conn EXCEPT ![s] = "open"]
          /\ rcvevent' = [rcvevent EXCEPT ![s] = Assigned(s)]
          /\ early' = [early EXCEPT ![s] = 0]
          /\ UNCHANGED select_waiting
          /\ Returns(t)
  /\ UNCHANGED <<mail, select_cb_list, signalled, sem, event, posted>>

\* lwip_close: do_delconn drains the mailbox in tcpip_thread and counts one more
\* event for a select, and then the socket is free.
Unused(t, s) == \A x \in Thread \ {t} : s \notin call[x].set /\ event[x].s # s
lwip_close(t, s) ==
  /\ Does(t, "idle") /\ conn[s] = "open" /\ Unused(t, s) /\ TcpipReady
  /\ call' = [call EXCEPT ![t] = [NoCall EXCEPT !.pc = "close", !.set = {s}]]
  /\ conn' = [conn EXCEPT ![s] = "closing"]
  /\ mail' = [mail EXCEPT ![s] = 0]
  /\ rcvevent' = [rcvevent EXCEPT ![s] = @ + 1]
  /\ UNCHANGED <<early, select_waiting, select_cb_list, signalled, sem, event, posted>>
free_socket(t) ==
  /\ Does(t, "close")
  /\ conn' = [s \in Socket |-> IF s \in call[t].set THEN "none" ELSE conn[s]]
  /\ Returns(t)
  /\ UNCHANGED <<early, mail, rcvevent, select_waiting, select_cb_list, signalled, sem, event, posted>>

SockNext ==
  \/ \E a \in Actor : event_callback(a)
  \/ \E s \in Socket : recv_udp(s) \/ Connected(s)
  \/ Posted
  \/ \E t \in Thread :
       \/ \E set \in Sets, timed \in BOOLEAN : lwip_select(t, set, timed)
       \/ lwip_selscan(t) \/ Scanned(t) \/ Link(t) \/ Register(t) \/ SelectWait(t)
       \/ Unregister(t) \/ Unlink(t) \/ Received(t) \/ Accepting(t) \/ free_socket(t)
       \/ \E s \in Socket : lwip_recvfrom(t, s) \/ lwip_accept(t, s) \/ lwip_close(t, s)

SockSpec == SockInit /\ [][SockNext]_sockVars

-----------------------------------------------------------------------------
\* A thread that waits in lwip_select without being signalled has nothing to read,
\* or an event_callback is still on its way to it, whatever came between its scans
\* and its registration (sockets.c:1108-1183, 1287-1359).
Coming(t, s) ==
  \E a \in Actor : Running(a) /\ event[a].s = s
    /\ (event[a].stale \/ t \in Range(Following(select_cb_list, event[a])))
NoLostWakeup ==
  \A t \in Thread : call[t].pc = "wait" /\ ~signalled[t] =>
    \A s \in call[t].set : Readable(s) => Coming(t, s)

\* event_callback never looks at the select_cb of a thread that has returned: the
\* one it stands at is on the list, or it starts again (sockets.c:1351-1358).
OnStack == \A a \in Actor : Running(a) /\ ~Again(event[a]) => OnList(event[a].scb)

\* The counters of an open socket are what the threads' calls make of them.
Taking(s) == {t \in Thread : call[t].pc = "received" /\ call[t].set = {s}}
Registered(s) ==
  {t \in Thread : \/ call[t].pc = "register" /\ s \in call[t].set \ call[t].todo
                  \/ call[t].pc \in {"scan2", "wait"} /\ s \in call[t].set
                  \/ call[t].pc = "unregister" /\ s \in call[t].todo}
Counted ==
  \A s \in Socket : conn[s] = "open" =>
    /\ rcvevent[s] = mail[s] + Cardinality(Taking(s)) - (IF posted = s THEN 1 ELSE 0)
    /\ select_waiting[s] = Cardinality(Registered(s))

SelectInv == NoLostWakeup /\ OnStack /\ Counted
=============================================================================
