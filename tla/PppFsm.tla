------------------------------- MODULE PppFsm -------------------------------
(***************************************************************************)
(* The negotiation automaton of PPP (netif/ppp/fsm.c, RFC 1661), at both   *)
(* ends of a link that keeps the order of packets and loses some.  What is *)
(* negotiated is one option, which the other end acknowledges, wants to    *)
(* have changed (CONFNAK) or removed (CONFREJ).  Each operation of the     *)
(* automaton is a function on an end's record; what it sends is gathered   *)
(* in the record's out.                                                    *)
(***************************************************************************)
EXTENDS Integers, Sequences, Functions

CONSTANTS
  End,             \* the two ends of the link
  Ids,             \* number of packet identifiers: 256
  MaxConf,         \* maxconfreqtransmits
  MaxTerm,         \* maxtermtransmits
  MaxNak,          \* maxnakloops
  MaxTrouble       \* bound: losses, early timeouts, and calls after the first ones

ASSUME PppAssumption ==
  /\ \E a, b \in End : a # b /\ End = {a, b}
  /\ {Ids, MaxConf, MaxTerm} \subseteq Nat \ {0} /\ {MaxNak, MaxTrouble} \subseteq Nat

VARIABLES
  fsm,             \* the automaton of each end
  link,            \* the packets on the way to each end
  trouble          \* how much of MaxTrouble is spent

pppVars == <<fsm, link, trouble>>

Other(e) == CHOOSE x \in End : x # e
NoAck == "nothing"

\* fsm_init.  go is what the end asks for, want what it asks for first; acked is a
\* ghost: what the end acknowledged last; up a ghost: whether up was called last.
fsm_init(want) ==
  [state |-> "INITIAL", id |-> 0, reqid |-> 0, retransmits |-> 0, nakloops |-> 0,
   seen_ack |-> FALSE, timer |-> FALSE, go |-> want, want |-> want, up |-> FALSE,
   acked |-> [id |-> 0, ci |-> NoAck], out |-> <<>>]

PppInit ==
  /\ \E want \in [End -> {"fine", "unwanted"}] : fsm = [e \in End |-> fsm_init(want[e])]
  /\ link = [e \in End |-> <<>>]
  /\ trouble = 0

Negotiating == {"REQSENT", "ACKRCVD", "ACKSENT"}
Terminating == {"CLOSING", "STOPPING"}

-----------------------------------------------------------------------------
\* fsm_sdata, the callbacks and the timer.  TIMEOUT cancels what is pending before it
\* sets the timer (ppp_impl.h:108), so there is one timeout or none.
fsm_sdata(p, code, id, ci) == [p EXCEPT !.out = Append(@, [code |-> code, id |-> id, ci |-> ci])]
To(p, state) == [p EXCEPT !.state = state]
Up(p) == [p EXCEPT !.up = TRUE]
Down(p) == [p EXCEPT !.up = FALSE]
Untimeout(p) == [p EXCEPT !.timer = FALSE]
NextId(p) == (p.id + 1) % Ids

\* fsm_sconfreq: a request, a new one or the last one again.
Reset(p) ==
  IF p.state \in Negotiating THEN p ELSE [p EXCEPT !.go = p.want, !.nakloops = 0]
Numbered(p) ==
  [p EXCEPT !.retransmits = MaxConf, !.id = NextId(p), !.reqid = NextId(p)]
Endless(p) ==                                                         \* mutant
  LET q == [p EXCEPT !.seen_ack = FALSE, !.timer = TRUE] IN
  fsm_sdata(q, "CONFREQ", q.reqid, q.go)
Requests(p) ==
  LET q == [p EXCEPT !.seen_ack = FALSE, !.retransmits = @ - 1, !.timer = TRUE] IN
  fsm_sdata(q, "CONFREQ", q.reqid, q.go)
NewRequest(p) == Requests(Numbered(Reset(p)))

\* The terminate request of fsm_close, fsm_protreject and fsm_timeout.
TermRequest(p) ==
  LET q == [p EXCEPT !.id = NextId(p), !.reqid = NextId(p), !.retransmits = @ - 1,
                     !.timer = TRUE] IN
  fsm_sdata(q, "TERMREQ", q.reqid, NoAck)
Terminate(p, state) == To(TermRequest([p EXCEPT !.retransmits = MaxTerm]), state)

-----------------------------------------------------------------------------
\* fsm_lowerup, fsm_lowerdown, fsm_open (without OPT_RESTART, OPT_SILENT) and
\* fsm_close.
LowerUp(p) ==
  CASE p.state = "INITIAL" -> To(p, "CLOSED")
    [] p.state = "STARTING" -> To(NewRequest(p), "REQSENT")
    [] OTHER -> p
LowerDown(p) ==
  CASE p.state = "CLOSED" -> To(p, "INITIAL")
    [] p.state = "CLOSING" -> Untimeout(To(p, "INITIAL"))
    [] p.state = "STOPPED" -> To(p, "STARTING")
    [] p.state \in Negotiating \cup {"STOPPING"} -> Untimeout(To(p, "STARTING"))
    [] p.state = "OPENED" -> To(Down(p), "STARTING")
    [] OTHER -> p
Open(p) ==
  CASE p.state = "INITIAL" -> To(p, "STARTING")
    [] p.state = "CLOSED" -> To(NewRequest(p), "REQSENT")
    [] p.state = "CLOSING" -> To(p, "STOPPING")
    [] OTHER -> p
Close(p) ==
  CASE p.state = "STARTING" -> To(p, "INITIAL")
    [] p.state = "STOPPED" -> To(p, "CLOSED")
    [] p.state = "STOPPING" -> To(p, "CLOSING")
    [] p.state \in Negotiating -> Terminate(Untimeout(p), "CLOSING")
    [] p.state = "OPENED" -> Terminate(Down(p), "CLOSING")
    [] OTHER -> p

\* fsm_protreject, when the other end does not know the protocol.
ProtReject(p) ==
  CASE p.state = "CLOSING" -> Untimeout(To(p, "CLOSED"))
    [] p.state \in Negotiating \cup {"STOPPING"} -> Untimeout(To(p, "STOPPED"))
    [] p.state = "OPENED" -> Terminate(Down(p), "STOPPING")
    [] OTHER -> p

\* fsm_timeout.
Ends(p) == CASE p.state = "CLOSING" -> "CLOSED" [] OTHER -> "STOPPED"
GivesUp(p) == p.retransmits <= 0
FsmTimedOut(p) ==
  CASE p.state \in Terminating \cup Negotiating /\ GivesUp(p) -> To(p, Ends(p))
    [] p.state \in Terminating /\ ~GivesUp(p) -> TermRequest(p)
    [] p.state \in Negotiating /\ ~GivesUp(p) ->
         LET q == Requests(p) IN IF q.state = "ACKRCVD" THEN To(q, "REQSENT") ELSE q
    [] OTHER -> p

-----------------------------------------------------------------------------
\* fsm_rconfreq.
Answer(p, ci) ==
  IF ci # "unwanted" THEN "CONFACK" ELSE IF p.nakloops >= MaxNak THEN "CONFREJ" ELSE "CONFNAK"
Acknowledged(p, id, ci) ==
  LET q == [p EXCEPT !.nakloops = 0, !.acked = [id |-> id, ci |-> ci]] IN
  IF p.state = "ACKRCVD" THEN Up(Untimeout(To(q, "OPENED"))) ELSE To(q, "ACKSENT")
Refused(p, code) ==
  LET q == IF code = "CONFNAK" THEN [p EXCEPT !.nakloops = @ + 1] ELSE p IN
  IF p.state = "ACKRCVD" THEN q ELSE To(q, "REQSENT")
RConfReq(p, m) ==
  CASE p.state = "CLOSED" -> fsm_sdata(p, "TERMACK", m.id, NoAck)
    [] p.state \in Terminating -> p
    [] OTHER ->
         LET q == CASE p.state = "OPENED" -> NewRequest(Down(p))
                    [] p.state = "STOPPED" -> To(NewRequest(p), "REQSENT")
                    [] OTHER -> p
             code == Answer(q, m.ci)
             r == fsm_sdata(q, code, m.id, m.ci)
         IN IF code = "CONFACK" THEN Acknowledged(r, m.id, m.ci) ELSE Refused(r, code)

\* fsm_rconfack and fsm_rconfnakrej: answers to the last request, once.
AnyAnswer(p, m) == ~p.seen_ack                                        \* mutant
ForRequest(p, m) == m.id = p.reqid /\ ~p.seen_ack
RConfAck(p, m) ==
  LET q == [p EXCEPT !.seen_ack = TRUE] IN
  IF ~ForRequest(p, m) \/ m.ci # p.go THEN p ELSE
  CASE p.state \in {"CLOSED", "STOPPED"} -> fsm_sdata(q, "TERMACK", m.id, NoAck)
    [] p.state = "REQSENT" -> To([q EXCEPT !.retransmits = MaxConf], "ACKRCVD")
    [] p.state = "ACKRCVD" -> To(NewRequest(Untimeout(q)), "REQSENT")
    [] p.state = "ACKSENT" -> Up(Untimeout(To([q EXCEPT !.retransmits = MaxConf], "OPENED")))
    [] p.state = "OPENED" -> To(NewRequest(Down(q)), "REQSENT")
    [] OTHER -> q

\* nakci and rejci of lcp.c and ipcp.c: what is asked for next.
Instead(p, m) ==
  IF p.state = "OPENED" THEN p.go ELSE IF m.code = "CONFNAK" THEN "fine" ELSE "removed"
RConfNakRej(p, m) ==
  LET q == [p EXCEPT !.seen_ack = TRUE, !.go = Instead(p, m)] IN
  IF ~ForRequest(p, m) \/ m.ci # p.go THEN p ELSE
  CASE p.state \in {"CLOSED", "STOPPED"} -> fsm_sdata(q, "TERMACK", m.id, NoAck)
    [] p.state \in {"REQSENT", "ACKSENT"} -> NewRequest(Untimeout(q))
    [] p.state = "ACKRCVD" -> To(NewRequest(Untimeout(q)), "REQSENT")
    [] p.state = "OPENED" -> To(NewRequest(Down(q)), "REQSENT")
    [] OTHER -> q

\* fsm_rtermreq and fsm_rtermack.
UntimedStop(p) == To([Down(p) EXCEPT !.retransmits = 0], "STOPPING")        \* mutant
Stopping(p) == To([Down(p) EXCEPT !.retransmits = 0, !.timer = TRUE], "STOPPING")
RTermReq(p, m) ==
  LET q == CASE p.state \in {"ACKRCVD", "ACKSENT"} -> To(p, "REQSENT")
             [] p.state = "OPENED" -> Stopping(p)
             [] OTHER -> p
  IN fsm_sdata(q, "TERMACK", m.id, NoAck)
RTermAck(p) ==
  CASE p.state \in Terminating -> Untimeout(To(p, Ends(p)))
    [] p.state = "ACKRCVD" -> To(p, "REQSENT")
    [] p.state = "OPENED" -> NewRequest(Down(p))
    [] OTHER -> p

\* fsm_input.
Input(p, m) ==
  IF p.state \in {"INITIAL", "STARTING"} THEN p ELSE
  CASE m.code = "CONFREQ" -> RConfReq(p, m)
    [] m.code = "CONFACK" -> RConfAck(p, m)
    [] m.code \in {"CONFNAK", "CONFREJ"} -> RConfNakRej(p, m)
    [] m.code = "TERMREQ" -> RTermReq(p, m)
    [] m.code = "TERMACK" -> RTermAck(p)

-----------------------------------------------------------------------------
\* End e becomes p; what p sends is put on the link after what is left of it.
FsmBecomes(e, p, left) ==
  /\ fsm' = [fsm EXCEPT ![e] = [p EXCEPT !.out = <<>>]]
  /\ link' = [link EXCEPT ![e] = left, ![Other(e)] = @ \o p.out]
Trouble == trouble < MaxTrouble /\ trouble' = trouble + 1

\* The first open and the first lowerup; later calls are counted.
Starts(e) ==
  /\ \/ fsm[e].state = "INITIAL" /\ FsmBecomes(e, Open(fsm[e]), link[e])
     \/ fsm[e].state = "STARTING" /\ FsmBecomes(e, LowerUp(fsm[e]), link[e])
  /\ UNCHANGED trouble
Called(e) ==
  /\ \E p \in {LowerUp(fsm[e]), LowerDown(fsm[e]), Open(fsm[e]), Close(fsm[e]), ProtReject(fsm[e])} :
       p # fsm[e] /\ FsmBecomes(e, p, link[e])
  /\ Trouble

fsm_input(e) ==
  /\ link[e] # <<>>
  /\ FsmBecomes(e, Input(fsm[e], Head(link[e])), Tail(link[e]))
  /\ UNCHANGED trouble

\* A timeout is longer than a round trip; one that is not is counted.
Quiet == \A e \in End : link[e] = <<>>
fsm_timeout(e) ==
  /\ fsm[e].timer
  /\ FsmBecomes(e, FsmTimedOut(Untimeout(fsm[e])), link[e])
  /\ IF Quiet THEN UNCHANGED trouble ELSE Trouble

Lose(e) ==
  /\ link[e] # <<>> /\ link' = [link EXCEPT ![e] = Tail(@)]
  /\ Trouble /\ UNCHANGED fsm

PppNext == \E e \in End : Starts(e) \/ Called(e) \/ fsm_input(e) \/ fsm_timeout(e) \/ Lose(e)

PppSpec ==
  /\ PppInit /\ [][PppNext]_pppVars
  /\ \A e \in End : WF_pppVars(fsm_input(e)) /\ SF_pppVars(fsm_timeout(e))

-----------------------------------------------------------------------------
\* Ends that are both up and have nothing on the way agree: what the one asked for
\* last is what the other one acknowledged, although requests were repeated,
\* refused and answered late (fsm.c:496-527, 540-549, 602-612).
Agreed ==
  (Quiet /\ \A e \in End : fsm[e].state = "OPENED" /\ fsm[e].up)
    => \A e \in End : fsm[Other(e)].acked = [id |-> fsm[e].reqid, ci |-> fsm[e].go]

\* An end that waits for the other one has its timer running, whatever it was told
\* in between: nothing else would end a wait for a packet that is lost.
TimerRuns == \A e \in End : fsm[e].state \in Terminating \cup Negotiating => fsm[e].timer

\* up and down alternate, and an end is up only in OPENED.
UpOpened == \A e \in End : fsm[e].up => fsm[e].state = "OPENED"

\* The next identifier is on no request that is on the way, and on no acknowledgement of
\* one: it was last used Ids requests ago (fsm.c:828, fsm.h:83, an u_char).
OnTheWay(packets, code, id) ==
  \E k \in DOMAIN packets : packets[k].code = code /\ packets[k].id = id
IdsFresh ==
  \A e \in End : /\ ~OnTheWay(link[Other(e)], "CONFREQ", NextId(fsm[e]))
                 /\ ~OnTheWay(link[e], "CONFACK", NextId(fsm[e]))

PppInv == IdsFresh /\ Agreed /\ TimerRuns /\ UpOpened

\* ipcp.c:112-113, lcp.c:149-150: up is called when the automaton reaches OPENED,
\* down when it leaves it.
UpInOpened == \A e \in End : fsm[e].state = "OPENED" <=> fsm[e].up

\* The ends do not negotiate for ever.  What is excluded is UpInOpened violated again
\* and again: an end that stayed in OPENED after a TERMACK asks once more for every
\* TERMACK a closed end answers with (fsm.c:469-472, 716-721).
NegotiationEnds ==
  \/ <>[](Quiet /\ \A e \in End : fsm[e].state \notin Terminating \cup Negotiating)
  \/ []<>(~UpInOpened)
=============================================================================
