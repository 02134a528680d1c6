----------------------------- MODULE PeersProofs ----------------------------
(***************************************************************************)
(* Proofs about the two protocols that follow what another host answers.   *)
(*                                                                         *)
(* The automaton of PPP, for all bounds, identifiers and packets: an end   *)
(* that waits has its timer running, and one that is up is in OPENED.      *)
(* Sound says so of one end, and each function of fsm.c keeps it: a lemma  *)
(* says which fields a function leaves alone, and one which it sets.       *)
(* Two ends that are up agree, if no identifier comes again too soon:      *)
(* Agrees relates an end, the other one and the packets on the way, and a  *)
(* function either asks anew, or stands by its request and acknowledges    *)
(* what it has read (Goes, Silent, Acknowledges).                          *)
(*                                                                         *)
(* The DHCP client, for all addresses, times and transaction ids, of       *)
(* servers that name themselves in their offers: the interface is up only  *)
(* with an address that was granted, and every wait is timed.  In a        *)
(* transaction that extends a lease nobody asks for another address than   *)
(* the one the client has, which is what keeps offered equal to it.        *)
(***************************************************************************)
EXTENDS PppFsm, Dhcp, SequenceTheorems, TLAPS

-----------------------------------------------------------------------------
(* The automaton of PPP.                                                   *)

PppStates ==
  {"INITIAL", "STARTING", "CLOSED", "STOPPED", "OPENED"} \cup Negotiating \cup Terminating
Codes == {"CONFREQ", "CONFACK", "CONFNAK", "CONFREJ", "TERMREQ", "TERMACK"}
Wants == {"fine", "unwanted", "removed", NoAck}
Packet == [code : Codes, id : Nat, ci : Wants]
EndType ==
  [state : PppStates, id : Nat, reqid : Nat, retransmits : Int, nakloops : Nat,
   seen_ack : BOOLEAN, timer : BOOLEAN, go : Wants, want : Wants, up : BOOLEAN,
   acked : [id : Nat, ci : Wants], out : Seq(Packet)]

\* An end that waits has its timer running, and one that is up is open.
Sound(p) ==
  /\ p \in EndType
  /\ p.state \in Terminating \cup Negotiating => p.timer = TRUE
  /\ p.up = TRUE => p.state = "OPENED"

\* Setting the fields that no wait depends on; setting one of those as well.
Alike(q, p) == q \in EndType /\ q.state = p.state /\ q.up = p.up /\ q.timer = p.timer
Timing(q, p) == q \in EndType /\ q.state = p.state /\ q.up = p.up /\ q.timer = TRUE

LEMMA EndFields ==
  ASSUME NEW p \in EndType
  PROVE  /\ p.state \in PppStates /\ p.id \in Nat /\ p.reqid \in Nat /\ p.retransmits \in Int
         /\ p.nakloops \in Nat /\ p.seen_ack \in BOOLEAN /\ p.timer \in BOOLEAN
         /\ p.go \in Wants /\ p.want \in Wants /\ p.up \in BOOLEAN
         /\ p.acked \in [id : Nat, ci : Wants] /\ p.out \in Seq(Packet)
         /\ NextId(p) \in Nat /\ MaxConf \in Nat /\ MaxTerm \in Nat
<1>1. p.id + 1 \in Nat /\ Ids \in Nat \ {0} /\ MaxConf \in Nat /\ MaxTerm \in Nat
  BY PppAssumption DEF EndType
<1>2. NextId(p) \in Nat
  BY <1>1 DEF NextId
<1> QED
  BY <1>1, <1>2 DEF EndType

LEMMA Fields ==
  ASSUME NEW p \in EndType
  PROVE  /\ \A s \in PppStates : /\ To(p, s) \in EndType /\ To(p, s).state = s
                                 /\ To(p, s).up = p.up /\ To(p, s).timer = p.timer
         /\ Up(p) \in EndType /\ Up(p).up = TRUE /\ Up(p).state = p.state /\ Up(p).timer = p.timer
         /\ Down(p) \in EndType /\ Down(p).up = FALSE /\ Down(p).state = p.state
         /\ Down(p).timer = p.timer
         /\ Untimeout(p) \in EndType /\ Untimeout(p).timer = FALSE /\ Untimeout(p).up = p.up
         /\ Untimeout(p).state = p.state
  BY DEF EndType, To, Up, Down, Untimeout

LEMMA ToFields ==
  ASSUME NEW p \in EndType, NEW s \in PppStates
  PROVE  /\ To(p, s) \in EndType /\ To(p, s).state = s
         /\ To(p, s).up = p.up /\ To(p, s).timer = p.timer
  BY DEF EndType, To

LEMMA SdataFields ==
  ASSUME NEW p \in EndType, NEW code \in Codes, NEW id \in Nat, NEW ci \in Wants
  PROVE  Alike(fsm_sdata(p, code, id, ci), p)
<1>1. [code |-> code, id |-> id, ci |-> ci] \in Packet
  BY DEF Packet
<1>2. PICK m \in Packet : m = [code |-> code, id |-> id, ci |-> ci]
  BY <1>1
<1>3. Append(p.out, m) \in Seq(Packet)
  BY EndFields
<1>4. PICK o \in Seq(Packet) : o = Append(p.out, m)
  BY <1>3
<1>5. [p EXCEPT !.out = o] \in EndType
  BY DEF EndType
<1>6. /\ [p EXCEPT !.out = o].state = p.state /\ [p EXCEPT !.out = o].up = p.up
      /\ [p EXCEPT !.out = o].timer = p.timer
  BY DEF EndType
<1>7. fsm_sdata(p, code, id, ci) = [p EXCEPT !.out = o]
  BY <1>2, <1>4 DEF fsm_sdata
<1> QED
  BY <1>5, <1>6, <1>7 DEF Alike

LEMMA Setting ==
  ASSUME NEW p \in EndType
  PROVE  /\ \A go \in Wants : Alike([p EXCEPT !.go = go, !.nakloops = 0], p)
         /\ \A go \in Wants : Alike([p EXCEPT !.seen_ack = TRUE, !.go = go], p)
         /\ \A r \in Int, n \in Nat : Alike([p EXCEPT !.retransmits = r, !.id = n, !.reqid = n], p)
         /\ \A r \in Int : Alike([p EXCEPT !.retransmits = r], p)
         /\ \A r \in Int : Timing([p EXCEPT !.seen_ack = FALSE, !.retransmits = r, !.timer = TRUE], p)
         /\ \A r \in Int, n \in Nat :
              Timing([p EXCEPT !.id = n, !.reqid = n, !.retransmits = r, !.timer = TRUE], p)
         /\ \A n \in Nat : Alike([p EXCEPT !.nakloops = n], p)
         /\ \A n \in Nat, a \in [id : Nat, ci : Wants] :
              Alike([p EXCEPT !.nakloops = n, !.acked = a], p)
         /\ Alike([p EXCEPT !.seen_ack = TRUE], p)
         /\ \A o \in Seq(Packet) : Alike([p EXCEPT !.out = o], p)
         /\ Alike(p, p)
  BY DEF EndType, Alike, Timing

LEMMA AlikeTransitive ==
  /\ \A p, q, r : Alike(q, p) /\ Alike(r, q) => Alike(r, p)
  /\ \A p, q, r : Timing(q, p) /\ Alike(r, q) => Timing(r, p)
  /\ \A p, q, r : Alike(q, p) /\ Timing(r, q) => Timing(r, p)
  BY DEF Alike, Timing

LEMMA RequestFields ==
  ASSUME NEW p \in EndType
  PROVE  Timing(Requests(p), p) /\ Timing(TermRequest(p), p) /\ Timing(NewRequest(p), p)
<1>1. ASSUME NEW x \in EndType PROVE Timing(Requests(x), x)
  <2>1. PICK k \in Int : k = x.retransmits - 1
    BY EndFields
  <2>2. PICK q : q = [x EXCEPT !.seen_ack = FALSE, !.retransmits = k, !.timer = TRUE]
    OBVIOUS
  <2>3. Timing(q, x)
    BY <2>2, Setting
  <2>4. q \in EndType /\ q.reqid \in Nat /\ q.go \in Wants
    BY <2>3, EndFields DEF Timing
  <2>5. PICK s \in Codes : s = "CONFREQ"
    BY DEF Codes
  <2>6. Alike(fsm_sdata(q, s, q.reqid, q.go), q)
    BY <2>4, SdataFields
  <2>7. Requests(x) = fsm_sdata(q, s, q.reqid, q.go)
    BY <2>1, <2>2, <2>5 DEF Requests
  <2> QED
    BY <2>3, <2>6, <2>7, AlikeTransitive
<1>2. Timing(TermRequest(p), p)
  <2>1. PICK k \in Int : k = p.retransmits - 1
    BY EndFields
  <2>2. PICK n \in Nat : n = NextId(p)
    BY EndFields
  <2>3. PICK q : q = [p EXCEPT !.id = n, !.reqid = n, !.retransmits = k, !.timer = TRUE]
    OBVIOUS
  <2>4. Timing(q, p)
    BY <2>3, Setting
  <2>5. q \in EndType /\ q.reqid \in Nat /\ NoAck \in Wants
    BY <2>4, EndFields DEF Timing, Wants
  <2>6. PICK s \in Codes : s = "TERMREQ"
    BY DEF Codes
  <2>7. Alike(fsm_sdata(q, s, q.reqid, NoAck), q)
    BY <2>5, SdataFields
  <2>8. TermRequest(p) = fsm_sdata(q, s, q.reqid, NoAck)
    BY <2>1, <2>2, <2>3, <2>6 DEF TermRequest
  <2> QED
    BY <2>4, <2>7, <2>8, AlikeTransitive
<1>3. Timing(NewRequest(p), p)
  <2>1. PICK q : q = Reset(p)
    OBVIOUS
  <2>2. Alike(q, p)
    BY <2>1, EndFields, Setting DEF Reset
  <2>3. PICK n \in Nat : n = NextId(q)
    BY <2>2, EndFields DEF Alike
  <2>4. PICK c \in Int : c = MaxConf
    BY EndFields
  <2>5. PICK r : r = Numbered(q)
    OBVIOUS
  <2>6. Alike(r, q)
    <3>1. r = [q EXCEPT !.retransmits = c, !.id = n, !.reqid = n]
      BY <2>3, <2>4, <2>5 DEF Numbered
    <3>2. q \in EndType
      BY <2>2 DEF Alike
    <3> QED
      BY <3>1, <3>2, Setting
  <2>7. Timing(Requests(r), r)
    BY <1>1, <2>6 DEF Alike
  <2> QED
    BY <2>1, <2>2, <2>5, <2>6, <2>7, AlikeTransitive DEF NewRequest
<1> QED
  BY <1>1, <1>2, <1>3

LEMMA TerminateFields ==
  ASSUME NEW p \in EndType, NEW s \in Terminating
  PROVE  /\ Terminate(p, s) \in EndType /\ Terminate(p, s).state = s
         /\ Terminate(p, s).up = p.up /\ Terminate(p, s).timer = TRUE
<1>1. PICK q : q = [p EXCEPT !.retransmits = MaxTerm]
  OBVIOUS
<1>2. Alike(q, p)
  <2>1. PICK c \in Int : c = MaxTerm
    BY EndFields
  <2>2. q = [p EXCEPT !.retransmits = c]
    BY <1>1, <2>1
  <2> QED
    BY <2>2, Setting
<1>3. PICK r : r = TermRequest(q)
  OBVIOUS
<1>4. r \in EndType /\ r.up = p.up /\ r.timer = TRUE
  BY <1>2, <1>3, RequestFields DEF Alike, Timing
<1>5. s \in PppStates
  BY DEF PppStates
<1>6. Terminate(p, s) = To(r, s)
  BY <1>1, <1>3 DEF Terminate
<1>7. /\ To(r, s) \in EndType /\ To(r, s).state = s
      /\ To(r, s).up = r.up /\ To(r, s).timer = r.timer
  BY <1>4, <1>5, Fields
<1> QED
  BY <1>4, <1>6, <1>7

LEMMA SoundFields ==
  /\ \A p, q : Sound(p) /\ Alike(q, p) => Sound(q)
  /\ \A p, q : Sound(p) /\ Timing(q, p) => Sound(q)
  /\ \A p : Sound(p) => p \in EndType
  /\ \A p : p \in EndType /\ p.timer = TRUE /\ (p.up = TRUE => p.state = "OPENED") => Sound(p)
  /\ \A p : p \in EndType /\ p.up = FALSE /\ p.state \notin Terminating \cup Negotiating => Sound(p)
  /\ \A p : p \in EndType /\ p.state = "OPENED" => Sound(p)
  BY DEF Sound, Alike, Timing, Terminating, Negotiating

\* A new request ends in REQSENT, with the timer running.
LEMMA RequestSent ==
  ASSUME NEW p \in EndType, p.up = FALSE
  PROVE  /\ Sound(To(NewRequest(p), "REQSENT")) /\ To(NewRequest(p), "REQSENT").state = "REQSENT"
         /\ Sound(NewRequest(p)) /\ NewRequest(p).state = p.state /\ NewRequest(p).up = FALSE
         /\ To(NewRequest(p), "REQSENT").up = FALSE
         /\ To(NewRequest(p), "REQSENT").timer = TRUE /\ NewRequest(p).timer = TRUE
<1>1. Timing(NewRequest(p), p)
  BY RequestFields
<1>2. PICK q \in EndType : q = NewRequest(p)
  BY <1>1 DEF Timing
<1>3. q.timer = TRUE /\ q.up = FALSE /\ q.state = p.state
  BY <1>1, <1>2 DEF Timing
<1>4. PICK s \in PppStates : s = "REQSENT"
  BY DEF PppStates, Negotiating
<1>5. /\ To(q, "REQSENT") \in EndType /\ To(q, "REQSENT").state = "REQSENT"
      /\ To(q, "REQSENT").timer = TRUE /\ To(q, "REQSENT").up = FALSE
  <2>1. /\ To(q, s) \in EndType /\ To(q, s).state = s
        /\ To(q, s).up = q.up /\ To(q, s).timer = q.timer
    BY ToFields
  <2> QED
    BY <1>3, <1>4, <2>1
<1>6. Sound(To(q, "REQSENT")) /\ Sound(q)
  BY <1>3, <1>5, SoundFields
<1> QED
  BY <1>2, <1>3, <1>5, <1>6

\* Where an end goes without sending anything.
LEMMA Moves ==
  ASSUME NEW p, Sound(p)
  PROVE  /\ \A s \in {"INITIAL", "STARTING", "CLOSED", "STOPPED"} :
              /\ p.state # "OPENED" => Sound(To(p, s)) /\ Sound(Untimeout(To(p, s)))
              /\ Sound(To(Down(p), s))
         /\ \A s \in PppStates : p.state \in Terminating \cup Negotiating => Sound(To(p, s))
         /\ p.state # "OPENED" => p.up = FALSE
         /\ p \in EndType
         /\ Down(p) \in EndType /\ Down(p).up = FALSE /\ Down(p).state = p.state
         /\ Untimeout(p) \in EndType /\ Untimeout(p).state = p.state
         /\ Untimeout(p).up = p.up /\ Untimeout(p).timer = FALSE
<1>1. p \in EndType /\ p.up \in BOOLEAN
  BY EndFields DEF Sound
<1>2. p.state # "OPENED" => p.up = FALSE
  BY <1>1 DEF Sound
<1>3. ASSUME NEW s \in {"INITIAL", "STARTING", "CLOSED", "STOPPED"}
      PROVE  /\ p.state # "OPENED" => Sound(To(p, s)) /\ Sound(Untimeout(To(p, s)))
             /\ Sound(To(Down(p), s))
  <2>1. s \in PppStates /\ s \notin Terminating \cup Negotiating
    BY <1>3 DEF PppStates, Terminating, Negotiating
  <2>2. To(p, s) \in EndType /\ To(p, s).state = s /\ To(p, s).up = p.up
    BY <1>1, <2>1, ToFields
  <2>3. /\ Untimeout(To(p, s)) \in EndType /\ Untimeout(To(p, s)).state = s
        /\ Untimeout(To(p, s)).up = p.up
    BY <2>2, Fields
  <2>4. Down(p) \in EndType /\ Down(p).up = FALSE
    BY <1>1, Fields
  <2>5. To(Down(p), s) \in EndType /\ To(Down(p), s).state = s /\ To(Down(p), s).up = FALSE
    BY <2>1, <2>4, ToFields
  <2> QED
    BY <1>2, <2>1, <2>2, <2>3, <2>5, SoundFields
<1>4. ASSUME NEW s \in PppStates, p.state \in Terminating \cup Negotiating
      PROVE  Sound(To(p, s))
  <2>1. p.timer = TRUE /\ p.up = FALSE
    BY <1>2, <1>4 DEF Sound, Terminating, Negotiating
  <2>2. To(p, s) \in EndType /\ To(p, s).up = FALSE /\ To(p, s).timer = TRUE
    BY <1>1, <2>1, ToFields
  <2> QED
    BY <2>2, SoundFields
<1>5. /\ Down(p) \in EndType /\ Down(p).up = FALSE /\ Down(p).state = p.state
      /\ Untimeout(p) \in EndType /\ Untimeout(p).state = p.state
      /\ Untimeout(p).up = p.up /\ Untimeout(p).timer = FALSE
  BY <1>1, Fields
<1> QED
  BY <1>1, <1>2, <1>3, <1>4, <1>5

\* The calls from above and below.
LEMMA CallsSound ==
  ASSUME NEW p, Sound(p)
  PROVE  /\ Sound(LowerUp(p)) /\ Sound(LowerDown(p)) /\ Sound(Open(p))
         /\ Sound(Close(p)) /\ Sound(ProtReject(p))
<1>1. /\ "INITIAL" \in {"INITIAL", "STARTING", "CLOSED", "STOPPED"}
      /\ "STARTING" \in {"INITIAL", "STARTING", "CLOSED", "STOPPED"}
      /\ "CLOSED" \in {"INITIAL", "STARTING", "CLOSED", "STOPPED"}
      /\ "STOPPED" \in {"INITIAL", "STARTING", "CLOSED", "STOPPED"}
      /\ "STOPPING" \in PppStates /\ "CLOSING" \in PppStates
      /\ "STOPPING" \in Terminating /\ "CLOSING" \in Terminating
  BY DEF PppStates, Terminating
<1>2. p.state \in Terminating \cup Negotiating => p.state # "OPENED"
  BY DEF Terminating, Negotiating
<1>3. ASSUME NEW q \in EndType, q.up = FALSE, NEW s \in Terminating
      PROVE  Sound(Terminate(q, s))
  BY <1>3, TerminateFields, SoundFields
<1>4. Sound(LowerUp(p))
  <2>1. CASE p.state = "INITIAL"
    BY <1>1, <2>1, Moves DEF LowerUp
  <2>2. CASE p.state = "STARTING"
    BY <2>2, Moves, RequestSent DEF LowerUp
  <2>3. CASE p.state # "INITIAL" /\ p.state # "STARTING"
    BY <2>3 DEF LowerUp
  <2> QED
    BY <2>1, <2>2, <2>3
<1>5. Sound(LowerDown(p))
  <2>1. CASE p.state = "CLOSED"
    BY <1>1, <2>1, Moves DEF LowerDown
  <2>2. CASE p.state = "CLOSING"
    <3>1. LowerDown(p) = Untimeout(To(p, "INITIAL"))
      BY <2>2 DEF LowerDown, Negotiating
    <3> QED
      BY <1>1, <2>2, <3>1, Moves
  <2>3. CASE p.state = "STOPPED"
    <3>1. LowerDown(p) = To(p, "STARTING")
      BY <2>3 DEF LowerDown, Negotiating
    <3> QED
      BY <1>1, <2>3, <3>1, Moves
  <2>4. CASE p.state \in Negotiating \cup {"STOPPING"}
    <3>1. LowerDown(p) = Untimeout(To(p, "STARTING"))
      BY <2>4 DEF LowerDown, Negotiating
    <3>2. p.state # "OPENED"
      BY <2>4 DEF Negotiating
    <3> QED
      BY <1>1, <3>1, <3>2, Moves
  <2>5. CASE p.state = "OPENED"
    <3>1. LowerDown(p) = To(Down(p), "STARTING")
      BY <2>5 DEF LowerDown, Negotiating
    <3> QED
      BY <1>1, <3>1, Moves
  <2>6. CASE p.state \notin Negotiating \cup {"CLOSED", "CLOSING", "STOPPED", "STOPPING", "OPENED"}
    BY <2>6 DEF LowerDown
  <2> QED
    BY <2>1, <2>2, <2>3, <2>4, <2>5, <2>6
<1>6. Sound(Open(p))
  <2>1. CASE p.state = "INITIAL"
    BY <1>1, <2>1, Moves DEF Open
  <2>2. CASE p.state = "CLOSED"
    <3>1. Open(p) = To(NewRequest(p), "REQSENT")
      BY <2>2 DEF Open
    <3>2. p \in EndType /\ p.up = FALSE
      BY <2>2, Moves
    <3>3. Sound(To(NewRequest(p), "REQSENT"))
      BY <3>2, RequestSent
    <3> QED
      BY <3>1, <3>3
  <2>3. CASE p.state = "CLOSING"
    <3>1. Open(p) = To(p, "STOPPING")
      BY <2>3 DEF Open
    <3>2. p.state \in Terminating \cup Negotiating
      BY <1>1, <2>3
    <3> QED
      BY <1>1, <3>1, <3>2, Moves
  <2>4. CASE p.state \notin {"INITIAL", "CLOSED", "CLOSING"}
    BY <2>4 DEF Open
  <2> QED
    BY <2>1, <2>2, <2>3, <2>4
<1>7. Sound(Close(p))
  <2>1. CASE p.state = "STARTING"
    <3>1. Close(p) = To(p, "INITIAL")
      BY <2>1 DEF Close, Negotiating
    <3> QED
      BY <1>1, <2>1, <3>1, Moves
  <2>2. CASE p.state = "STOPPED"
    <3>1. Close(p) = To(p, "CLOSED")
      BY <2>2 DEF Close, Negotiating
    <3> QED
      BY <1>1, <2>2, <3>1, Moves
  <2>3. CASE p.state = "STOPPING"
    <3>1. Close(p) = To(p, "CLOSING")
      BY <2>3 DEF Close, Negotiating
    <3>2. p.state \in Terminating \cup Negotiating
      BY <1>1, <2>3
    <3> QED
      BY <1>1, <3>1, <3>2, Moves
  <2>4. CASE p.state \in Negotiating
    <3>1. Close(p) = Terminate(Untimeout(p), "CLOSING")
      BY <2>4 DEF Close, Negotiating
    <3>2. p.state # "OPENED"
      BY <2>4 DEF Negotiating
    <3> QED
      BY <1>1, <1>3, <3>1, <3>2, Moves
  <2>5. CASE p.state = "OPENED"
    <3>1. Close(p) = Terminate(Down(p), "CLOSING")
      BY <2>5 DEF Close, Negotiating
    <3> QED
      BY <1>1, <1>3, <3>1, Moves
  <2>6. CASE p.state \notin Negotiating \cup {"STARTING", "STOPPED", "STOPPING", "OPENED"}
    BY <2>6 DEF Close
  <2> QED
    BY <2>1, <2>2, <2>3, <2>4, <2>5, <2>6
<1>8. Sound(ProtReject(p))
  <2>1. CASE p.state = "CLOSING"
    BY <1>1, <2>1, Moves DEF ProtReject
  <2>2. CASE p.state \in Negotiating \cup {"STOPPING"}
    <3>1. ProtReject(p) = Untimeout(To(p, "STOPPED"))
      BY <2>2 DEF ProtReject, Negotiating
    <3>2. p.state # "OPENED"
      BY <2>2 DEF Negotiating
    <3> QED
      BY <1>1, <3>1, <3>2, Moves
  <2>3. CASE p.state = "OPENED"
    <3>1. ProtReject(p) = Terminate(Down(p), "STOPPING")
      BY <2>3 DEF ProtReject, Negotiating
    <3> QED
      BY <1>1, <1>3, <3>1, Moves
  <2>4. CASE p.state \notin Negotiating \cup {"CLOSING", "STOPPING", "OPENED"}
    BY <2>4 DEF ProtReject
  <2> QED
    BY <2>1, <2>2, <2>3, <2>4
<1> QED
  BY <1>4, <1>5, <1>6, <1>7, <1>8

\* fsm_timeout, with the timer just run out.
LEMMA TimeoutSound ==
  ASSUME NEW p, Sound(p)
  PROVE  Sound(FsmTimedOut(Untimeout(p)))
<1>1. PICK q \in EndType : q = Untimeout(p)
  BY Moves
<1>2. q.state = p.state /\ q.up = p.up
  BY <1>1, Moves
<1>3. q.state # "OPENED" => q.up = FALSE
  BY <1>2, Moves
<1>4. q.state \in Terminating \cup Negotiating => q.state # "OPENED"
  BY DEF Terminating, Negotiating
<1>5. CASE q.state \in Terminating \cup Negotiating /\ GivesUp(q)
  <2>1. PICK s \in {"CLOSED", "STOPPED"} : s = Ends(q)
    BY DEF Ends
  <2>2. s \in PppStates /\ s \notin Terminating \cup Negotiating
    BY DEF PppStates, Terminating, Negotiating
  <2>3. To(q, s) \in EndType /\ To(q, s).state = s /\ To(q, s).up = q.up
    BY <2>2, ToFields
  <2>4. FsmTimedOut(q) = To(q, s)
    BY <1>5, <2>1 DEF FsmTimedOut
  <2>5. To(q, s).up = FALSE /\ To(q, s).state \notin Terminating \cup Negotiating
    BY <1>3, <1>4, <1>5, <2>2, <2>3
  <2>6. Sound(To(q, s))
    BY <2>3, <2>5, SoundFields
  <2> QED
    BY <1>1, <2>4, <2>6
<1>6. CASE q.state \in Terminating /\ ~GivesUp(q)
  <2>1. FsmTimedOut(q) = TermRequest(q)
    BY <1>6 DEF FsmTimedOut, Terminating, Negotiating
  <2>2. Timing(TermRequest(q), q)
    BY RequestFields
  <2>3. TermRequest(q) \in EndType /\ TermRequest(q).timer = TRUE /\ TermRequest(q).up = FALSE
    BY <1>3, <1>4, <1>6, <2>2 DEF Timing
  <2>4. Sound(TermRequest(q))
    BY <2>3, SoundFields
  <2> QED
    BY <1>1, <2>1, <2>4
<1>7. CASE q.state \in Negotiating /\ ~GivesUp(q)
  <2>1. PICK r : r = Requests(q)
    OBVIOUS
  <2>2. FsmTimedOut(q) = IF r.state = "ACKRCVD" THEN To(r, "REQSENT") ELSE r
    BY <1>7, <2>1 DEF FsmTimedOut, Terminating, Negotiating
  <2>3. Timing(r, q)
    BY <2>1, RequestFields
  <2>4. r \in EndType /\ r.timer = TRUE /\ r.up = FALSE
    BY <1>3, <1>4, <1>7, <2>3 DEF Timing
  <2>5. PICK s \in PppStates : s = "REQSENT"
    BY DEF PppStates, Negotiating
  <2>6. To(r, s) \in EndType /\ To(r, s).timer = TRUE /\ To(r, s).up = FALSE
    BY <2>4, ToFields
  <2>7. Sound(r) /\ Sound(To(r, s))
    BY <2>4, <2>6, SoundFields
  <2> QED
    BY <1>1, <2>2, <2>5, <2>7
<1>8. CASE q.state \notin Terminating \cup Negotiating
  <2>1. FsmTimedOut(q) = q
    BY <1>8 DEF FsmTimedOut
  <2>2. Sound(q)
    BY <1>3, <1>8, SoundFields
  <2> QED
    BY <1>1, <2>1, <2>2
<1> QED
  BY <1>5, <1>6, <1>7, <1>8

\* What fsm_rconfreq ends with: the request is acknowledged, or refused.
LEMMA AcknowledgedSound ==
  ASSUME NEW p, Sound(p), NEW id \in Nat, NEW ci \in Wants, p.timer = TRUE, p.up = FALSE
  PROVE  Sound(Acknowledged(p, id, ci))
<1>1. PICK n \in Nat, a \in [id : Nat, ci : Wants] : n = 0 /\ a = [id |-> id, ci |-> ci]
  OBVIOUS
<1>2. PICK q : q = [p EXCEPT !.nakloops = n, !.acked = a]
  OBVIOUS
<1>3. Alike(q, p)
  BY <1>2, Setting, SoundFields
<1>4. q \in EndType /\ q.timer = TRUE /\ q.up = FALSE
  BY <1>3 DEF Alike
<1>5. PICK s \in PppStates, t \in PppStates : s = "OPENED" /\ t = "ACKSENT"
  BY DEF PppStates, Negotiating
<1>6. To(q, s) \in EndType /\ To(q, s).state = s
  BY <1>4, ToFields
<1>7. Untimeout(To(q, s)) \in EndType /\ Untimeout(To(q, s)).state = s
  BY <1>6, Fields
<1>8. Up(Untimeout(To(q, s))) \in EndType /\ Up(Untimeout(To(q, s))).state = "OPENED"
  BY <1>5, <1>7, Fields
<1>9. To(q, t) \in EndType /\ To(q, t).timer = TRUE /\ To(q, t).up = FALSE
  BY <1>4, ToFields
<1>10. Sound(Up(Untimeout(To(q, s)))) /\ Sound(To(q, t))
  BY <1>8, <1>9, SoundFields
<1>11. Acknowledged(p, id, ci) = IF p.state = "ACKRCVD" THEN Up(Untimeout(To(q, s))) ELSE To(q, t)
  BY <1>1, <1>2, <1>5 DEF Acknowledged
<1> QED
  BY <1>10, <1>11

LEMMA RefusedSound ==
  ASSUME NEW p, Sound(p), NEW code, p.timer = TRUE, p.up = FALSE
  PROVE  Sound(Refused(p, code))
<1>1. PICK n \in Nat : n = p.nakloops + 1
  BY EndFields, SoundFields
<1>2. PICK q : q = IF code = "CONFNAK" THEN [p EXCEPT !.nakloops = n] ELSE p
  OBVIOUS
<1>3. Alike(q, p)
  BY <1>2, Setting, SoundFields
<1>4. q \in EndType /\ q.timer = TRUE /\ q.up = FALSE
  BY <1>3 DEF Alike
<1>5. PICK t \in PppStates : t = "REQSENT"
  BY DEF PppStates, Negotiating
<1>6. To(q, t) \in EndType /\ To(q, t).timer = TRUE /\ To(q, t).up = FALSE
  BY <1>4, ToFields
<1>7. Sound(q) /\ Sound(To(q, t))
  BY <1>4, <1>6, SoundFields
<1>8. Refused(p, code) = IF p.state = "ACKRCVD" THEN q ELSE To(q, t)
  BY <1>1, <1>2, <1>5 DEF Refused
<1> QED
  BY <1>7, <1>8

LEMMA RConfReqSound ==
  ASSUME NEW p, Sound(p), p.state \notin {"INITIAL", "STARTING"}, NEW m \in Packet
  PROVE  Sound(RConfReq(p, m))
<1>1. m.id \in Nat /\ m.ci \in Wants /\ NoAck \in Wants /\ p \in EndType /\ p.state \in PppStates
  BY EndFields, SoundFields DEF Packet, Wants
<1>2. CASE p.state = "CLOSED"
  <2>1. PICK s \in Codes : s = "TERMACK"
    BY DEF Codes
  <2>2. RConfReq(p, m) = fsm_sdata(p, s, m.id, NoAck)
    BY <1>2, <2>1 DEF RConfReq, Terminating
  <2>3. Sound(fsm_sdata(p, s, m.id, NoAck))
    BY <1>1, SdataFields, SoundFields
  <2> QED
    BY <2>2, <2>3
<1>3. CASE p.state \in Terminating
  BY <1>3 DEF RConfReq, Terminating
<1>4. CASE p.state \in Negotiating \cup {"OPENED", "STOPPED"}
  <2>1. PICK q : q = CASE p.state = "OPENED" -> NewRequest(Down(p))
                       [] p.state = "STOPPED" -> To(NewRequest(p), "REQSENT")
                       [] OTHER -> p
    OBVIOUS
  <2>2. Sound(q) /\ q.timer = TRUE /\ q.up = FALSE
    <3>1. CASE p.state = "OPENED"
      <4>1. q = NewRequest(Down(p))
        BY <2>1, <3>1
      <4>2. Down(p) \in EndType /\ Down(p).up = FALSE
        BY Moves
      <4> QED
        BY <4>1, <4>2, RequestSent
    <3>2. CASE p.state = "STOPPED"
      <4>1. q = To(NewRequest(p), "REQSENT")
        BY <2>1, <3>2
      <4>2. p.up = FALSE
        BY <3>2, Moves
      <4> QED
        BY <1>1, <4>1, <4>2, RequestSent
    <3>3. CASE p.state \in Negotiating
      <4>1. q = p
        BY <2>1, <3>3 DEF Negotiating
      <4>2. p.state # "OPENED"
        BY <3>3 DEF Negotiating
      <4>3. p.up = FALSE
        BY <4>2, Moves
      <4>4. p.timer = TRUE
        BY <3>3 DEF Sound
      <4> QED
        BY <4>1, <4>3, <4>4
    <3> QED
      BY <1>4, <3>1, <3>2, <3>3
  <2>3. PICK code \in Codes : code = Answer(q, m.ci)
    BY DEF Answer, Codes
  <2>4. PICK r : r = fsm_sdata(q, code, m.id, m.ci)
    OBVIOUS
  <2>5. Alike(r, q)
    BY <1>1, <2>2, <2>4, SdataFields, SoundFields
  <2>6. Sound(r) /\ r.timer = TRUE /\ r.up = FALSE
    BY <2>2, <2>5, SoundFields DEF Alike
  <2>7. Sound(Acknowledged(r, m.id, m.ci)) /\ Sound(Refused(r, code))
    BY <1>1, <2>6, AcknowledgedSound, RefusedSound
  <2>8. RConfReq(p, m) = IF code = "CONFACK" THEN Acknowledged(r, m.id, m.ci) ELSE Refused(r, code)
    BY <1>4, <2>1, <2>3, <2>4 DEF RConfReq, Terminating, Negotiating
  <2> QED
    BY <2>7, <2>8
<1> QED
  BY <1>1, <1>2, <1>3, <1>4 DEF PppStates

\* What an answer to the last request leads to, q being the end that noted it.
LEMMA AnswersSound ==
  ASSUME NEW p, Sound(p), NEW q, Alike(q, p), NEW id \in Nat
  PROVE  /\ Sound(q) /\ q.state = p.state
         /\ Sound(fsm_sdata(q, "TERMACK", id, NoAck))
         /\ p.state # "OPENED" => /\ Sound(NewRequest(Untimeout(q)))
                                  /\ Sound(To(NewRequest(Untimeout(q)), "REQSENT"))
         /\ Sound(To(NewRequest(Down(q)), "REQSENT"))
         /\ Sound(NewRequest(Down(q)))
         /\ p.state \in Negotiating =>
              /\ Sound(To([q EXCEPT !.retransmits = MaxConf], "ACKRCVD"))
              /\ Sound(Up(Untimeout(To([q EXCEPT !.retransmits = MaxConf], "OPENED"))))
<1>1. Sound(q) /\ q.state = p.state /\ q \in EndType /\ q.timer = p.timer
  BY SoundFields DEF Alike
<1>2. Sound(fsm_sdata(q, "TERMACK", id, NoAck))
  <2>1. PICK s \in Codes : s = "TERMACK"
    BY DEF Codes
  <2>2. NoAck \in Wants
    BY DEF Wants
  <2>3. Alike(fsm_sdata(q, s, id, NoAck), q)
    BY <1>1, <2>2, SdataFields
  <2> QED
    BY <1>1, <2>1, <2>3, SoundFields
<1>3. ASSUME p.state # "OPENED"
      PROVE  Sound(NewRequest(Untimeout(q))) /\ Sound(To(NewRequest(Untimeout(q)), "REQSENT"))
  <2>1. Untimeout(q) \in EndType /\ Untimeout(q).up = FALSE
    BY <1>1, <1>3, Moves
  <2> QED
    BY <2>1, RequestSent
<1>4. Sound(To(NewRequest(Down(q)), "REQSENT")) /\ Sound(NewRequest(Down(q)))
  <2>1. Down(q) \in EndType /\ Down(q).up = FALSE
    BY <1>1, Moves
  <2> QED
    BY <2>1, RequestSent
<1>5. ASSUME p.state \in Negotiating
      PROVE  /\ Sound(To([q EXCEPT !.retransmits = MaxConf], "ACKRCVD"))
             /\ Sound(Up(Untimeout(To([q EXCEPT !.retransmits = MaxConf], "OPENED"))))
  <2>1. PICK c \in Int : c = MaxConf
    BY <1>1, EndFields
  <2>2. PICK r : r = [q EXCEPT !.retransmits = c]
    OBVIOUS
  <2>3. Alike(r, q)
    BY <1>1, <2>2, Setting
  <2>4. p.timer = TRUE /\ q.state # "OPENED"
    BY <1>1, <1>5 DEF Sound, Negotiating
  <2>5. q.up = FALSE
    BY <1>1, <2>4, Moves
  <2>6. r \in EndType /\ r.timer = TRUE /\ r.up = FALSE
    BY <1>1, <2>3, <2>4, <2>5 DEF Alike
  <2>7. PICK s \in PppStates, t \in PppStates : s = "OPENED" /\ t = "ACKRCVD"
    BY DEF PppStates, Negotiating
  <2>8. To(r, s) \in EndType /\ To(r, s).state = s
    BY <2>6, ToFields
  <2>9. Untimeout(To(r, s)) \in EndType /\ Untimeout(To(r, s)).state = s
    BY <2>8, Fields
  <2>10. Up(Untimeout(To(r, s))) \in EndType /\ Up(Untimeout(To(r, s))).state = "OPENED"
    BY <2>7, <2>9, Fields
  <2>11. To(r, t) \in EndType /\ To(r, t).timer = TRUE /\ To(r, t).up = FALSE
    BY <2>6, ToFields
  <2>12. Sound(Up(Untimeout(To(r, s)))) /\ Sound(To(r, t))
    BY <2>10, <2>11, SoundFields
  <2> QED
    BY <2>1, <2>2, <2>7, <2>12
<1> QED
  BY <1>1, <1>2, <1>3, <1>4, <1>5

LEMMA RConfAckSound ==
  ASSUME NEW p, Sound(p), NEW m \in Packet
  PROVE  Sound(RConfAck(p, m))
<1>1. m.id \in Nat
  BY DEF Packet
<1>2. PICK q : q = [p EXCEPT !.seen_ack = TRUE]
  OBVIOUS
<1>3. Alike(q, p)
  BY <1>2, Setting, SoundFields
<1>4. CASE ~ForRequest(p, m) \/ m.ci # p.go
  BY <1>4, <1>3 DEF RConfAck
<1>5. CASE ~(~ForRequest(p, m) \/ m.ci # p.go)
  <2>1. CASE p.state \in {"CLOSED", "STOPPED"}
    <3>1. RConfAck(p, m) = fsm_sdata(q, "TERMACK", m.id, NoAck)
      BY <1>2, <1>5, <2>1 DEF RConfAck
    <3> QED
      BY <1>1, <1>3, <3>1, AnswersSound
  <2>2. CASE p.state = "REQSENT"
    <3>1. RConfAck(p, m) = To([q EXCEPT !.retransmits = MaxConf], "ACKRCVD")
      BY <1>2, <1>5, <2>2 DEF RConfAck
    <3>2. p.state \in Negotiating
      BY <2>2 DEF Negotiating
    <3> QED
      BY <1>1, <1>3, <3>1, <3>2, AnswersSound
  <2>3. CASE p.state = "ACKRCVD"
    <3>1. RConfAck(p, m) = To(NewRequest(Untimeout(q)), "REQSENT")
      BY <1>2, <1>5, <2>3 DEF RConfAck
    <3>2. p.state # "OPENED"
      BY <2>3
    <3> QED
      BY <1>1, <1>3, <3>1, <3>2, AnswersSound
  <2>4. CASE p.state = "ACKSENT"
    <3>1. RConfAck(p, m) = Up(Untimeout(To([q EXCEPT !.retransmits = MaxConf], "OPENED")))
      BY <1>2, <1>5, <2>4 DEF RConfAck
    <3>2. p.state \in Negotiating
      BY <2>4 DEF Negotiating
    <3> QED
      BY <1>1, <1>3, <3>1, <3>2, AnswersSound
  <2>5. CASE p.state = "OPENED"
    <3>1. RConfAck(p, m) = To(NewRequest(Down(q)), "REQSENT")
      BY <1>2, <1>5, <2>5 DEF RConfAck
    <3> QED
      BY <1>1, <1>3, <3>1, AnswersSound
  <2>6. CASE p.state \notin {"CLOSED", "STOPPED", "REQSENT", "ACKRCVD", "ACKSENT", "OPENED"}
    <3>1. RConfAck(p, m) = q
      BY <1>2, <1>5, <2>6 DEF RConfAck
    <3> QED
      BY <1>1, <1>3, <3>1, AnswersSound
  <2> QED
    BY <2>1, <2>2, <2>3, <2>4, <2>5, <2>6
<1> QED
  BY <1>4, <1>5

LEMMA RConfNakRejSound ==
  ASSUME NEW p, Sound(p), NEW m \in Packet
  PROVE  Sound(RConfNakRej(p, m))
<1>1. m.id \in Nat
  BY DEF Packet
<1>2. PICK go \in Wants : go = Instead(p, m)
  <2>1. p.go \in Wants
    BY EndFields, SoundFields
  <2>2. Instead(p, m) \in Wants
    BY <2>1 DEF Instead, Wants
  <2> QED
    BY <2>2
<1>3. PICK q : q = [p EXCEPT !.seen_ack = TRUE, !.go = go]
  OBVIOUS
<1>4. Alike(q, p)
  BY <1>3, Setting, SoundFields
<1>5. CASE ~ForRequest(p, m) \/ m.ci # p.go
  BY <1>5 DEF RConfNakRej
<1>6. CASE ~(~ForRequest(p, m) \/ m.ci # p.go)
  <2>1. CASE p.state \in {"CLOSED", "STOPPED"}
    <3>1. RConfNakRej(p, m) = fsm_sdata(q, "TERMACK", m.id, NoAck)
      BY <1>2, <1>3, <1>6, <2>1 DEF RConfNakRej
    <3> QED
      BY <1>1, <1>4, <3>1, AnswersSound
  <2>2. CASE p.state \in {"REQSENT", "ACKSENT"}
    <3>1. RConfNakRej(p, m) = NewRequest(Untimeout(q))
      BY <1>2, <1>3, <1>6, <2>2 DEF RConfNakRej
    <3>2. p.state # "OPENED"
      BY <2>2
    <3> QED
      BY <1>1, <1>4, <3>1, <3>2, AnswersSound
  <2>3. CASE p.state = "ACKRCVD"
    <3>1. RConfNakRej(p, m) = To(NewRequest(Untimeout(q)), "REQSENT")
      BY <1>2, <1>3, <1>6, <2>3 DEF RConfNakRej
    <3>2. p.state # "OPENED"
      BY <2>3
    <3> QED
      BY <1>1, <1>4, <3>1, <3>2, AnswersSound
  <2>4. CASE p.state = "OPENED"
    <3>1. RConfNakRej(p, m) = To(NewRequest(Down(q)), "REQSENT")
      BY <1>2, <1>3, <1>6, <2>4 DEF RConfNakRej
    <3> QED
      BY <1>1, <1>4, <3>1, AnswersSound
  <2>5. CASE p.state \notin {"CLOSED", "STOPPED", "REQSENT", "ACKRCVD", "ACKSENT", "OPENED"}
    <3>1. RConfNakRej(p, m) = q
      BY <1>2, <1>3, <1>6, <2>5 DEF RConfNakRej
    <3> QED
      BY <1>1, <1>4, <3>1, AnswersSound
  <2> QED
    BY <2>1, <2>2, <2>3, <2>4, <2>5
<1> QED
  BY <1>5, <1>6

LEMMA RTermsSound ==
  ASSUME NEW p, Sound(p), p.state \notin {"INITIAL", "STARTING"}, NEW m \in Packet
  PROVE  Sound(RTermReq(p, m)) /\ Sound(RTermAck(p))
<1>1. m.id \in Nat /\ NoAck \in Wants /\ p \in EndType
  BY SoundFields DEF Packet, Wants
<1>2. PICK s \in Codes, t \in PppStates, z \in Int :
        s = "TERMACK" /\ t = "STOPPING" /\ z = 0
  BY DEF Codes, PppStates, Terminating
<1>3. PICK u \in PppStates : u = "REQSENT"
  BY DEF PppStates, Negotiating
<1>4. CASE p.state \in {"ACKRCVD", "ACKSENT"}
  <2>1. p.state \in Terminating \cup Negotiating
    BY <1>4 DEF Negotiating
  <2>2. Sound(To(p, u))
    BY <2>1, Moves
  <2>3. RTermReq(p, m) = fsm_sdata(To(p, u), s, m.id, NoAck)
    BY <1>2, <1>3, <1>4 DEF RTermReq
  <2>4. Sound(fsm_sdata(To(p, u), s, m.id, NoAck))
    BY <1>1, <2>2, SdataFields, SoundFields
  <2>5. RTermAck(p) = IF p.state = "ACKRCVD" THEN To(p, u) ELSE p
    BY <1>3, <1>4 DEF RTermAck, Terminating
  <2> QED
    BY <2>2, <2>3, <2>4, <2>5
<1>5. CASE p.state = "OPENED"
  <2>1. PICK d \in EndType : d = Down(p) /\ d.up = FALSE
    BY Moves
  <2>2. PICK q : q = [d EXCEPT !.retransmits = z, !.timer = TRUE]
    OBVIOUS
  <2>3. q \in EndType /\ q.timer = TRUE /\ q.up = FALSE
    BY <2>1, <2>2 DEF EndType
  <2>4. To(q, t) \in EndType /\ To(q, t).timer = TRUE /\ To(q, t).up = FALSE
    BY <2>3, ToFields
  <2>5. Sound(To(q, t))
    BY <2>4, SoundFields
  <2>6. RTermReq(p, m) = fsm_sdata(To(q, t), s, m.id, NoAck)
    BY <1>2, <1>5, <2>1, <2>2 DEF RTermReq, Stopping
  <2>7. Sound(fsm_sdata(To(q, t), s, m.id, NoAck))
    BY <1>1, <2>5, SdataFields, SoundFields
  <2>8. RTermAck(p) = NewRequest(d)
    BY <1>5, <2>1 DEF RTermAck, Terminating
  <2>9. Sound(NewRequest(d))
    BY <2>1, RequestSent
  <2> QED
    BY <2>6, <2>7, <2>8, <2>9
<1>6. CASE p.state \notin {"ACKRCVD", "ACKSENT", "OPENED"}
  <2>1. RTermReq(p, m) = fsm_sdata(p, s, m.id, NoAck)
    BY <1>2, <1>6 DEF RTermReq
  <2>2. Sound(fsm_sdata(p, s, m.id, NoAck))
    BY <1>1, SdataFields, SoundFields
  <2>3. PICK x \in {"INITIAL", "STARTING", "CLOSED", "STOPPED"} : x = Ends(p)
    BY DEF Ends
  <2>4. RTermAck(p) = IF p.state \in Terminating THEN Untimeout(To(p, x)) ELSE p
    BY <1>6, <2>3 DEF RTermAck
  <2>5. Sound(Untimeout(To(p, x)))
    BY <1>6, Moves
  <2> QED
    BY <2>1, <2>2, <2>4, <2>5
<1> QED
  BY <1>4, <1>5, <1>6

\* fsm_input: whatever arrives.
LEMMA InputSound ==
  ASSUME NEW p, Sound(p), NEW m \in Packet
  PROVE  Sound(Input(p, m))
<1>1. CASE p.state \in {"INITIAL", "STARTING"}
  BY <1>1 DEF Input
<1>2. CASE p.state \notin {"INITIAL", "STARTING"}
  <2>1. m.code \in Codes
    BY DEF Packet
  <2>2. /\ Sound(RConfReq(p, m)) /\ Sound(RConfAck(p, m)) /\ Sound(RConfNakRej(p, m))
        /\ Sound(RTermReq(p, m)) /\ Sound(RTermAck(p))
    BY <1>2, RConfReqSound, RConfAckSound, RConfNakRejSound, RTermsSound
  <2>3. Input(p, m) \in {RConfReq(p, m), RConfAck(p, m), RConfNakRej(p, m), RTermReq(p, m), RTermAck(p)}
    BY <1>2, <2>1 DEF Input, Codes
  <2> QED
    BY <2>2, <2>3
<1> QED
  BY <1>1, <1>2

\* What every step keeps of the two ends and of the link.
PppIInv ==
  /\ fsm \in [End -> EndType] /\ link \in [End -> Seq(Packet)]
  /\ \A e \in End : Sound(fsm[e])

LEMMA TwoEnds ==
  \A e \in End : Other(e) \in End /\ Other(e) # e
  BY PppAssumption DEF Other

LEMMA BecomesSound ==
  ASSUME PppIInv, NEW e \in End, NEW p, Sound(p), NEW left \in Seq(Packet), FsmBecomes(e, p, left)
  PROVE  PppIInv'
<1>1. PICK q : q = [p EXCEPT !.out = <<>>]
  OBVIOUS
<1>2. Alike(q, p)
  <2>1. << >> \in Seq(Packet)
    OBVIOUS
  <2>2. p \in EndType
    BY SoundFields
  <2>3. PICK o \in Seq(Packet) : o = << >>
    BY <2>1
  <2>4. q = [p EXCEPT !.out = o]
    BY <1>1, <2>3
  <2> QED
    BY <2>2, <2>4, Setting
<1>3. Sound(q) /\ q \in EndType
  BY <1>2, SoundFields
<1>4. fsm' = [fsm EXCEPT ![e] = q]
  BY <1>1 DEF FsmBecomes
<1>5. p.out \in Seq(Packet)
  BY EndFields, SoundFields
<1>6. link' = [link EXCEPT ![e] = left, ![Other(e)] = @ \o p.out]
  BY DEF FsmBecomes
<1>7. link' \in [End -> Seq(Packet)]
  <2>1. link[Other(e)] \o p.out \in Seq(Packet)
    BY <1>5, TwoEnds DEF PppIInv
  <2>2. link' = [[link EXCEPT ![e] = left] EXCEPT ![Other(e)] = link[Other(e)] \o p.out]
    BY <1>6, TwoEnds DEF PppIInv
  <2>3. [link EXCEPT ![e] = left] \in [End -> Seq(Packet)]
    BY DEF PppIInv
  <2> QED
    BY <2>1, <2>2, <2>3
<1> QED
  BY <1>3, <1>4, <1>7 DEF PppIInv

LEMMA PppKept == PppSpec => []PppIInv
<1>1. PppInit => PppIInv
  <2> SUFFICES ASSUME PppInit PROVE PppIInv
    OBVIOUS
  <2>1. PICK want \in [End -> {"fine", "unwanted"}] : fsm = [e \in End |-> fsm_init(want[e])]
    BY DEF PppInit
  <2>2. link \in [End -> Seq(Packet)]
    BY DEF PppInit
  <2>3. ASSUME NEW e \in End PROVE Sound(fsm_init(want[e]))
    <3>1. PICK w \in Wants : w = want[e]
      BY <2>1 DEF Wants
    <3>2. PICK o \in Seq(Packet) : o = << >>
      <4>1. << >> \in Seq(Packet)
        OBVIOUS
      <4> QED
        BY <4>1
    <3>3. PICK a \in [id : Nat, ci : Wants] : a = [id |-> 0, ci |-> NoAck]
      BY DEF Wants
    <3>4. PICK s \in PppStates : s = "INITIAL"
      BY DEF PppStates
    <3>5. [state |-> s, id |-> 0, reqid |-> 0, retransmits |-> 0, nakloops |-> 0,
           seen_ack |-> FALSE, timer |-> FALSE, go |-> w, want |-> w, up |-> FALSE,
           acked |-> a, out |-> o] \in EndType
      BY DEF EndType
    <3>6. fsm_init(w) \in EndType
      BY <3>2, <3>3, <3>4, <3>5 DEF fsm_init
    <3>7. fsm_init(w).state = "INITIAL" /\ fsm_init(w).up = FALSE
      BY DEF fsm_init
    <3>8. fsm_init(w).state \notin Terminating \cup Negotiating
      BY <3>7 DEF Terminating, Negotiating
    <3> QED
      BY <3>1, <3>6, <3>7, <3>8, SoundFields
  <2> QED
    BY <2>1, <2>2, <2>3, SoundFields DEF PppIInv
<1>2. PppIInv /\ [PppNext]_pppVars => PppIInv'
  <2> SUFFICES ASSUME PppIInv, [PppNext]_pppVars PROVE PppIInv'
    OBVIOUS
  <2>1. \A e \in End : Sound(fsm[e]) /\ link[e] \in Seq(Packet)
    BY DEF PppIInv
  <2>2. ASSUME NEW e \in End, Starts(e) PROVE PppIInv'
    BY <2>1, <2>2, CallsSound, BecomesSound DEF Starts
  <2>3. ASSUME NEW e \in End, Called(e) PROVE PppIInv'
    <3>1. PICK p \in {LowerUp(fsm[e]), LowerDown(fsm[e]), Open(fsm[e]), Close(fsm[e]),
                      ProtReject(fsm[e])} : FsmBecomes(e, p, link[e])
      BY <2>3 DEF Called
    <3>2. Sound(p)
      BY <2>1, CallsSound
    <3> QED
      BY <2>1, <3>1, <3>2, BecomesSound
  <2>4. ASSUME NEW e \in End, fsm_input(e) PROVE PppIInv'
    <3>1. PICK m \in Packet : m = Head(link[e])
      BY <2>1, <2>4 DEF fsm_input
    <3>2. Tail(link[e]) \in Seq(Packet)
      BY <2>1, <2>4 DEF fsm_input
    <3>3. FsmBecomes(e, Input(fsm[e], m), Tail(link[e]))
      BY <2>4, <3>1 DEF fsm_input
    <3>4. Sound(Input(fsm[e], m))
      BY <2>1, InputSound
    <3> QED
      BY <3>2, <3>3, <3>4, BecomesSound
  <2>5. ASSUME NEW e \in End, fsm_timeout(e) PROVE PppIInv'
    <3>1. FsmBecomes(e, FsmTimedOut(Untimeout(fsm[e])), link[e])
      BY <2>5 DEF fsm_timeout
    <3>2. Sound(FsmTimedOut(Untimeout(fsm[e])))
      BY <2>1, TimeoutSound
    <3> QED
      BY <2>1, <3>1, <3>2, BecomesSound
  <2>6. ASSUME NEW e \in End, Lose(e) PROVE PppIInv'
    <3>1. fsm' = fsm /\ link' = [link EXCEPT ![e] = Tail(link[e])] /\ link[e] # <<>>
      BY <2>6 DEF Lose
    <3>2. Tail(link[e]) \in Seq(Packet)
      BY <2>1, <3>1
    <3> QED
      BY <3>1, <3>2 DEF PppIInv
  <2>7. CASE UNCHANGED pppVars
    BY <2>7 DEF pppVars, PppIInv
  <2> QED
    BY <2>2, <2>3, <2>4, <2>5, <2>6, <2>7 DEF PppNext
<1> QED
  BY <1>1, <1>2, PTL DEF PppSpec

\* An end that waits for the other one has its timer running, and one that is up is in
\* OPENED (fsm.c:223-228, 265-310, 385-415), whatever both are told to do, whatever the
\* link loses, and after however many identifiers.
THEOREM NoWaitWithoutTimer == PppSpec => [](TimerRuns /\ UpOpened)
<1>1. PppIInv => TimerRuns /\ UpOpened
  <2> SUFFICES ASSUME PppIInv PROVE TimerRuns /\ UpOpened
    OBVIOUS
  <2>1. \A e \in End : Sound(fsm[e]) /\ fsm[e].up \in BOOLEAN /\ fsm[e].timer \in BOOLEAN
    BY EndFields DEF PppIInv
  <2>2. TimerRuns
    BY <2>1 DEF TimerRuns, Sound
  <2>3. UpOpened
    BY <2>1 DEF UpOpened, Sound
  <2> QED
    BY <2>2, <2>3
<1> QED
  BY <1>1, PppKept, PTL

-----------------------------------------------------------------------------
(* What the ends agree on.                                                 *)

\* The requests in s are one, asking for ci; from the first one with this id on they are;
\* an acknowledgement of it is in s.
ReqsAre(s, id, ci) == \A k \in DOMAIN s : s[k].code = "CONFREQ" => s[k].id = id /\ s[k].ci = ci
ReqsRun(s, id, ci) ==
  \A k \in DOMAIN s : s[k].code = "CONFREQ" /\ s[k].id = id =>
    /\ s[k].ci = ci
    /\ \A l \in DOMAIN s : l > k /\ s[l].code = "CONFREQ" => s[l].id = id
HasAck(s, id, ci) == \E k \in DOMAIN s : s[k].code = "CONFACK" /\ s[k].id = id /\ s[k].ci = ci
AcksAre(s, id, ci) == \A k \in DOMAIN s : s[k].code = "CONFACK" => s[k].id = id /\ s[k].ci = ci
NoAcks(s) == \A k \in DOMAIN s : s[k].code # "CONFACK"

\* Packets behind others, and without the first one.
LEMMA Joined ==
  ASSUME NEW s \in Seq(Packet), NEW t \in Seq(Packet), NEW id, NEW ci, NEW u, u = s \o t
  PROVE  /\ ReqsAre(s, id, ci) /\ ReqsAre(t, id, ci) => ReqsAre(u, id, ci)
         /\ ReqsRun(s, id, ci) /\ ReqsAre(t, id, ci) => ReqsRun(u, id, ci)
         /\ HasAck(u, id, ci) => HasAck(s, id, ci) \/ HasAck(t, id, ci)
<1>1. PICK n \in Nat, m \in Nat : n = Len(s) /\ m = Len(t)
  OBVIOUS
<1>2. DOMAIN s = 1 .. n /\ DOMAIN t = 1 .. m /\ DOMAIN u = 1 .. n + m
  BY <1>1
<1>3. \A k \in 1 .. n : u[k] = s[k]
  BY <1>1
<1>4. \A k \in 1 .. n + m : k \notin 1 .. n => k - n \in 1 .. m /\ u[k] = t[k - n]
  BY <1>1
<1>5. ASSUME ReqsAre(s, id, ci), ReqsAre(t, id, ci) PROVE ReqsAre(u, id, ci)
  <2> SUFFICES ASSUME NEW k \in 1 .. n + m, u[k].code = "CONFREQ" PROVE u[k].id = id /\ u[k].ci = ci
    BY <1>2 DEF ReqsAre
  <2>1. CASE k \in 1 .. n
    BY <1>2, <1>3, <1>5, <2>1 DEF ReqsAre
  <2>2. CASE k \notin 1 .. n
    BY <1>2, <1>4, <1>5, <2>2 DEF ReqsAre
  <2> QED
    BY <2>1, <2>2
<1>6. ASSUME ReqsRun(s, id, ci), ReqsAre(t, id, ci) PROVE ReqsRun(u, id, ci)
  <2> SUFFICES ASSUME NEW k \in 1 .. n + m, u[k].code = "CONFREQ", u[k].id = id
               PROVE  u[k].ci = ci /\ \A l \in 1 .. n + m : l > k /\ u[l].code = "CONFREQ" => u[l].id = id
    BY <1>2 DEF ReqsRun
  <2>1. ASSUME NEW l \in 1 .. n + m, l \notin 1 .. n, u[l].code = "CONFREQ"
        PROVE  u[l].id = id /\ u[l].ci = ci
    <3>1. PICK j \in DOMAIN t : u[l] = t[j]
      BY <1>2, <1>4, <2>1
    <3> QED
      BY <1>6, <2>1, <3>1 DEF ReqsAre
  <2>2. CASE k \in 1 .. n
    <3>1. u[k].ci = ci /\ \A l \in 1 .. n : l > k /\ u[l].code = "CONFREQ" => u[l].id = id
      BY <1>2, <1>3, <1>6, <2>2 DEF ReqsRun
    <3> QED
      BY <2>1, <3>1
  <2>3. CASE k \notin 1 .. n
    <3>1. \A l \in 1 .. n + m : l > k => l \notin 1 .. n
      BY <2>3
    <3> QED
      BY <2>1, <2>3, <3>1
  <2> QED
    BY <2>2, <2>3
<1>7. ASSUME HasAck(u, id, ci) PROVE HasAck(s, id, ci) \/ HasAck(t, id, ci)
  <2>1. PICK k \in 1 .. n + m : u[k].code = "CONFACK" /\ u[k].id = id /\ u[k].ci = ci
    BY <1>2, <1>7 DEF HasAck
  <2>2. CASE k \in 1 .. n
    BY <1>2, <1>3, <2>1, <2>2 DEF HasAck
  <2>3. CASE k \notin 1 .. n
    BY <1>2, <1>4, <2>1, <2>3 DEF HasAck
  <2> QED
    BY <2>2, <2>3
<1> QED
  BY <1>5, <1>6, <1>7

LEMMA Rest ==
  ASSUME NEW s \in Seq(Packet), s # <<>>, NEW id, NEW ci, NEW u, u = Tail(s)
  PROVE  /\ ReqsAre(s, id, ci) => ReqsAre(u, id, ci)
         /\ ReqsRun(s, id, ci) => ReqsRun(u, id, ci)
         /\ HasAck(u, id, ci) => HasAck(s, id, ci)
         /\ ReqsRun(s, id, ci) /\ Head(s).code = "CONFREQ" /\ Head(s).id = id
              => Head(s).ci = ci /\ ReqsAre(u, id, ci)
<1>1. PICK n \in Nat : n + 1 = Len(s)
  <2>1. Len(s) \in Nat /\ Len(s) # 0
    OBVIOUS
  <2>2. Len(s) - 1 \in Nat /\ (Len(s) - 1) + 1 = Len(s)
    BY <2>1
  <2> QED
    BY <2>2
<1>2. DOMAIN s = 1 .. n + 1 /\ DOMAIN u = 1 .. n /\ Head(s) = s[1]
  BY <1>1
<1>3. \A k \in 1 .. n : u[k] = s[k + 1] /\ k + 1 \in 1 .. n + 1 /\ k + 1 > 1
  BY <1>1
<1>4. ReqsAre(s, id, ci) => ReqsAre(u, id, ci)
  BY <1>2, <1>3 DEF ReqsAre
<1>5. ReqsRun(s, id, ci) => ReqsRun(u, id, ci)
  <2> SUFFICES ASSUME ReqsRun(s, id, ci), NEW k \in 1 .. n, u[k].code = "CONFREQ", u[k].id = id
               PROVE  u[k].ci = ci /\ \A l \in 1 .. n : l > k /\ u[l].code = "CONFREQ" => u[l].id = id
    BY <1>2 DEF ReqsRun
  <2>1. s[k + 1].ci = ci
        /\ \A j \in 1 .. n + 1 : j > k + 1 /\ s[j].code = "CONFREQ" => s[j].id = id
    BY <1>2, <1>3 DEF ReqsRun
  <2>2. \A l \in 1 .. n : l > k => l + 1 > k + 1
    OBVIOUS
  <2> QED
    BY <1>3, <2>1, <2>2
<1>6. HasAck(u, id, ci) => HasAck(s, id, ci)
  BY <1>2, <1>3 DEF HasAck
<1>7. ASSUME ReqsRun(s, id, ci), s[1].code = "CONFREQ", s[1].id = id
      PROVE  s[1].ci = ci /\ ReqsAre(u, id, ci)
  <2>1. 1 \in 1 .. n + 1
    OBVIOUS
  <2>2. s[1].ci = ci /\ \A j \in 1 .. n + 1 : j > 1 /\ s[j].code = "CONFREQ" => s[j].id = id
    BY <1>2, <1>7, <2>1 DEF ReqsRun
  <2>3. \A j \in 1 .. n + 1 : s[j].code = "CONFREQ" /\ s[j].id = id => s[j].ci = ci
    BY <1>2, <1>7 DEF ReqsRun
  <2> QED
    BY <1>2, <1>3, <2>2, <2>3 DEF ReqsAre
<1> QED
  BY <1>2, <1>4, <1>5, <1>6, <1>7

\* One packet behind others.
LEMMA OneBehind ==
  ASSUME NEW s \in Seq(Packet), NEW m \in Packet, NEW u, u = Append(s, m)
  PROVE  /\ u \in Seq(Packet)
         /\ \A id, ci : ReqsAre(s, id, ci) /\ (m.code = "CONFREQ" => m.id = id /\ m.ci = ci)
                          => ReqsAre(u, id, ci)
         /\ \A id, ci : AcksAre(s, id, ci) /\ (m.code = "CONFACK" => m.id = id /\ m.ci = ci)
                          => AcksAre(u, id, ci)
         /\ NoAcks(s) /\ m.code # "CONFACK" => NoAcks(u)
<1>1. u \in Seq(Packet)
  OBVIOUS
<1>2. \A k \in DOMAIN u : (k \in DOMAIN s /\ u[k] = s[k]) \/ u[k] = m
  OBVIOUS
<1> QED
  BY <1>1, <1>2 DEF ReqsAre, AcksAre, NoAcks

-----------------------------------------------------------------------------
(* What an operation of fsm.c does to the identifier of the last request,  *)
(* to what is asked for, to what was acknowledged, and what it sends.      *)

\* Nothing sent acknowledges, and every request is the end's own.
Plain(r) == ReqsAre(r.out, r.reqid, r.go) /\ NoAcks(r.out)

\* r has p's identifier, acknowledgement and packets; its request as well; r is p with
\* its last request sent again, with a new one, or with a request to terminate.
Follows(r, p) == r \in EndType /\ r.id = p.id /\ r.acked = p.acked /\ r.out = p.out
Keeps(r, p) == Follows(r, p) /\ r.reqid = p.reqid /\ r.go = p.go
Repeats(r, p) ==
  /\ r \in EndType /\ r.id = p.id /\ r.acked = p.acked /\ r.reqid = p.reqid /\ r.go = p.go
  /\ Plain(r)
AsksAnew(r, p) == r \in EndType /\ r.acked = p.acked /\ r.reqid = NextId(p) /\ Plain(r)
Ceases(r, p) == r \in EndType /\ r.acked = p.acked /\ NoAcks(r.out)

LEMMA ToKeeps ==
  ASSUME NEW p \in EndType, NEW s \in PppStates
  PROVE  Keeps(To(p, s), p)
  BY DEF EndType, To, Keeps, Follows

LEMMA FlagsKeep ==
  ASSUME NEW p \in EndType
  PROVE  Keeps(Up(p), p) /\ Keeps(Down(p), p) /\ Keeps(Untimeout(p), p)
  BY DEF EndType, Up, Down, Untimeout, Keeps, Follows

LEMMA SettingKeeps ==
  ASSUME NEW p \in EndType
  PROVE  /\ \A c \in Int : Keeps([p EXCEPT !.retransmits = c], p)
         /\ Keeps([p EXCEPT !.seen_ack = TRUE], p)
         /\ \A n \in Nat : Keeps([p EXCEPT !.nakloops = n], p)
         /\ \A c \in Int : Keeps([p EXCEPT !.retransmits = c, !.timer = TRUE], p)
         /\ \A go \in Wants : Follows([p EXCEPT !.seen_ack = TRUE, !.go = go], p)
         /\ \A go \in Wants : Follows([p EXCEPT !.go = go, !.nakloops = 0], p)
  BY DEF EndType, Keeps, Follows

LEMMA KeepsThrough ==
  /\ \A p, q, r : Keeps(r, q) /\ Keeps(q, p) => Keeps(r, p)
  /\ \A p, q, r : Keeps(r, q) /\ Follows(q, p) => Follows(r, p)
  /\ \A p, q : Keeps(q, p) => Follows(q, p)
  /\ \A p, q, r : Keeps(r, q) /\ Repeats(q, p) => Repeats(r, p)
  /\ \A p, q, r : Keeps(r, q) /\ AsksAnew(q, p) => AsksAnew(r, p)
  /\ \A p, q, r : Keeps(r, q) /\ Ceases(q, p) => Ceases(r, p)
  /\ \A p, q, r : Repeats(r, q) /\ Keeps(q, p) => Repeats(r, p)
  /\ \A p, q, r : AsksAnew(r, q) /\ Follows(q, p) => AsksAnew(r, p)
  /\ \A p, q, r : Ceases(r, q) /\ Follows(q, p) => Ceases(r, p)
  /\ \A p, q, r : Repeats(r, q) /\ AsksAnew(q, p) => AsksAnew(r, p)
  BY DEF Follows, Keeps, Repeats, AsksAnew, Ceases, Plain, NextId

LEMMA NothingSent ==
  ASSUME NEW p, NEW r, p.out = <<>>
  PROVE  /\ Keeps(r, p) => Repeats(r, p) /\ Ceases(r, p)
         /\ Follows(r, p) => Ceases(r, p)
  BY DEF Keeps, Follows, Repeats, Ceases, Plain, ReqsAre, NoAcks

\* A packet that is neither a request nor an acknowledgement, and any packet.
LEMMA SdataKeeps ==
  ASSUME NEW p \in EndType, NEW code \in Codes, NEW id \in Nat, NEW ci \in Wants, NEW r,
         r = fsm_sdata(p, code, id, ci)
  PROVE  /\ Plain(p) /\ code \notin {"CONFREQ", "CONFACK"} => Repeats(r, p)
         /\ NoAcks(p.out) /\ code # "CONFACK" => Ceases(r, p)
         /\ Plain(p) /\ code = "CONFREQ" /\ id = p.reqid /\ ci = p.go => Repeats(r, p)
         /\ Plain(p) /\ code = "CONFACK" =>
              ReqsAre(r.out, p.reqid, p.go) /\ AcksAre(r.out, id, ci)
         /\ /\ r \in EndType /\ r.id = p.id /\ r.acked = p.acked /\ r.reqid = p.reqid
            /\ r.go = p.go
<1>1. PICK m \in Packet : m = [code |-> code, id |-> id, ci |-> ci]
  BY DEF Packet
<1>2. m.code = code /\ m.id = id /\ m.ci = ci
  BY <1>1
<1>3. PICK u : u = Append(p.out, m)
  OBVIOUS
<1>4. PICK s \in Seq(Packet) : s = p.out
  BY EndFields
<1>5. /\ u \in Seq(Packet)
      /\ \A i, c : ReqsAre(s, i, c) /\ (m.code = "CONFREQ" => m.id = i /\ m.ci = c)
                     => ReqsAre(u, i, c)
      /\ \A i, c : AcksAre(s, i, c) /\ (m.code = "CONFACK" => m.id = i /\ m.ci = c)
                     => AcksAre(u, i, c)
      /\ NoAcks(s) /\ m.code # "CONFACK" => NoAcks(u)
  BY <1>3, <1>4, OneBehind
<1>6. r = [p EXCEPT !.out = u]
  BY <1>1, <1>3 DEF fsm_sdata
<1>7. /\ r \in EndType /\ r.id = p.id /\ r.acked = p.acked /\ r.reqid = p.reqid
      /\ r.go = p.go /\ r.out = u
  BY <1>5, <1>6 DEF EndType
<1>8. NoAcks(s) => AcksAre(s, id, ci)
  BY DEF NoAcks, AcksAre
<1>9. Plain(p) /\ code \notin {"CONFREQ", "CONFACK"} => Repeats(r, p)
  BY <1>2, <1>4, <1>5, <1>7 DEF Plain, Repeats
<1>10. NoAcks(p.out) /\ code # "CONFACK" => Ceases(r, p)
  BY <1>2, <1>4, <1>5, <1>7 DEF Ceases
<1>11. Plain(p) /\ code = "CONFREQ" /\ id = p.reqid /\ ci = p.go => Repeats(r, p)
  BY <1>2, <1>4, <1>5, <1>7 DEF Plain, Repeats
<1>12. Plain(p) /\ code = "CONFACK" => ReqsAre(u, p.reqid, p.go) /\ AcksAre(u, id, ci)
  BY <1>2, <1>4, <1>5, <1>8 DEF Plain
<1> QED
  BY <1>7, <1>9, <1>10, <1>11, <1>12

LEMMA RequestsRepeat ==
  ASSUME NEW p \in EndType, p.out = <<>>
  PROVE  Repeats(Requests(p), p)
<1>1. PICK k \in Int : k = p.retransmits - 1
  BY EndFields
<1>2. PICK q : q = [p EXCEPT !.seen_ack = FALSE, !.retransmits = k, !.timer = TRUE]
  OBVIOUS
<1>3. Keeps(q, p)
  BY <1>2 DEF EndType, Keeps, Follows
<1>4. q \in EndType /\ q.reqid \in Nat /\ q.go \in Wants /\ Plain(q)
  BY <1>3, NothingSent, EndFields DEF Keeps, Follows, Repeats
<1>5. PICK s \in Codes : s = "CONFREQ"
  BY DEF Codes
<1>6. PICK r : r = fsm_sdata(q, s, q.reqid, q.go)
  OBVIOUS
<1>7. Repeats(r, q)
  BY <1>4, <1>5, <1>6, SdataKeeps
<1>8. Requests(p) = r
  BY <1>1, <1>2, <1>5, <1>6 DEF Requests
<1> QED
  BY <1>3, <1>7, <1>8, KeepsThrough

LEMMA NewRequestAsks ==
  ASSUME NEW p \in EndType, p.out = <<>>
  PROVE  AsksAnew(NewRequest(p), p)
<1>1. PICK q : q = Reset(p)
  OBVIOUS
<1>2. Follows(q, p)
  <2>1. PICK w \in Wants : w = p.want
    BY EndFields
  <2>2. Follows([p EXCEPT !.go = w, !.nakloops = 0], p) /\ Follows(p, p)
    BY SettingKeeps DEF Follows
  <2> QED
    BY <1>1, <2>1, <2>2 DEF Reset
<1>3. q \in EndType /\ q.out = <<>> /\ q.acked = p.acked /\ q.id = p.id
  BY <1>2 DEF Follows
<1>4. PICK n \in Nat : n = NextId(p)
  BY EndFields
<1>5. NextId(q) = n
  BY <1>3, <1>4 DEF NextId
<1>6. PICK c \in Int : c = MaxConf
  BY EndFields
<1>7. PICK r : r = [q EXCEPT !.retransmits = c, !.id = n, !.reqid = n]
  OBVIOUS
<1>8. r \in EndType /\ r.reqid = n /\ r.acked = q.acked /\ r.out = q.out
  BY <1>3, <1>7 DEF EndType
<1>9. r = Numbered(q)
  BY <1>5, <1>6, <1>7 DEF Numbered
<1>10. Repeats(Requests(r), r)
  BY <1>3, <1>8, RequestsRepeat
<1>11. NewRequest(p) = Requests(r)
  BY <1>1, <1>9 DEF NewRequest
<1> QED
  BY <1>3, <1>4, <1>8, <1>10, <1>11 DEF Repeats, AsksAnew

LEMMA TerminateCeases ==
  ASSUME NEW p \in EndType, p.out = <<>>
  PROVE  /\ Ceases(TermRequest(p), p)
         /\ \A s \in PppStates : Ceases(Terminate(p, s), p)
<1>1. ASSUME NEW x \in EndType, x.out = <<>> PROVE Ceases(TermRequest(x), x)
  <2>1. PICK k \in Int : k = x.retransmits - 1
    BY EndFields
  <2>2. PICK n \in Nat : n = NextId(x)
    BY EndFields
  <2>3. PICK q : q = [x EXCEPT !.id = n, !.reqid = n, !.retransmits = k, !.timer = TRUE]
    OBVIOUS
  <2>4. q \in EndType /\ q.reqid = n /\ q.acked = x.acked /\ q.out = x.out
    BY <2>3 DEF EndType
  <2>5. PICK s \in Codes : s = "TERMREQ"
    BY DEF Codes
  <2>6. NoAck \in Wants
    BY DEF Wants
  <2>7. NoAcks(q.out)
    BY <1>1, <2>4 DEF NoAcks
  <2>8. PICK r : r = fsm_sdata(q, s, n, NoAck)
    OBVIOUS
  <2>9. Ceases(r, q)
    BY <2>4, <2>5, <2>6, <2>7, <2>8, SdataKeeps
  <2>10. TermRequest(x) = r
    BY <2>1, <2>2, <2>3, <2>4, <2>5, <2>8 DEF TermRequest
  <2> QED
    BY <2>4, <2>9, <2>10 DEF Ceases
<1>2. ASSUME NEW s \in PppStates PROVE Ceases(Terminate(p, s), p)
  <2>1. PICK c \in Int : c = MaxTerm
    BY EndFields
  <2>2. PICK q : q = [p EXCEPT !.retransmits = c]
    OBVIOUS
  <2>3. Keeps(q, p)
    BY <2>2, SettingKeeps
  <2>4. q \in EndType /\ q.out = <<>>
    BY <2>3 DEF Keeps, Follows
  <2>5. PICK r : r = TermRequest(q)
    OBVIOUS
  <2>6. Ceases(r, p)
    BY <1>1, <2>3, <2>4, <2>5, KeepsThrough
  <2>7. Keeps(To(r, s), r)
    BY <2>6, ToKeeps DEF Ceases
  <2>8. Terminate(p, s) = To(r, s)
    BY <2>1, <2>2, <2>5 DEF Terminate
  <2> QED
    BY <2>6, <2>7, <2>8, KeepsThrough
<1> QED
  BY <1>1, <1>2

-----------------------------------------------------------------------------
(* What an operation of fsm.c may do to an agreement.                      *)

\* An end whose request counts; one that has its acknowledgement.
Live(p) == p.state \in Negotiating \cup {"OPENED"}
Holds(p) == p.state = "ACKRCVD" \/ (p.state = "OPENED" /\ p.up = TRUE)
Unheard == {"INITIAL", "STARTING", "CLOSED", "STOPPED", "CLOSING", "STOPPING"}

\* From p to r, answered meaning that the packet read acknowledges p's request: r has
\* asked anew and has no acknowledgement, or stands by p's request.
Goes(r, p, answered) ==
  /\ r \in EndType
  /\ Live(r) =>
       /\ ReqsAre(r.out, r.reqid, r.go)
       /\ \/ r.reqid = NextId(p) /\ ~Holds(r)
          \/ r.reqid = p.reqid /\ r.go = p.go /\ Live(p) /\ (Holds(r) => Holds(p) \/ answered)
Silent(r, p) == r.acked = p.acked /\ NoAcks(r.out)
Quietly(r, p, answered) == Goes(r, p, answered) /\ Silent(r, p)

LEMMA Judged ==
  \A p, r, c :
    /\ AsksAnew(r, p) /\ ~Holds(r) => Quietly(r, p, c)
    /\ Repeats(r, p) /\ (Live(r) => Live(p) /\ (Holds(r) => Holds(p) \/ c)) => Quietly(r, p, c)
    /\ Ceases(r, p) /\ ~Live(r) => Quietly(r, p, c)
  BY DEF AsksAnew, Repeats, Ceases, Plain, Quietly, Goes, Silent

LEMMA StateNames ==
  /\ \A s \in Unheard : /\ s \in PppStates /\ s \notin Negotiating /\ s # "OPENED"
  /\ Terminating \subseteq Unheard
  /\ "REQSENT" \in PppStates /\ "ACKRCVD" \in PppStates /\ "ACKSENT" \in PppStates
  /\ "OPENED" \in PppStates
  /\ PppStates = Unheard \cup Negotiating \cup {"OPENED"}
  BY DEF Unheard, PppStates, Negotiating, Terminating

\* The ways in which the operations end.
LEMMA Forms ==
  ASSUME NEW p \in EndType, p.out = <<>>, NEW q, Follows(q, p), NEW c
  PROVE  /\ \A s \in Unheard : Quietly(To(q, s), p, c) /\ Quietly(Untimeout(To(q, s)), p, c)
         /\ ~Holds(q) => Quietly(NewRequest(q), p, c)
         /\ Quietly(To(NewRequest(q), "REQSENT"), p, c)
         /\ \A s \in Terminating : Quietly(Terminate(q, s), p, c)
         /\ Quietly(p, p, c)
<1>1. q \in EndType /\ q.out = <<>>
  BY DEF Follows
<1>2. ASSUME NEW s \in Unheard
      PROVE  Quietly(To(q, s), p, c) /\ Quietly(Untimeout(To(q, s)), p, c)
  <2>1. s \in PppStates /\ s \notin Negotiating /\ s # "OPENED"
    BY StateNames
  <2>2. PICK r : r = To(q, s)
    OBVIOUS
  <2>3. Keeps(r, q) /\ r \in EndType /\ r.state = s
    BY <1>1, <2>1, <2>2, ToKeeps, ToFields
  <2>4. Keeps(Untimeout(r), r) /\ Untimeout(r).state = s
    BY <2>3, FlagsKeep, Fields
  <2>5. ~Live(r) /\ ~Live(Untimeout(r))
    BY <2>1, <2>3, <2>4 DEF Live
  <2>6. Follows(r, p) /\ Follows(Untimeout(r), p)
    BY <2>3, <2>4, KeepsThrough
  <2>7. Ceases(r, p) /\ Ceases(Untimeout(r), p)
    BY <2>6, NothingSent
  <2> QED
    BY <2>2, <2>5, <2>7, Judged
<1>3. PICK n : n = NewRequest(q)
  OBVIOUS
<1>4. AsksAnew(n, p) /\ n \in EndType
  <2>1. AsksAnew(n, q)
    BY <1>1, <1>3, NewRequestAsks
  <2> QED
    BY <2>1, KeepsThrough DEF AsksAnew
<1>5. ASSUME ~Holds(q) PROVE Quietly(n, p, c)
  <2>1. n.state = q.state /\ n.up = q.up
    BY <1>1, <1>3, RequestFields DEF Timing
  <2>2. ~Holds(n)
    BY <1>5, <2>1 DEF Holds
  <2> QED
    BY <1>4, <2>2, Judged
<1>6. Quietly(To(n, "REQSENT"), p, c)
  <2>1. PICK s \in PppStates : s = "REQSENT"
    BY StateNames
  <2>2. Keeps(To(n, s), n) /\ To(n, s).state = s
    BY <1>4, ToKeeps, ToFields
  <2>3. AsksAnew(To(n, s), p)
    BY <1>4, <2>2, KeepsThrough
  <2>4. ~Holds(To(n, s))
    BY <2>1, <2>2 DEF Holds
  <2> QED
    BY <2>1, <2>3, <2>4, Judged
<1>7. ASSUME NEW s \in Terminating PROVE Quietly(Terminate(q, s), p, c)
  <2>1. s \in PppStates /\ s \notin Negotiating /\ s # "OPENED"
    BY StateNames
  <2>2. PICK t : t = Terminate(q, s)
    OBVIOUS
  <2>3. Ceases(t, q)
    BY <1>1, <2>1, <2>2, TerminateCeases
  <2>4. Ceases(t, p)
    BY <2>3, KeepsThrough
  <2>5. t.state = s
    BY <1>1, <2>2, TerminateFields
  <2>6. ~Live(t)
    BY <2>1, <2>5 DEF Live
  <2> QED
    BY <2>2, <2>4, <2>6, Judged
<1>8. Quietly(p, p, c)
  <2>1. Keeps(p, p)
    BY DEF Keeps, Follows
  <2>2. Repeats(p, p)
    BY <2>1, NothingSent
  <2> QED
    BY <2>2, Judged
<1> QED
  BY <1>2, <1>3, <1>5, <1>6, <1>7, <1>8

LEMMA CallsQuiet ==
  ASSUME NEW p \in EndType, p.out = <<>>, NEW c
  PROVE  /\ Quietly(LowerUp(p), p, c) /\ Quietly(LowerDown(p), p, c) /\ Quietly(Open(p), p, c)
         /\ Quietly(Close(p), p, c) /\ Quietly(ProtReject(p), p, c)
<1>1. Follows(p, p) /\ Follows(Down(p), p) /\ Follows(Untimeout(p), p)
  BY FlagsKeep, KeepsThrough DEF Follows
<1>2. \A s \in Unheard : /\ Quietly(To(p, s), p, c) /\ Quietly(Untimeout(To(p, s)), p, c)
                         /\ Quietly(To(Down(p), s), p, c)
  BY <1>1, Forms
<1>3. \A s \in Terminating : /\ Quietly(Terminate(Down(p), s), p, c)
                             /\ Quietly(Terminate(Untimeout(p), s), p, c)
  BY <1>1, Forms
<1>4. Quietly(To(NewRequest(p), "REQSENT"), p, c) /\ Quietly(p, p, c)
  BY <1>1, Forms
<1>5. /\ "INITIAL" \in Unheard /\ "STARTING" \in Unheard /\ "CLOSED" \in Unheard
      /\ "STOPPED" \in Unheard /\ "CLOSING" \in Unheard /\ "STOPPING" \in Unheard
      /\ "CLOSING" \in Terminating /\ "STOPPING" \in Terminating
  BY DEF Unheard, Terminating
<1>6. Quietly(LowerUp(p), p, c)
  <2>1. LowerUp(p) \in {p, To(p, "CLOSED"), To(NewRequest(p), "REQSENT")}
    BY DEF LowerUp
  <2> QED
    BY <1>2, <1>4, <1>5, <2>1
<1>7. Quietly(LowerDown(p), p, c)
  <2>1. LowerDown(p) \in {p, To(p, "INITIAL"), Untimeout(To(p, "INITIAL")), To(p, "STARTING"),
                          Untimeout(To(p, "STARTING")), To(Down(p), "STARTING")}
    BY DEF LowerDown
  <2> QED
    BY <1>2, <1>4, <1>5, <2>1
<1>8. Quietly(Open(p), p, c)
  <2>1. Open(p) \in {p, To(p, "STARTING"), To(NewRequest(p), "REQSENT"), To(p, "STOPPING")}
    BY DEF Open
  <2> QED
    BY <1>2, <1>4, <1>5, <2>1
<1>9. Quietly(Close(p), p, c)
  <2>1. Close(p) \in {p, To(p, "INITIAL"), To(p, "CLOSED"), To(p, "CLOSING"),
                      Terminate(Untimeout(p), "CLOSING"), Terminate(Down(p), "CLOSING")}
    BY DEF Close
  <2> QED
    BY <1>2, <1>3, <1>4, <1>5, <2>1
<1>10. Quietly(ProtReject(p), p, c)
  <2>1. ProtReject(p) \in {p, Untimeout(To(p, "CLOSED")), Untimeout(To(p, "STOPPED")),
                           Terminate(Down(p), "STOPPING")}
    BY DEF ProtReject
  <2> QED
    BY <1>2, <1>3, <1>4, <1>5, <2>1
<1> QED
  BY <1>6, <1>7, <1>8, <1>9, <1>10

LEMMA TimeoutQuiet ==
  ASSUME NEW p \in EndType, p.out = <<>>, NEW c
  PROVE  Quietly(FsmTimedOut(Untimeout(p)), p, c)
<1>1. PICK q : q = Untimeout(p)
  OBVIOUS
<1>2. Keeps(q, p) /\ q \in EndType /\ q.state = p.state /\ q.up = p.up /\ q.out = <<>>
  BY <1>1, FlagsKeep, Fields DEF Keeps, Follows
<1>3. Follows(q, p)
  BY <1>2, KeepsThrough
<1>4. Repeats(q, p) /\ (Live(q) => Live(p)) /\ (Holds(q) => Holds(p))
  BY <1>2, NothingSent DEF Live, Holds
<1>5. CASE q.state \in Terminating \cup Negotiating /\ GivesUp(q)
  <2>1. PICK s \in Unheard : s = Ends(q)
    BY DEF Ends, Unheard
  <2>2. FsmTimedOut(q) = To(q, s)
    BY <1>5, <2>1 DEF FsmTimedOut
  <2> QED
    BY <1>1, <1>3, <2>1, <2>2, Forms
<1>6. CASE q.state \in Terminating /\ ~GivesUp(q)
  <2>1. PICK t : t = TermRequest(q)
    OBVIOUS
  <2>2. FsmTimedOut(q) = t
    BY <1>6, <2>1 DEF FsmTimedOut, Terminating, Negotiating
  <2>3. t.state = q.state
    BY <1>2, <2>1, RequestFields DEF Timing
  <2>4. ~Live(t)
    BY <1>6, <2>3 DEF Live, Terminating, Negotiating
  <2>5. Ceases(t, p)
    <3>1. Ceases(t, q)
      BY <1>2, <2>1, TerminateCeases
    <3> QED
      BY <1>3, <3>1, KeepsThrough
  <2> QED
    BY <1>1, <2>2, <2>4, <2>5, Judged
<1>7. CASE q.state \in Negotiating /\ ~GivesUp(q)
  <2>1. PICK r : r = Requests(q)
    OBVIOUS
  <2>2. FsmTimedOut(q) = IF r.state = "ACKRCVD" THEN To(r, "REQSENT") ELSE r
    BY <1>7, <2>1 DEF FsmTimedOut, Terminating, Negotiating
  <2>3. r \in EndType /\ r.state = q.state /\ r.up = q.up
    BY <1>2, <2>1, RequestFields DEF Timing
  <2>4. Repeats(r, p)
    <3>1. Repeats(r, q)
      BY <1>2, <2>1, RequestsRepeat
    <3> QED
      BY <1>2, <3>1, KeepsThrough
  <2>5. PICK s \in PppStates : s = "REQSENT"
    BY StateNames
  <2>6. Repeats(To(r, s), p) /\ To(r, s).state = s
    <3>1. Keeps(To(r, s), r) /\ To(r, s).state = s
      BY <2>3, ToKeeps, ToFields
    <3> QED
      BY <2>4, <3>1, KeepsThrough
  <2>7. Live(p) /\ (r.state # "ACKRCVD" => ~Holds(r)) /\ ~Holds(To(r, s))
    BY <1>2, <1>7, <2>3, <2>5, <2>6 DEF Live, Holds, Negotiating
  <2>8. CASE r.state = "ACKRCVD"
    BY <1>1, <2>2, <2>5, <2>6, <2>7, <2>8, Judged
  <2>9. CASE r.state # "ACKRCVD"
    BY <1>1, <2>2, <2>4, <2>7, <2>9, Judged
  <2> QED
    BY <2>8, <2>9
<1>8. CASE q.state \notin Terminating \cup Negotiating
  <2>1. FsmTimedOut(q) = q
    BY <1>8 DEF FsmTimedOut
  <2> QED
    BY <1>1, <1>4, <2>1, Judged
<1> QED
  BY <1>5, <1>6, <1>7, <1>8

\* An acknowledgement of p's request; what acknowledges the request m.
AckFor(p, m) == m.code = "CONFACK" /\ m.id = p.reqid /\ m.ci = p.go
Acknowledges(r, m) ==
  m.code = "CONFREQ" /\ r.acked = [id |-> m.id, ci |-> m.ci] /\ AcksAre(r.out, m.id, m.ci)

LEMMA RTermsQuiet ==
  ASSUME NEW p \in EndType, p.out = <<>>, NEW m \in Packet, NEW c
  PROVE  Quietly(RTermReq(p, m), p, c) /\ Quietly(RTermAck(p), p, c)
<1>1. m.id \in Nat /\ NoAck \in Wants
  BY DEF Packet, Wants
<1>2. PICK s \in Codes, t \in PppStates, u \in PppStates, z \in Int :
        s = "TERMACK" /\ t = "STOPPING" /\ u = "REQSENT" /\ z = 0
  BY StateNames DEF Codes, PppStates, Terminating
<1>3. Follows(Down(p), p) /\ Follows(p, p) /\ Quietly(p, p, c)
  BY FlagsKeep, KeepsThrough, Forms DEF Follows
<1>4. ASSUME NEW q, Keeps(q, p), NEW r, r = fsm_sdata(q, s, m.id, NoAck)
      PROVE  Repeats(r, p) /\ r.state = q.state /\ r.up = q.up
  <2>1. q \in EndType /\ q.out = <<>>
    BY <1>4 DEF Keeps, Follows
  <2>2. Plain(q)
    BY <2>1 DEF Plain, ReqsAre, NoAcks
  <2>3. Repeats(r, q)
    BY <1>1, <1>2, <1>4, <2>1, <2>2, SdataKeeps
  <2>4. Alike(r, q)
    BY <1>1, <1>4, <2>1, SdataFields
  <2> QED
    BY <1>4, <2>3, <2>4, KeepsThrough DEF Alike
<1>5. Quietly(RTermReq(p, m), p, c)
  <2>1. CASE p.state \in {"ACKRCVD", "ACKSENT"}
    <3>1. PICK q : q = To(p, u)
      OBVIOUS
    <3>2. Keeps(q, p) /\ q.state = u
      BY <3>1, ToKeeps, ToFields
    <3>3. PICK r : r = fsm_sdata(q, s, m.id, NoAck)
      OBVIOUS
    <3>4. RTermReq(p, m) = r
      BY <1>2, <2>1, <3>1, <3>3 DEF RTermReq
    <3>5. Repeats(r, p) /\ r.state = q.state
      BY <1>4, <3>2, <3>3
    <3>6. Live(p) /\ ~Holds(r)
      BY <1>2, <2>1, <3>2, <3>5 DEF Live, Holds, Negotiating
    <3> QED
      BY <3>4, <3>5, <3>6, Judged
  <2>2. CASE p.state = "OPENED"
    <3>1. PICK d : d = Down(p)
      OBVIOUS
    <3>2. Keeps(d, p) /\ d \in EndType
      BY <3>1, FlagsKeep DEF Keeps, Follows
    <3>3. PICK x : x = [d EXCEPT !.retransmits = z, !.timer = TRUE]
      OBVIOUS
    <3>4. Keeps(x, d) /\ x \in EndType
      BY <3>2, <3>3, SettingKeeps DEF Keeps, Follows
    <3>5. PICK q : q = To(x, t)
      OBVIOUS
    <3>6. Keeps(q, x) /\ q.state = t
      BY <3>4, <3>5, ToKeeps, ToFields
    <3>7. Keeps(q, p)
      BY <3>2, <3>4, <3>6, KeepsThrough
    <3>8. PICK r : r = fsm_sdata(q, s, m.id, NoAck)
      OBVIOUS
    <3>9. RTermReq(p, m) = r
      BY <1>2, <2>2, <3>1, <3>3, <3>5, <3>8 DEF RTermReq, Stopping
    <3>10. Repeats(r, p) /\ r.state = q.state
      BY <1>4, <3>7, <3>8
    <3>11. ~Live(r)
      BY <1>2, <3>6, <3>10 DEF Live, Negotiating
    <3> QED
      BY <3>9, <3>10, <3>11, Judged
  <2>3. CASE p.state \notin {"ACKRCVD", "ACKSENT", "OPENED"}
    <3>1. PICK r : r = fsm_sdata(p, s, m.id, NoAck)
      OBVIOUS
    <3>2. RTermReq(p, m) = r
      BY <1>2, <2>3, <3>1 DEF RTermReq
    <3>3. Keeps(p, p)
      BY DEF Keeps, Follows
    <3>4. Repeats(r, p) /\ r.state = p.state /\ r.up = p.up
      BY <1>4, <3>1, <3>3
    <3>5. (Live(r) => Live(p)) /\ (Holds(r) => Holds(p))
      BY <3>4 DEF Live, Holds
    <3> QED
      BY <3>2, <3>4, <3>5, Judged
  <2> QED
    BY <2>1, <2>2, <2>3
<1>6. Quietly(RTermAck(p), p, c)
  <2>1. CASE p.state \in Terminating
    <3>1. PICK x \in Unheard : x = Ends(p)
      BY DEF Ends, Unheard
    <3>2. RTermAck(p) = Untimeout(To(p, x))
      BY <2>1, <3>1 DEF RTermAck, Terminating
    <3> QED
      BY <1>3, <3>1, <3>2, Forms
  <2>2. CASE p.state = "ACKRCVD"
    <3>1. RTermAck(p) = To(p, u)
      BY <1>2, <2>2 DEF RTermAck, Terminating
    <3>2. Keeps(To(p, u), p) /\ To(p, u).state = u
      BY ToKeeps, ToFields
    <3>3. Repeats(To(p, u), p)
      BY <3>2, NothingSent
    <3>4. Live(p) /\ ~Holds(To(p, u))
      BY <1>2, <2>2, <3>2 DEF Live, Holds, Negotiating
    <3> QED
      BY <3>1, <3>3, <3>4, Judged
  <2>3. CASE p.state = "OPENED"
    <3>1. RTermAck(p) = NewRequest(Down(p))
      BY <2>3 DEF RTermAck, Terminating
    <3>2. Down(p).up = FALSE /\ Down(p).state = "OPENED"
      BY <2>3, Fields
    <3>3. ~Holds(Down(p))
      BY <3>2 DEF Holds
    <3> QED
      BY <1>3, <3>1, <3>3, Forms
  <2>4. CASE p.state \notin Terminating \cup {"ACKRCVD", "OPENED"}
    <3>1. RTermAck(p) = p
      BY <2>4 DEF RTermAck
    <3> QED
      BY <1>3, <3>1
  <2> QED
    BY <2>1, <2>2, <2>3, <2>4
<1> QED
  BY <1>5, <1>6

\* An answer to the last request, q being the end that noted it.
LEMMA AnswersQuiet ==
  ASSUME NEW p \in EndType, p.out = <<>>, NEW q, Follows(q, p), Alike(q, p), NEW id \in Nat, NEW c
  PROVE  /\ ~Live(p) => Quietly(q, p, c) /\ Quietly(fsm_sdata(q, "TERMACK", id, NoAck), p, c)
         /\ p.state \in {"REQSENT", "ACKSENT"} => Quietly(NewRequest(Untimeout(q)), p, c)
         /\ Quietly(To(NewRequest(Untimeout(q)), "REQSENT"), p, c)
         /\ Quietly(To(NewRequest(Down(q)), "REQSENT"), p, c)
<1>1. q \in EndType /\ q.state = p.state /\ q.out = <<>>
  BY DEF Follows, Alike
<1>2. PICK u : u = Untimeout(q)
  OBVIOUS
<1>3. Follows(u, p) /\ u.state = p.state
  BY <1>1, <1>2, FlagsKeep, Fields, KeepsThrough
<1>4. Follows(Down(q), p)
  BY <1>1, FlagsKeep, KeepsThrough
<1>5. ASSUME ~Live(p)
      PROVE  Quietly(q, p, c) /\ Quietly(fsm_sdata(q, "TERMACK", id, NoAck), p, c)
  <2>1. PICK s \in Codes : s = "TERMACK"
    BY DEF Codes
  <2>2. NoAck \in Wants
    BY DEF Wants
  <2>3. PICK r : r = fsm_sdata(q, s, id, NoAck)
    OBVIOUS
  <2>4. NoAcks(q.out)
    BY <1>1 DEF NoAcks
  <2>5. Ceases(r, q)
    BY <1>1, <2>1, <2>2, <2>3, <2>4, SdataKeeps
  <2>6. r.state = q.state
    BY <1>1, <2>2, <2>3, SdataFields DEF Alike
  <2>7. Ceases(r, p) /\ Ceases(q, p)
    BY <2>5, NothingSent, KeepsThrough
  <2>8. ~Live(r) /\ ~Live(q)
    BY <1>1, <1>5, <2>6 DEF Live
  <2> QED
    BY <2>1, <2>3, <2>7, <2>8, Judged
<1>6. ASSUME p.state \in {"REQSENT", "ACKSENT"} PROVE Quietly(NewRequest(u), p, c)
  <2>1. ~Holds(u)
    BY <1>3, <1>6 DEF Holds
  <2> QED
    BY <1>3, <2>1, Forms
<1>7. Quietly(To(NewRequest(u), "REQSENT"), p, c) /\ Quietly(To(NewRequest(Down(q)), "REQSENT"), p, c)
  BY <1>3, <1>4, Forms
<1> QED
  BY <1>2, <1>5, <1>6, <1>7

LEMMA RConfAckQuiet ==
  ASSUME NEW p \in EndType, p.out = <<>>, NEW m \in Packet, m.code = "CONFACK"
  PROVE  Quietly(RConfAck(p, m), p, AckFor(p, m))
<1>1. m.id \in Nat
  BY DEF Packet
<1>2. PICK q : q = [p EXCEPT !.seen_ack = TRUE]
  OBVIOUS
<1>3. Keeps(q, p) /\ Alike(q, p) /\ Follows(q, p)
  BY <1>2, Setting, SettingKeeps, KeepsThrough
<1>4. Follows(p, p) /\ p.state \in PppStates
  BY EndFields DEF Follows
<1>5. PICK c : c = AckFor(p, m)
  OBVIOUS
<1>6. CASE ~ForRequest(p, m) \/ m.ci # p.go
  <2>1. RConfAck(p, m) = p
    BY <1>6 DEF RConfAck
  <2> QED
    BY <1>4, <2>1, Forms
<1>7. CASE ~(~ForRequest(p, m) \/ m.ci # p.go)
  <2>1. AckFor(p, m)
    BY <1>7 DEF AckFor, ForRequest
  <2>2. ASSUME p.state \in Negotiating, NEW s \in PppStates, s \in {"ACKRCVD", "OPENED"}, NEW r,
               r = To([q EXCEPT !.retransmits = MaxConf], s)
        PROVE  Quietly(r, p, AckFor(p, m)) /\ Quietly(Up(Untimeout(r)), p, AckFor(p, m))
    <3>1. PICK k \in Int : k = MaxConf
      BY EndFields
    <3>2. PICK x : x = [q EXCEPT !.retransmits = k]
      OBVIOUS
    <3>3. Keeps(x, q) /\ x \in EndType
      BY <1>3, <3>2, SettingKeeps DEF Keeps, Follows
    <3>4. r = To(x, s)
      BY <2>2, <3>1, <3>2
    <3>5. Keeps(r, x) /\ r \in EndType
      BY <3>3, <3>4, ToKeeps, ToFields
    <3>6. PICK v : v = Untimeout(r)
      OBVIOUS
    <3>7. Keeps(v, r) /\ v \in EndType
      BY <3>5, <3>6, FlagsKeep DEF Keeps, Follows
    <3>8. Keeps(Up(v), v)
      BY <3>7, FlagsKeep
    <3>9. Keeps(r, p) /\ Keeps(Up(v), p)
      BY <1>3, <3>3, <3>5, <3>7, <3>8, KeepsThrough
    <3>10. Repeats(r, p) /\ Repeats(Up(v), p)
      BY <3>9, NothingSent
    <3>11. Live(p)
      BY <2>2 DEF Live
    <3> QED
      BY <2>1, <3>6, <3>10, <3>11, Judged
  <2>3. /\ "ACKRCVD" \in PppStates /\ "OPENED" \in PppStates
        /\ "REQSENT" \in Negotiating /\ "ACKSENT" \in Negotiating
    BY StateNames DEF Negotiating
  <2>4. CASE p.state \in {"CLOSED", "STOPPED"}
    <3>1. RConfAck(p, m) = fsm_sdata(q, "TERMACK", m.id, NoAck)
      BY <1>2, <1>7, <2>4 DEF RConfAck
    <3>2. ~Live(p)
      BY <2>4 DEF Live, Negotiating
    <3> QED
      BY <1>1, <1>3, <3>1, <3>2, AnswersQuiet
  <2>5. CASE p.state = "REQSENT"
    <3>1. RConfAck(p, m) = To([q EXCEPT !.retransmits = MaxConf], "ACKRCVD")
      BY <1>2, <1>7, <2>5 DEF RConfAck
    <3> QED
      BY <2>2, <2>3, <2>5, <3>1
  <2>6. CASE p.state = "ACKRCVD"
    <3>1. RConfAck(p, m) = To(NewRequest(Untimeout(q)), "REQSENT")
      BY <1>2, <1>7, <2>6 DEF RConfAck
    <3> QED
      BY <1>1, <1>3, <3>1, AnswersQuiet
  <2>7. CASE p.state = "ACKSENT"
    <3>1. RConfAck(p, m) = Up(Untimeout(To([q EXCEPT !.retransmits = MaxConf], "OPENED")))
      BY <1>2, <1>7, <2>7 DEF RConfAck
    <3> QED
      BY <2>2, <2>3, <2>7, <3>1
  <2>8. CASE p.state = "OPENED"
    <3>1. RConfAck(p, m) = To(NewRequest(Down(q)), "REQSENT")
      BY <1>2, <1>7, <2>8 DEF RConfAck
    <3> QED
      BY <1>1, <1>3, <3>1, AnswersQuiet
  <2>9. CASE p.state \notin {"CLOSED", "STOPPED", "REQSENT", "ACKRCVD", "ACKSENT", "OPENED"}
    <3>1. RConfAck(p, m) = q
      BY <1>2, <1>7, <2>9 DEF RConfAck
    <3>2. ~Live(p)
      BY <2>9 DEF Live, Negotiating
    <3> QED
      BY <1>1, <1>3, <3>1, <3>2, AnswersQuiet
  <2> QED
    BY <2>4, <2>5, <2>6, <2>7, <2>8, <2>9
<1> QED
  BY <1>6, <1>7

LEMMA RConfNakRejQuiet ==
  ASSUME NEW p \in EndType, p.out = <<>>, NEW m \in Packet, NEW c
  PROVE  Quietly(RConfNakRej(p, m), p, c)
<1>1. m.id \in Nat
  BY DEF Packet
<1>2. PICK go \in Wants : go = Instead(p, m)
  <2>1. p.go \in Wants
    BY EndFields
  <2>2. Instead(p, m) \in Wants
    BY <2>1 DEF Instead, Wants
  <2> QED
    BY <2>2
<1>3. PICK q : q = [p EXCEPT !.seen_ack = TRUE, !.go = go]
  OBVIOUS
<1>4. Follows(q, p) /\ Alike(q, p)
  BY <1>3, Setting, SettingKeeps
<1>5. CASE ~ForRequest(p, m) \/ m.ci # p.go
  <2>1. RConfNakRej(p, m) = p /\ Follows(p, p)
    BY <1>5 DEF RConfNakRej, Follows
  <2> QED
    BY <2>1, Forms
<1>6. CASE ~(~ForRequest(p, m) \/ m.ci # p.go)
  <2>1. CASE p.state \in {"CLOSED", "STOPPED"}
    <3>1. RConfNakRej(p, m) = fsm_sdata(q, "TERMACK", m.id, NoAck)
      BY <1>2, <1>3, <1>6, <2>1 DEF RConfNakRej
    <3>2. ~Live(p)
      BY <2>1 DEF Live, Negotiating
    <3> QED
      BY <1>1, <1>4, <3>1, <3>2, AnswersQuiet
  <2>2. CASE p.state \in {"REQSENT", "ACKSENT"}
    <3>1. RConfNakRej(p, m) = NewRequest(Untimeout(q))
      BY <1>2, <1>3, <1>6, <2>2 DEF RConfNakRej
    <3> QED
      BY <1>1, <1>4, <2>2, <3>1, AnswersQuiet
  <2>3. CASE p.state = "ACKRCVD"
    <3>1. RConfNakRej(p, m) = To(NewRequest(Untimeout(q)), "REQSENT")
      BY <1>2, <1>3, <1>6, <2>3 DEF RConfNakRej
    <3> QED
      BY <1>1, <1>4, <3>1, AnswersQuiet
  <2>4. CASE p.state = "OPENED"
    <3>1. RConfNakRej(p, m) = To(NewRequest(Down(q)), "REQSENT")
      BY <1>2, <1>3, <1>6, <2>4 DEF RConfNakRej
    <3> QED
      BY <1>1, <1>4, <3>1, AnswersQuiet
  <2>5. CASE p.state \notin {"CLOSED", "STOPPED", "REQSENT", "ACKRCVD", "ACKSENT", "OPENED"}
    <3>1. RConfNakRej(p, m) = q
      BY <1>2, <1>3, <1>6, <2>5 DEF RConfNakRej
    <3>2. ~Live(p)
      BY <2>5 DEF Live, Negotiating
    <3> QED
      BY <1>1, <1>4, <3>1, <3>2, AnswersQuiet
  <2> QED
    BY <2>1, <2>2, <2>3, <2>4, <2>5
<1> QED
  BY <1>5, <1>6

\* What fsm_rconfreq ends with, q being the end that has asked again if it had to.
Bears(q, p) ==
  \/ AsksAnew(q, p) /\ q.state # "ACKRCVD"
  \/ Repeats(q, p) /\ Live(p) /\ (q.state = "ACKRCVD" => p.state = "ACKRCVD")

LEMMA AcknowledgedAnswers ==
  ASSUME NEW p \in EndType, NEW q \in EndType, NEW m \in Packet, m.code = "CONFREQ",
         Bears(q, p),
         NEW r, r = fsm_sdata(q, "CONFACK", m.id, m.ci), NEW z, z = Acknowledged(r, m.id, m.ci), NEW c
  PROVE  Goes(z, p, c) /\ Acknowledges(z, m)
<1>1. PICK s \in Codes, i \in Nat, w \in Wants : s = "CONFACK" /\ i = m.id /\ w = m.ci
  BY DEF Codes, Packet
<1>2. Plain(q)
  BY DEF Bears, AsksAnew, Repeats
<1>3. /\ ReqsAre(r.out, q.reqid, q.go) /\ AcksAre(r.out, i, w)
      /\ r \in EndType /\ r.reqid = q.reqid /\ r.go = q.go
  BY <1>1, <1>2, SdataKeeps
<1>4. r.state = q.state
  BY <1>1, SdataFields DEF Alike
<1>5. PICK n \in Nat, a \in [id : Nat, ci : Wants] : n = 0 /\ a = [id |-> i, ci |-> w]
  OBVIOUS
<1>6. PICK x : x = [r EXCEPT !.nakloops = n, !.acked = a]
  OBVIOUS
<1>7. x \in EndType /\ x.reqid = r.reqid /\ x.go = r.go /\ x.out = r.out /\ x.acked = a
  BY <1>3, <1>6 DEF EndType
<1>8. PICK o \in PppStates, t \in PppStates : o = "OPENED" /\ t = "ACKSENT"
  BY StateNames
<1>9. Keeps(To(x, o), x) /\ Keeps(To(x, t), x) /\ To(x, t).state = t /\ To(x, o) \in EndType
  BY <1>7, ToKeeps, ToFields
<1>10. PICK v : v = Untimeout(To(x, o))
  OBVIOUS
<1>11. Keeps(v, To(x, o)) /\ v \in EndType
  BY <1>9, <1>10, FlagsKeep DEF Keeps, Follows
<1>12. Keeps(Up(v), v)
  BY <1>11, FlagsKeep
<1>13. Keeps(Up(v), x)
  BY <1>9, <1>11, <1>12, KeepsThrough
<1>14. z = IF r.state = "ACKRCVD" THEN Up(v) ELSE To(x, t)
  BY <1>1, <1>5, <1>6, <1>8, <1>10 DEF Acknowledged
<1>15. Keeps(z, x)
  BY <1>9, <1>13, <1>14
<1>16. Acknowledges(z, m)
  <2>1. z.acked = a /\ z.out = r.out
    BY <1>7, <1>15 DEF Keeps, Follows
  <2> QED
    BY <1>1, <1>3, <1>5, <2>1 DEF Acknowledges
<1>17. Goes(z, p, c)
  <2>1. z \in EndType /\ z.reqid = q.reqid /\ z.go = q.go /\ ReqsAre(z.out, z.reqid, z.go)
    BY <1>3, <1>7, <1>15 DEF Keeps, Follows
  <2>2. q.state # "ACKRCVD" => ~Holds(z)
    BY <1>4, <1>8, <1>9, <1>14 DEF Holds
  <2>3. CASE AsksAnew(q, p) /\ q.state # "ACKRCVD"
    BY <2>1, <2>2, <2>3 DEF Goes, AsksAnew
  <2>4. CASE Repeats(q, p) /\ Live(p) /\ (q.state = "ACKRCVD" => p.state = "ACKRCVD")
    <3>1. Holds(z) => Holds(p)
      BY <2>2, <2>4 DEF Holds
    <3> QED
      BY <2>1, <2>4, <3>1 DEF Goes, Repeats
  <2> QED
    BY <2>3, <2>4 DEF Bears
<1> QED
  BY <1>16, <1>17

LEMMA RefusedQuiet ==
  ASSUME NEW p \in EndType, NEW q \in EndType, NEW m \in Packet,
         Bears(q, p), q.up = FALSE,
         NEW code \in {"CONFNAK", "CONFREJ"},
         NEW r, r = fsm_sdata(q, code, m.id, m.ci), NEW z, z = Refused(r, code), NEW c
  PROVE  Quietly(z, p, c)
<1>1. PICK i \in Nat, w \in Wants : i = m.id /\ w = m.ci
  BY DEF Packet
<1>2. code \in Codes /\ code \notin {"CONFREQ", "CONFACK"}
  BY DEF Codes
<1>3. Plain(q)
  BY DEF Bears, AsksAnew, Repeats
<1>4. Repeats(r, q) /\ r \in EndType
  BY <1>1, <1>2, <1>3, SdataKeeps DEF Repeats
<1>5. r.state = q.state /\ r.up = q.up
  BY <1>1, <1>2, SdataFields DEF Alike
<1>6. PICK n \in Nat : n = r.nakloops + 1
  <2>1. r.nakloops \in Nat
    BY <1>4, EndFields
  <2> QED
    BY <2>1
<1>7. PICK x : x = IF code = "CONFNAK" THEN [r EXCEPT !.nakloops = n] ELSE r
  OBVIOUS
<1>8. Keeps(x, r) /\ x \in EndType
  <2>1. Keeps(r, r)
    BY <1>4 DEF Keeps, Follows
  <2>2. Keeps([r EXCEPT !.nakloops = n], r)
    BY <1>4, SettingKeeps
  <2> QED
    BY <1>7, <2>1, <2>2 DEF Keeps, Follows
<1>9. x.state = r.state /\ x.up = r.up
  BY <1>4, <1>7 DEF EndType
<1>10. PICK t \in PppStates : t = "REQSENT"
  BY StateNames
<1>11. Keeps(To(x, t), x) /\ To(x, t).state = t /\ To(x, t).up = x.up
  BY <1>8, ToKeeps, ToFields
<1>12. z = IF r.state = "ACKRCVD" THEN x ELSE To(x, t)
  BY <1>6, <1>7, <1>10 DEF Refused
<1>13. Repeats(z, q)
  <2>1. Repeats(x, q) /\ Repeats(To(x, t), q)
    BY <1>4, <1>8, <1>11, KeepsThrough
  <2> QED
    BY <1>12, <2>1
<1>14. q.state # "ACKRCVD" => ~Holds(z)
  BY <1>5, <1>9, <1>10, <1>11, <1>12 DEF Holds
<1>15. CASE AsksAnew(q, p) /\ q.state # "ACKRCVD"
  <2>1. AsksAnew(z, p)
    BY <1>13, <1>15, KeepsThrough
  <2> QED
    BY <1>14, <1>15, <2>1, Judged
<1>16. CASE Repeats(q, p) /\ Live(p) /\ (q.state = "ACKRCVD" => p.state = "ACKRCVD")
  <2>1. Repeats(z, p)
    BY <1>13, <1>16 DEF Repeats
  <2>2. Holds(z) => Holds(p)
    BY <1>14, <1>16 DEF Holds
  <2> QED
    BY <1>16, <2>1, <2>2, Judged
<1> QED
  BY <1>15, <1>16 DEF Bears

LEMMA RConfReqAnswers ==
  ASSUME NEW p, Sound(p), p.out = <<>>, p.state \notin {"INITIAL", "STARTING"},
         NEW m \in Packet, m.code = "CONFREQ", NEW c
  PROVE  LET r == RConfReq(p, m) IN Goes(r, p, c) /\ (Silent(r, p) \/ Acknowledges(r, m))
<1>1. /\ m.id \in Nat /\ m.ci \in Wants /\ NoAck \in Wants /\ p \in EndType
      /\ p.state \in PppStates /\ Follows(p, p) /\ Plain(p)
  BY EndFields, SoundFields DEF Packet, Wants, Follows, Plain, ReqsAre, NoAcks
<1>2. CASE p.state = "CLOSED"
  <2>1. PICK s \in Codes : s = "TERMACK"
    BY DEF Codes
  <2>2. PICK r : r = fsm_sdata(p, s, m.id, NoAck)
    OBVIOUS
  <2>3. RConfReq(p, m) = r
    BY <1>2, <2>1, <2>2 DEF RConfReq, Terminating
  <2>4. Repeats(r, p) /\ Ceases(r, p)
    BY <1>1, <2>1, <2>2, SdataKeeps DEF Plain
  <2>5. r.state = p.state
    BY <1>1, <2>2, SdataFields DEF Alike
  <2>6. ~Live(r)
    BY <1>2, <2>5 DEF Live, Negotiating
  <2>7. Quietly(r, p, c)
    BY <2>4, <2>6, Judged
  <2> QED
    BY <2>3, <2>7 DEF Quietly
<1>3. CASE p.state \in Terminating
  <2>1. RConfReq(p, m) = p
    BY <1>3 DEF RConfReq, Terminating
  <2>2. Quietly(p, p, c)
    BY <1>1, Forms
  <2> QED
    BY <2>1, <2>2 DEF Quietly
<1>4. CASE p.state \in Negotiating \cup {"OPENED", "STOPPED"}
  <2>1. PICK q : q = CASE p.state = "OPENED" -> NewRequest(Down(p))
                       [] p.state = "STOPPED" -> To(NewRequest(p), "REQSENT")
                       [] OTHER -> p
    OBVIOUS
  <2>2. q \in EndType /\ q.up = FALSE /\ Bears(q, p)
    <3>1. CASE p.state = "OPENED"
      <4>1. PICK d : d = Down(p)
        OBVIOUS
      <4>2. d \in EndType /\ d.up = FALSE /\ d.state = "OPENED" /\ Follows(d, p) /\ d.out = <<>>
        <5>1. d \in EndType /\ d.up = FALSE /\ d.state = "OPENED"
          BY <1>1, <3>1, <4>1, Fields
        <5>2. Keeps(d, p)
          BY <1>1, <4>1, FlagsKeep
        <5> QED
          BY <5>1, <5>2 DEF Keeps, Follows
      <4>3. q = NewRequest(d)
        BY <2>1, <3>1, <4>1
      <4>4. AsksAnew(q, d)
        BY <4>2, <4>3, NewRequestAsks
      <4>5. AsksAnew(q, p)
        BY <4>2, <4>4, KeepsThrough
      <4>6. q.state = "OPENED" /\ q.up = FALSE /\ q \in EndType
        BY <4>2, <4>3, RequestFields DEF Timing
      <4> QED
        BY <4>5, <4>6 DEF Bears
    <3>2. CASE p.state = "STOPPED"
      <4>1. PICK n : n = NewRequest(p)
        OBVIOUS
      <4>2. p.up = FALSE
        BY <3>2, Moves
      <4>3. AsksAnew(n, p) /\ n \in EndType /\ n.up = FALSE
        BY <1>1, <4>1, <4>2, NewRequestAsks, RequestFields DEF Timing
      <4>4. PICK s \in PppStates : s = "REQSENT"
        BY StateNames
      <4>5. q = To(n, s)
        BY <2>1, <3>2, <4>1, <4>4
      <4>6. Keeps(q, n) /\ q.state = s /\ q.up = FALSE /\ q \in EndType
        BY <4>3, <4>5, ToKeeps, ToFields
      <4>7. AsksAnew(q, p)
        BY <4>3, <4>6, KeepsThrough
      <4> QED
        BY <4>4, <4>6, <4>7 DEF Bears
    <3>3. CASE p.state \in Negotiating
      <4>1. q = p /\ p.state # "OPENED"
        BY <2>1, <3>3 DEF Negotiating
      <4>2. p.up = FALSE
        BY <4>1, Moves
      <4>3. Repeats(p, p) /\ Live(p)
        BY <1>1, <3>3 DEF Repeats, Live
      <4> QED
        BY <1>1, <4>1, <4>2, <4>3 DEF Bears
    <3> QED
      BY <1>4, <3>1, <3>2, <3>3
  <2>3. PICK code \in {"CONFACK", "CONFNAK", "CONFREJ"} : code = Answer(q, m.ci)
    BY DEF Answer
  <2>4. PICK r : r = fsm_sdata(q, code, m.id, m.ci)
    OBVIOUS
  <2>5. RConfReq(p, m) = IF code = "CONFACK" THEN Acknowledged(r, m.id, m.ci) ELSE Refused(r, code)
    BY <1>4, <2>1, <2>3, <2>4 DEF RConfReq, Terminating, Negotiating
  <2>6. CASE code = "CONFACK"
    <3>1. PICK z : z = Acknowledged(r, m.id, m.ci)
      OBVIOUS
    <3>2. Goes(z, p, c) /\ Acknowledges(z, m)
      BY <1>1, <2>2, <2>4, <2>6, <3>1, AcknowledgedAnswers
    <3> QED
      BY <2>5, <2>6, <3>1, <3>2
  <2>7. CASE code # "CONFACK"
    <3>1. PICK z : z = Refused(r, code)
      OBVIOUS
    <3>2. Quietly(z, p, c)
      BY <1>1, <2>2, <2>3, <2>4, <2>7, <3>1, RefusedQuiet
    <3> QED
      BY <2>5, <2>7, <3>1, <3>2 DEF Quietly
  <2> QED
    BY <2>6, <2>7
<1> QED
  BY <1>1, <1>2, <1>3, <1>4, StateNames DEF Unheard, Terminating

\* fsm_input: whatever arrives.
LEMMA InputJudged ==
  ASSUME NEW p, Sound(p), p.out = <<>>, NEW m \in Packet, NEW r, r = Input(p, m)
  PROVE  Goes(r, p, AckFor(p, m)) /\ (Silent(r, p) \/ Acknowledges(r, m))
<1>1. p \in EndType /\ Follows(p, p)
  BY SoundFields DEF Follows
<1>2. CASE p.state \in {"INITIAL", "STARTING"}
  <2>1. r = p
    BY <1>2 DEF Input
  <2> QED
    BY <1>1, <2>1, Forms DEF Quietly
<1>3. CASE p.state \notin {"INITIAL", "STARTING"}
  <2>1. m.code \in Codes
    BY DEF Packet
  <2>2. CASE m.code = "CONFREQ"
    <3>1. r = RConfReq(p, m)
      BY <1>3, <2>2 DEF Input
    <3> QED
      BY <1>3, <2>2, <3>1, RConfReqAnswers
  <2>3. CASE m.code = "CONFACK"
    <3>1. r = RConfAck(p, m)
      BY <1>3, <2>3 DEF Input
    <3> QED
      BY <1>1, <2>3, <3>1, RConfAckQuiet DEF Quietly
  <2>4. CASE m.code \notin {"CONFREQ", "CONFACK"}
    <3>1. r \in {RConfNakRej(p, m), RTermReq(p, m), RTermAck(p)}
      BY <1>3, <2>1, <2>4 DEF Input, Codes
    <3> QED
      BY <1>1, <3>1, RConfNakRejQuiet, RTermsQuiet DEF Quietly
  <2> QED
    BY <2>2, <2>3, <2>4
<1> QED
  BY <1>2, <1>3

-----------------------------------------------------------------------------
(* The agreement, of an end p that asks and an end q that answers, with    *)
(* the packets on the way from p, and to p.                                *)

\* Once p's last request is on the way no older one is behind it; when p has its
\* acknowledgement, or will have, q has acknowledged that request last, and no other one
\* is on the way.
Stands(p, q, from, to) ==
  (Holds(p) \/ HasAck(to, p.reqid, p.go))
    => q.acked = [id |-> p.reqid, ci |-> p.go] /\ ReqsAre(from, p.reqid, p.go)
Agrees(p, q, from, to) == Live(p) => ReqsRun(from, p.reqid, p.go) /\ Stands(p, q, from, to)

\* What is left of packets when the first one may have gone.
LeftOf(u, s) == u = s \/ (s # <<>> /\ u = Tail(s))

LEMMA LeftKeeps ==
  ASSUME NEW s \in Seq(Packet), NEW u, LeftOf(u, s), NEW id, NEW ci
  PROVE  /\ ReqsAre(s, id, ci) => ReqsAre(u, id, ci)
         /\ ReqsRun(s, id, ci) => ReqsRun(u, id, ci)
         /\ HasAck(u, id, ci) => HasAck(s, id, ci)
  BY Rest DEF LeftOf

LEMMA HeadIsThere ==
  ASSUME NEW s \in Seq(Packet), s # <<>>, NEW m, m = Head(s)
  PROVE  /\ m \in Packet
         /\ \A id, ci : ReqsAre(s, id, ci) /\ m.code = "CONFREQ" => m.id = id /\ m.ci = ci
         /\ \A id, ci : m.code = "CONFACK" /\ m.id = id /\ m.ci = ci => HasAck(s, id, ci)
<1>1. 1 \in DOMAIN s /\ m = s[1] /\ m \in Packet
  OBVIOUS
<1> QED
  BY <1>1 DEF ReqsAre, HasAck

\* The end that asks takes a step: r is what it becomes.
LEMMA AskerAgrees ==
  ASSUME NEW p, NEW q, NEW from \in Seq(Packet), NEW to \in Seq(Packet), Agrees(p, q, from, to),
         ~OnTheWay(from, "CONFREQ", NextId(p)), ~OnTheWay(to, "CONFACK", NextId(p)),
         NEW r, NEW c, Goes(r, p, c), c => HasAck(to, p.reqid, p.go),
         NEW from2, from2 = from \o r.out, NEW to2, LeftOf(to2, to)
  PROVE  Agrees(r, q, from2, to2)
<1> SUFFICES ASSUME Live(r)
             PROVE  ReqsRun(from2, r.reqid, r.go) /\ Stands(r, q, from2, to2)
  BY DEF Agrees
<1>1. PICK out \in Seq(Packet) : out = r.out
  BY EndFields DEF Goes
<1>2. ReqsAre(out, r.reqid, r.go)
  BY <1>1 DEF Goes
<1>3. from2 = from \o out
  BY <1>1
<1>4. CASE r.reqid = NextId(p) /\ ~Holds(r)
  <2>1. ReqsRun(from, r.reqid, r.go)
    BY <1>4 DEF OnTheWay, ReqsRun
  <2>2. ReqsRun(from2, r.reqid, r.go)
    BY <1>2, <1>3, <2>1, Joined
  <2>3. ~HasAck(to, r.reqid, r.go)
    BY <1>4 DEF OnTheWay, HasAck
  <2>4. ~HasAck(to2, r.reqid, r.go)
    BY <2>3, LeftKeeps
  <2> QED
    BY <1>4, <2>2, <2>4 DEF Stands
<1>5. CASE r.reqid = p.reqid /\ r.go = p.go /\ Live(p) /\ (Holds(r) => Holds(p) \/ c)
  <2>1. ReqsRun(from, r.reqid, r.go) /\ Stands(p, q, from, to)
    BY <1>5 DEF Agrees
  <2>2. ReqsRun(from2, r.reqid, r.go)
    BY <1>2, <1>3, <2>1, Joined
  <2>3. ASSUME Holds(r) \/ HasAck(to2, r.reqid, r.go)
        PROVE  q.acked = [id |-> r.reqid, ci |-> r.go] /\ ReqsAre(from2, r.reqid, r.go)
    <3>1. HasAck(to2, r.reqid, r.go) => HasAck(to, r.reqid, r.go)
      BY LeftKeeps
    <3>2. Holds(p) \/ HasAck(to, p.reqid, p.go)
      BY <1>5, <2>3, <3>1
    <3>3. q.acked = [id |-> r.reqid, ci |-> r.go] /\ ReqsAre(from, r.reqid, r.go)
      BY <1>5, <2>1, <3>2 DEF Stands
    <3> QED
      BY <1>2, <1>3, <3>3, Joined
  <2> QED
    BY <2>2, <2>3 DEF Stands
<1> QED
  BY <1>4, <1>5 DEF Goes

\* The end that answers takes a step: r is what q becomes.
LEMMA AnswererAgrees ==
  ASSUME NEW p, NEW q, NEW from \in Seq(Packet), NEW to \in Seq(Packet), Agrees(p, q, from, to),
         NEW r \in EndType, NEW from2, LeftOf(from2, from), NEW to2, to2 = to \o r.out,
         \/ Silent(r, q)
         \/ from # <<>> /\ from2 = Tail(from) /\ Acknowledges(r, Head(from))
  PROVE  Agrees(p, r, from2, to2)
<1> SUFFICES ASSUME Live(p)
             PROVE  ReqsRun(from2, p.reqid, p.go) /\ Stands(p, r, from2, to2)
  BY DEF Agrees
<1>1. PICK out \in Seq(Packet) : out = r.out
  BY EndFields
<1>2. to2 = to \o out
  BY <1>1
<1>3. ReqsRun(from, p.reqid, p.go) /\ Stands(p, q, from, to)
  BY DEF Agrees
<1>4. ReqsRun(from2, p.reqid, p.go)
  BY <1>3, LeftKeeps
<1>5. HasAck(to2, p.reqid, p.go) => HasAck(to, p.reqid, p.go) \/ HasAck(out, p.reqid, p.go)
  BY <1>2, Joined
<1>6. ASSUME Holds(p) \/ HasAck(to2, p.reqid, p.go)
      PROVE  r.acked = [id |-> p.reqid, ci |-> p.go] /\ ReqsAre(from2, p.reqid, p.go)
  <2>1. CASE Silent(r, q)
    <3>1. ~HasAck(out, p.reqid, p.go)
      BY <1>1, <2>1 DEF Silent, NoAcks, HasAck
    <3>2. q.acked = [id |-> p.reqid, ci |-> p.go] /\ ReqsAre(from, p.reqid, p.go)
      BY <1>3, <1>5, <1>6, <3>1 DEF Stands
    <3> QED
      BY <2>1, <3>2, LeftKeeps DEF Silent
  <2>2. CASE from # <<>> /\ from2 = Tail(from) /\ Acknowledges(r, Head(from))
    <3>1. PICK m : m = Head(from)
      OBVIOUS
    <3>2. m.code = "CONFREQ" /\ r.acked = [id |-> m.id, ci |-> m.ci] /\ AcksAre(out, m.id, m.ci)
      BY <1>1, <2>2, <3>1 DEF Acknowledges
    <3>3. CASE Holds(p) \/ HasAck(to, p.reqid, p.go)
      <4>1. ReqsAre(from, p.reqid, p.go)
        BY <1>3, <3>3 DEF Stands
      <4>2. m.id = p.reqid /\ m.ci = p.go
        BY <2>2, <3>1, <3>2, <4>1, HeadIsThere
      <4> QED
        BY <3>2, <4>1, <4>2, LeftKeeps
    <3>4. CASE HasAck(out, p.reqid, p.go)
      <4>1. m.id = p.reqid /\ m.ci = p.go
        BY <3>2, <3>4 DEF AcksAre, HasAck
      <4>2. ReqsAre(from2, p.reqid, p.go)
        BY <1>3, <2>2, <3>1, <3>2, <4>1, Rest
      <4> QED
        BY <3>2, <4>1, <4>2
    <3> QED
      BY <1>5, <1>6, <3>3, <3>4
  <2> QED
    BY <2>1, <2>2
<1> QED
  BY <1>4, <1>6 DEF Stands

\* The agreement depends on no other fields.
LEMMA AgreesAlike ==
  ASSUME NEW p, NEW q, NEW p2, NEW q2, NEW from, NEW to, Agrees(p, q, from, to),
         p2.state = p.state, p2.up = p.up, p2.reqid = p.reqid, p2.go = p.go, q2.acked = q.acked
  PROVE  Agrees(p2, q2, from, to)
  BY DEF Agrees, Stands, Live, Holds

\* Of every end: nothing is left to send, and the other one agrees with it.
PppAgrees ==
  \A e \in End : /\ fsm[e].out = <<>>
                 /\ Agrees(fsm[e], fsm[Other(e)], link[Other(e)], link[e])

LEMMA BecomesAgrees ==
  ASSUME PppIInv, PppAgrees, IdsFresh, NEW e \in End, NEW r, NEW c, NEW left,
         FsmBecomes(e, r, left), LeftOf(left, link[e]), Goes(r, fsm[e], c),
         c => HasAck(link[e], fsm[e].reqid, fsm[e].go),
         \/ Silent(r, fsm[e])
         \/ link[e] # <<>> /\ left = Tail(link[e]) /\ Acknowledges(r, Head(link[e]))
  PROVE  PppAgrees'
<1>1. PICK o \in End : o = Other(e) /\ o # e /\ Other(o) = e /\ End = {e, o}
  BY PppAssumption, TwoEnds
<1>2. /\ fsm \in [End -> EndType] /\ link[e] \in Seq(Packet) /\ link[o] \in Seq(Packet)
      /\ link \in [End -> Seq(Packet)] /\ r \in EndType
  BY DEF PppIInv, Goes
<1>3. PICK z : z = [r EXCEPT !.out = <<>>]
  OBVIOUS
<1>4. /\ z.state = r.state /\ z.up = r.up /\ z.reqid = r.reqid /\ z.go = r.go
      /\ z.acked = r.acked /\ z.out = <<>>
  BY <1>2, <1>3 DEF EndType
<1>5. fsm'[e] = z /\ fsm'[o] = fsm[o]
  BY <1>1, <1>2, <1>3 DEF FsmBecomes
<1>6. link'[e] = left /\ link'[o] = link[o] \o r.out
  BY <1>1, <1>2 DEF FsmBecomes
<1>7. /\ Agrees(fsm[e], fsm[o], link[o], link[e]) /\ Agrees(fsm[o], fsm[e], link[e], link[o])
      /\ fsm[o].out = <<>>
  BY <1>1 DEF PppAgrees
<1>8. /\ ~OnTheWay(link[o], "CONFREQ", NextId(fsm[e]))
      /\ ~OnTheWay(link[e], "CONFACK", NextId(fsm[e]))
  BY <1>1 DEF IdsFresh
<1>9. Agrees(r, fsm[o], link'[o], link'[e])
  BY <1>2, <1>6, <1>7, <1>8, AskerAgrees
<1>10. Agrees(fsm[o], r, link'[e], link'[o])
  BY <1>2, <1>6, <1>7, AnswererAgrees
<1>11. Agrees(z, fsm[o], link'[o], link'[e])
  BY <1>4, <1>9, AgreesAlike
<1>12. Agrees(fsm[o], z, link'[e], link'[o])
  BY <1>4, <1>10, AgreesAlike
<1>13. \A x \in End : Other(x)' = Other(x)
  BY DEF Other
<1>14. /\ Agrees(fsm'[e], fsm'[o], link'[o], link'[e]) /\ Agrees(fsm'[o], fsm'[e], link'[e], link'[o])
       /\ fsm'[e].out = <<>> /\ fsm'[o].out = <<>>
  BY <1>4, <1>5, <1>7, <1>11, <1>12
<1>15. /\ Agrees(fsm[e], fsm[o], link[o], link[e])' /\ Agrees(fsm[o], fsm[e], link[e], link[o])'
       /\ (fsm[e].out = <<>>)' /\ (fsm[o].out = <<>>)'
  BY <1>14
<1> QED
  BY <1>1, <1>15 DEF PppAgrees

\* Two ends that are up, with nothing on the way, agree on the options of both
\* (fsm.c:496-527, 540-549, 602-612), whatever was refused, repeated, lost or answered
\* late, as long as no identifier comes again while one like it is on the way
\* (fsm.c:828, fsm.h:83): an acknowledgement of an older request would be taken for one
\* of the last.
THEOREM EndsAgree == PppSpec /\ []IdsFresh => []PppInv
<1>1. PppInit => PppAgrees
  <2> SUFFICES ASSUME PppInit, NEW e \in End
               PROVE  fsm[e].out = <<>> /\ ~Live(fsm[e])
    BY DEF PppAgrees, Agrees
  <2>1. PICK want \in [End -> {"fine", "unwanted"}] : fsm = [x \in End |-> fsm_init(want[x])]
    BY DEF PppInit
  <2>2. fsm[e] = fsm_init(want[e])
    BY <2>1
  <2>3. fsm[e].state = "INITIAL" /\ fsm[e].out = <<>>
    BY <2>2 DEF fsm_init
  <2> QED
    BY <2>3 DEF Live, Negotiating
<1>2. PppIInv /\ PppAgrees /\ IdsFresh /\ [PppNext]_pppVars => PppAgrees'
  <2> SUFFICES ASSUME PppIInv, PppAgrees, IdsFresh, [PppNext]_pppVars PROVE PppAgrees'
    OBVIOUS
  <2>1. \A e \in End : /\ Sound(fsm[e]) /\ fsm[e] \in EndType /\ fsm[e].out = <<>>
                       /\ link[e] \in Seq(Packet)
    BY DEF PppIInv, PppAgrees
  <2>2. ASSUME NEW e \in End, NEW r, NEW left, LeftOf(left, link[e]), FsmBecomes(e, r, left),
               Quietly(r, fsm[e], FALSE)
        PROVE  PppAgrees'
    BY <2>2, BecomesAgrees DEF Quietly
  <2>3. ASSUME NEW e \in End, Starts(e) PROVE PppAgrees'
    <3>1. PICK r \in {Open(fsm[e]), LowerUp(fsm[e])} : FsmBecomes(e, r, link[e])
      BY <2>3 DEF Starts
    <3>2. Quietly(r, fsm[e], FALSE)
      BY <2>1, CallsQuiet
    <3> QED
      BY <2>2, <3>1, <3>2 DEF LeftOf
  <2>4. ASSUME NEW e \in End, Called(e) PROVE PppAgrees'
    <3>1. PICK r \in {LowerUp(fsm[e]), LowerDown(fsm[e]), Open(fsm[e]), Close(fsm[e]),
                      ProtReject(fsm[e])} : FsmBecomes(e, r, link[e])
      BY <2>4 DEF Called
    <3>2. Quietly(r, fsm[e], FALSE)
      BY <2>1, CallsQuiet
    <3> QED
      BY <2>2, <3>1, <3>2 DEF LeftOf
  <2>5. ASSUME NEW e \in End, fsm_input(e) PROVE PppAgrees'
    <3>1. PICK m : m = Head(link[e])
      OBVIOUS
    <3>2. PICK r : r = Input(fsm[e], m)
      OBVIOUS
    <3>3. PICK left : left = Tail(link[e])
      OBVIOUS
    <3>4. FsmBecomes(e, r, left) /\ link[e] # <<>> /\ LeftOf(left, link[e])
      BY <2>5, <3>1, <3>2, <3>3 DEF fsm_input, LeftOf
    <3>5. m \in Packet /\ (AckFor(fsm[e], m) => HasAck(link[e], fsm[e].reqid, fsm[e].go))
      BY <2>1, <3>1, <3>4, HeadIsThere DEF AckFor
    <3>6. Goes(r, fsm[e], AckFor(fsm[e], m)) /\ (Silent(r, fsm[e]) \/ Acknowledges(r, m))
      BY <2>1, <3>2, <3>5, InputJudged
    <3> QED
      BY <3>1, <3>3, <3>4, <3>5, <3>6, BecomesAgrees
  <2>6. ASSUME NEW e \in End, fsm_timeout(e) PROVE PppAgrees'
    <3>1. PICK r : r = FsmTimedOut(Untimeout(fsm[e]))
      OBVIOUS
    <3>2. FsmBecomes(e, r, link[e])
      BY <2>6, <3>1 DEF fsm_timeout
    <3>3. Quietly(r, fsm[e], FALSE)
      BY <2>1, <3>1, TimeoutQuiet
    <3> QED
      BY <2>2, <3>2, <3>3 DEF LeftOf
  <2>7. ASSUME NEW e \in End, Lose(e) PROVE PppAgrees'
    <3>1. fsm' = fsm /\ link' = [link EXCEPT ![e] = Tail(link[e])] /\ link[e] # <<>>
      BY <2>7 DEF Lose
    <3>2. PICK left : left = Tail(link[e])
      OBVIOUS
    <3>3. link' = [link EXCEPT ![e] = left, ![Other(e)] = @ \o fsm[e].out]
      <4>1. Other(e) \in End /\ Other(e) # e /\ link \in [End -> Seq(Packet)]
        BY TwoEnds DEF PppIInv
      <4>2. PICK s \in Seq(Packet) : s = link[Other(e)]
        BY <4>1
      <4>3. s \o fsm[e].out = s
        BY <2>1, <4>2, ConcatEmptySeq
      <4> QED
        BY <3>1, <3>2, <4>1, <4>2, <4>3
    <3>4. fsm' = [fsm EXCEPT ![e] = [fsm[e] EXCEPT !.out = <<>>]]
      <4>1. [fsm[e] EXCEPT !.out = <<>>] = fsm[e]
        BY <2>1 DEF EndType
      <4> QED
        BY <3>1, <4>1 DEF PppIInv
    <3>5. FsmBecomes(e, fsm[e], left) /\ LeftOf(left, link[e])
      BY <3>1, <3>2, <3>3, <3>4 DEF FsmBecomes, LeftOf
    <3>6. Quietly(fsm[e], fsm[e], FALSE)
      <4>1. Follows(fsm[e], fsm[e])
        BY <2>1 DEF Follows
      <4> QED
        BY <2>1, <4>1, Forms
    <3> QED
      BY <2>2, <3>5, <3>6
  <2>8. CASE UNCHANGED pppVars
    <3>1. fsm' = fsm /\ link' = link
      BY <2>8 DEF pppVars
    <3> QED
      BY <3>1 DEF PppAgrees, Agrees, Stands, Live, Holds, ReqsAre, ReqsRun, HasAck, Other
  <2> QED
    BY <2>3, <2>4, <2>5, <2>6, <2>7, <2>8 DEF PppNext
<1>3. PppIInv /\ PppAgrees => Agreed
  <2> SUFFICES ASSUME PppIInv, PppAgrees, NEW e \in End, fsm[e].state = "OPENED", fsm[e].up
               PROVE  fsm[Other(e)].acked = [id |-> fsm[e].reqid, ci |-> fsm[e].go]
    BY DEF Agreed
  <2>1. fsm[e].up = TRUE
    BY EndFields DEF PppIInv
  <2>2. Live(fsm[e]) /\ Holds(fsm[e])
    BY <2>1 DEF Live, Holds
  <2> QED
    BY <2>2 DEF PppAgrees, Agrees, Stands
<1>4. PppSpec /\ []IdsFresh => [](TimerRuns /\ UpOpened)
  BY NoWaitWithoutTimer, PTL
<1>5. PppSpec => []PppIInv
  BY PppKept
<1>6. PppSpec /\ []IdsFresh => []PppAgrees
  BY <1>1, <1>2, <1>5, PTL DEF PppSpec
<1>7. IdsFresh /\ Agreed /\ TimerRuns /\ UpOpened => PppInv
  BY DEF PppInv
<1> QED
  BY <1>3, <1>4, <1>5, <1>6, <1>7, PTL

-----------------------------------------------------------------------------
(* The DHCP client.                                                        *)

ClientSays == {"DISCOVER", "REQUEST", "RELEASE", "DECLINE"}
Sent == [type : ClientSays, xid : 0 .. Xids - 1,
         addr : Addr \cup {none, static}]
Replied == [type : {"OFFER", "ACK", "NAK"}, xid : 0 .. Xids - 1, addr : Addr \cup {none},
            server : BOOLEAN]
Stated == Waiting \cup {"OFF", "BOUND"}
Client ==
  [state : Stated, tries : 0 .. TryMod - 1, timer : BOOLEAN,
   xid : 0 .. Xids - 1, lease : BOOLEAN, offered : Addr \cup {none}, t1 : 0 .. TickMod - 1,
   t2 : 0 .. TickMod - 1, ip : Addr \cup {none, static}, up : BOOLEAN, out : SUBSET Sent,
   short : SUBSET ClientSays]

DhcpTypes ==
  /\ client \in Client /\ client.out = {} /\ net \subseteq Sent \cup Replied
  /\ granted \subseteq Addr /\ moved \in BOOLEAN
  /\ \A m \in net : (m.type = "ACK" => m.addr \in granted) /\ (m.type = "OFFER" => m.addr \in Addr /\ m.server \in OfferServer)

Renews == {"RENEWING", "REBINDING"}

\* A client c has the address it was granted, or none that a server could extend: in
\* a transaction to extend a lease, nobody asks for another address than the one it
\* was offered.
Leased(c, g) ==
  /\ c.ip \in {none, static} \/ (c.state \in Renews \cup {"BOUND"} /\ c.ip = c.offered /\ c.ip \in g)
  /\ c.state \in {"CHECKING", "BOUND"} => c.offered \in g
  /\ c.state # "REBOOTING"
Extends(c, n) ==
  c.state \in Renews =>
    \A m \in n : m.xid = c.xid /\ m.type \in {"REQUEST", "ACK"} /\ m.addr \in Addr =>
              m.addr = c.offered
TimedAt(c) == c.state \in Waiting => c.timer \/ (c.state = "RENEWING" /\ c.tries = 0)

DhcpIInv ==
  /\ DhcpTypes /\ TimedAt(client)
  /\ moved \/ (Leased(client, granted) /\ Extends(client, net))

LEMMA ClientIs ==
  ASSUME NEW c \in Client
  PROVE  /\ c.state \in Stated /\ c.tries \in 0 .. TryMod - 1
         /\ c.timer \in BOOLEAN /\ c.xid \in 0 .. Xids - 1 /\ c.lease \in BOOLEAN
         /\ c.offered \in Addr \cup {none} /\ c.t1 \in 0 .. TickMod - 1
         /\ c.t2 \in 0 .. TickMod - 1 /\ c.ip \in Addr \cup {none, static}
         /\ c.up \in BOOLEAN /\ c.out \in SUBSET Sent /\ c.short \in SUBSET ClientSays
  BY DEF Client

LEMMA StateSet ==
  ASSUME NEW c \in Client, NEW state \in Stated,
         NEW d, d = SetState(c, state)
  PROVE  /\ d \in Client /\ d.state = state /\ d.ip = c.ip /\ d.offered = c.offered
         /\ d.xid = c.xid /\ d.short = c.short
         /\ c.state # state => d.tries = 0
         /\ c.state = state => d.tries = c.tries
  BY DhcpAssumption, 0 \in 0 .. TryMod - 1, ClientIs DEF SetState, Client

LEMMA States ==
  /\ "SELECTING" \in Stated /\ "REQUESTING" \in Stated /\ "CHECKING" \in Stated
  /\ "BACKING_OFF" \in Stated /\ "RENEWING" \in Stated /\ "REBINDING" \in Stated
  /\ "REBOOTING" \in Stated /\ "OFF" \in Stated /\ "BOUND" \in Stated
  BY DEF Stated, Waiting

LEMMA Says ==
  "DISCOVER" \in ClientSays /\ "REQUEST" \in ClientSays /\ "RELEASE" \in ClientSays
  /\ "DECLINE" \in ClientSays
  BY DEF ClientSays

\* All that d has sent.
Sending(d, type, addr) == d.out = {[type |-> type, xid |-> d.xid, addr |-> addr]}

\* d has sent a message, in a new transaction when it is the first try of c.
Spoken(c, d, type, addr) ==
  /\ Sending(d, type, addr)
  /\ c.tries = 0 => d.xid # c.xid
  /\ c.tries # 0 => d.xid = c.xid

LEMMA Sends ==
  ASSUME NEW c \in Client, NEW type \in ClientSays,
         NEW addr \in Addr \cup {none, static},
         NEW d, d = Send(c, type, addr)
  PROVE  /\ d \in Client /\ d.state = c.state /\ d.ip = c.ip /\ d.offered = c.offered
         /\ d.tries = c.tries /\ d.timer = c.timer
         /\ type \notin c.short => Spoken(c, d, type, addr)
<1> DEFINE x == IF c.tries = 0 THEN (c.xid + 1) % Xids ELSE c.xid
<1>1. c.xid \in 0 .. Xids - 1
  BY ClientIs
<1>2. x \in 0 .. Xids - 1 /\ (c.tries = 0 => x # c.xid) /\ (c.tries # 0 => x = c.xid)
  <2>1. CASE c.xid + 1 = Xids
    <3>1. Xids % Xids = 0
      BY DhcpAssumption
    <3> QED BY <1>1, <2>1, <3>1, DhcpAssumption
  <2>2. CASE c.xid + 1 < Xids
    <3>1. (c.xid + 1) % Xids = c.xid + 1
      BY <1>1, <2>2, DhcpAssumption
    <3> QED BY <1>1, <2>2, <3>1, DhcpAssumption
  <2> QED BY <1>1, <2>1, <2>2, DhcpAssumption
<1> HIDE DEF x
<1> DEFINE o == {[type |-> type, xid |-> x, addr |-> addr]}
<1>3. CASE type \in c.short
  <2>1. d = [c EXCEPT !.short = c.short \ {type}]
    BY <1>3 DEF Send
  <2> QED
    BY <1>3, <2>1 DEF Client
<1>4. CASE type \notin c.short
  <2>1. d = [c EXCEPT !.xid = x, !.out = o]
    BY <1>4 DEF Send, x
  <2>2. o \in SUBSET Sent
    BY <1>2 DEF Sent
  <2> HIDE DEF o
  <2>3. /\ [c EXCEPT !.xid = x, !.out = o] \in Client
        /\ [c EXCEPT !.xid = x, !.out = o].xid = x /\ [c EXCEPT !.xid = x, !.out = o].out = o
        /\ \A f \in {"state", "ip", "offered", "tries", "timer"} :
             [c EXCEPT !.xid = x, !.out = o][f] = c[f]
    BY <1>2, <2>2 DEF Client
  <2>4. d \in Client /\ d.xid = x /\ d.out = o
    BY <2>1, <2>3
  <2>5. Spoken(c, d, type, addr)
    BY <1>2, <2>4 DEF o, Sending, Spoken
  <2> QED
    BY <2>1, <2>3, <2>5
<1> QED
  BY <1>3, <1>4

\* d is c after one more try.
OneMore(d, c) ==
  /\ d \in Client /\ d.state = c.state /\ d.ip = c.ip /\ d.offered = c.offered /\ d.xid = c.xid
  /\ \A type, addr : Sending(c, type, addr) => Sending(d, type, addr)

LEMMA Tries ==
  ASSUME NEW c \in Client
  PROVE  /\ OneMore(Try(c), c) /\ Try(c).timer = TRUE
         /\ OneMore(TryTimes(c), c)
         /\ TryTimes(c).timer = TRUE \/ TryTimes(c).tries = 0
         /\ c.tries < 9 => TryTimes(c).timer = TRUE
<1>1. NextTry(c) \in 0 .. TryMod - 1
  BY ClientIs, DhcpAssumption DEF NextTry
<1>2. c.tries < 9 => NextTry(c) = c.tries + 1
  BY ClientIs, DhcpAssumption DEF NextTry
<1>3. c.tries < 9 => NextTry(c) # 0
  BY <1>2, ClientIs
<1>4. PICK b \in BOOLEAN : b = (NextTry(c) # 0)
  OBVIOUS
<1>5. PICK n : n = NextTry(c)
  OBVIOUS
<1>6. \A t \in BOOLEAN : OneMore([c EXCEPT !.tries = n, !.timer = t], c)
  BY <1>1, <1>5 DEF OneMore, Client, Sending
<1>7. \A t \in BOOLEAN : /\ [c EXCEPT !.tries = n, !.timer = t].timer = t
                         /\ [c EXCEPT !.tries = n, !.timer = t].tries = n
  BY DEF Client
<1>8. Try(c) = [c EXCEPT !.tries = n, !.timer = TRUE]
  BY <1>5 DEF Try
<1>9. TryTimes(c) = [c EXCEPT !.tries = n, !.timer = b]
  BY <1>4, <1>5 DEF TryTimes
<1> HIDE DEF OneMore
<1> QED
  BY <1>3, <1>4, <1>5, <1>6, <1>7, <1>8, <1>9

LEMMA DiscoverIs ==
  ASSUME NEW c \in Client
  PROVE  /\ Discover(c) \in Client /\ Discover(c).state = "SELECTING"
         /\ Discover(c).timer = TRUE /\ Discover(c).ip = c.ip
<1>0. PICK s \in Stated : s = "SELECTING"
  BY States
<1> DEFINE b == [c EXCEPT !.offered = none]
           d == SetState(b, s)
           e == Send(d, "DISCOVER", none)
<1>1. b \in Client /\ b.ip = c.ip
  BY DEF Client
<1>2. d \in Client /\ d.state = s /\ d.ip = b.ip
  <2> HIDE DEF b
  <2> QED BY <1>1, StateSet
<1>3. e \in Client /\ e.state = d.state /\ e.ip = d.ip
  BY <1>2, Sends, Says
<1>4. Discover(c) = Try(e)
  BY <1>0 DEF Discover
<1> HIDE DEF b, d, e
<1> QED
  BY <1>0, <1>1, <1>2, <1>3, <1>4, Tries DEF OneMore

\* A handler that asks the server for addr in a given state.
LEMMA Asks ==
  ASSUME NEW c \in Client, NEW state \in Stated, NEW addr \in Addr \cup {none, static},
         NEW d, d = Send(SetState(c, state), "REQUEST", addr)
  PROVE  /\ d \in Client /\ d.state = state /\ d.ip = c.ip /\ d.offered = c.offered
         /\ "REQUEST" \notin c.short =>
              Sending(d, "REQUEST", addr) /\ (d.xid # c.xid \/ c.state = state)
         /\ c.state # state => d.tries = 0
         /\ c.state = state => d.tries = c.tries
<1> DEFINE b == SetState(c, state)
<1>1. /\ b \in Client /\ b.state = state /\ b.ip = c.ip /\ b.offered = c.offered /\ b.xid = c.xid
      /\ (c.state # state => b.tries = 0) /\ (c.state = state => b.tries = c.tries)
      /\ b.short = c.short
  BY StateSet
<1>2. d = Send(b, "REQUEST", addr)
  OBVIOUS
<1> HIDE DEF b
<1>3. /\ d \in Client /\ d.state = b.state /\ d.ip = b.ip /\ d.offered = b.offered
      /\ d.tries = b.tries
      /\ "REQUEST" \notin b.short => Spoken(b, d, "REQUEST", addr)
  BY <1>1, <1>2, Sends, Says
<1> QED
  BY <1>1, <1>3 DEF Spoken

LEMMA SelectIs ==
  ASSUME NEW c \in Client
  PROVE  /\ Select(c) \in Client /\ Select(c).state = "REQUESTING" /\ Select(c).timer = TRUE
         /\ Select(c).ip = c.ip
<1>0. PICK s \in Stated : s = "REQUESTING"
  BY States
<1>1. c.offered \in Addr \cup {none, static} /\ SetState(c, s).offered = c.offered
  BY ClientIs, StateSet
<1>2. PICK d : d = Send(SetState(c, s), "REQUEST", c.offered)
  OBVIOUS
<1>3. d \in Client /\ d.state = s /\ d.ip = c.ip
  BY <1>1, <1>2, Asks
<1>4. Select(c) = Try(d)
  BY <1>0, <1>1, <1>2 DEF Select
<1> QED
  BY <1>0, <1>3, <1>4, Tries DEF OneMore

LEMMA CheckIs ==
  ASSUME NEW c \in Client
  PROVE  /\ Check(c) \in Client /\ Check(c).state = "CHECKING" /\ Check(c).timer = TRUE
         /\ Check(c).ip = c.ip /\ Check(c).offered = c.offered
<1>1. PICK s \in Stated : s = "CHECKING"
  BY States
<1>2. PICK d : d = SetState(c, s)
  OBVIOUS
<1>3. d \in Client /\ d.state = s /\ d.ip = c.ip /\ d.offered = c.offered
  BY <1>2, StateSet
<1>4. Check(c) = Try(d)
  BY <1>1, <1>2 DEF Check
<1> QED
  BY <1>1, <1>3, <1>4, Tries DEF OneMore

\* Renew and Rebind ask for the address the client has, and in a new transaction
\* unless they did so before.
Asking(c, d, state) ==
  /\ d \in Client /\ d.state = state /\ d.ip = c.ip /\ d.offered = c.offered
  /\ Sending(d, "REQUEST", c.ip)
  /\ d.xid # c.xid \/ c.state = state

LEMMA RenewIs ==
  ASSUME NEW c \in Client, "REQUEST" \notin c.short
  PROVE  Asking(c, Renew(c), "RENEWING") /\ TimedAt(Renew(c))
<1>0. PICK s \in Stated : s = "RENEWING"
  BY States
<1>1. c.ip \in Addr \cup {none, static} /\ SetState(c, s).ip = c.ip
  BY ClientIs, StateSet
<1>2. PICK d : d = Send(SetState(c, s), "REQUEST", c.ip)
  OBVIOUS
<1>3. Asking(c, d, s)
  BY <1>1, <1>2, Asks DEF Asking
<1>4. Renew(c) = TryTimes(d)
  BY <1>0, <1>1, <1>2 DEF Renew
<1>6. d \in Client
  BY <1>3 DEF Asking
<1>7. OneMore(Renew(c), d) /\ (Renew(c).timer = TRUE \/ Renew(c).tries = 0)
  BY <1>4, <1>6, Tries
<1>8. Asking(c, Renew(c), s)
  BY <1>3, <1>7 DEF OneMore, Asking
<1>9. Renew(c).state = "RENEWING"
  BY <1>0, <1>8 DEF Asking
<1> QED
  BY <1>0, <1>7, <1>8, <1>9 DEF TimedAt

LEMMA RebindIs ==
  ASSUME NEW c \in Client, "REQUEST" \notin c.short, c.state = "REBINDING" => c.tries <= 8
  PROVE  Asking(c, Rebind(c), "REBINDING") /\ TimedAt(Rebind(c))
<1>0. PICK s \in Stated : s = "REBINDING"
  BY States
<1>1. c.ip \in Addr \cup {none, static} /\ SetState(c, s).ip = c.ip
  BY ClientIs, StateSet
<1>2. PICK d : d = Send(SetState(c, s), "REQUEST", c.ip)
  OBVIOUS
<1>3. Asking(c, d, s)
  BY <1>1, <1>2, Asks DEF Asking
<1>4. d.tries < 9
  <2>1. c.tries \in Int /\ (c.state # s => d.tries = 0) /\ (c.state = s => d.tries = c.tries)
    BY <1>1, <1>2, Asks, ClientIs
  <2> QED
    BY <1>0, <2>1
<1>5. Rebind(c) = TryTimes(d)
  BY <1>0, <1>1, <1>2 DEF Rebind
<1>6. d \in Client
  BY <1>3 DEF Asking
<1>7. OneMore(Rebind(c), d) /\ (Rebind(c).timer = TRUE)
  BY <1>4, <1>5, <1>6, Tries
<1>8. Asking(c, Rebind(c), s)
  BY <1>3, <1>7 DEF OneMore, Asking
<1>9. Rebind(c).state = "REBINDING"
  BY <1>0, <1>8 DEF Asking
<1> QED
  BY <1>0, <1>7, <1>8, <1>9 DEF TimedAt

LEMMA RebootIs ==
  ASSUME NEW c \in Client, c.state = "REBOOTING" => c.tries < 2
  PROVE  Reboot(c) \in Client /\ Reboot(c).state = "REBOOTING" /\ Reboot(c).timer = TRUE
<1>0. PICK s \in Stated : s = "REBOOTING"
  BY States
<1>1. c.offered \in Addr \cup {none, static} /\ SetState(c, s).offered = c.offered
  BY ClientIs, StateSet
<1>2. PICK d : d = Send(SetState(c, s), "REQUEST", c.offered)
  OBVIOUS
<1>3. d \in Client /\ d.state = s /\ d.tries < 9
  <2>1. /\ d \in Client /\ d.state = s /\ c.tries \in Int
        /\ (c.state # s => d.tries = 0) /\ (c.state = s => d.tries = c.tries)
    BY <1>1, <1>2, Asks, ClientIs
  <2> QED
    BY <1>0, <2>1
<1>4. Reboot(c) = TryTimes(d)
  BY <1>0, <1>1, <1>2 DEF Reboot
<1> QED
  BY <1>0, <1>3, <1>4, Tries DEF OneMore

LEMMA BindIs ==
  ASSUME NEW c \in Client
  PROVE  /\ Bind(c) \in Client /\ Bind(c).state = "BOUND" /\ Bind(c).ip = c.offered
         /\ Bind(c).offered = c.offered
<1>1. PICK s \in Stated : s = "BOUND"
  BY States
<1>2. PICK a : a = IF Lease(c).t1 >= Lease(c).t2 THEN 0 ELSE Lease(c).t1
  OBVIOUS
<1>3. a \in 0 .. TickMod - 1 /\ Lease(c).t2 \in 0 .. TickMod - 1
  BY <1>2, DhcpAssumption DEF Lease
<1>4. PICK b : b = Lease(c).t2
  OBVIOUS
<1> DEFINE d == [c EXCEPT !.t1 = a, !.t2 = b, !.ip = c.offered, !.up = TRUE]
<1>5. d \in Client /\ d.ip = c.offered /\ d.offered = c.offered
  BY <1>3, <1>4 DEF Client
<1>6. Bind(c) = SetState(d, s)
  BY <1>1, <1>2, <1>4 DEF Bind, Leases
<1> HIDE DEF d
<1> QED
  BY <1>1, <1>5, <1>6, StateSet

LEMMA ReleaseIs ==
  ASSUME NEW c \in Client PROVE Release(c) \in Client /\ Release(c).ip = none
<1>1. PICK s \in Stated : s = "OFF"
  BY States
<1> DEFINE b == [c EXCEPT !.offered = none, !.lease = FALSE]
           d == SetState(b, s)
           e == Send(d, "RELEASE", none)
           o == [e EXCEPT !.out = {}]
           f == Try(o)
<1>2. b \in Client
  BY DEF Client
<1>3. d \in Client
  <2> HIDE DEF b
  <2> QED BY <1>2, StateSet
<1>4. e \in Client
  <2> HIDE DEF d
  <2> QED BY <1>3, Sends, Says
<1>5. f \in Client
  <2>1. o \in Client
    <3> HIDE DEF e
    <3> QED BY <1>4 DEF Client
  <2> HIDE DEF o
  <2> QED BY <2>1, Tries DEF OneMore
<1>6. Release(c) = [f EXCEPT !.ip = none, !.up = FALSE]
  BY <1>1 DEF Release, Deconfigured
<1> HIDE DEF f
<1> QED
  BY <1>5, <1>6 DEF Client

LEMMA DeclineIs ==
  ASSUME NEW c \in Client
  PROVE  /\ Decline(c) \in Client /\ Decline(c).state = "BACKING_OFF"
         /\ Decline(c).timer = TRUE /\ Decline(c).ip = c.ip
<1>1. PICK s \in Stated : s = "BACKING_OFF"
  BY States
<1> DEFINE d == SetState(c, s)
           e == Send(d, "DECLINE", d.offered)
<1>2. d \in Client /\ d.state = s /\ d.ip = c.ip /\ d.offered = c.offered
  BY StateSet
<1>3. e \in Client /\ e.state = s /\ e.ip = c.ip
  <2>1. d.offered \in Addr \cup {none, static}
    BY <1>2, ClientIs
  <2> HIDE DEF d
  <2> QED BY <1>2, <2>1, Sends, Says
<1>4. Decline(c) = Try(e)
  BY <1>1 DEF Decline
<1> HIDE DEF e
<1> QED
  BY <1>1, <1>3, <1>4, Tries DEF OneMore

LEMMA NakIs ==
  ASSUME NEW c \in Client
  PROVE  /\ Nak(c) \in Client /\ Nak(c).state = "SELECTING"
         /\ Nak(c).timer = TRUE /\ Nak(c).ip = none
<1>1. PICK s \in Stated : s = "BACKING_OFF"
  BY States
<1> DEFINE b == [c EXCEPT !.ip = none, !.up = FALSE]
           d == SetState(b, s)
<1>2. b \in Client /\ b.ip = none
  BY DEF Client
<1>3. d \in Client /\ d.ip = none
  <2> HIDE DEF b
  <2> QED BY <1>2, StateSet
<1>4. Nak(c) = Discover(d)
  BY <1>1 DEF Nak, Deconfigured
<1> HIDE DEF d
<1> QED
  BY <1>3, <1>4, DiscoverIs

LEMMA AnsweredIs ==
  ASSUME NEW c \in Client
  PROVE  /\ Answered(c) \in Client /\ Answered(c).state = c.state /\ Answered(c).ip = c.ip
         /\ Answered(c).offered = c.offered /\ Answered(c).tries = c.tries
         /\ Answered(c).xid = c.xid /\ Answered(c).out = c.out
         /\ Answered(c).short = c.short
  BY DEF Client, Answered

-----------------------------------------------------------------------------
\* A client in a transaction to extend its lease asks for the address it has, in a new
\* transaction or in one in which it did.
Continues(c, r) ==
  r.state \in Renews => /\ r.out = {} \/ Sending(r, "REQUEST", r.ip)
                        /\ r.xid # c.xid \/ (c.state = r.state /\ c.offered = r.offered)

\* What a handler makes of client c, with the addresses g granted.
Handled(c, r, g) ==
  /\ r \in Client /\ TimedAt(r)
  /\ Leased(c, g) /\ Extends(c, net) => Leased(r, g) /\ Continues(c, r)

\* A client that has given its address up and is not about to extend a lease.
LEMMA Anew ==
  ASSUME NEW c, NEW r \in Client, NEW g, r.timer = TRUE,
         r.state \in {"SELECTING", "REQUESTING", "BACKING_OFF"},
         r.ip = none \/ (r.ip = c.ip /\ c.state \notin Renews \cup {"BOUND"})
  PROVE  Handled(c, r, g)
  BY DEF Handled, TimedAt, Leased, Continues, Renews

\* The client with no memory for some messages is the client in everything else.
Like(c, d) ==
  /\ c.state = d.state /\ c.ip = d.ip /\ c.offered = d.offered /\ c.tries = d.tries
  /\ c.timer = d.timer /\ c.xid = d.xid /\ c.up = d.up

LEMMA WithoutIs ==
  ASSUME DhcpIInv, NEW s \in SUBSET Short, NEW c, c = Without(s)
  PROVE  /\ c \in Client /\ c.out = {} /\ c.short = s /\ TimedAt(c) /\ Like(c, client)
<1>1. s \subseteq ClientSays
  BY DhcpAssumption DEF ClientSays
<1>2. client \in Client /\ client.out = {} /\ TimedAt(client)
  BY DEF DhcpIInv, DhcpTypes
<1>3. c \in Client /\ c.short = s /\ c.out = {} /\ Like(c, client)
  BY <1>1, <1>2 DEF Without, Client, Like
<1> QED
  BY <1>2, <1>3 DEF TimedAt, Like

LEMMA BecomesKeeps ==
  ASSUME DhcpIInv, NEW r, NEW left \in SUBSET net, Becomes(r, left),
         NEW c, Like(c, client), Handled(c, r, granted),
         UNCHANGED granted, moved' \in BOOLEAN, moved => moved'
  PROVE  DhcpIInv'
<1>1. r \in Client /\ TimedAt(r)
  BY DEF Handled
<1>2. client' = [r EXCEPT !.out = {}]
  BY DEF Becomes
<1>3. /\ client' \in Client /\ client'.out = {} /\ client'.state = r.state /\ client'.ip = r.ip
      /\ client'.offered = r.offered /\ client'.timer = r.timer /\ client'.tries = r.tries
      /\ client'.xid = r.xid
  BY <1>1, <1>2 DEF Client
<1>4. \A m \in net' : \/ m \in net /\ ~ (m.xid = r.xid /\ r.xid # client.xid)
                      \/ m \in r.out
  BY DEF Becomes, Old
<1>5. r.out \in SUBSET Sent
  BY <1>1, ClientIs
<1>6. \A m \in r.out : m.type # "ACK" /\ m.type # "OFFER"
  BY <1>5 DEF Sent, ClientSays
<1>7. DhcpTypes'
  BY <1>3, <1>4, <1>5, <1>6 DEF DhcpIInv, DhcpTypes
<1>8. TimedAt(client)'
  BY <1>1, <1>3 DEF TimedAt
<1>9. ASSUME ~ moved' PROVE Leased(client, granted)' /\ Extends(client, net)'
  <2>0. Leased(client, granted) /\ Extends(client, net)
    BY <1>9 DEF DhcpIInv
  <2>1. Leased(c, granted) /\ Extends(c, net) /\ Leased(r, granted) /\ Continues(c, r)
    <3>1. Leased(c, granted) /\ Extends(c, net)
      BY <2>0 DEF Like, Leased, Extends
    <3> QED
      BY <3>1 DEF Handled
  <2>2. Leased(client, granted)'
    BY <2>1, <1>3 DEF Leased
  <2>3. ASSUME NEW m \in net', r.state \in Renews, m.xid = r.xid, m.type \in {"REQUEST", "ACK"},
               m.addr \in Addr
        PROVE  m.addr = r.offered
    <3>1. CASE m \in r.out
      <4>1. m = [type |-> "REQUEST", xid |-> r.xid, addr |-> r.ip]
        BY <2>1, <2>3, <3>1 DEF Continues, Sending
      <4>2. r.ip \notin {none, static}
        BY <2>3, <4>1, DhcpAssumption
      <4> QED
        BY <2>1, <4>1, <4>2 DEF Leased
    <3>2. CASE m \in net /\ r.xid = c.xid
      BY <2>1, <2>3, <3>2 DEF Continues, Extends
    <3>3. c.xid = client.xid
      BY DEF Like
    <3> QED
      BY <1>4, <2>3, <3>1, <3>2, <3>3
  <2>4. Extends(client, net)'
    BY <1>3, <2>3 DEF Extends
  <2> QED
    BY <2>2, <2>4
<1> QED
  BY <1>7, <1>8, <1>9 DEF DhcpIInv

LEMMA Renewed ==
  ASSUME NEW c \in Client, NEW d, NEW r, NEW g, NEW s, s \in Renews, r.state = s,
         Asking(d, r, s), TimedAt(r), d.ip = c.ip, d.offered = c.offered, d.xid = c.xid,
         d.state = c.state,
         c.ip \in g => c.ip = c.offered
  PROVE  Handled(c, r, g)
<1>1. /\ r \in Client /\ r.ip = c.ip /\ r.offered = c.offered /\ Sending(r, "REQUEST", r.ip)
      /\ r.xid # c.xid \/ c.state = r.state
  BY DEF Asking
<1>2. Continues(c, r)
  BY <1>1 DEF Continues
<1>3. ASSUME Leased(c, g) PROVE Leased(r, g)
  BY <1>1, <1>3 DEF Leased, Renews
<1> QED
  BY <1>1, <1>2, <1>3 DEF Handled

LEMMA TimedOutHandled ==
  ASSUME NEW c \in Client, c.out = {}, "REQUEST" \notin c.short,
         NEW g, none \notin g, static \notin g
  PROVE  Handled(c, TimedOut(Answered(c)), g)
<1>1. PICK d : d = Answered(c)
  OBVIOUS
<1>2. /\ d \in Client /\ d.state = c.state /\ d.ip = c.ip /\ d.offered = c.offered
      /\ d.tries = c.tries /\ d.xid = c.xid /\ d.out = {} /\ "REQUEST" \notin d.short
  BY <1>1, AnsweredIs
<1>3. d.state \in Stated
  BY <1>2, ClientIs
<1>4. CASE d.state \in {"BACKING_OFF", "SELECTING"}
  <2>1. TimedOut(d) = Discover(d)
    BY <1>4 DEF TimedOut
  <2> QED
    BY <1>2, <1>4, <2>1, <1>1, DiscoverIs, Anew DEF Renews
<1>5. CASE d.state = "REQUESTING"
  <2>1. TimedOut(d) = Select(d) \/ TimedOut(d) = Discover(Release(d))
    BY <1>5 DEF TimedOut
  <2>2. Handled(c, Select(d), g)
    BY <1>2, <1>5, SelectIs, Anew DEF Renews
  <2>3. Handled(c, Discover(Release(d)), g)
    <3>1. PICK e : e = Release(d)
      OBVIOUS
    <3>2. e \in Client /\ e.ip = none
      BY <1>2, <3>1, ReleaseIs
    <3> QED
      BY <3>1, <3>2, DiscoverIs, Anew
  <2> QED
    BY <1>1, <2>1, <2>2, <2>3
<1>6. CASE d.state = "CHECKING"
  <2>1. TimedOut(d) = Check(d) \/ TimedOut(d) = Bind(d)
    BY <1>6 DEF TimedOut
  <2>2. Handled(c, Check(d), g)
    BY <1>2, <1>6, CheckIs DEF Handled, TimedAt, Leased, Continues, Renews
  <2>3. Handled(c, Bind(d), g)
    BY <1>2, <1>6, BindIs DEF Handled, TimedAt, Leased, Continues, Renews, Waiting
  <2> QED
    BY <1>1, <2>1, <2>2, <2>3
<1>7. CASE d.state = "RENEWING"
  <2>1. TimedOut(d) = Renew(d)
    BY <1>7 DEF TimedOut
  <2>2. PICK r : r = Renew(d)
    OBVIOUS
  <2>3. PICK s : s = "RENEWING"
    OBVIOUS
  <2>4. Asking(d, r, s) /\ TimedAt(r) /\ r.state = s /\ s \in Renews
    BY <1>2, <2>2, <2>3, RenewIs DEF Asking, Renews
  <2>5. Leased(c, g) => (c.ip \in g => c.ip = c.offered)
    BY DEF Leased
  <2> QED
    BY <1>1, <1>2, <2>1, <2>2, <2>4, <2>5, Renewed DEF Handled
<1>8. CASE d.state = "REBINDING"
  <2>1. CASE d.tries <= 8
    <3>1. TimedOut(d) = Rebind(d)
      BY <1>8, <2>1 DEF TimedOut
    <3>2. PICK r : r = Rebind(d)
      OBVIOUS
    <3>3. PICK s : s = "REBINDING"
      OBVIOUS
    <3>4. Asking(d, r, s) /\ TimedAt(r) /\ r.state = s /\ s \in Renews
      BY <1>2, <2>1, <3>2, <3>3, RebindIs DEF Asking, Renews
    <3>5. Leased(c, g) => (c.ip \in g => c.ip = c.offered)
      BY DEF Leased
    <3> QED
      BY <1>1, <1>2, <3>1, <3>2, <3>4, <3>5, Renewed DEF Handled
  <2>2. CASE ~ (d.tries <= 8)
    <3>1. TimedOut(d) = Discover(Release(d))
      BY <1>8, <2>2 DEF TimedOut
    <3>2. PICK e : e = Release(d)
      OBVIOUS
    <3>3. e \in Client /\ e.ip = none
      BY <1>2, <3>2, ReleaseIs
    <3> QED
      BY <1>1, <3>1, <3>2, <3>3, DiscoverIs, Anew
  <2> QED
    BY <2>1, <2>2
<1>9. CASE d.state = "REBOOTING"
  <2>1. ~ Leased(c, g)
    BY <1>2, <1>9 DEF Leased
  <2>2. CASE d.tries < 2
    <3>1. TimedOut(d) = Reboot(d)
      BY <1>9, <2>2 DEF TimedOut
    <3> QED
      BY <1>1, <1>2, <2>1, <2>2, <3>1, RebootIs DEF Handled, TimedAt
  <2>3. CASE ~ (d.tries < 2)
    <3>1. TimedOut(d) = Discover(d)
      BY <1>9, <2>3 DEF TimedOut
    <3> QED
      BY <1>1, <1>2, <2>1, <3>1, DiscoverIs DEF Handled, TimedAt
  <2> QED
    BY <2>2, <2>3
<1>10. CASE d.state \in {"OFF", "BOUND"}
  <2>1. TimedOut(d) = d
    BY <1>10 DEF TimedOut
  <2> QED
    BY <1>1, <1>2, <1>10, <2>1 DEF Handled, TimedAt, Leased, Continues, Renews, Waiting
<1> QED
  BY <1>3, <1>4, <1>5, <1>6, <1>7, <1>8, <1>9, <1>10 DEF Stated, Waiting

LEMMA CoarseTickHandled ==
  ASSUME NEW c \in Client, c.out = {}, "REQUEST" \notin c.short, TimedAt(c),
         NEW g, none \notin g, static \notin g
  PROVE  Handled(c, CoarseTick(c), g)
<1>1. /\ Before(c.t1) \in 0 .. TickMod - 1 /\ Before(c.t2) \in 0 .. TickMod - 1
  BY ClientIs, DhcpAssumption DEF Before
<1> DEFINE d == [c EXCEPT !.t2 = Before(c.t2)]
           e == [d EXCEPT !.t1 = Before(d.t1)]
<1>2. /\ d \in Client /\ d.state = c.state /\ d.ip = c.ip /\ d.offered = c.offered
      /\ d.tries = c.tries /\ d.xid = c.xid /\ d.out = {} /\ d.timer = c.timer /\ d.t1 = c.t1
      /\ d.short = c.short
  BY <1>1 DEF Client
<1>3. /\ e \in Client /\ e.state = c.state /\ e.ip = c.ip /\ e.offered = c.offered
      /\ e.tries = c.tries /\ e.xid = c.xid /\ e.out = {} /\ e.timer = c.timer
      /\ e.short = c.short
  <2>1. Before(d.t1) \in 0 .. TickMod - 1
    BY <1>1, <1>2
  <2> HIDE DEF d
  <2> QED BY <1>2, <2>1 DEF Client
<1>4. \/ CoarseTick(c) \in {d, e}
      \/ CoarseTick(c) = Rebind(d) /\ c.state \in Renewable
      \/ CoarseTick(c) = Renew(e) /\ c.state \in Renewable
  BY DEF CoarseTick
<1> HIDE DEF d, e
<1>5. Leased(c, g) => (c.ip \in g => c.ip = c.offered)
  BY DEF Leased
<1>6. Handled(c, d, g) /\ Handled(c, e, g)
  BY <1>2, <1>3 DEF Handled, TimedAt, Leased, Continues
<1>7. CASE CoarseTick(c) = Rebind(d) /\ c.state \in Renewable
  <2>1. PICK r : r = Rebind(d)
    OBVIOUS
  <2>2. PICK s : s = "REBINDING"
    OBVIOUS
  <2>3. Asking(d, r, s) /\ TimedAt(r) /\ r.state = s /\ s \in Renews
    BY <1>2, <1>7, <2>1, <2>2, RebindIs DEF Asking, Renews, Renewable
  <2> QED
    BY <1>2, <1>5, <1>7, <2>1, <2>3, Renewed DEF Handled
<1>8. CASE CoarseTick(c) = Renew(e) /\ c.state \in Renewable
  <2>1. PICK r : r = Renew(e)
    OBVIOUS
  <2>2. PICK s : s = "RENEWING"
    OBVIOUS
  <2>3. Asking(e, r, s) /\ TimedAt(r) /\ r.state = s /\ s \in Renews
    BY <1>3, <1>8, <2>1, <2>2, RenewIs DEF Asking, Renews
  <2> QED
    BY <1>3, <1>5, <1>8, <2>1, <2>3, Renewed DEF Handled
<1> QED
  BY <1>4, <1>6, <1>7, <1>8

\* An answer in the client's transaction.  An ACK for the request to extend a lease is
\* for the address that was offered.
LEMMA RecvHandled ==
  ASSUME NEW c \in Client, c.out = {}, TimedAt(c), NEW g \in SUBSET Addr, NEW m \in Replied, m \in net,
         m.type = "ACK" => m.addr \in g,
         m.type = "OFFER" => m.addr \in Addr /\ m.server = TRUE
  PROVE  Handled(c, Recv(c, m), g)
<1>0. none \notin g /\ static \notin g
  BY DhcpAssumption
<1>1. c.state \in Stated /\ m.addr \in Addr \cup {none} /\ c.ip \in Addr \cup {none, static}
  BY ClientIs DEF Replied
<1>2. Handled(c, c, g)
  BY DEF Handled, Continues
<1>3. CASE Expected(c, m) /\ m.type = "ACK" /\ c.state = "REQUESTING"
  <2> DEFINE d == [c EXCEPT !.lease = TRUE, !.offered = m.addr]
  <2>1. d \in Client /\ d.ip = c.ip /\ d.offered = m.addr
    BY <1>1 DEF Client
  <2>2. Recv(c, m) = Check(d)
    BY <1>3 DEF Recv
  <2> HIDE DEF d
  <2>3. /\ Check(d) \in Client /\ Check(d).state = "CHECKING" /\ Check(d).timer = TRUE
        /\ Check(d).ip = c.ip /\ Check(d).offered = m.addr
    BY <2>1, CheckIs
  <2> QED
    BY <1>0, <1>3, <2>2, <2>3 DEF Handled, TimedAt, Leased, Continues, Renews
<1>4. CASE Expected(c, m) /\ m.type = "ACK" /\ c.state \in {"REBOOTING", "REBINDING", "RENEWING"}
  <2>1. Recv(c, m) = Bind(c)
    BY <1>4 DEF Recv
  <2>2. /\ Bind(c) \in Client /\ Bind(c).state = "BOUND" /\ Bind(c).ip = c.offered
        /\ Bind(c).offered = c.offered
    BY BindIs
  <2>3. ASSUME Leased(c, g), Extends(c, net) PROVE c.offered \in g
    <3>1. c.state \in Renews /\ m.addr \in g /\ m.addr \in Addr
      BY <1>4, <2>3 DEF Leased, Renews
    <3> QED
      BY <1>4, <2>3, <3>1 DEF Expected, Extends
  <2>4. TimedAt(Bind(c))
    BY <2>2 DEF TimedAt, Waiting
  <2>5. ASSUME Leased(c, g), Extends(c, net) PROVE Leased(Bind(c), g)
    BY <2>2, <2>3, <2>5 DEF Leased
  <2>6. Continues(c, Bind(c))
    BY <2>2 DEF Continues, Renews
  <2> QED
    BY <2>1, <2>2, <2>4, <2>5, <2>6 DEF Handled
<1>5. CASE Recv(c, m) = Nak(c)
  BY <1>5, NakIs, Anew
<1>6. CASE m.type = "OFFER" /\ Expected(c, m) /\ c.state = "SELECTING"
  <2> DEFINE d == [Answered(c) EXCEPT !.offered = m.addr]
  <2>1. d \in Client /\ d.ip = c.ip
    BY <1>1, AnsweredIs DEF Client
  <2>2. Recv(c, m) = Select(d)
    BY <1>6 DEF Recv, Offer
  <2> HIDE DEF d
  <2> QED
    BY <1>6, <2>1, <2>2, SelectIs, Anew, ZenonT(60) DEF Renews
<1>7. \/ Expected(c, m) /\ m.type = "ACK" /\ c.state = "REQUESTING"
      \/ Expected(c, m) /\ m.type = "ACK" /\ c.state \in {"REBOOTING", "REBINDING", "RENEWING"}
      \/ Recv(c, m) = Nak(c)
      \/ m.type = "OFFER" /\ Expected(c, m) /\ c.state = "SELECTING"
      \/ Recv(c, m) = c
  BY DEF Recv
<1> QED
  BY <1>2, <1>3, <1>4, <1>5, <1>6, <1>7

LEMMA NetworkChangedHandled ==
  ASSUME NEW c \in Client
  PROVE  NetworkChanged(c) \in Client /\ TimedAt(NetworkChanged(c))
<1> DEFINE d == [c EXCEPT !.up = FALSE, !.tries = 0]
           e == [c EXCEPT !.tries = 0]
<1>1. d \in Client /\ d.tries = 0 /\ e \in Client
  BY DhcpAssumption, 0 \in 0 .. TryMod - 1 DEF Client
<1>2. \/ NetworkChanged(c) = Reboot(d) \/ NetworkChanged(c) = Discover(e)
      \/ NetworkChanged(c) = c /\ c.state = "OFF"
  BY DEF NetworkChanged
<1> HIDE DEF d, e
<1>3. Reboot(d) \in Client /\ TimedAt(Reboot(d))
  <2>1. PICK r : r = Reboot(d)
    OBVIOUS
  <2>2. PICK b \in Client : b = d
    BY <1>1
  <2>3. b.tries < 2
    BY <1>1, <2>2
  <2>4. r \in Client /\ r.timer = TRUE
    BY <2>1, <2>2, <2>3, RebootIs
  <2> QED
    BY <2>1, <2>4 DEF TimedAt
<1>4. Discover(e) \in Client /\ TimedAt(Discover(e))
  BY <1>1, DiscoverIs DEF TimedAt
<1>5. c.state = "OFF" => TimedAt(c)
  BY DEF TimedAt, Waiting
<1> QED
  BY <1>2, <1>3, <1>4, <1>5

LEMMA DhcpInitKeeps == ASSUME DhcpInit PROVE DhcpIInv
<1>1. PICK s \in SUBSET (Short \cap {"DISCOVER"}) :
        /\ client = [Start([Fresh EXCEPT !.short = s]) EXCEPT !.out = {}]
        /\ net = Start([Fresh EXCEPT !.short = s]).out
  BY DEF DhcpInit
<1>2. PICK f : f = [Fresh EXCEPT !.short = s]
  OBVIOUS
<1>3. f \in Client /\ f.ip = none
  BY <1>2, DhcpAssumption, 0 \in 0 .. TryMod - 1, 0 \in 0 .. Xids - 1, 0 \in 0 .. TickMod - 1
  DEF Fresh, Client, Stated, ClientSays
<1>4. PICK r : r = Start(f)
  OBVIOUS
<1>5. /\ r \in Client /\ r.ip = none
      /\ (r.state = "SELECTING" /\ r.timer = TRUE) \/ r.state = "OFF"
  <2>1. PICK d : d = Discover(f)
    OBVIOUS
  <2>2. d \in Client /\ d.state = "SELECTING" /\ d.timer = TRUE /\ d.ip = none
    BY <1>3, <2>1, DiscoverIs
  <2>3. PICK off \in Stated : off = "OFF"
    BY States
  <2>4. PICK e : e = SetState(d, off)
    OBVIOUS
  <2>5. e \in Client /\ e.state = off /\ e.ip = none
    BY <2>2, <2>4, StateSet
  <2>6. r = d \/ r = e
    BY <1>4, <2>1, <2>3, <2>4 DEF Start
  <2> QED
    BY <2>2, <2>3, <2>5, <2>6
<1>6. client = [r EXCEPT !.out = {}] /\ net = r.out /\ granted = {} /\ moved = FALSE
  BY <1>1, <1>2, <1>4 DEF DhcpInit
<1>7. /\ client \in Client /\ client.out = {} /\ client.state = r.state
      /\ client.timer = r.timer /\ client.ip = none
  BY <1>5, <1>6 DEF Client
<1>8. net \in SUBSET Sent
  BY <1>5, <1>6, ClientIs
<1>9. DhcpTypes
  BY <1>6, <1>7, <1>8 DEF DhcpTypes, Sent, ClientSays
<1> QED
  BY <1>5, <1>6, <1>7, <1>9 DEF DhcpIInv, TimedAt, Leased, Extends, Renews, Waiting

LEMMA RecvKeeps ==
  ASSUME {TRUE} = OfferServer, DhcpIInv, NEW m \in net, dhcp_recv(m) PROVE DhcpIInv'
<1>1. /\ granted \in SUBSET Addr
      /\ m \in Sent \cup Replied /\ (m.type = "ACK" => m.addr \in granted)
      /\ (m.type = "OFFER" => m.addr \in Addr /\ m.server \in OfferServer)
      /\ moved \in BOOLEAN
  BY DEF DhcpIInv, DhcpTypes
<1>2. m \in Replied
  BY <1>1 DEF dhcp_recv, Sent, ClientSays
<1>3. PICK s \in SUBSET Short : Becomes(Recv(Without(s), m), net \ {m})
  BY DEF dhcp_recv
<1>4. m.type = "OFFER" => m.addr \in Addr /\ m.server = TRUE
  BY <1>1
<1>5. PICK c : c = Without(s)
  OBVIOUS
<1>6. c \in Client /\ c.out = {} /\ TimedAt(c) /\ Like(c, client)
  BY <1>5, WithoutIs
<1>7. Handled(c, Recv(c, m), granted)
  BY <1>1, <1>2, <1>4, <1>6, RecvHandled
<1>8. granted' = granted /\ moved' = moved
  BY DEF dhcp_recv
<1> QED
  BY <1>1, <1>3, <1>5, <1>6, <1>7, <1>8, BecomesKeeps

LEMMA FineTmrKeeps ==
  ASSUME DhcpIInv, "REQUEST" \notin Short, dhcp_fine_tmr PROVE DhcpIInv'
<1>1. granted \subseteq Addr /\ moved \in BOOLEAN
  BY DEF DhcpIInv, DhcpTypes
<1>2. PICK s \in SUBSET Short : Becomes(TimedOut(Answered(Without(s))), net)
  BY DEF dhcp_fine_tmr
<1>3. PICK c : c = Without(s)
  OBVIOUS
<1>4. c \in Client /\ c.out = {} /\ "REQUEST" \notin c.short /\ Like(c, client)
  BY <1>3, WithoutIs
<1>5. Handled(c, TimedOut(Answered(c)), granted)
  BY <1>1, <1>4, TimedOutHandled, DhcpAssumption
<1>6. granted' = granted /\ moved' = moved
  BY DEF dhcp_fine_tmr
<1> QED
  BY <1>1, <1>2, <1>3, <1>4, <1>5, <1>6, BecomesKeeps

LEMMA CoarseTmrKeeps ==
  ASSUME DhcpIInv, "REQUEST" \notin Short, dhcp_coarse_tmr PROVE DhcpIInv'
<1>1. granted \subseteq Addr /\ moved \in BOOLEAN
  BY DEF DhcpIInv, DhcpTypes
<1>2. PICK s \in SUBSET Short : Becomes(CoarseTick(Without(s)), net)
  BY DEF dhcp_coarse_tmr
<1>3. PICK c : c = Without(s)
  OBVIOUS
<1>4. c \in Client /\ c.out = {} /\ "REQUEST" \notin c.short /\ TimedAt(c) /\ Like(c, client)
  BY <1>3, WithoutIs
<1>5. Handled(c, CoarseTick(c), granted)
  BY <1>1, <1>4, CoarseTickHandled, DhcpAssumption
<1>6. granted' = granted /\ moved' = moved
  BY DEF dhcp_coarse_tmr
<1> QED
  BY <1>1, <1>2, <1>3, <1>4, <1>5, <1>6, BecomesKeeps

LEMMA ArpReplyKeeps == ASSUME DhcpIInv, dhcp_arp_reply PROVE DhcpIInv'
<1>1. client.state = "CHECKING" /\ moved \in BOOLEAN
  BY DEF DhcpIInv, DhcpTypes, dhcp_arp_reply
<1>2. PICK s \in SUBSET Short : Becomes(Decline(Without(s)), net)
  BY DEF dhcp_arp_reply
<1>3. PICK c : c = Without(s)
  OBVIOUS
<1>4. c \in Client /\ Like(c, client) /\ c.state = "CHECKING"
  BY <1>1, <1>3, WithoutIs DEF Like
<1>5. Handled(c, Decline(c), granted)
  BY <1>4, DeclineIs, Anew DEF Renews
<1>6. granted' = granted /\ moved' = moved
  BY DEF dhcp_arp_reply
<1> QED
  BY <1>1, <1>2, <1>3, <1>4, <1>5, <1>6, BecomesKeeps

\* After a change of the network nothing is claimed of the address, only of the timer.
LEMMA NetworkChangedKeeps == ASSUME DhcpIInv, dhcp_network_changed PROVE DhcpIInv'
<1>1. PICK s \in SUBSET Short : Becomes(NetworkChanged(Without(s)), net)
  BY DEF dhcp_network_changed
<1>2. PICK c : c = Without(s)
  OBVIOUS
<1>3. PICK r : r = NetworkChanged(c)
  OBVIOUS
<1>4. r \in Client /\ TimedAt(r)
  BY <1>2, <1>3, WithoutIs, NetworkChangedHandled
<1>5. Becomes(r, net)
  BY <1>1, <1>2, <1>3
<1>6. granted' = granted /\ moved' = TRUE
  BY DEF dhcp_network_changed
<1>7. /\ client' \in Client /\ client'.out = {} /\ client'.state = r.state
      /\ client'.timer = r.timer /\ client'.tries = r.tries
  BY <1>4, <1>5 DEF Becomes, Client
<1>8. r.out \in SUBSET Sent
  BY <1>4, ClientIs
<1>9. net' \subseteq net \cup r.out
  BY <1>5 DEF Becomes
<1>10. DhcpTypes'
  BY <1>6, <1>7, <1>8, <1>9 DEF DhcpIInv, DhcpTypes, Sent, ClientSays
<1> QED
  BY <1>4, <1>6, <1>7, <1>10 DEF DhcpIInv, TimedAt

LEMMA AnswersKeeps == ASSUME DhcpIInv, NEW m \in net, Answers(m) PROVE DhcpIInv'
<1>1. /\ client \in Client /\ client.out = {} /\ net \subseteq Sent \cup Replied
      /\ granted \subseteq Addr /\ moved \in BOOLEAN /\ TimedAt(client)
      /\ \A x \in net : /\ x.type = "ACK" => x.addr \in granted
                        /\ x.type = "OFFER" => x.addr \in Addr /\ x.server \in OfferServer
      /\ m.xid \in 0 .. Xids - 1
  BY DEF DhcpIInv, DhcpTypes, Sent, Replied
<1>2. UNCHANGED <<client, moved>>
  BY DEF Answers
\* An ACK is for the address of the request.
<1>3. /\ granted \subseteq granted' /\ granted' \subseteq Addr
      /\ \A x \in net' : \/ x \in net
                         \/ /\ x \in Replied /\ x.xid = m.xid /\ x.type = "ACK"
                            /\ x.addr = m.addr /\ m.type = "REQUEST" /\ x.addr \in granted'
                         \/ x \in Replied /\ x.type = "NAK"
                         \/ /\ x \in Replied /\ x.type = "OFFER" /\ x.addr \in Addr
                            /\ x.server \in OfferServer
  <2>1. CASE \E a \in Addr, server \in OfferServer : Reply(m, "OFFER", a, server) /\ UNCHANGED granted
    BY <1>1, <2>1, DhcpAssumption DEF Reply, Replied
  <2>2. CASE /\ m.type = "REQUEST" /\ m.addr \in Addr /\ Reply(m, "ACK", m.addr, TRUE)
             /\ granted' = granted \cup {m.addr}
    <3>1. PICK y : y = [type |-> "ACK", xid |-> m.xid, addr |-> m.addr, server |-> TRUE]
      OBVIOUS
    <3>2. y \in Replied /\ y.xid = m.xid /\ y.type = "ACK" /\ y.addr = m.addr
      BY <1>1, <2>2, <3>1 DEF Replied
    <3>3. net' = (net \ {m}) \cup {y}
      BY <2>2, <3>1 DEF Reply
    <3> QED
      BY <1>1, <2>2, <3>2, <3>3
  <2>3. CASE Reply(m, "NAK", none, TRUE) /\ UNCHANGED granted
    <3>1. PICK y : y = [type |-> "NAK", xid |-> m.xid, addr |-> none, server |-> TRUE]
      OBVIOUS
    <3>2. y \in Replied /\ y.type = "NAK"
      BY <1>1, <3>1 DEF Replied
    <3>3. net' = (net \ {m}) \cup {y}
      BY <2>3, <3>1 DEF Reply
    <3> QED
      BY <1>1, <2>3, <3>2, <3>3
  <2>4. CASE net' = net \ {m} /\ UNCHANGED granted
    BY <1>1, <2>4
  <2> QED
    BY <2>1, <2>2, <2>3, <2>4 DEF Answers
<1>4. DhcpTypes'
  BY <1>1, <1>2, <1>3 DEF DhcpTypes
<1>5. ASSUME ~ moved PROVE Leased(client, granted)' /\ Extends(client, net)'
  <2>1. Leased(client, granted) /\ Extends(client, net)
    BY <1>5 DEF DhcpIInv
  <2>2. Leased(client, granted)'
    BY <2>1, <1>2, <1>3 DEF Leased
  <2>3. Extends(client, net)'
    BY <2>1, <1>2, <1>3 DEF Extends
  <2> QED
    BY <2>2, <2>3
<1> QED
  BY <1>1, <1>2, <1>4, <1>5 DEF DhcpIInv, TimedAt

LEMMA TaskKeeps == ASSUME DhcpIInv, lwip_dhcp_task PROVE DhcpIInv'
<1>1. UNCHANGED <<net, granted, moved>>
  BY DEF lwip_dhcp_task
\* The address may have come since the task read it.
<1>2. CASE UNCHANGED client
  BY <1>1, <1>2 DEF DhcpIInv, DhcpTypes, TimedAt, Leased, Extends
<1>3. CASE client' = [client EXCEPT !.ip = static]
  <2>1. client \in Client
    BY DEF DhcpIInv, DhcpTypes
  <2>2. /\ client' \in Client /\ client'.ip = static /\ client'.state = client.state
        /\ client'.timer = client.timer /\ client'.tries = client.tries
        /\ client'.offered = client.offered /\ client'.xid = client.xid
        /\ client'.out = client.out
    BY <1>3, <2>1 DEF Client
  <2>3. DhcpTypes' /\ TimedAt(client)'
    BY <1>1, <2>2 DEF DhcpIInv, DhcpTypes, TimedAt
  <2>4. ASSUME ~ moved PROVE Leased(client, granted)' /\ Extends(client, net)'
    BY <1>1, <1>3, <2>2, <2>4, DhcpAssumption DEF DhcpIInv, Leased, Extends
  <2> QED
    BY <1>1, <2>3, <2>4 DEF DhcpIInv
<1> QED
  BY <1>2, <1>3 DEF lwip_dhcp_task, ReadsAddress, ReadsTries, WritesStatic

LEMMA NetworkKeeps ==
  ASSUME DhcpIInv, Fails \/ Works \/ UNCHANGED dhcpVars PROVE DhcpIInv'
<1>1. UNCHANGED <<client, granted, moved>> /\ net' \subseteq net
  BY DEF Fails, Works, dhcpVars
<1> QED
  BY <1>1 DEF DhcpIInv, DhcpTypes, TimedAt, Leased, Extends

\* An interface that is up has an address that was granted, or the static one, as long as
\* the network stays the same; and a client that waits has a timer (dhcp.c:1062, 1609).
\* The servers put their identifier into offers, without which dhcp_handle_offer stops
\* the timer and asks nobody.  There may be no memory for any message but a request: a
\* first message that is not sent begins no transaction (dhcp.c:1665-1674), and without
\* memory for a RELEASE, a DISCOVER and two requests in turn an ACK for one address binds
\* the next one that is offered.
THEOREM LeaseCorrect ==
  ASSUME OfferServer = {TRUE}, "REQUEST" \notin Short PROVE DhcpSpec => []DhcpInv
<1>1. DhcpInit => DhcpIInv
  BY DhcpInitKeeps
<1>2. DhcpIInv /\ [DhcpNext]_dhcpVars => DhcpIInv'
  <2> SUFFICES ASSUME DhcpIInv, [DhcpNext]_dhcpVars PROVE DhcpIInv'
    OBVIOUS
  <2>1. CASE Delivers
    BY <2>1, AnswersKeeps, RecvKeeps DEF Delivers
  <2>2. CASE dhcp_fine_tmr
    BY <2>2, FineTmrKeeps
  <2>3. CASE dhcp_coarse_tmr
    BY <2>3, CoarseTmrKeeps
  <2>4. CASE dhcp_network_changed
    BY <2>4, NetworkChangedKeeps
  <2>5. CASE dhcp_arp_reply
    BY <2>5, ArpReplyKeeps
  <2>6. CASE lwip_dhcp_task
    BY <2>6, TaskKeeps
  <2>7. CASE Fails \/ Works \/ UNCHANGED dhcpVars
    BY <2>7, NetworkKeeps
  <2> QED
    BY <2>1, <2>2, <2>3, <2>4, <2>5, <2>6, <2>7 DEF DhcpNext
<1>3. DhcpIInv => DhcpInv
  BY DEF DhcpIInv, DhcpInv, OnlyGranted, Timed, TimedAt, Leased
<1> QED
  BY <1>1, <1>2, <1>3, PTL DEF DhcpSpec
=============================================================================
