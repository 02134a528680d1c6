------------------------------- MODULE MCStack -------------------------------
(* The parts of lwIP that do not share state, each on its own, in one run: a  *)
(* behaviour is one of one part, and all other variables keep their first     *)
(* values.  PPP is an instance, the others are extended.                        *)
EXTENDS LwipTimers, EtherArp, Igmp, IpReass

CONSTANTS ip_reass_timer, arp_timer, h,          \* timers
          a1, a2, a3, x1, x2,                    \* ARP
          d1, d2, d3,                            \* reassembly
          g1, g2, all,                           \* IGMP
          e1, e2                                 \* PPP

VARIABLES
  part,
  fsm, link, trouble

pppVars == <<fsm, link, trouble>>

-----------------------------------------------------------------------------
\* Datagrams of three blocks, cut in several ways; two of them at a time.
Piece(first, last) == [start |-> first, end |-> last]
Cuts == {Piece(0, 1), Piece(1, 2), Piece(2, 3), Piece(0, 2), Piece(1, 3)}

\* Two ends that are disturbed once; MCPeers disturbs them twice.
Ppp == INSTANCE PppFsm WITH
  End <- {e1, e2}, Ids <- 4, MaxConf <- 2, MaxTerm <- 1, MaxNak <- 1, MaxTrouble <- 1

ASSUME PartsAssumption == Ppp!PppAssumption

-----------------------------------------------------------------------------
StackInit ==
  /\ part \in {"timers", "arp", "reass", "igmp", "ppp"}
  /\ Init /\ ArpInit /\ ReassInit /\ IgmpInit /\ Ppp!PppInit
  /\ part # "ppp" => \A e \in {e1, e2} : fsm[e].want = "fine"

StackNext ==
  /\ UNCHANGED part
  /\ IF part = "timers" THEN Next ELSE UNCHANGED vars
  /\ IF part = "arp" THEN ArpNext ELSE UNCHANGED arpVars
  /\ IF part = "reass" THEN ReassNext ELSE UNCHANGED reassVars
  /\ IF part = "igmp" THEN IgmpNext ELSE UNCHANGED igmpVars
  /\ IF part = "ppp" THEN Ppp!PppNext ELSE UNCHANGED pppVars

StackSpec ==
  /\ StackInit
  /\ [][StackNext]_<<part, vars, arpVars, reassVars, igmpVars, pppVars>>
  /\ WF_vars(part = "timers" /\ Fetch)
  /\ WF_(arpVars)(part = "arp" /\ etharp_tmr)
  /\ WF_(reassVars)(part = "reass" /\ ip_reass_tmr)
  /\ \A e \in {e1, e2} : WF_(pppVars)(part = "ppp" /\ Ppp!fsm_input(e))
                        /\ SF_(pppVars)(part = "ppp" /\ Ppp!fsm_timeout(e))

-----------------------------------------------------------------------------
(* The properties of the parts (see their modules).                        *)

NegotiationEnds == part = "ppp" => Ppp!NegotiationEnds
=============================================================================
