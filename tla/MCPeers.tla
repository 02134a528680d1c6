------------------------------- MODULE MCPeers ------------------------------
(* The protocols that agree on something with a peer over a link that loses   *)
(* packets: PPP and DHCP, each on its own, in one run.  The variables of the  *)
(* one that is not looked at keep their first values.                         *)
EXTENDS PppFsm, Dhcp

VARIABLE protocol

PeersInit ==
  /\ protocol \in {"ppp", "dhcp"}
  /\ DhcpInit /\ PppInit
  /\ protocol = "dhcp" => \A e \in End : fsm[e].want = "fine"
  /\ protocol = "ppp" => client.state # "OFF"

PeersNext ==
  /\ UNCHANGED protocol
  /\ \/ protocol = "ppp" /\ PppNext /\ UNCHANGED dhcpVars
     \/ protocol = "dhcp" /\ DhcpNext /\ UNCHANGED pppVars

\* The fairness of Dhcp.
PeersSpec ==
  /\ PeersInit /\ [][PeersNext]_<<protocol, pppVars, dhcpVars>>
  /\ WF_dhcpVars(protocol = "dhcp" /\ Delivers)
  /\ WF_dhcpVars(protocol = "dhcp" /\ dhcp_fine_tmr)
  /\ WF_dhcpVars(protocol = "dhcp" /\ dhcp_coarse_tmr)

\* The client is bound again and again (Dhcp).
ClientBoundAgain == protocol = "dhcp" => BoundAgain
=============================================================================
