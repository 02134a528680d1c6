-------------------------------- MODULE MCNic -------------------------------
(* The Ethernet controller with its driver, and the network interface over    *)
(* what FramePath says of them, each on its own in one run: the variables of  *)
(* the one that is not looked at keep their first values.                     *)
EXTENDS Enc28j60, EthernetIf, TLC

\* A short frame for the stack; one of two units and two pbufs for it, which is too
\* long to be sent; one of another type, which the ring has no room for; a damaged one.
CONSTANTS ip, big, other, dmg, t1
VARIABLE layer

MCSize == (ip :> 1) @@ (big :> 2) @@ (other :> 4) @@ (dmg :> 3)
MCPbufs == (ip :> 1) @@ (big :> 2) @@ (other :> 1) @@ (dmg :> 1)

NicInit == layer \in {"driver", "interface"} /\ Init /\ IfInit

NicNext ==
  /\ UNCHANGED layer
  /\ IF layer = "driver" THEN Next ELSE UNCHANGED vars
  /\ IF layer = "interface" THEN IfNext ELSE UNCHANGED ifVars

\* The fairness of Enc28j60 and of EthernetIf.
NicSpec ==
  /\ NicInit /\ [][NicNext]_<<layer, vars, ifVars>>
  /\ WF_vars(layer = "driver" /\ Step) /\ WF_vars(layer = "driver" /\ (TxDone \/ TxFail))
  /\ SF_ifVars(layer = "interface" /\ InputTask)
  /\ SF_ifVars(layer = "interface" /\ TcpipThread)
  /\ SF_ifVars(layer = "interface" /\ Release)
  /\ SF_ifVars(layer = "interface" /\ SendStep(t1))
  /\ WF_ifVars(layer = "interface" /\ SendEnds)
=============================================================================
