----------------------------- MODULE EthernetIf -----------------------------
(***************************************************************************)
(* The network interface (lwip1.4/src/netif/ethernetif.c) between the      *)
(* driver, used through what FramePath says of it, and tcpip_thread:       *)
(*   - LwipInputTask polls process_mac, which copies each frame into a     *)
(*     chain of pool pbufs and posts it in a message to tcpip_thread;      *)
(*   - tcpip_thread hands the chain to the stack, which frees it or keeps  *)
(*     it (a socket's mailbox, IP reassembly, the ARP table) for a while;  *)
(*   - threads that send copy a frame, piece by piece, into MySendbuf and  *)
(*     then enter a critical section for the driver.                       *)
(* The order of the threads is left open: priorities are configuration.    *)
(***************************************************************************)
EXTENDS Frames, Integers, Sequences, FiniteSets, Functions

CONSTANTS
  Stack,                \* the frames of type IP or ARP
  Long,                 \* the frames longer than MySendbuf
  Pbufs,                \* frame -> the pool pbufs it needs
  PoolSize,             \* PBUF_POOL_SIZE
  MsgSize,              \* MEMP_NUM_TCPIP_MSG_INPKT
  MboxSize,             \* MAX_QUEUE_ENTRIES
  MaxRx,                \* bound: the frames the controller's ring has room for
  Sender                \* the threads that send

ASSUME IfAssumption ==
  /\ Bad \subseteq Frame /\ Stack \subseteq Frame /\ Long \subseteq Frame
  /\ NoFrame \notin Frame /\ IsFiniteSet(Frame)
  /\ PoolSize \in Nat /\ MsgSize \in Nat /\ MboxSize \in Nat /\ MaxRx \in Nat
  /\ Pbufs \in [Frame -> Nat \ {0}]

VARIABLES
  air, rxq, MyRecvbuf,  \* the driver, and what it has received
  ipc,                  \* where LwipInputTask is
  chain,                \* the pbufs it holds
  inMsg,                \* TRUE while it holds a message
  mbox,                 \* the frames in tcpip_thread's mailbox, oldest first
  tpc, tframe,          \* tcpip_thread and the frame of its message
  kept,                 \* how many frames of each kind the stack keeps
  freePbufs, freeMsgs,  \* lengths of the two free lists in memp_tab
  MySendbuf,            \* the two pieces of the send buffer
  spc, want, copied     \* each sender's place, frame and pieces copied

nic   == <<air, rxq, MyRecvbuf>>
input == <<ipc, chain, inMsg>>
tcpip == <<tpc, tframe, kept>>
pools == <<freePbufs, freeMsgs>>
send  == <<MySendbuf, spc, want, copied>>
ifVars == <<nic, input, mbox, tcpip, pools, send>>

Nic == INSTANCE FramePath WITH packet <- MyRecvbuf

IfInit ==
  /\ Nic!Init
  /\ ipc = "sleep" /\ chain = 0 /\ inMsg = FALSE
  /\ mbox = <<>> /\ tpc = "fetch" /\ tframe = NoFrame
  /\ kept = [f \in Frame |-> 0]
  /\ freePbufs = PoolSize /\ freeMsgs = MsgSize
  /\ MySendbuf = <<NoFrame, NoFrame>>
  /\ spc = [s \in Sender |-> "idle"]
  /\ want = [s \in Sender |-> NoFrame]
  /\ copied = [s \in Sender |-> 0]

\* A thread runs: nobody is in the driver with interrupts off.
Runs == \A s \in Sender : spc[s] # "driver"

-----------------------------------------------------------------------------
(* The controller.                                                         *)

FrameArrives(f) == Len(rxq) < MaxRx /\ Nic!Accept(f) /\ UNCHANGED <<input, mbox, tcpip, pools, send>>
SendEnds == Nic!EndSend /\ UNCHANGED <<input, mbox, tcpip, pools, send>>

-----------------------------------------------------------------------------
(* LwipInputTask: process_mac, ethernetif_input, PacketReceive.            *)

\* OSTimeDly(2) is over.
Poll ==
  /\ ipc = "sleep" /\ Runs
  /\ ipc' = "read"
  /\ UNCHANGED <<nic, chain, inMsg, mbox, tcpip, pools, send>>

\* No frame, or a damaged one: process_mac's loop is over.
Read ==
  /\ ipc = "read" /\ Runs
  /\ IF rxq = <<>> THEN Nic!Forget ELSE Nic!Receive
  /\ ipc' = IF MyRecvbuf' = NoFrame THEN "sleep" ELSE "alloc"
  /\ UNCHANGED <<chain, inMsg, mbox, tcpip, pools, send>>

\* pbuf_alloc takes one pbuf after the other.  If the pool runs out it frees the
\* ones it has, the frame is lost, and the loop is over.
Leaked == freePbufs                                                \* mutants
FreedTwice == freePbufs + 2 * chain
PbufsAfterFail == freePbufs + chain
Alloc ==
  /\ ipc = "alloc" /\ Runs
  /\ \/ /\ freePbufs > 0
        /\ freePbufs' = freePbufs - 1
        /\ chain' = chain + 1
        /\ ipc' = IF chain + 1 = Pbufs[MyRecvbuf] THEN "type" ELSE "alloc"
     \/ /\ freePbufs = 0
        /\ freePbufs' = PbufsAfterFail
        /\ chain' = 0
        /\ ipc' = "sleep"
  /\ UNCHANGED <<nic, inMsg, mbox, tcpip, freeMsgs, send>>

\* ethernetif_input looks at the type of the frame.
Type ==
  /\ ipc = "type" /\ Runs
  /\ ipc' = IF MyRecvbuf \in Stack THEN "input" ELSE "drop"
  /\ UNCHANGED <<nic, chain, inMsg, mbox, tcpip, pools, send>>

\* tcpip_input: a message from its pool, ERR_MEM if there is none.
Input ==
  /\ ipc = "input" /\ Runs
  /\ \/ freeMsgs > 0 /\ freeMsgs' = freeMsgs - 1 /\ inMsg' = TRUE /\ ipc' = "post"
     \/ freeMsgs = 0 /\ ipc' = "drop" /\ UNCHANGED <<freeMsgs, inMsg>>
  /\ UNCHANGED <<nic, chain, mbox, tcpip, freePbufs, send>>

\* sys_mbox_trypost: a full mailbox gives the message back, and ERR_MEM.
MsgLeaked == freeMsgs                                              \* mutant
MsgsAfterFail == freeMsgs + 1
Post ==
  /\ ipc = "post" /\ Runs
  /\ inMsg' = FALSE
  /\ \/ /\ Len(mbox) < MboxSize
        /\ mbox' = Append(mbox, MyRecvbuf)
        /\ chain' = 0
        /\ ipc' = "read"
        /\ UNCHANGED freeMsgs
     \/ /\ Len(mbox) = MboxSize
        /\ freeMsgs' = MsgsAfterFail
        /\ ipc' = "drop"
        /\ UNCHANGED <<mbox, chain>>
  /\ UNCHANGED <<nic, tcpip, freePbufs, send>>

\* pbuf_free of a frame that did not get to tcpip_thread; the loop goes on.
Drop ==
  /\ ipc = "drop" /\ Runs
  /\ freePbufs' = freePbufs + chain
  /\ chain' = 0
  /\ ipc' = "read"
  /\ UNCHANGED <<nic, inMsg, mbox, tcpip, freeMsgs, send>>

-----------------------------------------------------------------------------
(* tcpip_thread.                                                           *)

Fetch ==
  /\ tpc = "fetch" /\ mbox # <<>> /\ Runs
  /\ tframe' = Head(mbox)
  /\ mbox' = Tail(mbox)
  /\ tpc' = "input"
  /\ UNCHANGED <<nic, input, kept, pools, send>>

\* ethernet_input: the stack is done with the frame, or keeps it.
EthernetInput ==
  /\ tpc = "input" /\ Runs
  /\ \/ freePbufs' = freePbufs + Pbufs[tframe] /\ UNCHANGED kept
     \/ kept' = [kept EXCEPT ![tframe] = @ + 1] /\ UNCHANGED freePbufs
  /\ tpc' = "free"
  /\ UNCHANGED <<nic, input, mbox, tframe, freeMsgs, send>>

FreeMsg ==
  /\ tpc = "free" /\ Runs
  /\ freeMsgs' = freeMsgs + 1
  /\ tframe' = NoFrame
  /\ tpc' = "fetch"
  /\ UNCHANGED <<nic, input, mbox, kept, freePbufs, send>>

\* The socket reads a frame, or the reassembly or ARP timer gives one up.
Release ==
  /\ Runs
  /\ \E f \in Frame :
       /\ kept[f] > 0
       /\ kept' = [kept EXCEPT ![f] = @ - 1]
       /\ freePbufs' = freePbufs + Pbufs[f]
  /\ UNCHANGED <<nic, input, mbox, tpc, tframe, freeMsgs, send>>

-----------------------------------------------------------------------------
(* low_level_output, PacketSend.                                           *)

Output(s) ==
  /\ spc[s] = "idle" /\ Runs
  /\ \E f \in Frame \ Bad : want' = [want EXCEPT ![s] = f]
  /\ spc' = [spc EXCEPT ![s] = "copy"]
  /\ UNCHANGED <<nic, input, mbox, tcpip, pools, MySendbuf, copied>>

\* One memcpy, to where the one before it ended.
StartOfBuf(s) == 1                                                 \* mutant
EndOfCopied(s) == copied[s] + 1
Copy(s) ==
  /\ spc[s] = "copy" /\ copied[s] < 2 /\ Runs
  /\ MySendbuf' = [MySendbuf EXCEPT ![EndOfCopied(s)] = want[s]]
  /\ copied' = [copied EXCEPT ![s] = @ + 1]
  /\ UNCHANGED <<nic, input, mbox, tcpip, pools, spc, want>>

\* All pieces are copied.  The length was tested after each of them: a frame that
\* is too long ends in ERR_BUF, the others in the critical section.
Copied(s) ==
  /\ spc[s] = "copy" /\ copied[s] = 2 /\ Runs
  /\ copied' = [copied EXCEPT ![s] = 0]
  /\ IF want[s] \in Long
       THEN /\ spc' = [spc EXCEPT ![s] = "idle"]
            /\ want' = [want EXCEPT ![s] = NoFrame]
       ELSE /\ spc' = [spc EXCEPT ![s] = "driver"]
            /\ UNCHANGED want
  /\ UNCHANGED <<nic, input, mbox, tcpip, pools, MySendbuf>>

\* enc28j60PacketSend, and OS_EXIT_CRITICAL: until the transmission before it is
\* over, the CPU waits.
StillCritical == "driver"                                          \* mutant
AfterDriver == "idle"
Transmit(s) ==
  /\ spc[s] = "driver"
  /\ Nic!StartSend(MySendbuf)
  /\ spc' = [spc EXCEPT ![s] = AfterDriver]
  /\ want' = [want EXCEPT ![s] = NoFrame]
  /\ UNCHANGED <<input, mbox, tcpip, pools, MySendbuf, copied>>

-----------------------------------------------------------------------------
InputTask == Poll \/ Read \/ Alloc \/ Type \/ Input \/ Post \/ Drop
TcpipThread == Fetch \/ EthernetInput \/ FreeMsg
SendStep(s) == Copy(s) \/ Copied(s) \/ Transmit(s)

IfNext == \/ (\E f \in Frame : FrameArrives(f)) \/ SendEnds
        \/ InputTask \/ TcpipThread \/ Release
        \/ \E s \in Sender : Output(s) \/ SendStep(s)

IfSpec == IfInit /\ [][IfNext]_ifVars

\* Every thread gets the CPU again and again: those above it wait for a message or
\* sleep for a tick between their bursts.  A transmission ends; the
\* applications read and the timers run.
IfFairness ==
  /\ SF_ifVars(InputTask) /\ SF_ifVars(TcpipThread) /\ SF_ifVars(Release)
  /\ \A s \in Sender : SF_ifVars(SendStep(s))
  /\ WF_ifVars(SendEnds)

IfLiveSpec == IfSpec /\ IfFairness

-----------------------------------------------------------------------------
(* Properties.                                                             *)

\* Types of the interface's, the pools' and the threads' variables.
IfTypeOK ==
  /\ rxq \in Seq(Frame) /\ MyRecvbuf \in Frame \cup {NoFrame}
  /\ ipc \in {"sleep", "read", "alloc", "type", "input", "post", "drop"}
  /\ chain \in 0 .. PoolSize /\ inMsg \in BOOLEAN
  /\ mbox \in Seq(Frame) /\ Len(mbox) <= MboxSize
  /\ tpc \in {"fetch", "input", "free"} /\ tframe \in Frame \cup {NoFrame}
  /\ kept \in [Frame -> 0 .. PoolSize]
  /\ freePbufs \in 0 .. PoolSize /\ freeMsgs \in 0 .. MsgSize
  /\ MySendbuf \in Seq(Frame \cup {NoFrame})
  /\ spc \in [Sender -> {"idle", "copy", "driver"}]
  /\ want \in [Sender -> Frame \cup {NoFrame}]
  /\ copied \in [Sender -> 0 .. 2]

PbufsIn(frames) == SumFunction([i \in DOMAIN frames |-> Pbufs[frames[i]]])
PbufsKept == SumFunction([f \in Frame |-> kept[f] * Pbufs[f]])

\* Every pbuf of the pool is free or in exactly one place, and so is every message: in
\* the input task's hands, in the mailbox, with tcpip_thread or, a pbuf, kept by the
\* stack.  No path, the failing ones included (pool empty in mid-chain, no message,
\* mailbox full, other frame types), loses one or frees it twice.
PbufsConserved ==
  PoolSize = freePbufs + chain + PbufsIn(mbox)
             + (IF tpc = "input" THEN Pbufs[tframe] ELSE 0) + PbufsKept
MsgsConserved ==
  MsgSize = freeMsgs + (IF inMsg THEN 1 ELSE 0) + Len(mbox)
            + (IF tpc = "fetch" THEN 0 ELSE 1)
PoolsConserved == IfTypeOK /\ PbufsConserved /\ MsgsConserved

\* A frame on the wire is a frame that was to be sent, not pieces of two:
\* "Interrupts are disabled through this whole thing to support multi-threading
\* transmit calls" (ethernetif.c:231).
SentWhole == air # NoFrame => \E f \in Frame : air = <<f, f>>

\* A controller that is full gets room again: LwipInputTask goes on reading
\* whatever happens to the frames it has read (pools empty, mailbox full).
RxDrains == Len(rxq) = MaxRx ~> Len(rxq) < MaxRx

\* A pool that has run empty recovers.
PoolRecovers == freePbufs = 0 ~> freePbufs > 0
=============================================================================
