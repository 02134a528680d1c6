# TLA+ models of the LoRa network platform

This directory holds TLA+ models of the gateway firmware in
`src/QH_UCOSII+LWIP1.4/lora_network_platform/` ("the platform"; the source paths
below are relative to it), the TLC configurations that check them on small
instances, and TLAPS proofs for every size of them. The platform is a STM32F103
(Cortex-M3) with an ENC28J60 Ethernet controller on SPI; it runs uC/OS-II 2.92
and lwIP 1.4 in its threaded mode.

## 1. The system

### 1.1 How the parts work together

    ENC28J60 --SPI-- enc28j60.c --- ethernetif.c --- tcpip_input --.
    (external)       (driver)       LwipInputTask                  | struct tcpip_msg
                        |               ^ OSTimeDly(2)             v
                        |               |                 mailbox (sys_arch.c)
                        '-- PacketSend -+- tcpip_thread <----------'
                                           IP, ARP, UDP, timers
       --------------------------------------------------------------
       uC/OS-II: tasks, priorities, tick, delays, semaphores
       Cortex-M3: one CPU, SysTick every 5 ms, PendSV switches

* `main` creates `AppTaskStart`, which creates the other tasks and deletes itself
  (`user/main.c`, `os_app/app_task.c`). `LwipInputTask` initialises lwIP and then
  polls the Ethernet controller every two ticks.
* A received frame is copied by the driver into `MyRecvbuf`, from there into a
  chain of pool pbufs, and posted to `tcpip_thread` in a message from a second
  pool (`ethernetif.c`, `tcpip.c`). `tcpip_thread` runs the protocols.
* A frame to be sent is copied into `MySendbuf` by whichever thread sends and given
  to the driver with interrupts off.
* All blocking is done by the lwIP port (`sys_arch.c`) on uC/OS-II counting
  semaphores: a mailbox is a ring with one semaphore that counts messages and
  another used as a mutex.

Priorities (small is urgent): tcpip_thread 1, other network threads 2-4, start-up 3,
LwipInputTask 7, LEDs 8 and 10, display 12. Configuration that matters here:
`OS_TICKS_PER_SEC` 200, `OS_MAX_EVENTS` 50, `MAX_QUEUE_ENTRIES` 100,
`PBUF_POOL_SIZE` 16, `MEMP_NUM_TCPIP_MSG_INPKT` 100, `LWIP_TCP`, `LWIP_DHCP` and
`LWIP_DNS` 0, `SYS_LIGHTWEIGHT_PROT` 1. `LWIP_ASSERT` prints and loops for ever
(`lwip1.4/src/include/arch/cc.h:47`), so a failed assertion is a thread that never
goes on.

### 1.2 Inventory

| component | state | operations | what makes it correct | module |
|---|---|---|---|---|
| kernel (`ucosII/Source/os_core.c`, `os_task.c`, `os_time.c`, `os_sem.c`) | TCBs and their lists, `OSTCBPrioTbl`, `OSRdyTbl`, lock nesting, event blocks with wait lists and counts | schedule, tick, lock, delay; create, delete, suspend, resume, change priority; semaphore create, delete, pend, post, accept, abort, set | the highest ready task runs; a task is ready exactly when it waits for nothing; no token is lost or doubled; timed waits end; blocks are reused safely | `OsKernel` |
| kernel mutexes, mailboxes, queues (`os_mutex.c`, `os_mbox.c`, `os_q.c`) | event block with owner and ceiling, a message, a ring | create, delete, pend, post, post to the front, accept, flush | one owner, raised while a more urgent task waits; a message is received once, in order; nobody waits for what is there | `OsEvent`, `OsObjects`, `MessageDeque` |
| event flags (`os_flag.c`) | flags, a list of waiters with what each waits for | create, delete, pend, post, accept | a waiter whose condition holds is woken; consumed flags are gone | `OsEvent`, `OsFlag` |
| Cortex-M3 port, SysTick | saved contexts | switch, tick | critical sections are atomic | inside `OsKernel`, `OsEvent` |
| mailboxes of the lwIP port (`sys_arch.c`) | ring, head, tail, count; two semaphores | post, trypost, fetch (timed and not), tryfetch | bounded FIFO, nothing lost, doubled or overtaken; posts and fetches come back | `SysMbox`, `MailQueue` |
| driver (`enc28j60.c`) | cached register bank, `NextPacketPtr`; in the chip: registers, receive ring, transmit buffer | PacketSend, PacketReceive, SetBank | frames pass whole, once and in order; the ring is never overwritten; the bank is the right one | `Enc28j60`, `FramePath` |
| network interface (`ethernetif.c`) with the poll task, `tcpip_input` and the packet path of `tcpip_thread` | `MyRecvbuf`, `MySendbuf`, pools of pbufs and messages, the mailbox | poll, receive, allocate, hand over, send | no pbuf or message leaks on any path; frames go out whole; reception goes on | `EthernetIf` |
| timers (`timers.c`) | delta list `next_timeout` | timeout, untimeout, fetch with timers | the list stands for a set of deadlines; none is early; none is put off for ever | `LwipTimers`, `Deadlines` |
| packet buffers (`pbuf.c`) | chains, reference counts, lengths, the pool | alloc, free, ref, cat, chain, dechain, realloc, header | references match owners; lengths add up; a pbuf is free or owned | `Pbuf` |
| heap (`mem.c`) | list of blocks, `lfree` | malloc, free, trim | the list is a partition without neighbouring free blocks; `lfree` is the lowest free one | `MemHeap` |
| ARP (`etharp.c`) | table of entries with state, age and a queued packet; `etharp_cached_entry` | query, output, input, timer | a host has one entry; a queued packet is sent or freed once, to the right host; a resolution ends | `EtherArp` |
| IP reassembly (`ip_frag.c`) | list of datagrams and their fragments, count of pbufs | input, reassemble, give up the oldest, timer | a datagram is delivered whole or given up; the count is that of the pbufs held | `IpReass` |
| IGMP (`igmp.c`) | groups with state, timer and users | join, leave, query, report, timer, start, stop | an entry as long as somebody uses the group; a query is answered in time | `Igmp` |
| PPP (`ppp/fsm.c`) | state, ids, retransmissions, timer | open, close, lowerup, lowerdown, input, timeout, protocol reject | the ends agree on what was negotiated; no wait without a timer; it ends | `PppFsm` |
| DHCP (`dhcp.c`, `netapp/lwipconfig.c`) | client state, tries, transaction, lease timers; the task that waits | start, receive, fine and coarse timer, network changed, fall back | an address in use is one that was granted; the client gets bound again | `Dhcp` |
| sockets (`api/sockets.c`, `api_msg.c`) | receive events, mailboxes, list of selects | recvfrom, select, accept, close; data and connections that arrive | a thread that selects is woken; events count what is there | `Sockets` |
| other messages of `tcpip_thread` (`tcpip.c`), UDP, raw IP, netif list | - | API, callback, netifapi; bind, connect | - | not modelled |
| TCP, DNS, AutoIP, SNMP, SLIP | - | compiled out or unused | - | not modelled |
| applications, LEDs, UART, SPI, vendored libraries | - | start-up, pure I/O | - | start-up inside `OsKernel`, else not modelled |

What is hard to test here: preemption at every instruction outside a critical
section, values tested before one and used in it, timeouts that race posts,
control blocks reused after deletion, tasks that are woken long before they run, a
controller that goes on receiving while the driver frees its memory, pools that run
dry in the middle of an operation, table entries that change hands while somebody
remembers their index, answers that belong to an earlier request, and loops that wait
with interrupts off. `PROJECT.json` lists these hazards at their lines, each with the
properties that cover it.

## 2. Plan

In the order it was carried out, the most important behaviour first.

1. `OsKernel`: the kernel services the gateway uses; proofs `OsKernelProofs`.
2. `MailQueue`, `SysMbox`: what a mailbox promises, and the port's mailbox shown to
   implement it; proofs `SysMboxProofs`.
3. `Frames`, `FramePath`, `Enc28j60`: what the driver promises, and the driver and chip shown
   to implement it; proofs `NicProofs`.
4. `EthernetIf`: the interface and the packet path over `FramePath`; proofs
   `NicProofs`.
5. `Deadlines`, `LwipTimers`: the set of deadlines the timers promise, and the list of
   differences and the timed wait of `sys_timeouts_mbox_fetch` shown to implement it;
   proofs in `StackProofs`.
6. `OsEvent`, `OsObjects`, `MessageDeque`, `OsFlag`: the other kernel objects; proofs
   `OsObjectsProofs`.
7. `Pbuf`, `MemHeap`: references and the heap; proofs `LwipProofs`.
8. `EtherArp`, `IpReass`, `Igmp`: state of the protocols in `tcpip_thread`; proofs in
   `StackProofs`.
9. `Sockets`: threads against `tcpip_thread`; proofs in `LwipProofs`.
10. `PppFsm`, `Dhcp`: protocols with a peer and an unreliable network; proofs `PeersProofs`.

Left for later: the API messages of `tcpip_thread` with the netconn protocol around
them, memory partitions and kernel timers, `sys_thread_new`, TCP if it is compiled in.

Compositions: `EthernetIf` uses `FramePath`, which `Enc28j60` implements (`INSTANCE`);
`SysMbox` implements `MailQueue`, `LwipTimers` implements `Deadlines`, the queue of
`OsObjects` implements `MessageDeque`; `OsObjects` and `OsFlag` extend `OsEvent`, the
part of the kernel that every object uses.

## 3. The modules

### 3.1 OsKernel

One CPU. A critical section is one action. A service that has several (or works
outside one, like the type tests at its top) is several actions; `pc[t]` says where in
a service task t is, and `pevent`, `pprio`, `pTCB` are the locals it keeps. Between
two actions the tick may run and, through `Dispatch` (`OS_SchedNew`, the comparison
with `OSPrioCur`, the PendSV switch), give the CPU to another task. SysTick is the
only interrupt source, so `OSTimeTick`'s walk over the list is one action.

`OSRdyTbl` and the wait lists are sets of priorities, as in the code, where a
priority names a task only through `OSTCBPrioTbl`. The free lists are sets: which
block is taken next makes no difference. `OSTCBStat` is the set of reasons not to
run. `tokens` is a ghost variable: the tokens created, posted or set and not yet
given to a caller.

`Init` is the state at `OSStart`. `SemEnter` is the test of the event's type that every
semaphore service makes before its critical section.
A task that holds the scheduler lock does not delete itself: the note at
`OSSchedLock` forbids it. Two values of timeout and delay, one or two tasks more than
one semaphore can serve, and one level of lock are where orders first differ.

`OSTaskDel` of a block that `OS_TCBInit` has published and not linked yet is modelled
as the code does it: unlinking follows null links, so the head of the list goes
(`Unlinked`). The run that creates tasks leaves deletion by others out (section 6).

### 3.2 MailQueue and SysMbox

`MailQueue` is a bounded queue with `Put`, `Get` and `Forget`.

`SysMbox` is `sys_mbox_post`, `sys_mbox_trypost`, `sys_arch_mbox_fetch`,
`sys_arch_mbox_tryfetch` (the branch of `sys_arch.c` from line 474 on) and
`sys_msleep`, one action per step between which a thread can lose the CPU. The
kernel is folded in: `OnCpu` is the priority rule, `PostTo` is `OSSemPost` (the token
goes to the most urgent waiter, also to one that has timed out and has not run),
`WaitOn` is `OSSemAccept` and the `OSSemPend` that
follows it, in one step: a token posted in between is taken just the same. `TickWakes` ends a sleep or a timeout.
`hung` is the assertion in `sys_sem_new` when the kernel has no event block, `stuck`
the assertion in `sys_mbox_post` under the mutex.

The mapping to `MailQueue`: the queue is the `msg_num` slots from `tail` on, a fetch
returns at `Take`, a post puts at `Store`.

### 3.3 FramePath and Enc28j60

`FramePath` is what the interface relies on: a frame handed over is on the air as it
was or not at all; accepted frames are received once, in order; damaged ones give
nothing. `Frames` has the constants the two share with `EthernetIf`.

`Enc28j60` interleaves the driver's SPI commands with the controller, which is
external and modelled from the way the driver uses it: it accepts frames into a ring
between `ERXRDPT` and `ERXWRPT` and counts them in `EPKTCNT`, ends transmissions,
fails at them (`TXERIF`), and may then stop its transmit logic (`wedged`; the erratum
the driver names at line 464). The ring is counted in units, and a frame is a number of
units, each with the frame's name, its place in it and the pointer to the next
frame. Register banks are numbers, and `SetBank` selects one only if the cached number
differs, as `enc28j60SetBank` does. The state of a driver function is `pc`; only one runs
at a time, because the interface calls them with interrupts off.
`enc28j60Init` is the initial state.

The mapping to `FramePath`: what is on the air is the transmit buffer while `TXRTS` is
set; the frames that wait are found by following the next-packet pointers, the one
being read included until it has been copied.

### 3.4 EthernetIf

`LwipInputTask` (`ipc`) goes through `process_mac`, `ethernetif_input`, `PacketReceive`
and `tcpip_input`; `tcpip_thread` (`tpc`) through its packet message; each sender
(`spc`) through `low_level_output` and `PacketSend`. The driver is an instance of
`FramePath` (`Nic`) whose last packet is `MyRecvbuf`. Frames
have a kind: for the stack or not, damaged or not, longer than `MySendbuf` or
not, and how many pbufs they need. `MySendbuf` has two pieces, the least that can
be mixed. `pbuf_alloc` takes one pbuf per step, so that the pool can run out between.
What the protocols do with a packet is left open: free it or keep it until
`Release`. The order of the threads is left open too, which covers every assignment of
priorities. A sender in the driver has interrupts off (`Runs`).

### 3.5 Deadlines and LwipTimers

`Deadlines` is a sequence of timers with the time each has left: set, cancel, time
passes for all, the first one fires.

`LwipTimers` has the list of differences (`next_timeout`) and `tcpip_thread` in
`sys_timeouts_mbox_fetch`, down to the wait in `sys_arch_sem_wait`: a message that is
there (`TakeAtOnce`), the start of the wait (`StartWait`), `OSSemPend` (`Pend`), the tick
that ends it or the message that does, also after the tick (`Post`), and the end, where
the time waited is taken off the first timer (`Received`) or the timer fires. Between
fetches the thread is in a message or in a handler (`run`), where it sets and removes
timers, and where ticks pass that nobody counts. `Place` is the walk of `sys_timeout`.
`real` is a ghost: how many milliseconds of ticks a timer should still wait.

Each handler is set at most once at a time, as the stack does; then the pool of timers,
sized by `init.c:108`, is never empty. The mapping to `Deadlines` adds up the
differences.

### 3.6 OsEvent, OsObjects, MessageDeque, OsFlag

`OsEvent` is what the services on mutexes, mailboxes, queues and flags share:
`OS_EventTaskWait`, `OS_EventTaskRdy`, `OS_EventTaskRemove`, the tick, the ready table and
the switch. A pend has two critical sections: the one that takes what is there or starts
to wait, and the one that runs when the task has been woken and gets the CPU. A task that
was woken, whose time is over or whose wait was aborted stays in that state for as long
as more urgent tasks run, and posts, deletions and flushes come in between.

`OsObjects` has event blocks, each a mutex, a mailbox or a queue in turn, as it is created,
deleted and created again. A mutex raises
its owner to the ceiling `pip`, in the ready table, in the wait list of another object or
only in its TCB, and lowers it at the post. `Careful` leaves out the deletions of
section 6, and `OneAtATime` an accept by a task that owns a mutex already: the note at
`os_mutex.c:430` forbids an owner to pend, and the restoring of a priority (629-634) knows
of one mutex. A queue is the ring with its two pointers, written at both ends;
`MessagesKept` maps what each block holds (`Contents`) to `MessageDeque`. `ObjectsInv` says
who may wait (`NobodyWaitsInVain`) and who has a mutex (`OwnerIsHolder`, `OwnerInherits`).

`OsFlag` is a flag group: waits for all or some flags, set or clear, with or without
consumption. `polarity` says which of the two a run uses (section 6).

### 3.7 Pbuf and MemHeap

`Pbuf` has threads that allocate chains step by step (the pool may run out in
mid-chain), free them by the loop of `pbuf_free`, and hand references to each other;
`pbuf_cat`, `pbuf_chain`, `pbuf_dechain`, `pbuf_realloc` and `pbuf_header` change the
chains. Only what `SYS_ARCH_PROTECT` covers is one step. Lengths are small numbers, and
a pool pbuf holds one unit.

`MemHeap` is the array of `mem.c` in units of its minimal block: first fit, split,
`plug_holes` to both sides, shrinking, and `lfree`. Semaphore `mem_mutex` makes every
function one step.

### 3.8 Sockets

Threads that select, receive, accept and close, step by step as `sockets.c` gives up its
protection, and `tcpip_thread` with data, connections and errors that arrive
(`recv_udp`, `accept_function`, `event_callback`). `event_callback` walks the list of
selects, releases the protection after each entry and starts again when the list has
changed. `rcvevent` counts below zero before `accept` has made a socket, as in the code.

### 3.9 EtherArp, IpReass, Igmp

Each is state of `tcpip_thread`, so a handler is one action. Hosts, datagrams and groups
are model values.

`EtherArp` has `etharp_find_entry` with its choice of a place (empty, oldest stable,
oldest pending without and with a packet), `etharp_query`, `etharp_output` with the hint,
`etharp_arp_input`, `etharp_tmr`. `copies` counts the packets in the heap, `heard` is what
each host has announced last.

`IpReass` has fragments as intervals of blocks. `Valid` is the test in
`ip_reass_chain_frag_into_datagram_and_validate` with everything it leaves out, and
`halted` is an assertion that fails: one of `ip_reass_free_complete_datagram`, or the one that
a datagram without holes ends at its length (`ip_frag.c:452`).

`Igmp` counts the report timers; `due` is the time left to answer a query.

### 3.10 PppFsm and Dhcp

`PppFsm` is `fsm.c` at both ends of a link. An operation is a function on the record of an
end, which gathers what it sends. One option is negotiated, which the peer may want to
have changed or removed. Losses, timeouts that come before the answer, and calls after
the first ones are counted (`MaxTrouble`). `timer` is a boolean: the macro `TIMEOUT`
(`ppp_impl.h:108`) cancels the timeout that is pending before it sets one.

`Dhcp` is the client with its two timers, `lwip_dhcp_task`, which sets a static address
after six tries, the server, and a network that fails with all that is on the way. The
set `net` reorders. `tries` and the lease counters wrap as `u8_t` and `u16_t` do, at
smaller sizes. In each step there may be no memory for some of the messages it would send
(`Short`, `Without`): `dhcp_create_msg` then returns before it begins a new transaction
(`dhcp.c:1665`), while the handler changes its state, counts the try and sets the timeout all
the same; a `dhcp_start` without memory stops the client. The task reads the address, reads
`tries` and writes in three steps, and `tcpip_thread` runs in between.

### 3.11 Mutants

Definitions marked `mutant` in the modules are variants of the definition after
them with a plausible error (a dropped guard, a missing reset, an off-by-one).
No behaviour uses them: each property of a passing run has been shown to fail
once its mutant takes the definition's place (`PROJECT.json`, "mutants").

## 4. What is checked

A run with several parts checks modules that share no state: the first state chooses one
part (or scene, layer, protocol), and only its variables change, so that the states
are the sum of those of the parts and each property is about its own part.

| run | states | question and answer |
|---|---|---|
| OsTasks | 1120 k | tasks suspended, resumed, deleted and moved to other priorities in every situation, and tasks created at run time that delete themselves while semaphores are deleted and created again on the same block: ready list, priority table, wait lists and tokens stay consistent, and the highest ready task runs |
| Objects | 1363 k | mutex with inheritance, mailbox, queue and flags with timeouts, aborts and deletions; chains of pbufs shared by threads; the heap; selects, receives and closes while data comes |
| Sync | 227 k | the kernel's semaphore under the scheduler lock, and the mailbox of the port: mutual exclusion, tokens, the FIFO refinement, posts return, the mailbox drains, timed waits end |
| Nic | 137 k | driver and chip: `FramePath`, ring integrity, bank cache, sends come back unless the chip's transmit logic has stopped; and over `FramePath` pools conserved on every path, frames whole, reception and pools recover |
| Stack | 63 k | timers against `Deadlines`, none early, none put off for ever; ARP; reassembly; IGMP; PPP negotiation ends |
| Peers | 834 k | PPP ends agree although packets are lost; a DHCP client uses only what was granted and is bound again and again, to what it was offered |
| OsSemDelRace | violation | a deletion between the type test and the critical section of `OSSemPend` |
| MboxRace | violation | two posters and one free slot: the second stops at its assertion |
| EncAbort | violation | after one failed transmission the driver aborts every later one |
| EthSend | violation | two senders mix their frames in `MySendbuf` |
| ReassHole | violation | a hole before a fragment that is put between two others is not noticed |
| DhcpBind | violation | a timer of an old lease makes the client bind an address in answer to a request for another |

Bounds. All are constants of the modules or of the `.cfg` files.

* `OsKernel`: three tasks and idle (a poster, a waiter, a third that changes things
  under them), one semaphore, delays up to 2 with the semaphore (so that two waits can
  end on different ticks) and 1 elsewhere, counts up to 2, one lock level. One
  spare priority where priorities change or tasks are created.
* `OsObjects`, `OsFlag`: three tasks and idle, delays up to 2, two messages in a queue of two
  (both ends wrap, full and empty in every position), a mutex with a ceiling and one
  without. Two flags, so that "all" and "any" differ.
* `Pbuf`: two threads and three pbufs, chains of two, one further reference: the pool runs out
  in mid-chain while a tail is shared. `MemHeap`: ten units, blocks of up to four, enough to
  coalesce on both sides with blocks left around. `Sockets`: two threads, two sockets,
  mailboxes of one, so that each is full at some time.
* `SysMbox`: three threads (two on one side, one on the other); a ring of two wraps and
  is full and empty in every combination; `MboxRace` needs one slot only. Two messages
  are enough to see an order change. `Events` is as small as the sleepers allow.
* `Enc28j60`: frames of 1, 2 and 4 units (the last never fits) and a damaged one of 3 in a
  ring of 4, two frames counted at most: every frame that fits wraps, the ring fills by units before it fills by frames and the other
  way round.
* `EthernetIf`: two pbufs and a frame that needs both, so that the pool runs out in
  mid-chain; two messages, a mailbox of one and a controller of one frame, each full at
  some time.
* `LwipTimers`: three timers of one, two and three ticks: insertion and removal at both ends
  and in the middle, equal deadlines, waits cut short. One message in the mailbox; more
  are the same `TakeAtOnce` again.
* `EtherArp`: three hosts and a table of two, so that entries change hands; two hardware
  addresses; ages up to 4, pending up to 2, asked again from 3 on. `IpReass`: datagrams of
  three blocks cut into one and two in all ways, three of them, two at a time, a limit of
  five pbufs;
  `ReassHole` has one datagram of four blocks. `Igmp`: two groups and one place for them
  besides 224.0.0.1, joined twice at most, response times 0 (version 1), 2 and 3.
* `PppFsm`: four ids, two requests, one terminate request, one CONFNAK, two troubles (`Peers`) or
  one (`Stack`, which checks that the negotiation ends). `Dhcp`: two addresses, lease times 1
  and 2, counters modulo 3 and 10, two transactions (three in `DhcpBind`; with two, a step that
  begins two comes back to the old number, which only lets more late answers in), all types of
  messages without memory, one step with an early timeout or without memory.

Deadlock is checked in `OsTasks`, `Objects` and `Nic`. `Sync`, `Stack`, `Peers` and
`MboxRace` have threads that stop at an assertion for ever, or protocols that come to
rest.

Fairness.

* `OsKernel`: weak fairness of `Tick`; SysTick is periodic. Nothing is assumed of tasks.
* `SysMbox` (`LiveSpec`): weak fairness of `TickWakes`, for the same reason. Strong
  fairness of a thread's steps: a less urgent thread has the CPU again and again
  because the threads above it block or sleep at least a tick of 5 ms, and a
  step takes microseconds. Strong fairness of `Call` for a thread that only fetches without a
  timeout: `tcpip_thread` is such a loop.
* `Enc28j60` (`LiveSpec`): weak fairness of the driver's steps (interrupts are off, nothing
  can take the CPU) and of the end of a transmission the logic is working on.
* `EthernetIf` (`LiveSpec`): strong fairness of each thread's steps, as above, weak fairness
  of the end of a transmission, and strong fairness of `Release`: the ARP and
  reassembly timers and the readers of sockets run again and again.
* `LwipTimers` (`LiveSpec`): weak fairness of `tcpip_thread`, the most urgent task. `TimersFire`
  says under which condition on ticks it holds: again and again one falls into a wait.
  It does not catch what happens otherwise (`timers.c:438`). In the gateway one does,
  because LwipInputTask, which posts the messages, sleeps two ticks
  between bursts; a load that keeps `tcpip_thread` at work in every tick stops all
  timers, because time outside the wait is not counted.
* `EtherArp`, `IpReass`: weak fairness of `etharp_tmr` and `ip_reass_tmr`, which set themselves
  again in `timers.c`.
* `PppFsm`: weak fairness of `fsm_input`, as a link delivers what it does not lose; strong
  fairness of `fsm_timeout`, which is disabled while packets are on the way. `Dhcp`: weak
  fairness of the delivery of messages and of both timers. Nothing is assumed of the
  failures of the network but what `BoundAgain` says: it fails only finitely often.

## 5. What is proved

TLAPS proves the following for all values of the constants that satisfy the assumptions
of the module, which TLC evaluates on every run. The assumptions say that model values
are distinct, that sizes and times are numbers, and what the code itself sees to:
`KernelAssumption` and `EventAssumption`, that the idle task has the lowest priority;
`ObjectAssumption`, that no priority is `OS_MUTEX_AVAILABLE`, as `ucos_ii.h` refuses an
`OS_LOWEST_PRIO` above 254. Hypotheses beyond them are named with the theorem.

**`NumberSets`**: least and largest elements, induction over numbers and over the size of a
set, and sums over a finite set. The library states induction with an operator as a
parameter, which the provers cannot instantiate; here it is stated with a set of numbers,
and what a model would define by recursion is a smallest closed set or a sum.

**`OsKernelProofs`**: any tasks, priorities, semaphores, counts, delays and lock nestings,
for a gateway that has started (`Steady`): tasks and semaphores are not created and
semaphores not deleted, for the run `OsSemDelRace` shows what a deletion does to a task
on its way into the wait list; and an instance has `OSTaskChangePrio` or `OSSchedLock`,
for a priority changed under the lock breaks `HighestReadyRuns` (section 6). The
invariant `IInv` has ten parts, and an action's lemma one step for each. `ReadyExactly`
needs the wait lists to be exact (a woken priority must be the one of a task that
waits: `WaitersOf`), those need the priority table to be exact (`Linked`), and that is
disturbed by a deletion only between its two critical sections, when the task that
deletes has the CPU and the lock (`Places`). `TokensConserved` needs to know that who is
woken had no token and who returns with one was granted it: `Waiting` says that a task
inside OSSemPend waits, is late or is answered, and that everybody else has a clean
block. `HighestReadyRuns` needs that a running task outside OS_Sched is ready
(`CurReady`), and that `OSPrioCur` is its priority or, after it changed its own, nobody's
(`Cpu`). `Moved`, `Quiet`, `BlockKeeps` and `WakesKeep` are what several services have in
common. Results: `KernelTables` (the priority table and the wait lists are exact, and
nobody waits on a semaphore with tokens), `ReadyListExact`, `TokensKept`, `HighestRuns`,
and `SemaphoresRight`, which is what `Sync` checks of the kernel (`SemInv`).

**`OsObjectsProofs`**: any tasks, event blocks, queue sizes, messages, ceilings and flags.

* The core (`CoreInv`): a wait list has the priorities of the tasks whose blocks point at
  it, the ready table those of the tasks that wait for nothing, and a task inside a pend
  waits, is late (its time is over or its wait aborted, and it has not run since) or has
  been answered. It is kept by each of the operations of `OsEvent` for any object.
* `QueuesKeepMessages`: blocks implement `MessageDeque`. The ring (`Ring`) has its entries
  between the two pointers; each of the four ways to move a pointer gives the contents that
  the deque would have (`Items`, `Follows`).
* `NoFlagWaitIsVain`: no task waits for flags that are set. A post looks at every waiter, and
  a consumption changes flags without looking; that this cannot satisfy anybody
  (`ConsumedHelpsNobody`) is where `polarity` is needed (`SidesMatch`; section 6).
* `ObjectsRight`, under `Careful` because OSMutexDel asks neither who owns the mutex nor
  at which priority the owner runs (section 6): `ObjectsInv`. A task can own a mutex it has
  not come back with, because it was handed over and the task has not run since; `Got` has
  both kinds. Per block (`MutexRight`), the owner recorded is the one in `Got`, the
  priority kept is its own, and it is raised exactly while it must be; and the owner of one
  mutex owns no other (`OthersOwn`, by `OneAtATime` and the note on pends), or lowering it for
  one would break the other.
* `TasksKeepOrder`: from the same core, that blocks, lists and the ready table agree
  (`TasksConsistent`) under the operations of mutexes, mailboxes and queues, and under
  those of flags.

**`SysMboxProofs`**: any finite set of threads with distinct priorities, any functions
called by each, any ring size above zero, any number of event blocks. `MailboxInv` is
inductive. Its parts need each other: that the ring is worked on by one
thread at a time (`MutualExclusion`) rests on hand-overs waking only a waiter
(`NoLostWakeup`) and on the mutex count; that each stored message has one token
(`TokensMatch`) rests on the mutex, as two holders would count a slot twice; that
`msg_num` stays in range and a take finds a message rests on the tokens.
`PlacesMatchOps` says which function a thread can be in at each place. One lemma per
action; cardinalities go through `FS_AddElement` and `FS_RemoveElement`. Results:
`TypeCorrect`, `MailboxCorrect`, `RingIsExclusive`, `SemaphoreCounts`, `NothingSlept`,
`FetchNeverFails` (the error branch of `sys_arch_mbox_fetch` is dead code), and
`MailboxIsFifo`, that `SysMbox` implements `MailQueue`: `Store` appends and `Take` removes
the head because head is the slot `msg_num` after tail (`RingConsistent`), and every
other action leaves the contents alone.

**`NicProofs`**, driver: any frames and sizes, any ring above one unit, any limit of
`EPKTCNT`. `TypeOK /\ DriverInv` is inductive: `EPKTCNT` stays a number only because
the driver counts off no more than it has read (`DriverInv`), and that is established
where it reads a number (`TypeOK`). Results: `TypeCorrect`, `DriverCorrect` (cached bank
= selected bank; loading and starting only while nothing is sent), `FrameStable`
(the transmit buffer does not change while it is sent). `RingCorrect` and
`DriverIsFramePath` need what lies in the ring: `Laid` says that some sequence of frames
lies end to end from `ERXRDPT` to `ERXWRPT`, each whole and pointing to the next, which is
`FramePath`'s sequence of frames that wait. The chip appends to it in the space left
(`Grown`), and freeing takes off its head.

Interface: any pools, mailbox and frames. `MessagesKept` says that a message is
out of its pool only between its allocation and the post, in the mailbox, or with
`tcpip_thread`. The invariant `MsgInv` ties the flag `inMsg` to the place `post`, without
which a full mailbox could give back a message twice. `NothingLeaks` adds the pbufs
(`PbufInv`): those in no pool are in the chain of LwipInputTask, in the mailbox, with
`tcpip_thread` or kept by a protocol, summed over the frames of each. `AloneSentWhole`
assumes `OneSender`, the configuration of the repository: what has been copied of a frame
is in `MySendbuf`, all of it when the driver is called. With two senders it is false
(`EthSend`).

**`LwipProofs`**, heap: any size of heap and requests. `HeapCorrect`: the blocks cover the heap,
no two free ones are neighbours, `lfree` is the lowest free one, what was given out lies
in used blocks of its own, and a request is refused only if there is no room. The blocks
are a list by their links and an order by their offsets; `Linked` says that the two
agree. Every function cuts a block, joins two or marks one, and each of the three has a
lemma (`Cut...`, `Joined...`, `Marked...`).

Pbufs: any threads and pools. `ChainsCorrect`: the count of a pbuf is the number of
references to it, it is in the pool exactly when there is none, and `tot_len` is right
wherever a thread can look. A chain is the smallest set with its first pbuf that the
links do not leave. The invariant adds that chains end (`AllEnd`), and that the one
pbuf whose length may be wrong is the head of an allocation that is not finished or is
being undone, which only its thread knows (`Alone`).

Sockets: any finite set of threads, any sockets and sets to select on, any size of a mailbox.
`SelectMissesNothing` is `SelectInv`. A wake-up can be lost between the scan before a
select is registered and its wait, or while an `event_callback` has given up its protection; so the
invariant starts at the second scan (`Alerted`): of the sockets that scan has looked at
and found empty, one that has data now has been signalled, or an `event_callback` that
has not passed the select is on its way. That a step along the list passes nobody is
`NextOf`, and needs each select to be on the list once and exactly from its registration
on (`ListRight`); that a list which changed is gone through from its head needs nothing
else (`ListedIs`). `event_callback` gives up early if `select_waiting` is zero, which is right
because the counter is the number of registered selects (`Counted`, `WaitedFor`). The
counters also need what data was counted before there was a socket (`Told`), and that only
one thread has a socket that is being made or closed (`UsesRight`).

**`StackProofs`**, ARP: any table, hosts, hardware addresses and ages. `TableCorrect` says that
a host has one entry, that a packet waits only where it is being resolved, that `copies`
is what the table holds, and that a packet goes to the hardware address its next hop
announced last. The invariant adds that a used entry is for a host and a stable one has what
that host announced (`EntriesRight`), without which the address a packet is sent to
could be anybody's, and the types, because the place that `etharp_find_entry` chooses
exists only if ages are numbers (`OldestIsOne`, `PlaceIsOne`). `FindsIt` says that it
finds the entry of an address there is one for.

IGMP: any groups and delays, and response times other than 1, for which
`igmp_start_timer` divides by zero. `MembershipCorrect`: entries follow joins and leaves,
only the last reporter sends a leave message, queries are answered in time. The invariant
adds that the timer of a group with a query to answer runs and ends before its time
(`TimerRuns`, kept by a longer query because `SetsTimer` refuses it), that only a delaying
group has the flag of the last reporter (`LastDelays`), and that a stopped interface has
no groups.

Timers: any handlers and times. `TimersAreDeadlines`: the list of differences implements
`Deadlines`. The deadlines are the prefix sums (`Dues`) of the differences; inserting a
timer takes its time from the next one and removing it gives it back, so the sums of the
others stay. `TimersOnTime`: no timer fires before its ticks have come, if all times are
whole ticks (`WholeTicks`), as those of the stack are (100 ms to 60 s, at 5 ms a tick); for others it
is false (section 6).

Reassembly: any datagrams, ways to cut them and limits. `ReassemblyCorrect` is `ReassInv`. New
datagrams come to the front with the whole time, so the list stays sorted by what is left
of the times (`Sorted`): those that run out are the last ones (`LivingFirst`), those
that make room too, and what is left of the list holds what is left of the sum
(`FrontOf`; the sums of chains and lists are in `NumberSets`). That a complete
datagram is found to be needs two things: who holds a last fragment knows that there is
one (`SawLast`), and the test says yes to every chain without holes (`CompleteValid`).
The converse is false (`ReassHole`); it holds for at most three blocks, because a fragment, a hole
behind it, the new fragment and the one behind that make four (`ShortWhole`).

**`PeersProofs`**, DHCP: any addresses, lease times, widths of the counters and number of
transactions above one, and servers that name themselves in their offers (`OfferServer =
{TRUE}`; section 6 says what an offer without an identifier does). `LeaseCorrect` is
`DhcpInv`: the interface is up only with an address that was granted, as long as the
network has not changed, and a client that waits has a timer. An ACK that extends a lease binds
`offered` without comparing it with anything, so the invariant says that from BOUND to the
end of REBINDING the address of the client is `offered`, unless it is none or the static one, which
may be written over a lease (`Leased`), and that every request and every ACK of a
transaction that extends a lease is for `offered` or for an address no server has (`Extends`). A
new transaction starts without messages of its own, because old ones are
gone before its number comes again. Hence the second hypothesis, `"REQUEST" \notin Short`: the
first request of a state must begin a new transaction. Without memory for it the old one
goes on, and without memory for a RELEASE, a DISCOVER and two requests in turn the client takes
an ACK in it for the address of a later offer. For the other messages there may be no memory.

PPP: any packets, identifiers and bounds. `NoWaitWithoutTimer`: an end in a state that
waits has its timer running and one that is up is in OPENED, two parts of `PppInv`. Each
function of `fsm.c` keeps this of one end (`Sound`). `EndsAgree` is all of `PppInv`, from one
hypothesis: identifiers come again after 256 requests, and that no packet on the way is so old
is nothing the code sees to, so `IdsFresh` says it and is part of `PppInv`, where
the run finds it true for four identifiers and two troubles. The invariant is
`Agrees`: on the way from an end, no older request is behind its last one; and when it has the
acknowledgement of that one, or the link has, the other end has acknowledged it last and
no other request is on the way. For `Agrees` a function of `fsm.c` does one of two things to
the end that asks, namely ask anew without an acknowledgement, or stand by its request (`Goes`),
and one of two to the end that answers (`Silent`, `Acknowledges`).

Only model-checked: `OsKernel` with creations and with deletions of semaphores,
and all liveness.
Liveness under fairness and facts about ENABLED are out of the prover's reach, and so is
induction over data with an operator as its parameter, hence `NumberSets`.

## 6. Disagreements and observations

Shown by a run (`PROJECT.json`, "findings"):

* `OSSemPend` can wait on a semaphore deleted after its type test (`OsSemDelRace`).
* `sys_mbox_post` can stop at its assertion when two threads post (`MboxRace`).
* The driver never clears `EIR.TXERIF` (`EncAbort`).
* `PacketSend` fills the shared `MySendbuf` outside its critical section (`EthSend`). In
  the configuration of the repository only one thread sends at a time; with `LWIP_DHCP`
  set there are two.
* Reassembly does not look for a hole before a fragment that it puts between two others, and
  takes the datagram for complete (`ReassHole`).
* The lease timers run on through `dhcp_network_changed`, and an ACK of the renewal they
  start binds the address that was just offered (`DhcpBind`).

Met while modelling, without a run:

* `OSTaskChangePrio` (`os_task.c:155`) of the running task leaves `OSPrioCur` at its old priority. If
  under `OSSchedLock` another task is then given that priority, `OS_Sched` sees no
  difference between it and `OSPrioHighRdy` and does not switch: the running task goes on
  although it is not the most urgent, and even if it waits. The runs combine
  `OSTaskChangePrio` with everything but the lock.
* A timer that is not a multiple of 5 ms can be early by more than a tick, because each
  wait is rounded down to ticks (`sys_arch.c:558`); the timers of the stack are multiples.

* `OSTaskDel` of a task whose creator is inside `OS_TCBInit`, between publishing the block
  in `OSTCBPrioTbl` and linking it, follows null links and empties `OSTCBList`; a suspension
  in the same window leaves a task that is suspended and ready. No run has these two: their
  invariants would not hold.
* If the transmit logic stops after the test at `enc28j60.c:465`, the next
  `enc28j60PacketSend` waits at line 445 with interrupts off for ever. Hence the
  condition in `SendReturnsUnlessWedged`, which says nothing of that case.
* `sys_arch_mbox_tryfetch` can wait a tick for a message that is stored and not yet
  signalled, although the comment at `sys_arch.c:796` says it does not block.
* `sys_thread_new` (`sys_arch.c:869`) looks one stack further than there are.
* `enc28j60.c:378` writes the PHY register PHLCON as if it were a control register.
* The interface announces an MTU of 1500 and cannot send a frame of that size:
  `PacketSend` refuses it after it has copied it past the end of its buffer.
* `OSMutexDel` with `OS_DEL_NO_PEND` frees the ceiling priority in `OSTCBPrioTbl` while a raised
  owner runs at it (`os_mutex.c:336`); with `OS_DEL_ALWAYS` it makes a raised owner that is
  delayed ready and sets `OSPrioCur` to a task that does not run (361, 759). The constant
  `Careful` leaves these out. The path of `OSMutexPost` that finds no waiter does not call
  the scheduler after it has lowered the owner (652).
* `OSFlagDel` with `OS_DEL_ALWAYS` frees the nodes of tasks that unlink them again when they run
  (`os_flag.c:720`). A consumption (646, 741) does not look at tasks that wait for the flags
  to be in the state it leaves them in, hence `polarity`.
* `ip_reass_remove_oldest_datagram` (`ip_frag.c:233`) takes the last but one datagram of its walk
  for the predecessor of the oldest, and the assertion in `ip_reass_dequeue_datagram` stops
  `tcpip_thread`. A fragment at the head that overlaps its successor is inserted all the same
  (361-377); its datagram never completes and is given up by age. A last fragment that
  is rejected is remembered all the same (562): if the same datagram comes cut in other
  places, a chain without holes that ends before its length stops at the assertion in 452.
* `igmp_start_timer` divides by zero for a response time of 0 or 1 (`igmp.c:705`); on this
  processor x % 0 is x, and the report comes too late. `igmp_report_groups` and a
  query for 224.0.0.1 report the all-systems group, which is never reported.
* Closing a socket that another thread selects on stops that thread at its assertion
  (`sockets.c:1190`), as `api_msg.c:905` leaves open. A reader with `MSG_PEEK` beside another one can
  lose a wake-up.
* PPP: a TERMACK in OPENED calls `down` and asks anew but stays in OPENED (`fsm.c:716`), where
  the timeout it has set is not handled; `UpInOpened` states what `ipcp.c:112` says and is
  violated there, and `NegotiationEnds` excepts it.
* DHCP: an offer without a server ID leaves SELECTING without a timer (`dhcp.c:1624`; the runs offer
  with one). After 256 tries `tries` is 0 and so is the timeout of the next renewal (1062).
  `dhcp_release` clears the server's address before it sends to it (1178). The lease times in the ACK of a
  renewal are ignored. The static address of `lwip_dhcp_task` does not stay when the client
  goes on trying; and because the task tests and writes in its own thread, it can be written over
  the address of a lease that has just been bound (`lwipconfig.c:116-120`), which the client uses
  until it binds the next time: `BoundAgain` says that it does. A `dhcp_start` that finds no memory
  for its first message leaves the client stopped with `tries` at 0, and the task polls for ever.

## 7. What is not modelled

Listed per component in `PROJECT.json`. In short: pure I/O (SPI, UART, LEDs,
printing), TCP, DNS, AutoIP, SNMP and SLIP (compiled out or unused; event flags, kernel
mutexes, IGMP, PPP and DHCP are modelled although this build leaves them out or does not
use them), code that nothing starts (the network applications), vendored libraries and
register definitions, which are most of the lines of the repository, and code without
state of its own (routing, ICMP replies, checksums, fragmentation of what is sent). The
API messages of `tcpip_thread` are the mailbox of `SysMbox` and a semaphore of `OsKernel`
around the handlers of the other modules. The contents of frames and packets are opaque
except for their kind. Memory behind `MySendbuf`, stack overflow and `sys_mbox_free` while
threads use the mailbox are left out. PPP without code reject and the options for
restart and passive opening; DHCP without the parsing of options, and without the failure of
`mem_malloc` for the client itself, after which `lwip_dhcp_task` reads `tries` through a null
pointer (`lwipconfig.c:116`).

## 8. Running

    tlc -config Sync.cfg MCSync.tla             # or any run of PROJECT.json
    tlapm StackProofs.tla                       # proofs
