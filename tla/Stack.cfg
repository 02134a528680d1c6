\* The parts of lwIP that are looked at on their own.  The assertions of ip_frag.c
\* stop the thread, and with it the part "reass".  ARP has three hosts and a table of
\* two, whose entries live for four ticks of its timer.
\* A query for groups asks for more than one tick of the timer, or for none, as
\* version 1 does.
CONSTANTS
  ip_reass_timer = ip_reass_timer arp_timer = arp_timer h = h
  Handler = {ip_reass_timer, arp_timer, h} Msecs = {5, 10, 15}
  TickMs = 5 MaxTicks = 65535 MaxMail = 1
  a1 = a1 a2 = a2 a3 = a3 x1 = x1 x2 = x2
  Addr = {a1, a2, a3} Mac = {x1, x2} NoAddr = noAddr NoMac = noMac
  ArpTableSize = 2 MaxAge = 4 MaxPending = 2 AgeRerequest = 3
  d1 = d1 d2 = d2 d3 = d3 Datagram = {d1, d2, d3} NoDatagram = noDatagram
  Length = 3 Pieces <- Cuts MaxPbufs = 5 MaxDatagrams = 2 ReassMaxAge = 1
  g1 = g1 g2 = g2 all = all Group = {g1, g2} allsystems = all NumGroups = 2
  JoinTmr = 3 V1Tmr = 4 Resp = {0, 2, 3} MaxRand = 5 MaxUse = 2
  e1 = e1 e2 = e2
SPECIFICATION StackSpec
INVARIANTS TimersInv ArpInv ReassInv IgmpInv
PROPERTIES ImplementsDeadlines TimersFire ResolutionEnds ReassemblyEnds NegotiationEnds
CHECK_DEADLOCK FALSE
