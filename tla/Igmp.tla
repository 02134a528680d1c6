-------------------------------- MODULE Igmp --------------------------------
(***************************************************************************)
(* Group membership of one interface (core/ipv4/igmp.c), in tcpip_thread:  *)
(* the groups it is in, queries of routers, reports of other hosts, and    *)
(* igmp_tmr every IGMP_TMR_INTERVAL, in which times are counted.           *)
(***************************************************************************)
EXTENDS Integers, FiniteSets, Functions

CONSTANTS
  Group,           \* groups applications join
  allsystems,      \* 224.0.0.1, which the interface is always in
  NumGroups,       \* MEMP_NUM_IGMP_GROUP
  JoinTmr,         \* IGMP_JOIN_DELAYING_MEMBER_TMR
  V1Tmr,           \* IGMP_V1_DELAYING_MEMBER_TMR
  Resp,            \* the response times queries ask for; 0 in a query of version 1
  MaxRand,         \* bound: what x % 0 is on this processor, x
  MaxUse           \* bound: how often a group is joined

Address == Group \cup {allsystems}

ASSUME IgmpAssumption ==
  /\ allsystems \notin Group /\ NumGroups \in Nat \ {0}
  /\ JoinTmr \in Nat \ {0, 1} /\ V1Tmr \in Nat \ {0, 1}
  /\ Resp \subseteq Nat /\ MaxRand \in Nat \ {0} /\ MaxUse \in Nat \ {0}

VARIABLES
  igmp_group_list, \* the groups that have an entry, and their entries
  users,           \* ghost: joins less leaves of each group
  reporter,        \* ghost: who sent the last report for a group
  due              \* ghost: the time left to answer a query, or NotDue

igmpVars == <<igmp_group_list, users, reporter, due>>

NotDue == -1
Members == DOMAIN igmp_group_list
Entry(g) == igmp_group_list[g]

AllSystemsEntry == [state |-> "IDLE", timer |-> 0, use |-> 1, last |-> FALSE]

\* igmp_start, as netif_add calls it.
IgmpInit ==
  /\ igmp_group_list = [g \in {allsystems} |-> AllSystemsEntry]
  /\ users = [g \in Group |-> 0]
  /\ reporter = [g \in Address |-> "nobody"]
  /\ due = [g \in Address |-> NotDue]

-----------------------------------------------------------------------------
\* igmp_start_timer: LWIP_RAND() % (max_time - 1) + 1, where max_time is 1 for 0.
Times(m) == IF m <= 1 THEN 1 .. MaxRand ELSE 1 .. m - 1

\* igmp_delaying_member: whether a query sets the timer of an entry.
OnlyRunning(e, m) == e.state = "IDLE" \/ (e.timer > 0 /\ m < e.timer) \* mutant
SetsTimer(e, m) ==
  e.state = "IDLE" \/ (e.state = "DELAYING" /\ (e.timer = 0 \/ m < e.timer))

\* A query for the groups gs, to be answered within m ticks.
Asked(gs, m) ==
  \E time \in [gs -> Times(m)] :
    igmp_group_list' = [g \in Members |->
      IF g \in gs /\ SetsTimer(Entry(g), m)
      THEN [Entry(g) EXCEPT !.timer = time[g], !.state = "DELAYING"] ELSE Entry(g)]
Sooner(g, m) == IF due[g] = NotDue \/ m < due[g] THEN m ELSE due[g]

Query(gs, m) ==
  /\ Asked(gs, m)
  /\ due' = [g \in Address |-> IF g \in gs THEN Sooner(g, m) ELSE due[g]]
  /\ UNCHANGED <<users, reporter>>

\* igmp_input: a general query, which a version 1 router sends without a time; a
\* query for one group, which only later versions know; a report of another host.
GeneralQuery(m) ==
  /\ allsystems \in Members
  /\ Query(Members \ {allsystems}, IF m = 0 THEN V1Tmr ELSE m)
GroupQuery(g, m) == allsystems \in Members /\ g \in Members /\ Query({g}, m)

Heard(e) == [e EXCEPT !.state = "IDLE", !.timer = 0, !.last = FALSE]
ReportHeard(g) ==
  /\ g \in Members
  /\ igmp_group_list' = [igmp_group_list EXCEPT ![g] =
       IF @.state = "DELAYING" THEN Heard(@) ELSE @]
  /\ reporter' = [reporter EXCEPT ![g] = "other"]
  /\ due' = [due EXCEPT ![g] = NotDue]
  /\ UNCHANGED users

\* igmp_report_groups, when the interface comes up or gets another address.
igmp_report_groups == Asked(Members, JoinTmr) /\ UNCHANGED <<users, reporter, due>>

-----------------------------------------------------------------------------
\* igmp_send of a report: without memory it is not sent, and the flag stays.
Sent(e, ok) == IF ok THEN [e EXCEPT !.last = TRUE] ELSE e
ReporterAfter(g, ok) == IF ok THEN "us" ELSE reporter[g]

\* igmp_joingroup: the first join reports the group, at once and again later.
igmp_joingroup(g) ==
  /\ allsystems \in Members /\ users[g] < MaxUse
  /\ IF g \in Members
     THEN /\ igmp_group_list' = [igmp_group_list EXCEPT ![g].use = @ + 1]
          /\ UNCHANGED reporter
     ELSE /\ Cardinality(Members) < NumGroups
          /\ \E ok \in BOOLEAN, time \in Times(JoinTmr) :
               LET e == [state |-> "DELAYING", timer |-> time, use |-> 1, last |-> FALSE] IN
               /\ igmp_group_list' = [x \in Members \cup {g} |-> IF x = g THEN Sent(e, ok) ELSE Entry(x)]
               /\ reporter' = [reporter EXCEPT ![g] = ReporterAfter(g, ok)]
  /\ users' = [users EXCEPT ![g] = @ + 1]
  /\ UNCHANGED due

\* igmp_leavegroup: the last one to leave removes the entry.
Leaves(e) == e.use <= 1
igmp_leavegroup(g) ==
  /\ users[g] > 0
  /\ users' = [users EXCEPT ![g] = @ - 1]
  /\ IF Leaves(Entry(g))
     THEN /\ igmp_group_list' = Restrict(igmp_group_list, Members \ {g})
          /\ reporter' = [reporter EXCEPT ![g] = "nobody"]
          /\ due' = [due EXCEPT ![g] = NotDue]
     ELSE /\ igmp_group_list' = [igmp_group_list EXCEPT ![g].use = @ - 1]
          /\ UNCHANGED <<reporter, due>>

\* igmp_tmr: a report is sent when a timer gets to 0; the entry stays delaying.
Fires(g) == Entry(g).timer = 1 /\ Entry(g).state = "DELAYING"
igmp_tmr ==
  \E ok \in [Members -> BOOLEAN] :
    /\ igmp_group_list' = [g \in Members |->
         LET e == [Entry(g) EXCEPT !.timer = IF @ > 0 THEN @ - 1 ELSE 0] IN
         IF Fires(g) THEN Sent(e, ok[g]) ELSE e]
    /\ reporter' = [g \in Address |->
         IF g \in Members /\ Fires(g) THEN ReporterAfter(g, ok[g]) ELSE reporter[g]]
    /\ due' = [g \in Address |->
         IF due[g] = NotDue \/ Fires(g) THEN NotDue ELSE due[g] - 1]
    /\ UNCHANGED users

\* igmp_stop and igmp_start: the interface is removed, and added again.
igmp_stop ==
  /\ allsystems \in Members
  /\ igmp_group_list' = Restrict(igmp_group_list, {})
  /\ users' = [g \in Group |-> 0]
  /\ reporter' = [g \in Address |-> "nobody"]
  /\ due' = [g \in Address |-> NotDue]
igmp_start ==
  /\ allsystems \notin Members
  /\ igmp_group_list' = [g \in {allsystems} |-> AllSystemsEntry]
  /\ UNCHANGED <<users, reporter, due>>

IgmpNext ==
  \/ igmp_tmr \/ igmp_report_groups \/ igmp_stop \/ igmp_start
  \/ \E m \in Resp : GeneralQuery(m) \/ \E g \in Address : m > 0 /\ GroupQuery(g, m)
  \/ \E g \in Address : ReportHeard(g)
  \/ \E g \in Group : igmp_joingroup(g) \/ igmp_leavegroup(g)

IgmpSpec == IgmpInit /\ [][IgmpNext]_igmpVars

-----------------------------------------------------------------------------
\* A group has an entry as long as somebody who joined it has not left, however
\* joins and leaves are nested (igmp.c:560, 610-635).
UseCounted == \A g \in Group : g \in Members => Entry(g).use = users[g]
StaysWhileUsed == \A g \in Group : g \in Members <=> users[g] > 0

\* A leave message is sent only by the host that reported last (igmp.c:612): the
\* flag is not left over from before another host's report.
LastIsUs == \A g \in Members : Entry(g).last => reporter[g] = "us"

\* A query is answered within its time, by a report of this host (sent, or without
\* memory for it) or of another one, whatever timer runs for the group already
\* (igmp.c:715-722).  It needs response times above 1, see the README.
AnsweredInTime == \A g \in Address : due[g] # 0

IgmpInv == UseCounted /\ StaysWhileUsed /\ LastIsUs /\ AnsweredInTime
=============================================================================
