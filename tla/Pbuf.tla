-------------------------------- MODULE Pbuf --------------------------------
(***************************************************************************)
(* Packet buffers of lwIP (core/pbuf.c) and the pool they come from        *)
(* (core/memp.c), used by several threads.  Only the change of a reference *)
(* count and of the pool's free list is protected; what a thread does with *)
(* a chain is its own business as long as it holds a reference.            *)
(*                                                                         *)
(* A thread may lengthen, shorten or divide a chain only if no other chain *)
(* leads into it, because tot_len of the pbufs in front would be wrong.    *)
(***************************************************************************)
EXTENDS Integers, FiniteSets, Sequences, Functions

CONSTANTS
  PbufThread,      \* the threads
  PbufElem,        \* the elements of MEMP_PBUF_POOL
  NoPbuf,          \* NULL
  MaxLen,          \* bound: the length of one pbuf
  MaxRefs          \* bound: the references a thread holds to one pbuf

ASSUME PbufAssumption ==
  IsFiniteSet(PbufThread) /\ IsFiniteSet(PbufElem) /\ NoPbuf \notin PbufElem
  /\ MaxLen \in Nat \ {0} /\ MaxRefs \in Nat \ {0}

VARIABLES
  pool,            \* memp_tab[MEMP_PBUF_POOL]: the free elements
  next, len, tot_len, ref,      \* the fields of each pbuf
  held,            \* ghost: how many references each thread holds to each pbuf
  busy             \* what a thread is in the middle of

pbufVars == <<pool, next, len, tot_len, ref, held, busy>>

NotBusy == [in |-> "none", p |-> NoPbuf, r |-> NoPbuf]
Allocating(p, r) == [in |-> "pbuf_alloc", p |-> p, r |-> r]   \* p first, r last so far
Freeing(p) == IF p = NoPbuf THEN NotBusy ELSE [in |-> "pbuf_free", p |-> p, r |-> NoPbuf]
Releasing(p) == [in |-> "memp_free", p |-> p, r |-> NoPbuf]

PbufInit ==
  /\ pool = PbufElem
  /\ next = [p \in PbufElem |-> NoPbuf]
  /\ len = [p \in PbufElem |-> 0] /\ tot_len = [p \in PbufElem |-> 0]
  /\ ref = [p \in PbufElem |-> 0]
  /\ held = [t \in PbufThread |-> [p \in PbufElem |-> 0]]
  /\ busy = [t \in PbufThread |-> NotBusy]

\* The chain that begins at p: p and what its links lead to, and nothing else.
Chain(p) ==
  {q \in PbufElem : \A S \in SUBSET PbufElem :
     p \in S /\ (\A x \in S : next[x] \in S \cup {NoPbuf}) => q \in S}
LastOf(p) == CHOOSE q \in Chain(p) : next[q] = NoPbuf
Before(p) == {q \in PbufElem \ pool : next[q] = p}

MayCall(t) == busy[t].in = "none"
Holds(t, p) == MayCall(t) /\ held[t][p] > 0
\* No chain but the one from p leads to a pbuf of it.
Apart(p) == Before(p) = {} /\ \A q \in Chain(p) \ {p} : Cardinality(Before(q)) = 1

-----------------------------------------------------------------------------
\* pbuf_alloc of PBUF_POOL, one element at a time.
AllocFirst(t) ==
  /\ MayCall(t)
  /\ \E p \in pool, l \in 1 .. MaxLen, rest \in {0, 1} :
       /\ pool' = pool \ {p}
       /\ len' = [len EXCEPT ![p] = l] /\ tot_len' = [tot_len EXCEPT ![p] = l + rest]
       /\ next' = [next EXCEPT ![p] = NoPbuf] /\ ref' = [ref EXCEPT ![p] = 1]
       /\ IF rest = 0
          THEN held' = [held EXCEPT ![t][p] = 1] /\ UNCHANGED busy
          ELSE busy' = [busy EXCEPT ![t] = Allocating(p, p)] /\ UNCHANGED held

AllocNext(t) ==
  LET b == busy[t]
      rest == tot_len[b.r] - len[b.r]
  IN
  /\ b.in = "pbuf_alloc"
  /\ \E p \in pool :
       /\ pool' = pool \ {p}
       /\ len' = [len EXCEPT ![p] = rest] /\ tot_len' = [tot_len EXCEPT ![p] = rest]
       /\ next' = [next EXCEPT ![p] = NoPbuf, ![b.r] = p] /\ ref' = [ref EXCEPT ![p] = 1]
  /\ held' = [held EXCEPT ![t][b.p] = 1]
  /\ busy' = [busy EXCEPT ![t] = NotBusy]

\* The pool is empty: what has been allocated is freed again.
LeaksHead(b) == NotBusy                                              \* mutant
AfterFail(b) == Freeing(b.p)
AllocFails(t) ==
  /\ busy[t].in = "pbuf_alloc" /\ pool = {}
  /\ busy' = [busy EXCEPT ![t] = AfterFail(busy[t])]
  /\ UNCHANGED <<pool, next, len, tot_len, ref, held>>

-----------------------------------------------------------------------------
\* pbuf_free: the thread gives up a reference, and with the last one the pbuf,
\* and with that the reference to the next one.
Free(t) ==
  /\ \E p \in PbufElem : /\ Holds(t, p)
                         /\ held' = [held EXCEPT ![t][p] = @ - 1]
                         /\ busy' = [busy EXCEPT ![t] = Freeing(p)]
  /\ UNCHANGED <<pool, next, len, tot_len, ref>>

Unref(t) ==
  LET p == busy[t].p IN
  /\ busy[t].in = "pbuf_free"
  /\ ref' = [ref EXCEPT ![p] = @ - 1]
  /\ busy' = [busy EXCEPT ![t] = IF ref[p] = 1 THEN Releasing(p) ELSE NotBusy]
  /\ UNCHANGED <<pool, next, len, tot_len, held>>

OnlyHead(p) == NoPbuf                                                \* mutant
AfterRelease(p) == next[p]
memp_free(t) ==
  LET p == busy[t].p IN
  /\ busy[t].in = "memp_free"
  /\ pool' = pool \cup {p}
  /\ next' = [next EXCEPT ![p] = NoPbuf]
  /\ len' = [len EXCEPT ![p] = 0] /\ tot_len' = [tot_len EXCEPT ![p] = 0]
  /\ busy' = [busy EXCEPT ![t] = Freeing(AfterRelease(p))]
  /\ UNCHANGED <<ref, held>>

pbuf_ref(t) ==
  /\ \E p \in PbufElem :
       /\ Holds(t, p) /\ held[t][p] < MaxRefs
       /\ ref' = [ref EXCEPT ![p] = @ + 1] /\ held' = [held EXCEPT ![t][p] = @ + 1]
  /\ UNCHANGED <<pool, next, len, tot_len, busy>>

\* The caller hands a pbuf to another thread, through a mailbox.
Handover(t) ==
  /\ \E p \in PbufElem, u \in PbufThread \ {t} :
       /\ Holds(t, p) /\ held[u][p] < MaxRefs
       /\ held' = [held EXCEPT ![t][p] = @ - 1, ![u][p] = @ + 1]
  /\ UNCHANGED <<pool, next, len, tot_len, ref, busy>>

-----------------------------------------------------------------------------
\* pbuf_cat: t's reference to tail becomes the chain's.
OnlyLast(h) == {LastOf(h)}                                           \* mutant
Lengthened(h) == Chain(h)
Catenate(h, tail) ==
  /\ tot_len' = [p \in PbufElem |-> IF p \in Lengthened(h) THEN tot_len[p] + tot_len[tail] ELSE tot_len[p]]
  /\ next' = [next EXCEPT ![LastOf(h)] = tail]
Apiece(t, h, tail) ==
  /\ Holds(t, h) /\ Holds(t, tail) /\ Apart(h)
  /\ h \notin Chain(tail) /\ tail \notin Chain(h)

pbuf_cat(t) ==
  /\ \E h, tail \in PbufElem :
       /\ Apiece(t, h, tail) /\ Catenate(h, tail)
       /\ held' = [held EXCEPT ![t][tail] = @ - 1]
  /\ UNCHANGED <<pool, len, ref, busy>>

\* pbuf_chain: the chain gets a reference of its own.
pbuf_chain(t) ==
  /\ \E h, tail \in PbufElem :
       /\ Apiece(t, h, tail) /\ Catenate(h, tail)
       /\ ref' = [ref EXCEPT ![tail] = @ + 1]
  /\ UNCHANGED <<pool, len, held, busy>>

\* pbuf_dechain: the first pbuf without the rest.
pbuf_dechain(t) ==
  /\ \E p \in PbufElem :
       /\ Holds(t, p) /\ Apart(p) /\ next[p] # NoPbuf
       /\ tot_len' = [tot_len EXCEPT ![p] = len[p]]
       /\ next' = [next EXCEPT ![p] = NoPbuf]
       /\ busy' = [busy EXCEPT ![t] = Freeing(next[p])]
  /\ UNCHANGED <<pool, len, ref, held>>

\* pbuf_realloc to what the pbufs up to q hold, less cut: the rest is freed.
pbuf_realloc(t) ==
  /\ \E p \in PbufElem : \E q \in Chain(p), cut \in 0 .. MaxLen - 1 :
       LET lost == cut + IF next[q] = NoPbuf THEN 0 ELSE tot_len[next[q]] IN
       /\ Holds(t, p) /\ Apart(p) /\ cut < len[q] /\ lost > 0
       /\ tot_len' = [x \in PbufElem |->
            IF x \in Chain(p) \ (Chain(q) \ {q}) THEN tot_len[x] - lost ELSE tot_len[x]]
       /\ len' = [len EXCEPT ![q] = @ - cut]
       /\ next' = [next EXCEPT ![q] = NoPbuf]
       /\ busy' = [busy EXCEPT ![t] = Freeing(next[q])]
  /\ UNCHANGED <<pool, ref, held>>

\* pbuf_header uncovers or hides a header in the first pbuf.
pbuf_header(t) ==
  /\ \E p \in PbufElem, inc \in {-1, 1} :
       /\ Holds(t, p) /\ Before(p) = {} /\ len[p] + inc \in 0 .. MaxLen
       /\ len' = [len EXCEPT ![p] = @ + inc]
       /\ tot_len' = [tot_len EXCEPT ![p] = @ + inc]
  /\ UNCHANGED <<pool, next, ref, held, busy>>

PbufNext == \E t \in PbufThread :
  \/ AllocFirst(t) \/ AllocNext(t) \/ AllocFails(t)
  \/ Free(t) \/ Unref(t) \/ memp_free(t) \/ pbuf_ref(t) \/ Handover(t)
  \/ pbuf_cat(t) \/ pbuf_chain(t) \/ pbuf_dechain(t) \/ pbuf_realloc(t) \/ pbuf_header(t)

PbufSpec == PbufInit /\ [][PbufNext]_pbufVars

-----------------------------------------------------------------------------
\* The references there are to p: the threads', the chains', and the one a
\* thread is about to give up.
References(p) ==
  SumFunctionOnSet([t \in PbufThread |-> held[t][p]], PbufThread)
  + Cardinality(Before(p))
  + Cardinality({t \in PbufThread : busy[t].in \in {"pbuf_free", "pbuf_alloc"} /\ busy[t].p = p})

\* Whatever threads do with chains they share: a pbuf is in the pool exactly when
\* nobody can reach it any more, and its count is the number of references, so none
\* is lost, freed early or freed twice (pbuf.c:620-697, 276, 766, 793).
RefsCounted == \A p \in PbufElem :
  LET dying == \E t \in PbufThread : busy[t].in = "memp_free" /\ busy[t].p = p IN
  IF p \in pool THEN References(p) = 0 ELSE ref[p] = References(p) /\ (ref[p] = 0 <=> dying)

\* tot_len is what a pbuf and those behind it hold, for every pbuf a thread can
\* reach (pbuf.c:27-35, 756-766, 815-821, 461).
TotLenRight == \A p \in PbufElem : (\E t \in PbufThread : held[t][p] > 0) =>
  \A q \in Chain(p) :
    tot_len[q] = len[q] + IF next[q] = NoPbuf THEN 0 ELSE tot_len[next[q]]

\* Both: what threads can reach is counted, and as long as it says.
PbufInv == RefsCounted /\ TotLenRight
=============================================================================
