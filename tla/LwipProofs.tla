---------------------------- MODULE LwipProofs ------------------------------
(***************************************************************************)
(* Proofs about the memory of lwIP, MemHeap and Pbuf, and about Sockets.   *)
(*                                                                         *)
(* MemHeap, for every size of the heap and of the requests: the blocks     *)
(* cover the heap, no two free ones are neighbours, lfree is the lowest    *)
(* free one, what was given out lies in used blocks of its own, and a      *)
(* request is refused only if no free block has room for it.  The blocks   *)
(* are a list by their links and an order by their places, and the         *)
(* invariant says that the two agree; every function then cuts blocks,     *)
(* joins neighbours, or marks one, and each of the three has a lemma about *)
(* the links that the functions' lemmas use.                               *)
(*                                                                         *)
(* Pbuf, for all threads and pools: the count of a pbuf is the number of   *)
(* references to it, it is in the pool exactly when there is none, and     *)
(* tot_len is right wherever a thread can look.  A chain is the smallest   *)
(* set with its first pbuf that the links do not leave; that chains end    *)
(* and that nobody else leads into one whose pbufs have one predecessor    *)
(* each is what the lengths need.  The one pbuf whose length may be wrong  *)
(* is the head of an allocation that is not finished or is being undone:   *)
(* only the thread that made it knows it.                                  *)
(*                                                                         *)
(* Sockets, for all threads, sockets and sizes of a mailbox: lwip_select   *)
(* misses no event.  A select counts as alert from its second scan on; of  *)
(* what it has looked at since, whatever becomes readable has an           *)
(* event_callback on its way to it until it is signalled.                  *)
(***************************************************************************)
EXTENDS MemHeap, Pbuf, Sockets, NumberSets, FiniteSetTheorems, SequenceTheorems, TLAPS

\* The parts of the invariant, of any blocks r, so that a lemma can speak of the
\* blocks in the middle of a function.  The blocks cover the heap, and their links
\* agree both ways.
Linked(r) ==
  /\ DOMAIN r \subseteq Offset /\ 0 \in DOMAIN r /\ MemSize \in DOMAIN r
  /\ r \in [DOMAIN r -> [next : Offset, prev : Offset, used : BOOLEAN]]
  /\ r[MemSize].used
  /\ r[0].prev = 0
  /\ \A o \in DOMAIN r \ {MemSize} :
       /\ r[o].next \in DOMAIN r /\ r[o].next > o
       /\ \A x \in DOMAIN r : x <= o \/ x >= r[o].next
       /\ r[o].next # MemSize => r[r[o].next].prev = o
  /\ \A o \in DOMAIN r \ {0, MemSize} :
       r[o].prev \in DOMAIN r /\ r[o].prev < o /\ r[r[o].prev].next = o

\* Behind a free block there is a used one.
UsedBehind(r, o) == ~r[o].used => r[o].next = MemSize \/ r[r[o].next].used
NoTwoFree(r) == \A o \in DOMAIN r \ {MemSize} : UsedBehind(r, o)

\* l is the lowest free block, or the end of the heap.
LeastFree(r, l) ==
  /\ l \in DOMAIN r /\ (l = MemSize \/ ~r[l].used)
  /\ \A x \in DOMAIN r : x < l => r[x].used

\* What was given out is in used blocks of its own, and all used blocks were given out.
Given(r, g) ==
  /\ g \subseteq [at : Offset, size : Nat \ {0}]
  /\ \A m \in g : /\ m.at \in DOMAIN r \ {MemSize} /\ r[m.at].used
                  /\ r[m.at].next - m.at - Header >= m.size
  /\ \A m, n \in g : m.at = n.at => m = n
  /\ \A o \in DOMAIN r \ {MemSize} : r[o].used => \E m \in g : m.at = o

HeapIInv ==
  /\ Linked(ram) /\ NoTwoFree(ram) /\ LeastFree(ram, lfree) /\ Given(ram, live)
  /\ refused \in Nat /\ RefusedOnlyIfFull

-----------------------------------------------------------------------------
(* What the functions do to the links.                                     *)

\* s are the blocks r after the block at o has been cut at o2.
Cut(r, s, o, o2) ==
  /\ DOMAIN s = DOMAIN r \cup {o2}
  /\ s \in [DOMAIN s -> [next : Offset, prev : Offset, used : BOOLEAN]]
  /\ s[o].next = o2 /\ s[o].prev = r[o].prev /\ s[o].used
  /\ s[o2].next = r[o].next /\ s[o2].prev = o /\ ~s[o2].used
  /\ \A x \in DOMAIN r \ {o} : s[x].next = r[x].next /\ s[x].used = r[x].used
  /\ r[o].next # MemSize => s[r[o].next].prev = o2
  /\ \A x \in DOMAIN r \ {r[o].next, MemSize} : s[x].prev = r[x].prev

\* Cutting a block keeps the links right, and says what the two parts are.
LEMMA CutLinked ==
  ASSUME NEW r, Linked(r), NEW o \in DOMAIN r \ {MemSize}, NEW o2 \in Nat,
         o < o2, o2 < r[o].next, NEW s, Cut(r, s, o, o2)
  PROVE  /\ Linked(s) /\ o2 \notin DOMAIN r /\ DOMAIN s = DOMAIN r \cup {o2}
         /\ s[o].next = o2 /\ s[o].used /\ s[o2].next = r[o].next /\ ~s[o2].used
         /\ \A x \in DOMAIN r \ {o} : s[x].next = r[x].next /\ s[x].used = r[x].used
<1>1. PICK far : far = r[o].next
  OBVIOUS
<1>2. /\ \A x \in DOMAIN r \ {MemSize} :
           /\ r[x].next \in DOMAIN r /\ r[x].next > x
           /\ \A y \in DOMAIN r : y <= x \/ y >= r[x].next
           /\ r[x].next # MemSize => r[r[x].next].prev = x
      /\ \A x \in DOMAIN r \ {0, MemSize} :
           r[x].prev \in DOMAIN r /\ r[x].prev < x /\ r[r[x].prev].next = x
      /\ r[0].prev = 0 /\ r[MemSize].used /\ 0 \in DOMAIN r /\ MemSize \in DOMAIN r
      /\ \A x \in DOMAIN r : x \in Nat /\ x <= MemSize
  BY HeapAssumption DEF Linked, Offset
<1>3. far \in DOMAIN r /\ far \in Nat /\ o \in Nat /\ far <= MemSize /\ o < o2 /\ o2 < far
      /\ \A y \in DOMAIN r : y <= o \/ y >= far
  BY <1>1, <1>2
<1>4. o2 \notin DOMAIN r /\ o2 \in Offset /\ o2 # 0 /\ o2 # MemSize /\ MemSize \in Nat
  BY <1>2, <1>3, HeapAssumption DEF Offset
<1>5. /\ DOMAIN s = DOMAIN r \cup {o2}
      /\ s \in [DOMAIN s -> [next : Offset, prev : Offset, used : BOOLEAN]]
      /\ s[o].next = o2 /\ s[o].prev = r[o].prev /\ s[o].used
      /\ s[o2].next = far /\ s[o2].prev = o /\ ~s[o2].used
      /\ \A x \in DOMAIN r \ {o} : s[x].next = r[x].next /\ s[x].used = r[x].used
      /\ far # MemSize => s[far].prev = o2
      /\ \A x \in DOMAIN r \ {far, MemSize} : s[x].prev = r[x].prev
  BY <1>1 DEF Cut
<1>6. ASSUME NEW x \in DOMAIN s \ {MemSize}
      PROVE  /\ s[x].next \in DOMAIN s /\ s[x].next > x
             /\ \A y \in DOMAIN s : y <= x \/ y >= s[x].next
             /\ s[x].next # MemSize => s[s[x].next].prev = x
  <2>1. CASE x = o
    <3>1. ASSUME NEW y \in DOMAIN s PROVE y <= o \/ y >= o2
      BY <1>2, <1>3, <1>5
    <3> QED
      BY <2>1, <3>1, <1>3, <1>4, <1>5
  <2>2. CASE x = o2
    <3>1. ASSUME NEW y \in DOMAIN s PROVE y <= o2 \/ y >= far
      BY <1>2, <1>3, <1>5
    <3> QED
      BY <2>2, <3>1, <1>3, <1>4, <1>5
  <2>3. CASE x \in DOMAIN r \ {o}
    <3>1. r[x].next \in DOMAIN r /\ r[x].next > x /\ x \in Nat /\ r[x].next \in Nat
      BY <2>3, <1>2
    <3>2. x # o /\ (x <= o \/ x >= far) /\ (o <= x \/ o >= r[x].next)
      BY <2>3, <1>2, <1>3
    <3>3. r[x].next # far
      BY <3>1, <3>2, <1>3
    <3>4. o2 <= x \/ o2 >= r[x].next
      BY <3>1, <3>2, <1>3
    <3>5. s[x].next = r[x].next
      BY <2>3, <1>5
    <3>6. r[x].next # MemSize => s[r[x].next].prev = x
      BY <2>3, <3>1, <3>3, <1>5, <1>2
    <3>7. \A y \in DOMAIN r : y <= x \/ y >= r[x].next
      BY <2>3, <1>2
    <3> QED
      BY <3>1, <3>4, <3>5, <3>6, <3>7, <1>5
  <2> QED
    BY <1>5, <2>1, <2>2, <2>3
<1>7. ASSUME NEW x \in DOMAIN s \ {0, MemSize}
      PROVE  s[x].prev \in DOMAIN s /\ s[x].prev < x /\ s[s[x].prev].next = x
  <2>1. CASE x = o2
    BY <2>1, <1>3, <1>5
  <2>2. CASE x = far
    <3>1. s[x].prev = o2
      BY <2>2, <1>5
    <3> QED
      BY <2>2, <3>1, <1>3, <1>5
  <2>3. CASE x \in DOMAIN r \ {far}
    <3>1. r[x].prev \in DOMAIN r /\ r[x].prev < x /\ r[r[x].prev].next = x
      BY <2>3, <1>2
    <3>2. r[x].prev # o
      BY <2>3, <3>1, <1>1
    <3>3. s[x].prev = r[x].prev
      BY <2>3, <1>5
    <3> QED
      BY <3>1, <3>2, <3>3, <1>5
  <2> QED
    BY <1>5, <2>1, <2>2, <2>3
<1>8. s[0].prev = 0
  BY <1>2, <1>3, <1>5
<1>9. s[MemSize].used /\ 0 \in DOMAIN s /\ MemSize \in DOMAIN s /\ DOMAIN s \subseteq Offset
  BY <1>2, <1>4, <1>5 DEF Linked
<1> QED
  BY <1>1, <1>4, <1>5, <1>6, <1>7, <1>8, <1>9 DEF Linked

\* s is r with the block behind o taken into o.
Joins(r, s, o) ==
  /\ Linked(s) /\ DOMAIN s = DOMAIN r \ {r[o].next}
  /\ s[o].next = r[r[o].next].next /\ s[o].prev = r[o].prev
  /\ \A x \in DOMAIN s : s[x].used = r[x].used
  /\ \A x \in DOMAIN s \ {o} : s[x].next = r[x].next

\* The block o takes the one behind it in.
LEMMA JoinedLinked ==
  ASSUME NEW r, Linked(r), NEW o \in DOMAIN r \ {MemSize}, r[o].next # MemSize
  PROVE  Joins(r, Joined(r, o), o)
<1>0. PICK s : s = Joined(r, o)
  OBVIOUS
<1> DEFINE far == r[o].next
           last == r[far].next
<1>1. /\ o \in Nat /\ o < far /\ far < last /\ far \in DOMAIN r /\ last \in DOMAIN r
      /\ \A x \in DOMAIN r : x \in Nat /\ x <= MemSize
      /\ far \in Nat /\ last \in Nat /\ last <= MemSize
  BY HeapAssumption DEF Linked, Offset
<1>2. /\ DOMAIN s = DOMAIN r \ {far}
      /\ s[o] = [r[o] EXCEPT !.next = last]
      /\ s[last] = [r[last] EXCEPT !.prev = o]
      /\ \A x \in DOMAIN s \ {o, last} : s[x] = r[x]
  BY <1>0, <1>1 DEF Joined
<1>3. /\ s[o].next = last /\ s[o].prev = r[o].prev /\ s[last].prev = o
      /\ \A x \in DOMAIN s : s[x].used = r[x].used
      /\ \A x \in DOMAIN s \ {o} : s[x].next = r[x].next
      /\ \A x \in DOMAIN s \ {last} : s[x].prev = r[x].prev
  BY <1>1, <1>2 DEF Linked
<1>4. s \in [DOMAIN s -> [next : Offset, prev : Offset, used : BOOLEAN]]
  <2>1. ASSUME NEW x \in DOMAIN s PROVE s[x] \in [next : Offset, prev : Offset, used : BOOLEAN]
    BY <1>1, <1>2 DEF Linked, Offset
  <2>2. s = [x \in DOMAIN s |-> s[x]]
    BY <1>0 DEF Joined
  <2> QED
    BY <2>1, <2>2
<1>5. /\ \A x \in DOMAIN r \ {MemSize} :
           /\ r[x].next \in DOMAIN r /\ r[x].next > x
           /\ \A y \in DOMAIN r : y <= x \/ y >= r[x].next
           /\ r[x].next # MemSize => r[r[x].next].prev = x
      /\ \A x \in DOMAIN r \ {0, MemSize} :
           r[x].prev \in DOMAIN r /\ r[x].prev < x /\ r[r[x].prev].next = x
      /\ \A y \in DOMAIN r : (y <= o \/ y >= far) /\ (y <= far \/ y >= last)
      /\ r[o].next = far /\ r[far].next = last
      /\ r[0].prev = 0 /\ r[MemSize].used /\ 0 \in DOMAIN r /\ MemSize \in DOMAIN r
  BY DEF Linked
<1> HIDE DEF far, last
<1>6. ASSUME NEW x \in DOMAIN s \ {MemSize}
      PROVE  /\ s[x].next \in DOMAIN s /\ s[x].next > x
             /\ \A y \in DOMAIN s : y <= x \/ y >= s[x].next
             /\ s[x].next # MemSize => s[s[x].next].prev = x
  <2>1. CASE x = o
    <3>1. s[x].next \in DOMAIN s
      BY <2>1, <1>1, <1>2, <1>3
    <3>2. s[x].next > x
      BY <2>1, <1>1, <1>2, <1>3
    <3>3. ASSUME NEW y \in DOMAIN s PROVE y <= x \/ y >= s[x].next
      <4>1. y \in Nat /\ y # far /\ (y <= o \/ y >= far) /\ (y <= far \/ y >= last)
        BY <1>1, <1>2, <1>5
      <4> QED
        BY <4>1, <2>1, <1>1, <1>3
    <3>4. s[x].next # MemSize => s[s[x].next].prev = x
      BY <2>1, <1>3
    <3> QED
      BY <3>1, <3>2, <3>3, <3>4
  <2>2. CASE x # o
    <3>1. /\ x \in DOMAIN r \ {MemSize} /\ x # far /\ x \in Nat
          /\ r[x].next \in DOMAIN r /\ r[x].next > x /\ r[x].next \in Nat
      BY <2>2, <1>1, <1>2, <1>5
    <3>2. r[x].next # far
      BY <2>2, <3>1, <1>1, <1>5
    <3>3. r[x].next = last => last = MemSize
      BY <2>2, <3>1, <1>1, <1>5
    <3> QED
      BY <2>2, <3>1, <3>2, <3>3, <1>1, <1>2, <1>3, <1>5
  <2> QED
    BY <2>1, <2>2
<1>7. ASSUME NEW x \in DOMAIN s \ {0, MemSize}
      PROVE  s[x].prev \in DOMAIN s /\ s[x].prev < x /\ s[s[x].prev].next = x
  <2>1. CASE x = last
    <3>1. s[x].prev = o
      BY <2>1, <1>3
    <3> QED
      BY <2>1, <3>1, <1>1, <1>2, <1>3
  <2>2. CASE x # last
    <3>1. r[x].prev \in DOMAIN r /\ r[x].prev < x /\ r[r[x].prev].next = x
      BY <1>2, <1>5
    <3>2. r[x].prev # far /\ r[x].prev # o
      BY <2>2, <3>1, <1>2, <1>5
    <3> QED
      BY <2>2, <3>1, <3>2, <1>1, <1>2, <1>3
  <2> QED
    BY <2>1, <2>2
<1>8. s[0].prev = 0 /\ s[MemSize].used /\ 0 \in DOMAIN s /\ MemSize \in DOMAIN s /\ DOMAIN s \subseteq Offset
  BY <1>1, <1>2, <1>3, <1>5 DEF Linked, Offset
<1> QED
  <2>1. Linked(s) /\ DOMAIN s = DOMAIN r \ {r[o].next} /\ s[o].next = r[r[o].next].next
    BY <1>1, <1>2, <1>3, <1>4, <1>6, <1>7, <1>8 DEF Linked, far, last
  <2> QED
    BY <2>1, <1>0, <1>3 DEF Joins

WithPrev(block, p) == [block EXCEPT !.prev = p]

\* Which fields change in the functions that cut.
LEMMA CutFields ==
  ASSUME NEW r, Linked(r), NEW o \in DOMAIN r \ {MemSize}, NEW o2 \in Offset \ DOMAIN r,
         NEW far, far = r[o].next, far # o, far \in DOMAIN r,
         NEW s, DOMAIN s = DOMAIN r \cup {o2}, s = [x \in DOMAIN s |-> s[x]],
         s[o] = Block(o2, r[o].prev, TRUE), s[o2] = Block(far, o, FALSE),
         far # MemSize => s[far] = WithPrev(r[far], o2),
         \A x \in DOMAIN r \ {o, far} : s[x] = r[x],
         NEW p \in Offset, far = MemSize => s[far] = WithPrev(r[far], p)
  PROVE  Cut(r, s, o, o2)
<1>1. \A x \in DOMAIN r : r[x] \in [next : Offset, prev : Offset, used : BOOLEAN]
  BY DEF Linked
<1>2. \A x \in DOMAIN s : s[x] \in [next : Offset, prev : Offset, used : BOOLEAN]
  <2>1. r[o].prev \in Offset /\ far \in Offset /\ o \in Offset
    BY <1>1 DEF Linked
  <2>2. s[o] \in [next : Offset, prev : Offset, used : BOOLEAN]
    BY <2>1 DEF Block
  <2>3. s[o2] \in [next : Offset, prev : Offset, used : BOOLEAN]
    BY <2>1 DEF Block
  <2>4. s[far] \in [next : Offset, prev : Offset, used : BOOLEAN]
    BY <1>1 DEF WithPrev
  <2> QED
    BY <1>1, <2>2, <2>3, <2>4
<1>3. s[o].next = o2 /\ s[o].prev = r[o].prev /\ s[o].used
  BY DEF Block
<1>4. s[o2].next = far /\ s[o2].prev = o /\ ~s[o2].used
  BY DEF Block
<1>5. s[far].next = r[far].next /\ s[far].used = r[far].used
  BY <1>1 DEF WithPrev
<1>6. far # MemSize => s[far].prev = o2
  BY <1>1 DEF WithPrev
<1> QED
  BY <1>2, <1>3, <1>4, <1>5, <1>6 DEF Cut

\* Split cuts a block.
LEMMA SplitCuts ==
  ASSUME Linked(ram), NEW o \in DOMAIN ram \ {MemSize}, NEW size \in Nat,
         o + Header + size < ram[o].next
  PROVE  Cut(ram, Split(o, size), o, o + Header + size)
<1>1. PICK o2 : o2 = o + Header + size
  OBVIOUS
<1>2. PICK far : far = ram[o].next
  OBVIOUS
<1>3. PICK s : s = Split(o, size)
  OBVIOUS
<1>4. o2 \in Offset \ DOMAIN ram /\ far # o /\ far \in DOMAIN ram /\ far # o2 /\ o2 # o
  BY <1>1, <1>2, HeapAssumption DEF Linked, Offset, Header
<1>5. DOMAIN s = DOMAIN ram \cup {o2} /\ s = [x \in DOMAIN s |-> s[x]]
  BY <1>1, <1>3 DEF Split
<1>6. s[o] = Block(o2, ram[o].prev, TRUE) /\ s[o2] = Block(far, o, FALSE)
  BY <1>1, <1>2, <1>3, <1>4 DEF Split
<1>7. /\ far # MemSize => s[far] = WithPrev(ram[far], o2)
      /\ far = MemSize => s[far] = ram[far]
  BY <1>1, <1>2, <1>3, <1>4 DEF Split, WithPrev
<1>8. \A x \in DOMAIN ram \ {o, far} : s[x] = ram[x]
  BY <1>1, <1>2, <1>3, <1>4 DEF Split
<1>9. ram[far] \in [next : Offset, prev : Offset, used : BOOLEAN]
  BY <1>4 DEF Linked
<1>10. ram[far].prev \in Offset /\ (far = MemSize => s[far] = WithPrev(ram[far], ram[far].prev))
  BY <1>7, <1>9 DEF WithPrev
<1>11. Cut(ram, s, o, o2)
  BY <1>2, <1>4, <1>5, <1>6, <1>7, <1>8, <1>10, CutFields, ZenonT(60)
<1> QED
  BY <1>1, <1>3, <1>11

\* Moved joins a block with the free one behind it, and cuts the two in another place.
LEMMA MovedCuts ==
  ASSUME Linked(ram), NEW o \in DOMAIN ram \ {MemSize}, NEW o2 \in Nat,
         o < o2, o2 < ram[o].next, ram[o].next # MemSize, ram[o].used
  PROVE  Cut(Joined(ram, o), Moved(o, o2), o, o2)
<1>1. PICK r : r = Joined(ram, o)
  OBVIOUS
<1>2. PICK far : far = ram[o].next
  OBVIOUS
<1>3. PICK last : last = ram[far].next
  OBVIOUS
<1>4. PICK s : s = Moved(o, o2)
  OBVIOUS
<1>5. /\ far \in DOMAIN ram \ {MemSize} /\ last \in DOMAIN ram /\ far < last /\ o < far
      /\ far \in Nat /\ last \in Nat /\ o \in Nat
      /\ o2 \in Offset \ DOMAIN ram
  BY <1>2, <1>3, HeapAssumption DEF Linked, Offset
<1>6. Linked(r) /\ DOMAIN r = DOMAIN ram \ {far} /\ r[o].next = last /\ r[o].prev = ram[o].prev
  <2>1. Joins(ram, Joined(ram, o), o)
    BY JoinedLinked
  <2> QED
    BY <2>1, <1>1, <1>2, <1>3 DEF Joins
<1>7. r[last] = WithPrev(ram[last], o) /\ \A x \in DOMAIN r \ {o, last} : r[x] = ram[x]
  <2>1. r = [x \in DOMAIN ram \ {far} |->
               IF x = o THEN [ram[o] EXCEPT !.next = last]
               ELSE IF x = last THEN [ram[last] EXCEPT !.prev = o]
               ELSE ram[x]]
    BY <1>1, <1>2, <1>3 DEF Joined
  <2>2. last # o /\ last \in DOMAIN ram \ {far}
    BY <1>5
  <2>3. r[last] = [ram[last] EXCEPT !.prev = o]
    BY <2>1, <2>2
  <2>4. \A x \in DOMAIN r \ {o, last} : r[x] = ram[x]
    BY <2>1, <1>6
  <2> QED
    BY <2>3, <2>4 DEF WithPrev
<1>8. DOMAIN s = DOMAIN r \cup {o2} /\ s = [x \in DOMAIN s |-> s[x]]
  BY <1>2, <1>4, <1>6 DEF Moved
<1>9. s[o] = [ram[o] EXCEPT !.next = o2]
  BY <1>2, <1>3, <1>4, <1>5 DEF Moved
<1>10. s[o2] = Block(last, o, FALSE)
  BY <1>2, <1>3, <1>4, <1>5 DEF Moved
<1>11. /\ last # MemSize => s[last] = WithPrev(ram[last], o2)
       /\ last = MemSize => s[last] = ram[last]
  <2>1. last # o /\ last # o2 /\ last # far /\ last \in DOMAIN ram \ {far}
    BY <1>5
  <2>2. CASE last # MemSize
    BY <2>1, <2>2, <1>2, <1>3, <1>4 DEF Moved, WithPrev
  <2>3. CASE last = MemSize
    BY <2>1, <2>3, <1>2, <1>3, <1>4 DEF Moved
  <2> QED
    BY <2>2, <2>3
<1>12. \A x \in DOMAIN r \ {o, last} : s[x] = r[x]
  <2>1. \A x \in DOMAIN r \ {o, last} : s[x] = ram[x]
    BY <1>2, <1>3, <1>4, <1>5, <1>6 DEF Moved
  <2> QED
    BY <2>1, <1>7
<1>13. \A x \in DOMAIN ram : ram[x] \in [next : Offset, prev : Offset, used : BOOLEAN]
  BY DEF Linked
<1>14. s[o] = Block(o2, r[o].prev, TRUE)
  BY <1>6, <1>9, <1>13 DEF Block
<1>15. last # MemSize => s[last] = WithPrev(r[last], o2)
  BY <1>5, <1>7, <1>11, <1>13 DEF WithPrev
<1>16. /\ last = MemSize => s[last] = WithPrev(r[last], ram[last].prev)
       /\ ram[last].prev \in Offset
  BY <1>5, <1>7, <1>11, <1>13 DEF WithPrev
<1>17. last # o /\ last \in DOMAIN r /\ o \in DOMAIN r \ {MemSize} /\ o2 \in Offset \ DOMAIN r
  BY <1>5, <1>6
<1>18. Cut(r, s, o, o2)
  <2> HIDE DEF Cut
  <2> QED
    BY <1>6, <1>8, <1>10, <1>12, <1>14, <1>15, <1>16, <1>17, CutFields
<1> QED
  BY <1>1, <1>4, <1>18

\* A block is marked as used, or as free.
Marked(r, s, o) == \E u \in BOOLEAN : s = [r EXCEPT ![o].used = u]

\* Marking a block used or free leaves the links alone.
LEMMA MarkedLinked ==
  ASSUME NEW r, Linked(r), NEW o \in DOMAIN r \ {MemSize}, NEW s, Marked(r, s, o)
  PROVE  /\ Linked(s) /\ DOMAIN s = DOMAIN r
         /\ \A x \in DOMAIN r : s[x].next = r[x].next /\ s[x].prev = r[x].prev
         /\ \A x \in DOMAIN r \ {o} : s[x].used = r[x].used
<1>0. PICK u \in BOOLEAN : s = [r EXCEPT ![o].used = u]
  BY DEF Marked
<1>1. \A x \in DOMAIN r : r[x] \in [next : Offset, prev : Offset, used : BOOLEAN]
  BY DEF Linked
<1>2. DOMAIN s = DOMAIN r /\ s[o] = [r[o] EXCEPT !.used = u] /\ \A x \in DOMAIN r \ {o} : s[x] = r[x]
  BY <1>0
<1>3. /\ s[o].next = r[o].next /\ s[o].prev = r[o].prev
      /\ s[o] \in [next : Offset, prev : Offset, used : BOOLEAN]
  BY <1>1, <1>2
<1>4. s \in [DOMAIN s -> [next : Offset, prev : Offset, used : BOOLEAN]]
  <2>1. \A x \in DOMAIN s : s[x] \in [next : Offset, prev : Offset, used : BOOLEAN]
    BY <1>1, <1>2, <1>3
  <2> QED
    BY <2>1, <1>0
<1>5. /\ \A x \in DOMAIN r : s[x].next = r[x].next /\ s[x].prev = r[x].prev
      /\ \A x \in DOMAIN r \ {o} : s[x].used = r[x].used
  BY <1>2, <1>3
<1>6. Linked(s)
  BY <1>2, <1>4, <1>5 DEF Linked
<1> QED
  BY <1>2, <1>3, <1>5, <1>6

-----------------------------------------------------------------------------
(* What was given out.                                                     *)

\* What is said of all blocks but o.
GivenBut(r, g, o) ==
  /\ g \subseteq [at : Offset, size : Nat \ {0}]
  /\ \A m \in g : /\ m.at \in DOMAIN r \ {MemSize, o} /\ r[m.at].used
                  /\ r[m.at].next - m.at - Header >= m.size
  /\ \A m, n \in g : m.at = n.at => m = n
  /\ \A x \in DOMAIN r \ {MemSize, o} : r[x].used => \E m \in g : m.at = x

\* Nothing was given out at a free block.
LEMMA GivenButFree ==
  ASSUME NEW r, NEW o \in DOMAIN r \ {MemSize}, ~r[o].used, NEW g
  PROVE  Given(r, g) <=> GivenBut(r, g, o)
  BY DEF Given, GivenBut

\* What lies at a place was given out once.
LEMMA GivenButOne ==
  ASSUME NEW r, NEW g, Given(r, g), NEW m \in g
  PROVE  GivenBut(r, g \ {m}, m.at)
  BY DEF Given, GivenBut

\* The block at o is given out (again).
LEMMA GivenWith ==
  ASSUME NEW r, NEW o \in DOMAIN r \ {MemSize}, NEW g, GivenBut(r, g, o), r[o].used,
         NEW size \in Nat \ {0}, o \in Offset, r[o].next - o - Header >= size
  PROVE  Given(r, g \cup {[at |-> o, size |-> size]})
<1>1. PICK n : n = [at |-> o, size |-> size]
  OBVIOUS
<1>2. n \in [at : Offset, size : Nat \ {0}] /\ n.at = o /\ n.size = size
  BY <1>1
<1>3. \A m \in g : m.at # o
  BY DEF GivenBut
<1>4. Given(r, g \cup {n})
  BY <1>2, <1>3 DEF Given, GivenBut
<1> QED
  BY <1>1, <1>4

\* Cutting the block at o disturbs nobody else.
LEMMA GivenCut ==
  ASSUME NEW r, NEW o \in DOMAIN r \ {MemSize}, NEW g, GivenBut(r, g, o),
         NEW o2, o2 \notin DOMAIN r, NEW s, Cut(r, s, o, o2)
  PROVE  GivenBut(s, g, o)
  BY DEF GivenBut, Cut

\* Joining the block at o with the free one behind it disturbs nobody else.
LEMMA GivenJoined ==
  ASSUME NEW r, Linked(r), NEW o \in DOMAIN r \ {MemSize}, NEW g, GivenBut(r, g, o),
         r[o].next # MemSize, ~r[r[o].next].used
  PROVE  GivenBut(Joined(r, o), g, o)
<1>1. Joins(r, Joined(r, o), o)
  BY JoinedLinked
<1>2. \A m \in g : m.at # r[o].next
  BY DEF GivenBut
<1> QED
  BY <1>1, <1>2 DEF GivenBut, Joins

-----------------------------------------------------------------------------
(* The functions.                                                          *)

\* The rest that is cut off is free, and has a used block or the end behind it.
LEMMA CutNoTwoFree ==
  ASSUME NEW r, Linked(r), NEW o \in DOMAIN r \ {MemSize}, NEW o2, o2 \notin DOMAIN r,
         NEW s, Cut(r, s, o, o2),
         \A x \in DOMAIN r \ {MemSize, o} : UsedBehind(r, x),
         r[o].next = MemSize \/ r[r[o].next].used
  PROVE  NoTwoFree(s)
<1>1. \A x \in DOMAIN r \ {MemSize} : r[x].next \in DOMAIN r
  BY DEF Linked
<1>2. /\ DOMAIN s = DOMAIN r \cup {o2} /\ s[o].used /\ s[o2].next = r[o].next
      /\ \A x \in DOMAIN r \ {o} : s[x].next = r[x].next /\ s[x].used = r[x].used
  BY DEF Cut
<1>3. r[o].next # o /\ r[o].next \in DOMAIN r
  BY HeapAssumption DEF Linked, Offset
<1> SUFFICES ASSUME NEW x \in DOMAIN s \ {MemSize} PROVE UsedBehind(s, x)
  BY DEF NoTwoFree
<1>4. CASE x = o
  BY <1>2, <1>4 DEF UsedBehind
<1>5. CASE x = o2
  BY <1>2, <1>3, <1>5 DEF UsedBehind
<1>6. CASE x \in DOMAIN r \ {o, o2}
  BY <1>1, <1>2, <1>6 DEF UsedBehind
<1> QED
  BY <1>2, <1>4, <1>5, <1>6

\* mem_malloc.
LEMMA MallocKeeps ==
  ASSUME HeapIInv, NEW size \in 1 .. MaxSize, mem_malloc(size)
  PROVE  HeapIInv'
<1> USE DEF Header, MemMin
<1>0. /\ Linked(ram) /\ NoTwoFree(ram) /\ LeastFree(ram, lfree) /\ Given(ram, live)
      /\ refused \in Nat /\ RefusedOnlyIfFull /\ size \in Nat \ {0}
      /\ \A x \in DOMAIN ram : x \in Nat /\ x <= MemSize
      /\ \A x \in DOMAIN ram \ {MemSize} : ram[x].next \in DOMAIN ram /\ ram[x].next > x
      /\ lfree \in DOMAIN ram /\ MemSize \in DOMAIN ram /\ ram[MemSize].used /\ MemSize \in Nat
  BY HeapAssumption DEF HeapIInv, Linked, Offset, LeastFree
<1>1. CASE Fitting(size) = {}
  <2>1. refused' = size /\ UNCHANGED <<ram, lfree, live>>
    BY <1>1 DEF mem_malloc
  <2>2. ASSUME NEW x \in DOMAIN ram, ~ram[x].used, Room(x) >= size PROVE FALSE
    <3>1. x # MemSize /\ x >= lfree
      BY <2>2, <1>0 DEF LeastFree
    <3>2. x < MemSize - size
      BY <2>2, <3>1, <1>0 DEF Room
    <3> QED
      BY <2>2, <3>1, <3>2, <1>1 DEF Fitting
  <2>3. \A x \in DOMAIN ram : ram[x].used \/ Room(x) < size
    <3>1. \A x \in DOMAIN ram : x # MemSize => Room(x) \in Int
      BY <1>0 DEF Room
    <3> QED
      BY <2>2, <3>1, <1>0
  <2>4. RefusedOnlyIfFull'
    BY <2>1, <2>3 DEF RefusedOnlyIfFull, Room
  <2> QED
    BY <1>0, <2>1, <2>4 DEF HeapIInv
<1>2. CASE Fitting(size) # {}
  <2>1. PICK o : o = Min(Fitting(size))
    OBVIOUS
  <2>2. o \in Fitting(size)
    <3>1. Fitting(size) \subseteq Nat
      BY <1>0 DEF Fitting
    <3> QED
      BY <1>2, <2>1, <3>1, MinOf
  <2>3. /\ o \in DOMAIN ram \ {MemSize} /\ o >= lfree /\ ~ram[o].used /\ Room(o) >= size
        /\ o \in Nat /\ o \in Offset
    BY <2>2, <1>0 DEF Fitting, Offset
  <2>4. PICK g : g = live \cup {[at |-> o, size |-> size]}
    OBVIOUS
  <2>5. /\ ram' = IF Room(o) >= size + Header + MemMin THEN Split(o, size)
                  ELSE [ram EXCEPT ![o].used = TRUE]
        /\ lfree' = IF o = lfree THEN LowestFree(ram') ELSE lfree
        /\ live' = g /\ refused' = 0
    BY <1>2, <2>1, <2>4 DEF mem_malloc
  <2>6. GivenBut(ram, live, o)
    BY <1>0, <2>3, GivenButFree
  <2>7. ram[o].next = MemSize \/ ram[ram[o].next].used
    BY <1>0, <2>3 DEF NoTwoFree, UsedBehind
  <2>8. /\ Linked(ram') /\ NoTwoFree(ram') /\ Given(ram', g)
        /\ DOMAIN ram \subseteq DOMAIN ram'
        /\ \A x \in DOMAIN ram' : x < o => x \in DOMAIN ram
        /\ \A x \in DOMAIN ram \ {o} : ram'[x].used = ram[x].used
        /\ ram'[o].used
    <3>1. CASE Room(o) >= size + Header + MemMin
      <4>1. PICK o2 : o2 = o + Header + size
        OBVIOUS
      <4>2. o2 \in Nat /\ o < o2 /\ o2 < ram[o].next
        BY <1>0, <2>3, <3>1, <4>1 DEF Room
      <4>3. Cut(ram, ram', o, o2)
        BY <1>0, <2>3, <2>5, <3>1, <4>1, <4>2, SplitCuts
      <4>4. Linked(ram') /\ o2 \notin DOMAIN ram
        BY <1>0, <2>3, <4>2, <4>3, CutLinked
      <4>5. NoTwoFree(ram')
        BY <1>0, <2>3, <2>7, <4>3, <4>4, CutNoTwoFree DEF NoTwoFree
      <4>6. GivenBut(ram', live, o)
        BY <2>3, <2>6, <4>3, <4>4, GivenCut
      <4>7. /\ DOMAIN ram' = DOMAIN ram \cup {o2} /\ ram'[o].used /\ ram'[o].next = o2
            /\ \A x \in DOMAIN ram \ {o} : ram'[x].used = ram[x].used
        BY <4>3 DEF Cut
      <4>8. Given(ram', g)
        <5>1. o \in DOMAIN ram' \ {MemSize} /\ ram'[o].next - o - Header >= size
          BY <1>0, <2>3, <4>1, <4>7
        <5> QED
          BY <2>3, <2>4, <1>0, <4>6, <4>7, <5>1, GivenWith
      <4> QED
        BY <1>0, <2>3, <4>2, <4>4, <4>5, <4>7, <4>8
    <3>2. CASE ~(Room(o) >= size + Header + MemMin)
      <4>1. Marked(ram, ram', o) /\ ram'[o].used
        <5>1. ram' = [ram EXCEPT ![o].used = TRUE] /\ ram[o] \in [next : Offset, prev : Offset, used : BOOLEAN]
          BY <2>3, <2>5, <3>2, <1>0 DEF Linked
        <5> QED
          BY <5>1, <2>3 DEF Marked
      <4>2. /\ Linked(ram') /\ DOMAIN ram' = DOMAIN ram /\ ram'[o].used
            /\ \A x \in DOMAIN ram : ram'[x].next = ram[x].next /\ ram'[x].prev = ram[x].prev
            /\ \A x \in DOMAIN ram \ {o} : ram'[x].used = ram[x].used
        BY <1>0, <2>3, <4>1, MarkedLinked
      <4>3. NoTwoFree(ram')
        BY <1>0, <4>2 DEF NoTwoFree, UsedBehind
      <4>4. GivenBut(ram', live, o)
        BY <2>6, <4>2 DEF GivenBut
      <4>5. Given(ram', g)
        BY <1>0, <2>3, <2>4, <4>2, <4>4, GivenWith DEF Room
      <4> QED
        BY <4>2, <4>3, <4>5
    <3> QED
      BY <3>1, <3>2
  <2>9. LeastFree(ram', lfree')
    <3>1. CASE o # lfree
      <4>1. lfree' = lfree /\ lfree # MemSize /\ ~ram[lfree].used /\ lfree < o
        BY <3>1, <1>0, <2>3, <2>5 DEF LeastFree
      <4>2. lfree \in DOMAIN ram' /\ ~ram'[lfree].used
        BY <4>1, <1>0, <2>8
      <4>3. ASSUME NEW x \in DOMAIN ram', x < lfree PROVE ram'[x].used
        <5>1. x \in Nat /\ lfree \in Nat
          BY <1>0, <2>8 DEF Linked, Offset
        <5>2. x \in DOMAIN ram \ {o}
          BY <4>1, <4>3, <5>1, <2>3, <2>8
        <5> QED
          BY <4>3, <5>2, <1>0, <2>8 DEF LeastFree
      <4> QED
        BY <4>1, <4>2, <4>3 DEF LeastFree
    <3>2. CASE o = lfree
      <4>1. PICK F : F = {x \in DOMAIN ram' : x >= lfree /\ (~ram'[x].used \/ x = MemSize)}
        OBVIOUS
      <4>2. MemSize \in F /\ F \subseteq Nat
        BY <4>1, <1>0, <2>8, HeapAssumption DEF Linked, Offset
      <4>3. lfree' = Min(F)
        BY <3>2, <2>5, <4>1 DEF LowestFree
      <4>4. lfree' \in F /\ \A x \in F : lfree' <= x
        BY <4>2, <4>3, MinOf
      <4>5. ASSUME NEW x \in DOMAIN ram', x < lfree' PROVE ram'[x].used
        <5>1. x >= lfree => ram'[x].used
          BY <4>1, <4>2, <4>4, <4>5, <2>8 DEF Linked, Offset
        <5>2. x < lfree => ram'[x].used
          BY <3>2, <1>0, <2>8 DEF LeastFree
        <5>3. x \in Nat /\ lfree \in Nat
          BY <1>0, <2>8 DEF Linked, Offset
        <5> QED
          BY <5>1, <5>2, <5>3
      <4> QED
        BY <4>1, <4>4, <4>5 DEF LeastFree
    <3> QED
      BY <3>1, <3>2
  <2> QED
    BY <2>5, <2>8, <2>9 DEF HeapIInv, RefusedOnlyIfFull
<1> QED
  BY <1>1, <1>2

\* mem_trim.
LEMMA TrimKeeps ==
  ASSUME HeapIInv, NEW m \in live, NEW size \in 1 .. m.size, mem_trim(m, size)
  PROVE  HeapIInv'
<1> USE DEF Header, MemMin
<1>1. PICK o : o = m.at
  OBVIOUS
<1>2. PICK far : far = ram[o].next
  OBVIOUS
<1>3. PICK o2 : o2 = o + Header + size
  OBVIOUS
<1>4. PICK h : h = live \ {m}
  OBVIOUS
<1>0. /\ Linked(ram) /\ NoTwoFree(ram) /\ LeastFree(ram, lfree) /\ Given(ram, live)
      /\ m \in [at : Offset, size : Nat \ {0}] /\ size \in Nat \ {0} /\ size <= m.size
      /\ o \in DOMAIN ram \ {MemSize} /\ ram[o].used /\ far - o - Header >= m.size
      /\ \A x \in DOMAIN ram : x \in Nat /\ x <= MemSize
      /\ far \in DOMAIN ram /\ o < far /\ \A x \in DOMAIN ram : x <= o \/ x >= far
      /\ lfree \in DOMAIN ram /\ MemSize \in DOMAIN ram /\ MemSize \in Nat
      /\ ram[MemSize].used /\ o \in Offset
  BY <1>1, <1>2, HeapAssumption DEF HeapIInv, Linked, Offset, LeastFree, Given
<1>5. o2 \in Nat /\ o < o2 /\ o2 < far
  BY <1>0, <1>1, <1>2, <1>3 DEF mem_trim, Room
<1>6. live' = h \cup {[at |-> o, size |-> size]} /\ refused' = 0
  <2>1. [m EXCEPT !.size = size] = [at |-> o, size |-> size]
    BY <1>0, <1>1
  <2> QED
    BY <2>1, <1>4 DEF mem_trim
<1>7. GivenBut(ram, h, o)
  BY <1>0, <1>1, <1>4, GivenButOne
<1>8. CASE ~ram[far].used
  <2>1. ram' = Moved(o, o2) /\ lfree' = IF lfree = far THEN o2 ELSE lfree
    BY <1>1, <1>2, <1>3, <1>8 DEF mem_trim, Trimmed
  <2>2. far # MemSize
    BY <1>0, <1>8
  <2>3. PICK r : r = Joined(ram, o)
    OBVIOUS
  <2>4. /\ Linked(r) /\ DOMAIN r = DOMAIN ram \ {far} /\ r[o].next = ram[far].next
        /\ \A x \in DOMAIN r : r[x].used = ram[x].used
        /\ \A x \in DOMAIN r \ {o} : r[x].next = ram[x].next
    <3>1. Joins(ram, Joined(ram, o), o)
      BY <1>0, <1>2, <2>2, JoinedLinked
    <3> QED
      BY <1>2, <2>3, <3>1 DEF Joins
  <2>5. Cut(r, ram', o, o2)
    BY <1>0, <1>2, <1>5, <2>1, <2>2, <2>3, MovedCuts
  <2>6. ram[far].next > far /\ ram[far].next \in DOMAIN ram
    BY <1>0, <2>2 DEF Linked
  <2>7. o \in DOMAIN r \ {MemSize} /\ o2 < r[o].next
    BY <1>0, <1>5, <2>4, <2>6
  <2>8. Linked(ram') /\ o2 \notin DOMAIN r
    <3>1. o2 \notin DOMAIN r
      BY <1>0, <1>5, <2>4
    <3>2. Linked(ram')
      BY <1>5, <2>4, <2>5, <2>7, CutLinked
    <3> QED
      BY <3>1, <3>2
  <2>9. NoTwoFree(ram')
    <3>1. r[o].next = MemSize \/ r[r[o].next].used
      BY <1>0, <1>8, <2>2, <2>4, <2>6 DEF NoTwoFree, UsedBehind
    <3>2. ASSUME NEW x \in DOMAIN r \ {MemSize, o} PROVE UsedBehind(r, x)
      <4>1. ram[x].next # far
        <5>1. x # far /\ x \in Nat /\ (x <= o \/ x >= far) /\ (o <= x \/ o >= ram[x].next)
          BY <1>0, <2>4, <3>2 DEF Linked
        <5>2. ram[x].next > x /\ ram[x].next \in Nat /\ o \in Nat /\ far \in Nat
          BY <1>0, <2>4, <3>2 DEF Linked
        <5> QED
          BY <5>1, <5>2, <3>2, <1>0
      <4>2. ram[x].next \in DOMAIN r /\ UsedBehind(ram, x)
        BY <1>0, <2>4, <3>2, <4>1 DEF Linked, NoTwoFree
      <4> QED
        BY <2>4, <3>2, <4>2 DEF UsedBehind
    <3> QED
      BY <2>4, <2>5, <2>7, <2>8, <3>1, <3>2, CutNoTwoFree
  <2>10. Given(ram', live')
    <3>1. GivenBut(r, h, o)
      BY <1>0, <1>2, <1>7, <1>8, <2>2, <2>3, GivenJoined
    <3>2. GivenBut(ram', h, o)
      BY <2>5, <2>7, <2>8, <3>1, GivenCut
    <3>3. o \in DOMAIN ram' \ {MemSize} /\ ram'[o].used /\ ram'[o].next - o - Header >= size
      BY <1>0, <1>3, <2>5, <2>7 DEF Cut
    <3> QED
      BY <1>0, <1>6, <3>2, <3>3, GivenWith
  <2>11. LeastFree(ram', lfree')
    <3>1. /\ DOMAIN ram' = (DOMAIN ram \ {far}) \cup {o2} /\ ~ram'[o2].used /\ ram'[o].used
          /\ \A x \in DOMAIN ram \ {far} : ram'[x].used = ram[x].used
      BY <1>0, <2>4, <2>5, ZenonT(60) DEF Cut
    <3>2. lfree <= far
      BY <1>0, <1>8 DEF LeastFree
    <3>3. lfree # far => lfree < o
      BY <1>0, <2>2, <3>2 DEF LeastFree
    <3>4. \A x \in DOMAIN ram : x < lfree => ram[x].used
      BY <1>0 DEF LeastFree
    <3>5. CASE lfree = far
      <4>1. lfree' = o2
        BY <2>1, <3>5
      <4> QED
        BY <1>0, <1>5, <3>1, <3>4, <3>5, <4>1 DEF LeastFree
    <3>6. CASE lfree # far
      <4>1. lfree' = lfree /\ lfree < o /\ ~ram[lfree].used
        BY <1>0, <2>1, <3>3, <3>6 DEF LeastFree
      <4> QED
        BY <1>0, <1>5, <3>1, <3>4, <3>6, <4>1 DEF LeastFree
    <3> QED
      BY <3>5, <3>6
  <2> QED
    BY <1>6, <2>8, <2>9, <2>10, <2>11 DEF HeapIInv, RefusedOnlyIfFull
<1>9. CASE ram[far].used /\ size + Header + MemMin <= Room(o)
  <2>1. ram' = Split(o, size) /\ lfree' = IF o2 < lfree THEN o2 ELSE lfree
    BY <1>1, <1>2, <1>3, <1>9 DEF mem_trim, Trimmed
  <2>2. Cut(ram, ram', o, o2)
    BY <1>0, <1>2, <1>3, <1>5, <2>1, SplitCuts
  <2>3. Linked(ram') /\ o2 \notin DOMAIN ram
    BY <1>0, <1>2, <1>5, <2>2, CutLinked, ZenonT(60)
  <2>4. NoTwoFree(ram')
    BY <1>0, <1>2, <1>9, <2>2, <2>3, CutNoTwoFree DEF NoTwoFree
  <2>5. Given(ram', live')
    <3>1. GivenBut(ram', h, o)
      BY <1>0, <1>7, <2>2, <2>3, GivenCut
    <3>2. o \in DOMAIN ram' \ {MemSize} /\ ram'[o].used /\ ram'[o].next - o - Header >= size
      BY <1>0, <1>3, <2>2 DEF Cut
    <3> QED
      BY <1>0, <1>6, <3>1, <3>2, GivenWith
  <2>6. LeastFree(ram', lfree')
    <3>1. /\ DOMAIN ram' = DOMAIN ram \cup {o2} /\ ~ram'[o2].used
          /\ \A x \in DOMAIN ram : ram'[x].used = ram[x].used
      BY <1>0, <2>2 DEF Cut
    <3> QED
      BY <1>0, <1>5, <2>1, <2>3, <3>1 DEF LeastFree
  <2> QED
    BY <1>6, <2>3, <2>4, <2>5, <2>6 DEF HeapIInv, RefusedOnlyIfFull
<1>10. CASE ram[far].used /\ ~(size + Header + MemMin <= Room(o))
  <2>1. UNCHANGED <<ram, lfree>>
    BY <1>1, <1>2, <1>10 DEF mem_trim, Trimmed
  <2>2. Given(ram, live')
    BY <1>0, <1>2, <1>6, <1>7, GivenWith
  <2> QED
    BY <1>0, <1>6, <2>1, <2>2 DEF HeapIInv, RefusedOnlyIfFull
<1> QED
  BY <1>8, <1>9, <1>10

\* plug_holes.  lfree is the lowest free block before and after, so it never has to
\* follow a block that is joined with one before it.
LEMMA PlugKeeps ==
  ASSUME NEW r, Linked(r), NEW o \in DOMAIN r \ {MemSize}, ~r[o].used, NEW l, LeastFree(r, l),
         NEW g, GivenBut(r, g, o),
         \A x \in DOMAIN r \ {MemSize, o} : r[x].next # o => UsedBehind(r, x)
  PROVE  /\ Linked(PlugHoles(r, o)) /\ NoTwoFree(PlugHoles(r, o))
         /\ LeastFree(PlugHoles(r, o), LfreePlugged(r, o, l)) /\ Given(PlugHoles(r, o), g)
<1>1. PICK b : b = PlugBehind(r, o)
  OBVIOUS
<1>2. /\ \A x \in DOMAIN r : x \in Nat /\ x <= MemSize
      /\ \A x \in DOMAIN r \ {MemSize} : r[x].next \in DOMAIN r /\ r[x].next > x
      /\ r[MemSize].used /\ MemSize \in Nat /\ MemSize \in DOMAIN r
      /\ l \in DOMAIN r /\ l <= o
  BY HeapAssumption DEF Linked, Offset, LeastFree
<1>3. /\ Linked(b) /\ o \in DOMAIN b /\ ~b[o].used /\ GivenBut(b, g, o) /\ LeastFree(b, l)
      /\ \A x \in DOMAIN b \ {MemSize} : b[x].next # o => UsedBehind(b, x)
  <2>1. CASE FreeBehind(r, o)
    <3>1. r[o].next # MemSize /\ ~r[r[o].next].used /\ b = Joined(r, o)
      BY <2>1, <1>1 DEF FreeBehind, PlugBehind
    <3>2. PICK far : far = r[o].next
      OBVIOUS
    <3>3. /\ Linked(b) /\ DOMAIN b = DOMAIN r \ {far}
          /\ b[o].next = r[far].next
          /\ \A x \in DOMAIN b : b[x].used = r[x].used
          /\ \A x \in DOMAIN b \ {o} : b[x].next = r[x].next
      <4>1. Joins(r, Joined(r, o), o)
        BY <3>1, JoinedLinked
      <4> QED
        BY <3>1, <3>2, <4>1 DEF Joins
    <3>4. far \in DOMAIN r \ {MemSize} /\ o < far /\ far \in Nat /\ r[far].next > far /\ r[far].next \in DOMAIN r
      BY <1>2, <3>1, <3>2
    <3>5. GivenBut(b, g, o)
      BY <3>1, GivenJoined
    <3>6. LeastFree(b, l)
      BY <1>2, <3>3, <3>4 DEF LeastFree
    <3>7. UsedBehind(b, o)
      BY <1>2, <3>1, <3>2, <3>3, <3>4 DEF UsedBehind
    <3>8. ASSUME NEW x \in DOMAIN b \ {MemSize, o}, b[x].next # o PROVE UsedBehind(b, x)
      <4>1. r[x].next # far
        <5>1. x # far /\ x \in Nat /\ (o <= x \/ o >= r[x].next) /\ (x <= o \/ x >= r[o].next)
          BY <1>2, <3>3, <3>8 DEF Linked
        <5>2. r[x].next > x /\ r[x].next \in Nat /\ o \in Nat /\ x # o
          BY <1>2, <3>3, <3>8
        <5> QED
          BY <5>1, <5>2, <3>2, <3>4
      <4>2. r[x].next \in DOMAIN b /\ UsedBehind(r, x)
        BY <1>2, <3>3, <3>8, <4>1
      <4> QED
        BY <3>3, <3>8, <4>2 DEF UsedBehind
    <3> QED
      BY <3>3, <3>4, <3>5, <3>6, <3>7, <3>8
  <2>2. CASE ~FreeBehind(r, o)
    <3>1. b = r
      BY <2>2, <1>1 DEF PlugBehind
    <3>2. UsedBehind(r, o)
      BY <1>2, <2>2 DEF FreeBehind, UsedBehind
    <3> QED
      BY <3>1, <3>2
  <2> QED
    BY <2>1, <2>2
<1>4. FreeBehind(r, o) => l # r[o].next
  BY <1>2
<1>5. /\ \A x \in DOMAIN b : x \in Nat /\ x <= MemSize
      /\ \A x \in DOMAIN b \ {MemSize} :
           /\ b[x].next \in DOMAIN b /\ b[x].next > x
           /\ b[x].next # MemSize => b[b[x].next].prev = x
  BY <1>3, HeapAssumption DEF Linked, Offset
<1>6. CASE FreeBefore(b, o)
  <2>1. PICK p : p = b[o].prev
    OBVIOUS
  <2>2. p # o /\ ~b[p].used
    BY <1>6, <2>1 DEF FreeBefore
  <2>3. o # 0
    BY <1>3, <2>1, <2>2 DEF Linked
  <2>4. p \in DOMAIN b \ {MemSize} /\ p < o /\ b[p].next = o
    BY <1>3, <1>5, <2>1, <2>3 DEF Linked
  <2>5. l # o
    BY <1>3, <2>2, <2>4 DEF LeastFree
  <2>6. LfreePlugged(r, o, l) = l
    BY <1>1, <1>4, <2>5 DEF LfreePlugged
  <2>7. PICK f : f = Joined(b, p)
    OBVIOUS
  <2>8. PlugHoles(r, o) = f
    BY <1>1, <1>6, <2>1, <2>7 DEF PlugHoles
  <2>9. /\ Linked(f) /\ DOMAIN f = DOMAIN b \ {o} /\ f[p].next = b[o].next
        /\ \A x \in DOMAIN f : f[x].used = b[x].used
        /\ \A x \in DOMAIN f \ {p} : f[x].next = b[x].next
    <3>1. o # MemSize
      BY <1>3 DEF Linked
    <3>2. Joins(b, Joined(b, p), p)
      BY <1>3, <2>4, <3>1, JoinedLinked
    <3> QED
      BY <2>4, <2>7, <3>2 DEF Joins
  <2>10. NoTwoFree(f)
    <3> SUFFICES ASSUME NEW x \in DOMAIN f \ {MemSize} PROVE UsedBehind(f, x)
      BY DEF NoTwoFree
    <3>1. CASE x = p
      <4>1. b[o].next # o /\ b[o].next \in DOMAIN b /\ UsedBehind(b, o)
        BY <1>3, <1>5
      <4> QED
        BY <3>1, <4>1, <1>3, <2>9 DEF UsedBehind
    <3>2. CASE x # p
      <4>1. b[x].next # o
        BY <1>5, <2>1, <2>9, <3>2
      <4>2. b[x].next \in DOMAIN f /\ UsedBehind(b, x)
        BY <1>3, <1>5, <2>9, <4>1
      <4> QED
        BY <2>9, <3>2, <4>2 DEF UsedBehind
    <3> QED
      BY <3>1, <3>2
  <2>11. Given(f, g)
    <3>1. GivenBut(b, g, p)
      BY <1>3, <2>2, <2>4, GivenButFree
    <3>2. GivenBut(f, g, p)
      BY <1>3, <2>4, <2>7, <3>1, GivenJoined
    <3> QED
      BY <2>2, <2>4, <2>9, <3>2, GivenButFree
  <2>12. LeastFree(f, l)
    BY <1>3, <2>5, <2>9 DEF LeastFree
  <2> QED
    BY <2>6, <2>8, <2>9, <2>10, <2>11, <2>12
<1>7. CASE ~FreeBefore(b, o)
  <2>1. PlugHoles(r, o) = b /\ LfreePlugged(r, o, l) = l
    BY <1>1, <1>4, <1>7 DEF PlugHoles, LfreePlugged
  <2>2. ASSUME NEW x \in DOMAIN b \ {MemSize}, b[x].next = o PROVE b[x].used
    BY <2>2, <1>5, <1>7 DEF FreeBefore
  <2>3. NoTwoFree(b)
    BY <1>3, <2>2 DEF NoTwoFree, UsedBehind
  <2>4. Given(b, g)
    BY <1>3, GivenButFree
  <2> QED
    BY <1>3, <2>1, <2>3, <2>4
<1> QED
  BY <1>6, <1>7

\* mem_free.
LEMMA FreeKeeps ==
  ASSUME HeapIInv, NEW m \in live, mem_free(m)
  PROVE  HeapIInv'
<1>1. PICK o : o = m.at
  OBVIOUS
<1>2. PICK r : r = [ram EXCEPT ![o].used = FALSE]
  OBVIOUS
<1>3. PICK l : l = LfreeLowered(o)
  OBVIOUS
<1>4. PICK h : h = live \ {m}
  OBVIOUS
<1>0. /\ Linked(ram) /\ NoTwoFree(ram) /\ LeastFree(ram, lfree) /\ Given(ram, live)
      /\ o \in DOMAIN ram \ {MemSize} /\ \A x \in DOMAIN ram : x \in Nat
      /\ ram[o] \in [next : Offset, prev : Offset, used : BOOLEAN]
  BY <1>1, HeapAssumption DEF HeapIInv, Linked, Offset, Given
<1>5. /\ ram' = PlugHoles(r, o) /\ lfree' = LfreePlugged(r, o, l)
      /\ live' = h /\ refused' = 0
  BY <1>1, <1>2, <1>3, <1>4 DEF mem_free
<1>6. Marked(ram, r, o) /\ ~r[o].used
  BY <1>0, <1>2 DEF Marked
<1>7. /\ Linked(r) /\ DOMAIN r = DOMAIN ram
      /\ \A x \in DOMAIN ram : r[x].next = ram[x].next /\ r[x].prev = ram[x].prev
      /\ \A x \in DOMAIN ram \ {o} : r[x].used = ram[x].used
  BY <1>0, <1>6, MarkedLinked
<1>8. LeastFree(r, l)
  BY <1>0, <1>3, <1>6, <1>7 DEF LeastFree, LfreeLowered
<1>9. GivenBut(r, h, o)
  <2>1. GivenBut(ram, h, o)
    BY <1>0, <1>1, <1>4, GivenButOne
  <2> QED
    BY <2>1, <1>7 DEF GivenBut
<1>10. \A x \in DOMAIN r \ {MemSize, o} : r[x].next # o => UsedBehind(r, x)
  <2>1. \A x \in DOMAIN ram \ {MemSize} : ram[x].next \in DOMAIN ram
    BY <1>0 DEF Linked
  <2> QED
    BY <2>1, <1>0, <1>7 DEF NoTwoFree, UsedBehind
<1>11. Linked(ram') /\ NoTwoFree(ram') /\ LeastFree(ram', lfree') /\ Given(ram', h)
  BY <1>0, <1>5, <1>6, <1>7, <1>8, <1>9, <1>10, PlugKeeps
<1> QED
  BY <1>5, <1>11 DEF HeapIInv, RefusedOnlyIfFull

-----------------------------------------------------------------------------
\* mem_init makes one free block.
LEMMA HeapInitKeeps == HeapInit => HeapIInv
<1> SUFFICES ASSUME HeapInit PROVE HeapIInv
  OBVIOUS
<1>1. /\ DOMAIN ram = {0, MemSize} /\ ram[0] = Block(MemSize, 0, FALSE)
      /\ ram[MemSize] = Block(MemSize, MemSize, TRUE) /\ ram = [x \in {0, MemSize} |-> ram[x]]
      /\ MemSize \in Nat \ {0} /\ lfree = 0 /\ live = {} /\ refused = 0
  BY HeapAssumption DEF HeapInit
<1>2. /\ ram[0].next = MemSize /\ ram[0].prev = 0 /\ ~ram[0].used /\ ram[MemSize].used
      /\ ram[0] \in [next : Offset, prev : Offset, used : BOOLEAN]
      /\ ram[MemSize] \in [next : Offset, prev : Offset, used : BOOLEAN]
  BY <1>1 DEF Block, Offset
<1>3. ram \in [DOMAIN ram -> [next : Offset, prev : Offset, used : BOOLEAN]]
  BY <1>1, <1>2
<1>4. Linked(ram)
  <2>1. \A x \in DOMAIN ram \ {MemSize} : x = 0
    BY <1>1
  <2>2. \A x \in DOMAIN ram : x <= 0 \/ x >= MemSize
    BY <1>1
  <2>3. DOMAIN ram \subseteq Offset /\ 0 \in DOMAIN ram /\ MemSize \in DOMAIN ram /\ MemSize > 0
    BY <1>1 DEF Offset
  <2> QED
    BY <1>2, <1>3, <2>1, <2>2, <2>3 DEF Linked
<1>5. NoTwoFree(ram)
  BY <1>1, <1>2 DEF NoTwoFree, UsedBehind
<1>7. LeastFree(ram, lfree)
  <2>1. ASSUME NEW x \in DOMAIN ram, x < lfree PROVE FALSE
    BY <2>1, <1>1
  <2> QED
    BY <2>1, <1>1, <1>2 DEF LeastFree
<1>6. Given(ram, live)
  BY <1>1, <1>2 DEF Given
<1> QED
  BY <1>1, <1>4, <1>5, <1>6, <1>7 DEF HeapIInv, RefusedOnlyIfFull

\* Every function keeps the invariant.
LEMMA HeapStepKeeps == HeapIInv /\ [HeapNext]_heapVars => HeapIInv'
<1>1. CASE UNCHANGED heapVars
  BY <1>1 DEF heapVars, HeapIInv, RefusedOnlyIfFull, Room
<1>2. CASE HeapNext
  BY <1>2, MallocKeeps, FreeKeeps, TrimKeeps DEF HeapNext
<1> QED
  BY <1>1, <1>2

\* The invariant is enough for what the runs check.
LEMMA HeapIInvEnough == HeapIInv => HeapInv
<1> SUFFICES ASSUME HeapIInv PROVE HeapInv
  OBVIOUS
<1>1. PICK F : F = {o \in DOMAIN ram : ~ram[o].used \/ o = MemSize}
  OBVIOUS
<1>2. F \subseteq Nat /\ MemSize \in F
  BY <1>1, HeapAssumption DEF HeapIInv, Linked, Offset
<1>3. PICK k \in F : k = Min(F) /\ \A x \in F : k <= x
  BY <1>2, MinOf
<1>4. lfree = Min(F)
  <2>1. lfree \in F /\ \A x \in F : lfree <= x
    BY <1>1, <1>2 DEF HeapIInv, LeastFree, Linked, Offset
  <2>2. k <= lfree /\ lfree <= k /\ k \in Nat /\ lfree \in Nat
    BY <2>1, <1>2, <1>3
  <2> QED
    BY <2>2, <1>3
<1>5. BlocksRight
  BY <1>1, <1>4 DEF BlocksRight, HeapIInv, Linked, NoTwoFree, UsedBehind, Given, Room
<1> QED
  BY <1>5 DEF HeapInv, HeapIInv

\* Whatever the order of allocations, frees and trims: the blocks cover the heap and
\* their links agree, no two free ones are neighbours, lfree is the lowest free one,
\* what was given out is in used blocks of its own that are large enough, and a
\* request is refused only if no free block has room for it (mem_malloc, mem_free,
\* mem_trim, plug_holes).
THEOREM HeapCorrect == HeapSpec => []HeapInv
<1>1. HeapInit => HeapIInv
  BY HeapInitKeeps
<1>2. HeapIInv /\ [HeapNext]_heapVars => HeapIInv'
  BY HeapStepKeeps
<1>3. HeapIInv => HeapInv
  BY HeapIInvEnough
<1> QED
  BY <1>1, <1>2, <1>3, PTL DEF HeapSpec

-----------------------------------------------------------------------------
(* Pbuf: chains.                                                           *)

\* The chain from p under any links n, so that a lemma can speak of the links before
\* and after a step.
Closed(n, S) == \A x \in S : n[x] \in S \cup {NoPbuf}
Reach(n, p) == {q \in PbufElem : \A S \in SUBSET PbufElem : p \in S /\ Closed(n, S) => q \in S}
Links == [PbufElem -> PbufElem \cup {NoPbuf}]

\* p is in its chain.
LEMMA ReachSelf ==
  ASSUME NEW n, NEW p \in PbufElem
  PROVE  p \in Reach(n, p) /\ Reach(n, p) \in SUBSET PbufElem
  BY DEF Reach

\* A chain is left at its end only.
LEMMA ReachClosed ==
  ASSUME NEW n \in Links, NEW p \in PbufElem
  PROVE  Closed(n, Reach(n, p))
<1> SUFFICES ASSUME NEW x \in Reach(n, p), n[x] # NoPbuf
             PROVE  n[x] \in Reach(n, p)
  BY DEF Closed
<1>1. x \in PbufElem /\ n[x] \in PbufElem
  BY DEF Reach, Links
<1>2. ASSUME NEW S \in SUBSET PbufElem, p \in S, Closed(n, S)
      PROVE  n[x] \in S
  <2>1. x \in S
    BY <1>2 DEF Reach
  <2> QED
    BY <1>2, <2>1 DEF Closed
<1> QED
  BY <1>1, <1>2 DEF Reach

\* What is closed and holds p holds the chain of p.
LEMMA ReachLeast ==
  ASSUME NEW n, NEW p, NEW S \in SUBSET PbufElem, p \in S, Closed(n, S)
  PROVE  Reach(n, p) \subseteq S
  BY DEF Reach

\* The chain of p is p and the chain of the next one.
LEMMA ReachStep ==
  ASSUME NEW n \in Links, NEW p \in PbufElem
  PROVE  Reach(n, p) = {p} \cup (IF n[p] = NoPbuf THEN {} ELSE Reach(n, n[p]))
<1>1. CASE n[p] = NoPbuf
  <2>1. Closed(n, {p})
    BY <1>1 DEF Closed
  <2> QED
    BY <1>1, <2>1, ReachSelf, ReachLeast
<1>2. CASE n[p] # NoPbuf
  <2>1. n[p] \in PbufElem
    BY <1>2 DEF Links
  <2>2. Closed(n, Reach(n, n[p])) /\ n[p] \in Reach(n, n[p]) /\ Reach(n, n[p]) \in SUBSET PbufElem
    BY <2>1, ReachClosed, ReachSelf
  <2>3. Closed(n, {p} \cup Reach(n, n[p]))
    BY <2>2 DEF Closed
  <2>4. Reach(n, p) \subseteq {p} \cup Reach(n, n[p])
    BY <2>2, <2>3, ReachLeast
  <2>5. Closed(n, Reach(n, p)) /\ p \in Reach(n, p) /\ Reach(n, p) \in SUBSET PbufElem
    BY ReachClosed, ReachSelf
  <2>6. n[p] \in Reach(n, p)
    BY <1>2, <2>5 DEF Closed
  <2>7. Reach(n, n[p]) \subseteq Reach(n, p)
    BY <2>5, <2>6, ReachLeast
  <2> QED
    BY <1>2, <2>4, <2>5, <2>7
<1> QED
  BY <1>1, <1>2

\* A chain is reached through its pbufs only: one of them leads to q, or q is the first.
LEMMA ReachBack ==
  ASSUME NEW n \in Links, NEW p \in PbufElem, NEW q \in Reach(n, p), q # p
  PROVE  \E x \in Reach(n, p) : n[x] = q
<1> SUFFICES ASSUME \A x \in Reach(n, p) : n[x] # q
             PROVE  FALSE
  OBVIOUS
<1> DEFINE S == Reach(n, p) \ {q}
<1>1. S \in SUBSET PbufElem /\ p \in S
  BY ReachSelf
<1>2. Closed(n, S)
  BY ReachClosed DEF Closed
<1>3. Reach(n, p) \subseteq S
  <2> HIDE DEF S
  <2> QED
    BY <1>1, <1>2, ReachLeast
<1> QED
  BY <1>3

\* A chain goes through the chain of each of its pbufs.
LEMMA ReachWithin ==
  ASSUME NEW n \in Links, NEW p \in PbufElem, NEW q \in Reach(n, p)
  PROVE  Reach(n, q) \subseteq Reach(n, p)
  BY ReachClosed, ReachSelf, ReachLeast

-----------------------------------------------------------------------------
\* Every chain has an end.
Ends(n, p) == \E q \in Reach(n, p) : n[q] = NoPbuf
AllEnd(n) == n \in Links /\ \A p \in PbufElem : Ends(n, p)

\* The end is one.
LEMMA OneEnd ==
  ASSUME NEW n \in Links, NEW p \in PbufElem, NEW q \in Reach(n, p), n[q] = NoPbuf,
         NEW r \in Reach(n, p), n[r] = NoPbuf
  PROVE  q = r
<1> DEFINE S == {x \in Reach(n, p) : q \in Reach(n, x)}
<1>1. p \in S /\ S \in SUBSET PbufElem
  BY ReachSelf
<1>2. Closed(n, S)
  <2> SUFFICES ASSUME NEW x \in S, n[x] # NoPbuf PROVE n[x] \in S
    BY DEF Closed
  <2>1. n[x] \in Reach(n, p)
    BY ReachClosed DEF Closed
  <2>2. q \in Reach(n, n[x])
    BY <1>1, ReachStep
  <2> QED
    BY <2>1, <2>2
<1>3. r \in S
  <2> HIDE DEF S
  <2> QED
    BY <1>1, <1>2, ReachLeast
<1>4. Reach(n, r) = {r}
  BY <1>1, <1>3, ReachStep
<1> QED
  BY <1>3, <1>4

\* A chain that ends does not lead back to its first pbuf.
LEMMA NoCycle ==
  ASSUME NEW n, AllEnd(n), NEW p \in PbufElem, NEW x \in Reach(n, p)
  PROVE  n[x] # p
<1> SUFFICES ASSUME n[x] = p PROVE FALSE
  OBVIOUS
<1> USE DEF AllEnd
<1> DEFINE S == {y \in Reach(n, p) : x \in Reach(n, y)}
<1>0. x \in PbufElem /\ p # NoPbuf
  BY ReachSelf, PbufAssumption
<1>1. p \in S /\ S \in SUBSET PbufElem
  BY ReachSelf
<1>2. \A y \in S : n[y] \in S
  <2> TAKE y \in S
  <2>1. CASE y = x
    BY <2>1, <1>1
  <2>2. CASE y # x
    <3>1. n[y] # NoPbuf /\ x \in Reach(n, n[y])
      BY <1>1, <2>2, ReachStep
    <3>2. n[y] \in Reach(n, p)
      BY <3>1, ReachClosed DEF Closed
    <3> QED
      BY <3>1, <3>2
  <2> QED
    BY <2>1, <2>2
<1>3. Reach(n, p) \subseteq S
  <2>1. Closed(n, S)
    BY <1>2 DEF Closed
  <2> HIDE DEF S
  <2> QED
    BY <1>1, <2>1, ReachLeast
<1>4. PICK q \in Reach(n, p) : n[q] = NoPbuf
  BY DEF Ends
<1> QED
  BY <1>1, <1>2, <1>3, <1>4, PbufAssumption

\* Cutting the links keeps the ends.
LEMMA EndsCut ==
  ASSUME NEW n, AllEnd(n), NEW q \in PbufElem
  PROVE  AllEnd([n EXCEPT ![q] = NoPbuf])
<1>1. PICK m : m = [n EXCEPT ![q] = NoPbuf]
  OBVIOUS
<1>2. m \in Links /\ m[q] = NoPbuf /\ \A x \in PbufElem \ {q} : m[x] = n[x]
  BY <1>1 DEF AllEnd, Links
<1>3. ASSUME NEW p \in PbufElem, ~Ends(m, p) PROVE FALSE
  <2>1. Closed(m, Reach(m, p)) /\ p \in Reach(m, p) /\ Reach(m, p) \in SUBSET PbufElem
    BY <1>2, ReachClosed, ReachSelf
  <2>2. q \notin Reach(m, p)
    BY <1>2, <1>3 DEF Ends
  <2>3. Closed(n, Reach(m, p))
    BY <1>2, <2>1, <2>2 DEF Closed
  <2>4. Reach(n, p) \subseteq Reach(m, p)
    BY <2>1, <2>3, ReachLeast
  <2>5. PICK e \in Reach(n, p) : n[e] = NoPbuf
    BY DEF AllEnd, Ends
  <2>6. e \in Reach(m, p) /\ m[e] = NoPbuf
    BY <1>2, <2>1, <2>2, <2>4, <2>5
  <2> QED
    BY <1>3, <2>6 DEF Ends
<1>4. AllEnd(m)
  BY <1>2, <1>3 DEF AllEnd
<1> QED
  BY <1>1, <1>4

\* So does linking the end of a chain to a pbuf whose chain is another.
LEMMA EndsLink ==
  ASSUME NEW n, AllEnd(n), NEW q \in PbufElem, NEW v \in PbufElem, q \notin Reach(n, v)
  PROVE  AllEnd([n EXCEPT ![q] = v])
<1>1. PICK m : m = [n EXCEPT ![q] = v]
  OBVIOUS
<1>2. m \in Links /\ m[q] = v /\ \A x \in PbufElem \ {q} : m[x] = n[x]
  BY <1>1 DEF AllEnd, Links
<1>3. \A p \in PbufElem : q \notin Reach(m, p) => Ends(m, p)
  <2> SUFFICES ASSUME NEW p \in PbufElem, q \notin Reach(m, p) PROVE Ends(m, p)
    OBVIOUS
  <2>1. Closed(m, Reach(m, p)) /\ p \in Reach(m, p) /\ Reach(m, p) \in SUBSET PbufElem
    BY <1>2, ReachClosed, ReachSelf
  <2>2. Closed(n, Reach(m, p))
    BY <1>2, <2>1 DEF Closed
  <2>3. Reach(n, p) \subseteq Reach(m, p)
    BY <2>1, <2>2, ReachLeast
  <2>4. PICK e \in Reach(n, p) : n[e] = NoPbuf
    BY DEF AllEnd, Ends
  <2> QED
    BY <1>2, <2>1, <2>3, <2>4 DEF Ends
<1>4. q \notin Reach(m, v)
  <2>1. Closed(n, Reach(n, v)) /\ v \in Reach(n, v) /\ Reach(n, v) \in SUBSET PbufElem
    BY ReachClosed, ReachSelf DEF AllEnd
  <2>2. Closed(m, Reach(n, v))
    BY <1>2, <2>1 DEF Closed
  <2>3. Reach(m, v) \subseteq Reach(n, v)
    BY <2>1, <2>2, ReachLeast
  <2> QED
    BY <2>3
<1>5. \A p \in PbufElem : q \in Reach(m, p) => Ends(m, p)
  <2> SUFFICES ASSUME NEW p \in PbufElem, q \in Reach(m, p) PROVE Ends(m, p)
    OBVIOUS
  <2>1. v \in Reach(m, p)
    BY <1>2, ReachClosed, PbufAssumption DEF Closed
  <2>2. Reach(m, v) \subseteq Reach(m, p)
    BY <1>2, <2>1, ReachWithin
  <2> QED
    BY <1>3, <1>4, <2>2 DEF Ends
<1>6. AllEnd(m)
  BY <1>2, <1>3, <1>5 DEF AllEnd
<1> QED
  BY <1>1, <1>6
-----------------------------------------------------------------------------
(* Counting references.                                                    *)

Holdings == [PbufThread -> [PbufElem -> Nat]]
Business == [in : {"none", "pbuf_alloc", "pbuf_free", "memp_free"},
             p : PbufElem \cup {NoPbuf}, r : PbufElem \cup {NoPbuf}]
Holding(h, p) == SumFunctionOnSet([t \in PbufThread |-> h[t][p]], PbufThread)
Into(pl, n, p) == {q \in PbufElem \ pl : n[q] = p}
Gives(a, p) == a.in \in {"pbuf_free", "pbuf_alloc"} /\ a.p = p
Giving(b, p) == {t \in PbufThread : Gives(b[t], p)}
One(yes) == IF yes THEN 1 ELSE 0

\* No thread holds more references than there are.
LEMMA HoldingNat ==
  ASSUME NEW h \in Holdings, NEW p \in PbufElem
  PROVE  Holding(h, p) \in Nat /\ \A t \in PbufThread : h[t][p] \in Nat /\ h[t][p] <= Holding(h, p)
<1> DEFINE f == [t \in PbufThread |-> h[t][p]]
<1>1. \A t \in PbufThread : f[t] = h[t][p] /\ f[t] \in Nat
  BY DEF Holdings
<1>2. Holding(h, p) = SumFunctionOnSet(f, PbufThread)
  BY DEF Holding
<1> HIDE DEF f
<1>3. ASSUME NEW t \in PbufThread PROVE h[t][p] <= Holding(h, p)
  <2>1. Holding(h, p) = f[t] + SumFunctionOnSet(f, PbufThread \ {t})
    BY <1>1, <1>2, SumTake, PbufAssumption
  <2>2. SumFunctionOnSet(f, PbufThread \ {t}) \in Nat
    <3>1. IsFiniteSet(PbufThread \ {t}) /\ \A x \in PbufThread \ {t} : f[x] \in Nat
      BY <1>1, FS_Subset, PbufAssumption
    <3> QED
      BY <3>1, SumNat
  <2> QED
    BY <1>1, <2>1, <2>2
<1>4. Holding(h, p) \in Nat
  BY <1>1, <1>2, SumNat, PbufAssumption
<1> QED
  BY <1>1, <1>3, <1>4

WithHeld(h, t, p, v) == [h EXCEPT ![t][p] = v]

\* One thread's references to one pbuf change.
LEMMA HoldingChange ==
  ASSUME NEW h \in Holdings, NEW t \in PbufThread, NEW p \in PbufElem, NEW v \in Nat
  PROVE  /\ WithHeld(h, t, p, v) \in Holdings
         /\ \A x \in PbufElem : Holding(WithHeld(h, t, p, v), x)
                                = IF x = p THEN Holding(h, x) - h[t][p] + v ELSE Holding(h, x)
         /\ \A u \in PbufThread, x \in PbufElem :
              WithHeld(h, t, p, v)[u][x] = IF u = t /\ x = p THEN v ELSE h[u][x]
<1> DEFINE k == WithHeld(h, t, p, v)
<1>1. k \in Holdings /\ k[t][p] = v
      /\ \A u \in PbufThread, x \in PbufElem : u # t \/ x # p => k[u][x] = h[u][x]
  BY DEF Holdings, WithHeld
<1> HIDE DEF k
<1>2. ASSUME NEW x \in PbufElem
      PROVE  Holding(k, x) + h[t][x] = Holding(h, x) + k[t][x]
  <2> DEFINE f == [u \in PbufThread |-> h[u][x]]
             g == [u \in PbufThread |-> k[u][x]]
  <2>1. /\ \A u \in PbufThread : f[u] = h[u][x] /\ g[u] = k[u][x] /\ f[u] \in Nat /\ g[u] \in Nat
        /\ Holding(h, x) = SumFunctionOnSet(f, PbufThread)
        /\ Holding(k, x) = SumFunctionOnSet(g, PbufThread)
    BY <1>1 DEF Holdings, Holding
  <2> HIDE DEF f, g
  <2>2. \A u \in PbufThread \ {t} : g[u] = f[u]
    BY <1>1, <2>1
  <2>3. SumFunctionOnSet(g, PbufThread) + f[t] = SumFunctionOnSet(f, PbufThread) + g[t]
    BY <2>1, <2>2, SumExcept, PbufAssumption
  <2> QED
    BY <2>1, <2>3
<1>3. \A x \in PbufElem : /\ Holding(h, x) \in Nat /\ Holding(k, x) \in Nat
                          /\ h[t][x] \in Nat /\ k[t][x] \in Nat /\ (x # p => k[t][x] = h[t][x])
  BY <1>1, HoldingNat DEF Holdings
<1>4. ASSUME NEW x \in PbufElem
      PROVE  Holding(k, x) = IF x = p THEN Holding(h, x) - h[t][p] + v ELSE Holding(h, x)
  <2>1. Holding(k, x) + h[t][x] = Holding(h, x) + k[t][x]
    BY <1>2
  <2>2. CASE x = p
    BY <1>1, <1>3, <2>1, <2>2
  <2>3. CASE x # p
    BY <1>3, <2>1, <2>3
  <2> QED
    BY <2>2, <2>3
<1> QED
  BY <1>1, <1>4 DEF k

\* Two sets that differ in one element at most.
LEMMA SizeChange ==
  ASSUME NEW S, IsFiniteSet(S), NEW T, NEW e, T \ {e} = S \ {e}
  PROVE  Cardinality(T) = Cardinality(S) - One(e \in S) + One(e \in T) /\ Cardinality(S) \in Nat
<1>1. \A U : IsFiniteSet(U) /\ e \in U => /\ Cardinality(U \ {e}) = Cardinality(U) - 1
                                         /\ Cardinality(U) \in Nat
  BY FS_RemoveElement, FS_CardinalityType
<1>2. IsFiniteSet(S \ {e}) /\ (e \in T => T = (S \ {e}) \cup {e}) /\ (e \notin T => T = S \ {e})
      /\ (e \notin S => S = S \ {e})
  BY FS_Subset
<1>3. IsFiniteSet(T)
  BY <1>2, FS_AddElement
<1>4. Cardinality(S) \in Nat /\ Cardinality(T) \in Nat /\ Cardinality(S \ {e}) \in Nat
  BY <1>2, <1>3, FS_CardinalityType
<1> QED
  BY <1>1, <1>2, <1>3, <1>4 DEF One

\* What thread t is busy with changes.
LEMMA GivingChange ==
  ASSUME NEW b \in [PbufThread -> Business], NEW t \in PbufThread, NEW a \in Business,
         NEW c, c = [b EXCEPT ![t] = a]
  PROVE  \A x \in PbufElem :
           /\ Cardinality(Giving(c, x)) = Cardinality(Giving(b, x)) - One(Gives(b[t], x)) + One(Gives(a, x))
           /\ Cardinality(Giving(b, x)) \in Nat
<1>2. c \in [PbufThread -> Business] /\ c[t] = a /\ \A u \in PbufThread \ {t} : c[u] = b[u]
  OBVIOUS
<1>3. ASSUME NEW x \in PbufElem
      PROVE  Cardinality(Giving(c, x)) = Cardinality(Giving(b, x)) - One(Gives(b[t], x)) + One(Gives(a, x))
             /\ Cardinality(Giving(b, x)) \in Nat
  <2>1. IsFiniteSet(Giving(b, x))
    BY PbufAssumption, FS_Subset DEF Giving
  <2>2. Giving(c, x) \ {t} = Giving(b, x) \ {t}
    BY <1>2 DEF Giving
  <2>3. (t \in Giving(b, x)) = Gives(b[t], x) /\ (t \in Giving(c, x)) = Gives(a, x)
    BY <1>2 DEF Giving, Gives
  <2>4. /\ Cardinality(Giving(c, x))
           = Cardinality(Giving(b, x)) - One(t \in Giving(b, x)) + One(t \in Giving(c, x))
        /\ Cardinality(Giving(b, x)) \in Nat
    BY <2>1, <2>2, SizeChange, Zenon
  <2> QED
    BY <2>3, <2>4, Zenon
<1> QED
  BY <1>3

WithNext(n, q, v) == [n EXCEPT ![q] = v]

\* The link of a pbuf that is not in the pool changes.
LEMMA IntoChange ==
  ASSUME NEW n \in Links, NEW pl, NEW q \in PbufElem \ pl, NEW v \in PbufElem \cup {NoPbuf}
  PROVE  /\ WithNext(n, q, v) \in Links /\ WithNext(n, q, v)[q] = v
         /\ \A x \in PbufElem \ {q} : WithNext(n, q, v)[x] = n[x]
         /\ \A x \in PbufElem :
              /\ Cardinality(Into(pl, WithNext(n, q, v), x))
                 = Cardinality(Into(pl, n, x)) - (IF n[q] = x THEN 1 ELSE 0) + (IF v = x THEN 1 ELSE 0)
              /\ Cardinality(Into(pl, n, x)) \in Nat
<1> DEFINE m == WithNext(n, q, v)
<1>2. m \in Links /\ m[q] = v /\ \A x \in PbufElem \ {q} : m[x] = n[x]
  BY DEF Links, WithNext
<1> HIDE DEF m
<1>3. ASSUME NEW x \in PbufElem
      PROVE  Cardinality(Into(pl, m, x)) = Cardinality(Into(pl, n, x)) - (IF n[q] = x THEN 1 ELSE 0) + (IF v = x THEN 1 ELSE 0)
             /\ Cardinality(Into(pl, n, x)) \in Nat
  <2>1. IsFiniteSet(Into(pl, n, x))
    BY PbufAssumption, FS_Subset DEF Into
  <2>2. Into(pl, m, x) \ {q} = Into(pl, n, x) \ {q}
    BY <1>2 DEF Into
  <2>3. (q \in Into(pl, n, x)) = (n[q] = x) /\ (q \in Into(pl, m, x)) = (v = x)
    BY <1>2 DEF Into
  <2>4. /\ Cardinality(Into(pl, m, x))
           = Cardinality(Into(pl, n, x)) - One(q \in Into(pl, n, x)) + One(q \in Into(pl, m, x))
        /\ Cardinality(Into(pl, n, x)) \in Nat
    BY <2>1, <2>2, SizeChange, Zenon
  <2> QED
    BY <2>3, <2>4, Zenon DEF One
<1> QED
  BY <1>2, <1>3 DEF m

\* Whether a pbuf that leads nowhere is in the pool makes no difference.
LEMMA IntoPool ==
  ASSUME NEW n \in Links, NEW pl, NEW p \in PbufElem, n[p] = NoPbuf
  PROVE  \A x \in PbufElem : /\ Into(pl \ {p}, n, x) = Into(pl, n, x)
                             /\ Into(pl \cup {p}, n, x) = Into(pl, n, x)
  BY PbufAssumption DEF Into

-----------------------------------------------------------------------------
(* The invariant.                                                          *)

\* References(p), of any values of the variables.
Refs(pl, n, h, b, p) ==
  Holding(h, p) + Cardinality(Into(pl, n, p)) + Cardinality(Giving(b, p))
Dies(a, p) == a.in = "memp_free" /\ a.p = p
CountRight(pl, n, rf, h, b, p) ==
  IF p \in pl THEN Refs(pl, n, h, b, p) = 0
  ELSE /\ rf[p] = Refs(pl, n, h, b, p)
       /\ rf[p] = 0 <=> \E t \in PbufThread : Dies(b[t], p)

\* Nobody but t has to do with p, and p leads nowhere.
Alone(pl, n, h, b, t, p) ==
  /\ b[t].p = p /\ n[p] = NoPbuf /\ Into(pl, n, p) = {}
  /\ \A u \in PbufThread : h[u][p] = 0 /\ (u # t => b[u].p # p)
Right(n, l, tl, p) == tl[p] = l[p] + IF n[p] = NoPbuf THEN 0 ELSE tl[n[p]]

PbufTypes ==
  /\ pool \subseteq PbufElem /\ next \in Links
  /\ len \in [PbufElem -> Int] /\ tot_len \in [PbufElem -> Int] /\ ref \in [PbufElem -> Int]
  /\ held \in Holdings /\ busy \in [PbufThread -> Business]
  /\ \A t \in PbufThread : busy[t].in = "none" <=> busy[t].p = NoPbuf

\* Who is busy: one that releases a pbuf is the only one, and one that allocates has
\* got one pbuf, for itself.
BusyRight(pl, n, h, b) ==
  /\ \A t, u \in PbufThread : b[t].in = "memp_free" /\ b[u].in = "memp_free" /\ b[t].p = b[u].p => t = u
  /\ \A t \in PbufThread : b[t].in = "memp_free" => b[t].p \notin pl
  /\ \A t \in PbufThread : b[t].in = "pbuf_alloc" => b[t].r = b[t].p /\ Alone(pl, n, h, b, t, b[t].p)

Lengths(pl, n, l, tl, h, b) ==
  \A p \in PbufElem \ pl : Right(n, l, tl, p) \/ \E t \in PbufThread : Alone(pl, n, h, b, t, p)

PbufIInv ==
  /\ PbufTypes
  /\ \A p \in pool : next[p] = NoPbuf
  /\ AllEnd(next)
  /\ \A p \in PbufElem : CountRight(pool, next, ref, held, busy, p)
  /\ BusyRight(pool, next, held, busy)
  /\ Lengths(pool, next, len, tot_len, held, busy)

\* The model's words for the same things.
LEMMA ModelWords ==
  /\ \A p : Chain(p) = Reach(next, p)
  /\ \A p : Before(p) = Into(pool, next, p)
  /\ \A p : References(p) = Refs(pool, next, held, busy, p)
  BY DEF Chain, Reach, Closed, Before, Into, References, Refs, Holding, Giving, Gives

\* The parts of a count, and when they are zero.
LEMMA RefsNat ==
  ASSUME NEW pl, NEW n \in Links, NEW h \in Holdings, NEW b \in [PbufThread -> Business], NEW p \in PbufElem
  PROVE  /\ Holding(h, p) \in Nat
         /\ Cardinality(Into(pl, n, p)) \in Nat
         /\ Cardinality(Giving(b, p)) \in Nat
         /\ Cardinality(Into(pl, n, p)) = 0 <=> Into(pl, n, p) = {}
         /\ Cardinality(Giving(b, p)) = 0 <=> Giving(b, p) = {}
         /\ \A t \in PbufThread : h[t][p] \in Nat /\ h[t][p] <= Holding(h, p)
<1>1. IsFiniteSet(Into(pl, n, p)) /\ IsFiniteSet(Giving(b, p))
  BY PbufAssumption, FS_Subset DEF Into, Giving
<1> QED
  BY <1>1, HoldingNat, FS_CardinalityType, FS_EmptySet

\* What is in the pool nobody refers to.
LEMMA InPool ==
  ASSUME PbufIInv, NEW p \in pool
  PROVE  /\ p \in PbufElem /\ next[p] = NoPbuf /\ Into(pool, next, p) = {}
         /\ \A t \in PbufThread : held[t][p] = 0 /\ busy[t].p # p
<1>1. p \in PbufElem /\ next[p] = NoPbuf /\ CountRight(pool, next, ref, held, busy, p)
      /\ BusyRight(pool, next, held, busy)
  BY DEF PbufIInv, PbufTypes
<1>2. Refs(pool, next, held, busy, p) = 0
  BY <1>1 DEF CountRight
<1>3. /\ Holding(held, p) = 0 /\ Into(pool, next, p) = {} /\ Giving(busy, p) = {}
      /\ \A t \in PbufThread : held[t][p] = 0
  <2>1. next \in Links /\ held \in Holdings /\ busy \in [PbufThread -> Business]
    BY DEF PbufIInv, PbufTypes
  <2>2. /\ Holding(held, p) \in Nat /\ Cardinality(Into(pool, next, p)) \in Nat
        /\ Cardinality(Giving(busy, p)) \in Nat
    BY <1>1, <2>1, RefsNat
  <2>3. /\ Holding(held, p) = 0 /\ Cardinality(Into(pool, next, p)) = 0
        /\ Cardinality(Giving(busy, p)) = 0
    BY <1>2, <2>2 DEF Refs
  <2>4. \A t \in PbufThread : held[t][p] \in Nat /\ held[t][p] <= Holding(held, p)
    BY <1>1, <2>1, RefsNat
  <2> QED
    BY <1>1, <2>1, <2>3, <2>4, RefsNat, SMTT(30)
<1>4. ASSUME NEW t \in PbufThread, busy[t].p = p PROVE FALSE
  <2>1. busy[t] \in Business /\ busy[t].in # "none"
    BY <1>1, <1>4, PbufAssumption DEF PbufIInv, PbufTypes
  <2>2. ~Gives(busy[t], p)
    BY <1>3 DEF Giving
  <2>3. busy[t].in = "memp_free"
    BY <1>4, <2>1, <2>2 DEF Gives, Business
  <2> QED
    BY <1>1, <1>4, <2>3 DEF BusyRight
<1> QED
  BY <1>1, <1>3, <1>4

\* What leads, or is given up, to a pbuf keeps it out of the pool.
LEMMA NotInPool ==
  ASSUME PbufIInv, NEW p \in PbufElem,
         \/ \E t \in PbufThread : held[t][p] > 0 \/ busy[t].p = p
         \/ \E q \in PbufElem : next[q] = p
  PROVE  p \notin pool
<1> SUFFICES ASSUME p \in pool PROVE FALSE
  OBVIOUS
<1>1. CASE \E t \in PbufThread : held[t][p] > 0 \/ busy[t].p = p
  BY <1>1, InPool
<1>2. CASE \E q \in PbufElem : next[q] = p
  <2>1. PICK q \in PbufElem : next[q] = p
    BY <1>2
  <2>2. q \notin pool
    BY <2>1, PbufAssumption DEF PbufIInv
  <2> QED
    BY <2>1, <2>2, InPool DEF Into
<1> QED
  BY <1>1, <1>2

\* A chain that somebody can reach stays out of the pool.
LEMMA ChainOut ==
  ASSUME PbufIInv, NEW p \in PbufElem \ pool
  PROVE  Reach(next, p) \cap pool = {}
<1>1. Closed(next, PbufElem \ pool)
  <2> SUFFICES ASSUME NEW x \in PbufElem \ pool, next[x] # NoPbuf PROVE next[x] \in PbufElem \ pool
    BY DEF Closed
  <2>1. next[x] \in PbufElem
    BY DEF PbufIInv, PbufTypes, Links
  <2> QED
    BY <2>1, NotInPool
<1>2. PbufElem \ pool \in SUBSET PbufElem
  OBVIOUS
<1> QED
  BY <1>1, <1>2, ReachLeast

\* Nobody holds what a chain leads to alone.
LEMMA AloneOut ==
  ASSUME PbufIInv, NEW t \in PbufThread, NEW q \in PbufElem, Alone(pool, next, held, busy, t, q),
         NEW u \in PbufThread, NEW p \in PbufElem, held[u][p] > 0
  PROVE  q \notin Reach(next, p)
<1> SUFFICES ASSUME q \in Reach(next, p) PROVE FALSE
  OBVIOUS
<1>1. q # p /\ Into(pool, next, q) = {}
  BY DEF Alone, PbufIInv, PbufTypes, Holdings
<1>2. PICK x \in Reach(next, p) : next[x] = q
  BY <1>1, ReachBack DEF PbufIInv, PbufTypes
<1>3. p \notin pool
  BY NotInPool
<1>4. x \in PbufElem \ pool
  BY <1>3, ChainOut, ReachSelf
<1> QED
  BY <1>1, <1>2, <1>4 DEF Into

\* So what somebody holds has the right length.
LEMMA HeldRight ==
  ASSUME PbufIInv, NEW u \in PbufThread, NEW p \in PbufElem, held[u][p] > 0, NEW q \in Reach(next, p)
  PROVE  q \in PbufElem \ pool /\ Right(next, len, tot_len, q)
<1>1. p \notin pool
  BY NotInPool
<1>2. q \in PbufElem \ pool
  BY <1>1, ChainOut, ReachSelf
<1> QED
  BY <1>2, AloneOut DEF PbufIInv, Lengths

\* No other chain leads into one that is Apart.
LEMMA ApartBack ==
  ASSUME PbufIInv, NEW u \in PbufThread, NEW p \in PbufElem, held[u][p] > 0, Apart(p),
         NEW x \in PbufElem, next[x] \in Reach(next, p)
  PROVE  x \in Reach(next, p) /\ next[x] # p
<1>1. x \in PbufElem \ pool
  BY ReachSelf, PbufAssumption DEF PbufIInv
<1>2. next[x] # p
  BY <1>1, ModelWords DEF Apart, Into
<1>3. PICK z \in Reach(next, p) : next[z] = next[x]
  BY <1>2, ReachBack DEF PbufIInv, PbufTypes
<1>4. z \in PbufElem \ pool
  BY HeldRight, <1>3
<1>5. Cardinality(Into(pool, next, next[x])) = 1
  BY <1>2, ModelWords DEF Apart
<1>6. x \in Into(pool, next, next[x]) /\ z \in Into(pool, next, next[x])
  BY <1>1, <1>3, <1>4 DEF Into
<1>7. IsFiniteSet(Into(pool, next, next[x]))
  BY PbufAssumption, FS_Subset DEF Into
<1>8. x = z
  BY <1>5, <1>6, <1>7, FS_Singleton
<1> QED
  BY <1>2, <1>3, <1>8

-----------------------------------------------------------------------------
(* The functions.                                                          *)

\* What a thread is busy with next.
LEMMA FreeingIs ==
  ASSUME NEW p \in PbufElem \cup {NoPbuf}
  PROVE  /\ Freeing(p) \in Business /\ Freeing(p).p = p
         /\ Freeing(p).in = (IF p = NoPbuf THEN "none" ELSE "pbuf_free")
         /\ \A x \in PbufElem : (Gives(Freeing(p), x) <=> x = p) /\ ~Dies(Freeing(p), x)
  BY PbufAssumption DEF Freeing, NotBusy, Business, Gives, Dies

\* Nothing.
LEMMA NotBusyIs ==
  /\ NotBusy \in Business /\ NotBusy.p = NoPbuf /\ NotBusy.in = "none"
  /\ \A x \in PbufElem : ~Gives(NotBusy, x) /\ ~Dies(NotBusy, x)
  BY PbufAssumption DEF NotBusy, Business, Gives, Dies

\* The release of p.
LEMMA ReleasingIs ==
  ASSUME NEW p \in PbufElem
  PROVE  /\ Releasing(p) \in Business /\ Releasing(p).p = p /\ Releasing(p).in = "memp_free"
         /\ \A x \in PbufElem : ~Gives(Releasing(p), x) /\ (Dies(Releasing(p), x) <=> x = p)
  BY PbufAssumption DEF Releasing, Business, Gives, Dies

\* The allocation of more than p.
LEMMA AllocatingIs ==
  ASSUME NEW p \in PbufElem
  PROVE  /\ Allocating(p, p) \in Business /\ Allocating(p, p).p = p /\ Allocating(p, p).r = p
         /\ Allocating(p, p).in = "pbuf_alloc"
         /\ \A x \in PbufElem : (Gives(Allocating(p, p), x) <=> x = p) /\ ~Dies(Allocating(p, p), x)
  BY PbufAssumption DEF Allocating, Business, Gives, Dies

\* What a count says of a pbuf that is referred to.
LEMMA Referred ==
  ASSUME PbufIInv, NEW p \in PbufElem,
         \/ \E t \in PbufThread : held[t][p] > 0 \/ Gives(busy[t], p)
         \/ \E q \in PbufElem : next[q] = p
  PROVE  /\ p \notin pool /\ ref[p] = Refs(pool, next, held, busy, p) /\ ref[p] > 0
         /\ \A t \in PbufThread : ~Dies(busy[t], p)
<1>1. p \notin pool
  BY NotInPool DEF Gives
<1>2. next \in Links /\ held \in Holdings /\ busy \in [PbufThread -> Business]
      /\ \A x \in pool : next[x] = NoPbuf
  BY DEF PbufIInv, PbufTypes
<1>3. /\ Holding(held, p) \in Nat /\ Cardinality(Into(pool, next, p)) \in Nat
      /\ Cardinality(Giving(busy, p)) \in Nat
      /\ Cardinality(Into(pool, next, p)) = 0 <=> Into(pool, next, p) = {}
      /\ Cardinality(Giving(busy, p)) = 0 <=> Giving(busy, p) = {}
      /\ \A t \in PbufThread : held[t][p] \in Nat /\ held[t][p] <= Holding(held, p)
  BY <1>2, RefsNat
<1>4. Refs(pool, next, held, busy, p) > 0
  <2>1. CASE \E t \in PbufThread : held[t][p] > 0
    BY <2>1, <1>3 DEF Refs
  <2>2. CASE \E t \in PbufThread : Gives(busy[t], p)
    <3>1. Giving(busy, p) # {}
      BY <2>2 DEF Giving
    <3> QED
      BY <3>1, <1>3 DEF Refs
  <2>3. CASE \E q \in PbufElem : next[q] = p
    <3>1. Into(pool, next, p) # {}
      BY <2>3, <1>2, PbufAssumption DEF Into
    <3> QED
      BY <3>1, <1>3 DEF Refs
  <2> QED
    BY <2>1, <2>2, <2>3
<1>5. CountRight(pool, next, ref, held, busy, p)
  BY DEF PbufIInv
<1> QED
  BY <1>1, <1>4, <1>5 DEF CountRight

\* pbuf_alloc, when the pool is empty.
LEMMA FailsKeeps ==
  ASSUME PbufIInv, NEW t \in PbufThread, AllocFails(t)
  PROVE  PbufIInv'
<1> DEFINE p == busy[t].p
<1>1. /\ busy[t] \in Business /\ p \in PbufElem /\ busy[t].in = "pbuf_alloc"
      /\ busy' = [busy EXCEPT ![t] = Freeing(p)]
      /\ UNCHANGED <<pool, next, len, tot_len, ref, held>>
  BY PbufAssumption DEF AllocFails, AfterFail, PbufIInv, PbufTypes, Business
<1>2. /\ Freeing(p) \in Business /\ Freeing(p).p = p /\ Freeing(p).in = "pbuf_free"
      /\ \A x \in PbufElem : (Gives(Freeing(p), x) <=> x = p) /\ ~Dies(Freeing(p), x)
      /\ \A x \in PbufElem : (Gives(busy[t], x) <=> x = p) /\ ~Dies(busy[t], x)
  <2>1. \A x \in PbufElem : (Gives(busy[t], x) <=> x = p) /\ ~Dies(busy[t], x)
    BY <1>1 DEF Gives, Dies
  <2> QED
    BY <1>1, <2>1, FreeingIs, PbufAssumption
<1> HIDE DEF p
<1>3. /\ busy' \in [PbufThread -> Business] /\ busy'[t] = Freeing(p)
      /\ \A u \in PbufThread \ {t} : busy'[u] = busy[u]
  BY <1>1, <1>2 DEF PbufIInv, PbufTypes
<1>4. PbufTypes'
  BY <1>1, <1>2, <1>3, PbufAssumption DEF PbufIInv, PbufTypes
<1>5. \A x \in PbufElem : CountRight(pool', next', ref', held', busy', x)
  <2> TAKE x \in PbufElem
  <2>1. Cardinality(Giving(busy', x)) = Cardinality(Giving(busy, x))
    <3>1. /\ Cardinality(Giving(busy', x))
             = Cardinality(Giving(busy, x)) - One(Gives(busy[t], x)) + One(Gives(Freeing(p), x))
          /\ Cardinality(Giving(busy, x)) \in Nat
      BY <1>1, <1>2, GivingChange, ZenonT(60) DEF PbufIInv, PbufTypes
    <3>2. One(Gives(busy[t], x)) = One(Gives(Freeing(p), x)) /\ One(Gives(busy[t], x)) \in Nat
      BY <1>2 DEF One
    <3> QED
      BY <3>1, <3>2
  <2>2. \A u \in PbufThread : Dies(busy'[u], x) <=> Dies(busy[u], x)
    BY <1>2, <1>3
  <2> QED
    BY <1>1, <2>1, <2>2 DEF PbufIInv, CountRight, Refs
<1>6. \A u \in PbufThread : busy'[u].p = busy[u].p
  BY <1>2, <1>3 DEF p
<1>7. \A u \in PbufThread : \A q : Alone(pool, next, held, busy, u, q) => Alone(pool, next, held, busy, u, q)'
  BY <1>1, <1>6 DEF Alone
<1>8. BusyRight(pool, next, held, busy)'
  BY <1>1, <1>2, <1>3, <1>7 DEF BusyRight, PbufIInv
<1>9. Lengths(pool, next, len, tot_len, held, busy)'
  BY <1>1, <1>7 DEF Lengths, PbufIInv
<1> QED
  BY <1>1, <1>4, <1>5, <1>8, <1>9 DEF PbufIInv

\* pbuf_free: the call.
LEMMA GiveUpKeeps ==
  ASSUME PbufIInv, NEW t \in PbufThread, Free(t)
  PROVE  PbufIInv'
<1>1. PICK p \in PbufElem : /\ Holds(t, p)
                            /\ held' = [held EXCEPT ![t][p] = @ - 1]
                            /\ busy' = [busy EXCEPT ![t] = Freeing(p)]
  BY DEF Free
<1>2. /\ busy \in [PbufThread -> Business] /\ held \in Holdings
      /\ busy[t].in = "none" /\ busy[t].p = NoPbuf /\ p # NoPbuf
      /\ held[t][p] \in Nat /\ held[t][p] > 0
      /\ UNCHANGED <<pool, next, len, tot_len, ref>>
  BY <1>1, PbufAssumption DEF PbufIInv, PbufTypes, Holds, MayCall, Holdings, Free
<1>3. /\ Freeing(p) \in Business /\ Freeing(p).p = p /\ Freeing(p).in = "pbuf_free"
      /\ \A x \in PbufElem : (Gives(Freeing(p), x) <=> x = p) /\ ~Dies(Freeing(p), x)
      /\ \A x \in PbufElem : ~Gives(busy[t], x) /\ ~Dies(busy[t], x)
  BY <1>2, FreeingIs, PbufAssumption DEF Gives, Dies
<1>4. /\ busy' \in [PbufThread -> Business] /\ busy'[t] = Freeing(p)
      /\ \A u \in PbufThread \ {t} : busy'[u] = busy[u]
  BY <1>1, <1>2, <1>3
<1>5. /\ held' \in Holdings
      /\ \A x \in PbufElem : Holding(held', x) = IF x = p THEN Holding(held, x) - 1 ELSE Holding(held, x)
  <2>1. held' = WithHeld(held, t, p, held[t][p] - 1) /\ held[t][p] - 1 \in Nat
    BY <1>1, <1>2 DEF WithHeld
  <2> QED
    <3>1. /\ held' \in Holdings
          /\ \A x \in PbufElem : Holding(held', x)
                 = IF x = p THEN Holding(held, x) - held[t][p] + (held[t][p] - 1) ELSE Holding(held, x)
      BY <1>2, <2>1, HoldingChange
    <3>2. \A x \in PbufElem : Holding(held, x) \in Nat
      BY <1>2, HoldingNat
    <3> QED
      BY <1>2, <3>1, <3>2
<1>6. \A x \in PbufElem :
        /\ Cardinality(Giving(busy', x))
           = Cardinality(Giving(busy, x)) - One(Gives(busy[t], x)) + One(Gives(Freeing(p), x))
        /\ Cardinality(Giving(busy, x)) \in Nat
  BY <1>1, <1>2, <1>3, GivingChange
<1>7. \A x \in PbufElem : CountRight(pool', next', ref', held', busy', x)
  <2> TAKE x \in PbufElem
  <2>1. Holding(held, x) \in Nat /\ Cardinality(Into(pool, next, x)) \in Nat
    BY <1>2, RefsNat DEF PbufIInv, PbufTypes
  <2>2. Holding(held', x) + Cardinality(Giving(busy', x)) = Holding(held, x) + Cardinality(Giving(busy, x))
    <3>1. CASE x = p
      BY <3>1, <2>1, <1>2, <1>3, <1>5, <1>6 DEF One
    <3>2. CASE x # p
      BY <3>2, <2>1, <1>2, <1>3, <1>5, <1>6 DEF One
    <3> QED
      BY <3>1, <3>2
  <2>3. \A u \in PbufThread : Dies(busy'[u], x) <=> Dies(busy[u], x)
    BY <1>3, <1>4
  <2>4. Holding(held', x) \in Nat /\ Cardinality(Giving(busy', x)) \in Nat
    BY <1>2, <1>4, <1>5, RefsNat DEF PbufIInv, PbufTypes
  <2>5. Refs(pool', next', held', busy', x) = Refs(pool, next, held, busy, x)
    BY <1>2, <1>6, <2>1, <2>2, <2>4 DEF Refs
  <2> QED
    BY <1>2, <2>3, <2>5 DEF PbufIInv, CountRight
<1>8. PbufTypes'
  BY <1>2, <1>3, <1>4, <1>5, PbufAssumption DEF PbufIInv, PbufTypes
<1>9. ASSUME NEW u \in PbufThread, NEW q \in PbufElem, Alone(pool, next, held, busy, u, q)
      PROVE  u # t /\ Alone(pool, next, held, busy, u, q)'
  <2>1. q # p /\ u # t
    BY <1>2, <1>9, PbufAssumption DEF Alone
  <2>2. \A v \in PbufThread : held'[v][q] = held[v][q]
    BY <1>1, <1>2, <2>1 DEF Holdings
  <2> QED
    BY <1>2, <1>3, <1>4, <1>9, <2>1, <2>2 DEF Alone
<1>10. BusyRight(pool, next, held, busy)'
  <2>1. ASSUME NEW u \in PbufThread, busy'[u].in = "pbuf_alloc"
        PROVE  busy'[u].r = busy'[u].p /\ Alone(pool, next, held, busy, u, busy[u].p)'
    <3>1. u # t /\ busy'[u] = busy[u]
      BY <1>3, <1>4, <2>1
    <3>2. busy[u].p \in PbufElem
      BY <2>1, <3>1 DEF PbufIInv, PbufTypes, Business
    <3> QED
      BY <1>9, <2>1, <3>1, <3>2 DEF PbufIInv, BusyRight
  <2> QED
    BY <1>2, <1>3, <1>4, <2>1 DEF BusyRight, PbufIInv
<1>11. Lengths(pool, next, len, tot_len, held, busy)'
  BY <1>2, <1>9 DEF Lengths, PbufIInv
<1> QED
  BY <1>2, <1>7, <1>8, <1>10, <1>11 DEF PbufIInv

\* pbuf_free: the count.
LEMMA UnrefKeeps ==
  ASSUME PbufIInv, NEW t \in PbufThread, Unref(t)
  PROVE  PbufIInv'
<1> DEFINE p == busy[t].p
           a == IF ref[p] = 1 THEN Releasing(p) ELSE NotBusy
<1>1. /\ busy \in [PbufThread -> Business] /\ p \in PbufElem /\ busy[t].in = "pbuf_free" /\ busy[t].p = p
      /\ ref' = [ref EXCEPT ![p] = @ - 1] /\ busy' = [busy EXCEPT ![t] = a]
      /\ UNCHANGED <<pool, next, len, tot_len, held>>
  BY PbufAssumption DEF Unref, PbufIInv, PbufTypes, Business
<1> HIDE DEF p
<1>2. /\ a \in Business
      /\ a.in = (IF ref[p] = 1 THEN "memp_free" ELSE "none")
      /\ a.p = (IF ref[p] = 1 THEN p ELSE NoPbuf)
      /\ \A x \in PbufElem : ~Gives(a, x) /\ (Dies(a, x) <=> ref[p] = 1 /\ x = p)
  BY <1>1, ReleasingIs, NotBusyIs
<1> HIDE DEF a
<1>3. \A x \in PbufElem : (Gives(busy[t], x) <=> x = p) /\ ~Dies(busy[t], x)
  BY <1>1 DEF Gives, Dies
<1>4. /\ busy' \in [PbufThread -> Business] /\ busy'[t] = a
      /\ \A u \in PbufThread \ {t} : busy'[u] = busy[u]
      /\ ref' \in [PbufElem -> Int] /\ ref'[p] = ref[p] - 1 /\ \A x \in PbufElem \ {p} : ref'[x] = ref[x]
  BY <1>1, <1>2 DEF PbufIInv, PbufTypes
<1>5. /\ p \notin pool /\ ref[p] = Refs(pool, next, held, busy, p) /\ ref[p] > 0 /\ ref[p] \in Int
      /\ \A u \in PbufThread : ~Dies(busy[u], p)
  BY <1>1, <1>3, Referred DEF PbufIInv, PbufTypes
<1>6. \A x \in PbufElem :
        /\ Cardinality(Giving(busy', x))
           = Cardinality(Giving(busy, x)) - One(Gives(busy[t], x)) + One(Gives(a, x))
        /\ Cardinality(Giving(busy, x)) \in Nat
  BY <1>1, <1>2, GivingChange, ZenonT(60)
<1>7. \A x \in PbufElem : /\ Holding(held, x) \in Nat /\ Cardinality(Into(pool, next, x)) \in Nat
  BY <1>1, RefsNat DEF PbufIInv, PbufTypes
<1>8. \A x \in PbufElem : Refs(pool', next', held', busy', x) = Refs(pool, next, held, busy, x) - (IF x = p THEN 1 ELSE 0)
  <2> TAKE x \in PbufElem
  <2>1. Cardinality(Giving(busy', x)) = Cardinality(Giving(busy, x)) - (IF x = p THEN 1 ELSE 0)
    <3>1. CASE x = p
      BY <3>1, <1>2, <1>3, <1>6 DEF One
    <3>2. CASE x # p
      BY <3>2, <1>2, <1>3, <1>6 DEF One
    <3> QED
      BY <3>1, <3>2
  <2> QED
    BY <1>1, <1>6, <1>7, <2>1 DEF Refs
<1>9. \A x \in PbufElem : CountRight(pool', next', ref', held', busy', x)
  <2> TAKE x \in PbufElem
  <2>1. CASE x = p
    <3>1. ref'[p] = Refs(pool', next', held', busy', p)
      <4>1. Refs(pool', next', held', busy', p) = Refs(pool, next, held, busy, p) - 1
        BY <1>1, <1>8
      <4> QED
        BY <1>4, <1>5, <4>1
    <3>2. ref[p] = 1 <=> \E u \in PbufThread : Dies(busy'[u], p)
      BY <1>1, <1>2, <1>4, <1>5
    <3>3. ref'[p] = 0 <=> ref[p] = 1
      BY <1>4, <1>5
    <3>4. CountRight(pool', next', ref', held', busy', p)
      BY <1>1, <1>5, <3>1, <3>2, <3>3 DEF CountRight
    <3> QED
      BY <2>1, <3>4
  <2>2. CASE x # p
    <3>1. \A u \in PbufThread : Dies(busy'[u], x) <=> Dies(busy[u], x)
      BY <1>2, <1>3, <1>4, <2>2
    <3>2. Refs(pool', next', held', busy', x) = Refs(pool, next, held, busy, x)
      BY <1>6, <1>7, <1>8, <2>2 DEF Refs
    <3>3. CountRight(pool, next, ref, held, busy, x) /\ ref'[x] = ref[x]
      BY <1>4, <2>2 DEF PbufIInv
    <3> QED
      BY <1>1, <3>1, <3>2, <3>3 DEF CountRight
  <2> QED
    BY <2>1, <2>2
<1>10. PbufTypes'
  BY <1>1, <1>2, <1>4, PbufAssumption DEF PbufIInv, PbufTypes
<1>11. ASSUME NEW u \in PbufThread, NEW q \in PbufElem, Alone(pool, next, held, busy, u, q)
       PROVE  Alone(pool, next, held, busy, u, q)'
  <2>1. CASE u = t
    <3>1. q = p
      BY <1>1, <1>11, <2>1 DEF Alone
    <3>2. \A v \in PbufThread : held[v][p] = 0 /\ (v # t => busy[v].p # p)
      BY <1>11, <2>1, <3>1 DEF Alone
    <3>3. Into(pool, next, p) = {} /\ Giving(busy, p) = {t}
      BY <1>11, <1>3, <2>1, <3>1, <3>2 DEF Alone, Giving, Gives
    <3>4. Holding(held, p) = 0
      <4> DEFINE f == [v \in PbufThread |-> held[v][p]]
      <4>1. \A v \in PbufThread : f[v] = 0
        BY <3>2
      <4>2. SumFunctionOnSet(f, PbufThread) = 0
        <5> HIDE DEF f
        <5> QED
          BY <4>1, SumZero, PbufAssumption
      <4> QED
        BY <4>2 DEF Holding
    <3>5. ref[p] = 1
      <4>1. Cardinality(Into(pool, next, p)) = 0 /\ Cardinality(Giving(busy, p)) = 1
        BY <3>3, FS_EmptySet, FS_Singleton
      <4> QED
        BY <1>5, <3>4, <4>1 DEF Refs
    <3> QED
      BY <1>1, <1>2, <1>4, <1>11, <2>1, <3>1, <3>5 DEF Alone
  <2>2. CASE u # t
    <3>1. q # p
      BY <1>1, <1>11, <2>2 DEF Alone
    <3> QED
      BY <1>1, <1>2, <1>4, <1>11, <2>2, <3>1, PbufAssumption DEF Alone
  <2> QED
    BY <2>1, <2>2
<1>12. BusyRight(pool, next, held, busy)'
  <2>1. ASSUME NEW u \in PbufThread, busy'[u].in = "pbuf_alloc"
        PROVE  busy'[u].r = busy'[u].p /\ Alone(pool, next, held, busy, u, busy[u].p)'
    <3>1. u # t /\ busy'[u] = busy[u]
      BY <1>2, <1>4, <2>1
    <3>2. busy[u].p \in PbufElem
      BY <2>1, <3>1 DEF PbufIInv, PbufTypes, Business
    <3> QED
      BY <1>11, <2>1, <3>1, <3>2 DEF PbufIInv, BusyRight
  <2>2. \A u \in PbufThread \ {t} : busy'[u].in = "memp_free" => busy'[u].p # p
    BY <1>4, <1>5 DEF Dies
  <2> QED
    BY <1>1, <1>2, <1>4, <1>5, <2>1, <2>2, ZenonT(60) DEF BusyRight, PbufIInv
<1>13. Lengths(pool, next, len, tot_len, held, busy)'
  BY <1>1, <1>11 DEF Lengths, PbufIInv
<1> QED
  BY <1>1, <1>9, <1>10, <1>12, <1>13 DEF PbufIInv

\* pbuf_ref.
LEMMA RefKeeps ==
  ASSUME PbufIInv, NEW t \in PbufThread, pbuf_ref(t)
  PROVE  PbufIInv'
<1>1. PICK p \in PbufElem : /\ Holds(t, p)
                            /\ ref' = [ref EXCEPT ![p] = @ + 1] /\ held' = [held EXCEPT ![t][p] = @ + 1]
  BY DEF pbuf_ref
<1>2. /\ held \in Holdings /\ held[t][p] \in Nat /\ held[t][p] > 0
      /\ UNCHANGED <<pool, next, len, tot_len, busy>>
  BY <1>1 DEF PbufIInv, PbufTypes, Holds, Holdings, pbuf_ref
<1>3. /\ held' \in Holdings
      /\ \A x \in PbufElem : Holding(held', x) = Holding(held, x) + (IF x = p THEN 1 ELSE 0)
      /\ \A u \in PbufThread, x \in PbufElem \ {p} : held'[u][x] = held[u][x]
  <2>1. held' = WithHeld(held, t, p, held[t][p] + 1) /\ held[t][p] + 1 \in Nat
    BY <1>1, <1>2 DEF WithHeld
  <2>2. /\ held' \in Holdings
        /\ \A x \in PbufElem : Holding(held', x)
             = IF x = p THEN Holding(held, x) - held[t][p] + (held[t][p] + 1) ELSE Holding(held, x)
        /\ \A u \in PbufThread, x \in PbufElem :
              held'[u][x] = IF u = t /\ x = p THEN held[t][p] + 1 ELSE held[u][x]
    BY <1>2, <2>1, HoldingChange
  <2>3. \A x \in PbufElem : Holding(held, x) \in Nat
    BY <1>2, HoldingNat
  <2> QED
    BY <1>2, <2>2, <2>3
<1>4. /\ ref' \in [PbufElem -> Int] /\ ref'[p] = ref[p] + 1 /\ \A x \in PbufElem \ {p} : ref'[x] = ref[x]
  BY <1>1 DEF PbufIInv, PbufTypes
<1>5. /\ p \notin pool /\ ref[p] = Refs(pool, next, held, busy, p) /\ ref[p] > 0 /\ ref[p] \in Int
      /\ \A u \in PbufThread : ~Dies(busy[u], p)
  BY <1>2, Referred DEF PbufIInv, PbufTypes
<1>6. \A x \in PbufElem : Refs(pool', next', held', busy', x) = Refs(pool, next, held, busy, x) + (IF x = p THEN 1 ELSE 0)
  <2>1. \A x \in PbufElem : /\ Holding(held, x) \in Nat /\ Cardinality(Into(pool, next, x)) \in Nat
                            /\ Cardinality(Giving(busy, x)) \in Nat
    BY <1>2, RefsNat DEF PbufIInv, PbufTypes
  <2> QED
    BY <1>2, <1>3, <2>1 DEF Refs
<1>7. \A x \in PbufElem : CountRight(pool', next', ref', held', busy', x)
  <2> TAKE x \in PbufElem
  <2>1. CASE x = p
    BY <1>2, <1>4, <1>5, <1>6, <2>1 DEF CountRight
  <2>2. CASE x # p
    <3>1. CountRight(pool, next, ref, held, busy, x) /\ ref'[x] = ref[x]
      BY <1>4, <2>2 DEF PbufIInv
    <3>2. Refs(pool, next, held, busy, x) \in Nat
      <4>1. /\ Holding(held, x) \in Nat /\ Cardinality(Into(pool, next, x)) \in Nat
            /\ Cardinality(Giving(busy, x)) \in Nat
        BY <1>2, RefsNat DEF PbufIInv, PbufTypes
      <4> QED
        BY <4>1 DEF Refs
    <3> QED
      BY <1>2, <1>6, <2>2, <3>1, <3>2 DEF CountRight
  <2> QED
    BY <2>1, <2>2
<1>8. PbufTypes'
  BY <1>2, <1>3, <1>4 DEF PbufIInv, PbufTypes
<1>9. ASSUME NEW u \in PbufThread, NEW q \in PbufElem, Alone(pool, next, held, busy, u, q)
      PROVE  Alone(pool, next, held, busy, u, q)'
  BY <1>2, <1>3, <1>9 DEF Alone
<1>10. BusyRight(pool, next, held, busy)'
  <2>1. \A u \in PbufThread : busy[u].in = "pbuf_alloc" => busy[u].p \in PbufElem
    BY DEF PbufIInv, PbufTypes, Business
  <2> QED
    BY <1>2, <1>9, <2>1 DEF BusyRight, PbufIInv
<1>11. Lengths(pool, next, len, tot_len, held, busy)'
  BY <1>2, <1>9 DEF Lengths, PbufIInv
<1> QED
  BY <1>2, <1>7, <1>8, <1>10, <1>11 DEF PbufIInv

\* A pbuf goes to another thread.
LEMMA HandoverKeeps ==
  ASSUME PbufIInv, NEW t \in PbufThread, Handover(t)
  PROVE  PbufIInv'
<1>1. PICK p \in PbufElem, u \in PbufThread \ {t} :
        Holds(t, p) /\ held' = [held EXCEPT ![t][p] = @ - 1, ![u][p] = @ + 1]
  BY DEF Handover
<1>2. /\ held \in Holdings /\ held[t][p] \in Nat /\ held[t][p] > 0 /\ held[u][p] \in Nat
      /\ UNCHANGED <<pool, next, len, tot_len, ref, busy>>
  BY <1>1 DEF PbufIInv, PbufTypes, Holds, Holdings, Handover
<1>3. /\ held' \in Holdings
      /\ \A x \in PbufElem : Holding(held', x) = Holding(held, x)
      /\ \A v \in PbufThread, x \in PbufElem \ {p} : held'[v][x] = held[v][x]
  <2>1. held[t][p] - 1 \in Nat /\ held[u][p] + 1 \in Nat
    BY <1>2
  <2>0. PICK v \in Nat, w \in Nat : v = held[t][p] - 1 /\ w = held[u][p] + 1
    BY <2>1
  <2>b. PICK k : k = WithHeld(held, t, p, v)
    OBVIOUS
  <2>2. /\ k \in Holdings
        /\ \A x \in PbufElem : Holding(k, x)
             = IF x = p THEN Holding(held, x) - held[t][p] + v ELSE Holding(held, x)
        /\ \A y \in PbufThread, x \in PbufElem :
              k[y][x] = IF y = t /\ x = p THEN v ELSE held[y][x]
    <3>1. held \in Holdings
      BY <1>2
    <3> QED
      BY <2>b, <3>1, HoldingChange
  <2>3. k[u][p] = held[u][p]
    BY <2>2
  <2>4. held' = WithHeld(k, u, p, w)
    BY <1>1, <1>2, <2>0, <2>b, <2>3 DEF WithHeld
  <2>5. /\ held' \in Holdings
        /\ \A x \in PbufElem : Holding(held', x)
             = IF x = p THEN Holding(k, x) - k[u][p] + w ELSE Holding(k, x)
        /\ \A y \in PbufThread, x \in PbufElem :
              held'[y][x] = IF y = u /\ x = p THEN w ELSE k[y][x]
    <3>1. k \in Holdings
      BY <2>2
    <3> QED
      BY <2>4, <3>1, HoldingChange
  <2>6. \A x \in PbufElem : Holding(held, x) \in Nat /\ Holding(k, x) \in Nat
    BY <1>2, <2>2, HoldingNat
  <2> QED
    BY <1>2, <2>0, <2>2, <2>3, <2>5, <2>6
<1>4. \A x \in PbufElem : CountRight(pool', next', ref', held', busy', x)
  BY <1>2, <1>3 DEF PbufIInv, CountRight, Refs
<1>5. PbufTypes'
  BY <1>2, <1>3 DEF PbufIInv, PbufTypes
<1>6. ASSUME NEW v \in PbufThread, NEW q \in PbufElem, Alone(pool, next, held, busy, v, q)
      PROVE  Alone(pool, next, held, busy, v, q)'
  BY <1>2, <1>3, <1>6 DEF Alone
<1>7. BusyRight(pool, next, held, busy)'
  <2>1. \A v \in PbufThread : busy[v].in = "pbuf_alloc" => busy[v].p \in PbufElem
    BY DEF PbufIInv, PbufTypes, Business
  <2> QED
    BY <1>2, <1>6, <2>1 DEF BusyRight, PbufIInv
<1>8. Lengths(pool, next, len, tot_len, held, busy)'
  BY <1>2, <1>6 DEF Lengths, PbufIInv
<1> QED
  BY <1>2, <1>4, <1>5, <1>7, <1>8 DEF PbufIInv

\* pbuf_free: back into the pool.
LEMMA ReleaseKeeps ==
  ASSUME PbufIInv, NEW t \in PbufThread, memp_free(t)
  PROVE  PbufIInv'
<1> DEFINE p == busy[t].p
           v == next[p]
           m == [next EXCEPT ![p] = NoPbuf]
<1>1. /\ busy \in [PbufThread -> Business] /\ p \in PbufElem /\ busy[t].in = "memp_free" /\ busy[t].p = p
      /\ v \in PbufElem \cup {NoPbuf} /\ next \in Links
      /\ pool' = pool \cup {p} /\ next' = m
      /\ len' = [len EXCEPT ![p] = 0] /\ tot_len' = [tot_len EXCEPT ![p] = 0]
      /\ busy' = [busy EXCEPT ![t] = Freeing(v)]
      /\ UNCHANGED <<ref, held>>
  BY PbufAssumption DEF memp_free, AfterRelease, PbufIInv, PbufTypes, Business, Links
<1> HIDE DEF p, v
<1>2. /\ Freeing(v) \in Business /\ Freeing(v).p = v
      /\ Freeing(v).in = (IF v = NoPbuf THEN "none" ELSE "pbuf_free")
      /\ \A x \in PbufElem : (Gives(Freeing(v), x) <=> x = v) /\ ~Dies(Freeing(v), x)
      /\ \A x \in PbufElem : ~Gives(busy[t], x) /\ (Dies(busy[t], x) <=> x = p)
  <2>1. \A x \in PbufElem : ~Gives(busy[t], x) /\ (Dies(busy[t], x) <=> x = p)
    BY <1>1 DEF Gives, Dies
  <2> QED
    BY <1>1, <2>1, FreeingIs
<1>3. /\ busy' \in [PbufThread -> Business] /\ busy'[t] = Freeing(v)
      /\ \A u \in PbufThread \ {t} : busy'[u] = busy[u]
  BY <1>1, <1>2
<1>4. /\ p \notin pool /\ Refs(pool, next, held, busy, p) = 0
      /\ CountRight(pool, next, ref, held, busy, p)
  <2>1. p \notin pool /\ CountRight(pool, next, ref, held, busy, p)
    BY <1>1 DEF PbufIInv, BusyRight
  <2>2. Dies(busy[t], p)
    BY <1>1 DEF Dies
  <2> QED
    BY <2>1, <2>2 DEF CountRight
<1>5. \A x \in PbufElem : /\ Holding(held, x) \in Nat /\ Cardinality(Into(pool, next, x)) \in Nat
                          /\ Cardinality(Giving(busy, x)) \in Nat
  BY <1>1, RefsNat DEF PbufIInv, PbufTypes
<1>6. Into(pool, next, p) = {} /\ \A u \in PbufThread : held[u][p] = 0
  <2>1. Cardinality(Into(pool, next, p)) = 0 /\ Holding(held, p) = 0
    BY <1>1, <1>4, <1>5 DEF Refs
  <2>2. \A u \in PbufThread : held[u][p] \in Nat /\ held[u][p] <= Holding(held, p)
    BY <1>1, HoldingNat DEF PbufIInv, PbufTypes
  <2>3. Cardinality(Into(pool, next, p)) = 0 <=> Into(pool, next, p) = {}
    <3>1. /\ busy \in [PbufThread -> Business] /\ next \in Links /\ held \in Holdings /\ p \in PbufElem
      BY <1>1 DEF PbufIInv, PbufTypes
    <3> QED
      BY <3>1, RefsNat
  <2> QED
    BY <2>1, <2>2, <2>3
<1>7. /\ next' \in Links /\ next'[p] = NoPbuf /\ \A x \in PbufElem \ {p} : next'[x] = next[x]
      /\ \A x \in PbufElem : Cardinality(Into(pool, next', x))
                             = Cardinality(Into(pool, next, x)) - (IF v = x THEN 1 ELSE 0)
  <2>1. p \in PbufElem \ pool /\ NoPbuf \in PbufElem \cup {NoPbuf} /\ v = next[p]
    BY <1>1, <1>4 DEF v
  <2>2. next \in Links /\ next' = WithNext(next, p, NoPbuf)
    BY <1>1 DEF WithNext
  <2>3. /\ next' \in Links /\ next'[p] = NoPbuf /\ \A x \in PbufElem \ {p} : next'[x] = next[x]
        /\ \A x \in PbufElem : Cardinality(Into(pool, next', x))
                               = Cardinality(Into(pool, next, x)) - (IF next[p] = x THEN 1 ELSE 0)
                                 + (IF NoPbuf = x THEN 1 ELSE 0)
    BY <2>1, <2>2, IntoChange
  <2> QED
    BY <2>1, <2>3, <1>5, PbufAssumption
<1>8. \A x \in PbufElem : Into(pool', next', x) = Into(pool, next', x)
  <2>1. pool' = pool \cup {p} /\ p \in PbufElem
    BY <1>1
  <2> QED
    BY <1>7, <2>1, IntoPool
<1>9. \A x \in PbufElem :
        /\ Cardinality(Giving(busy', x))
           = Cardinality(Giving(busy, x)) - One(Gives(busy[t], x)) + One(Gives(Freeing(v), x))
        /\ Cardinality(Giving(busy, x)) \in Nat
  <2>1. /\ busy \in [PbufThread -> Business] /\ Freeing(v) \in Business
        /\ busy' = [busy EXCEPT ![t] = Freeing(v)]
    BY <1>1, <1>2
  <2> QED
    BY <2>1, GivingChange
<1>10. ASSUME NEW x \in PbufElem
       PROVE  Refs(pool', next', held', busy', x) = Refs(pool, next, held, busy, x)
  <2>1. Cardinality(Into(pool', next', x)) + Cardinality(Giving(busy', x))
        = Cardinality(Into(pool, next, x)) + Cardinality(Giving(busy, x))
    <3>1. CASE x = v
      BY <3>1, <1>2, <1>5, <1>7, <1>8, <1>9, PbufAssumption DEF One
    <3>2. CASE x # v
      BY <3>2, <1>2, <1>5, <1>7, <1>8, <1>9, PbufAssumption DEF One
    <3> QED
      BY <3>1, <3>2
  <2>2. Cardinality(Into(pool', next', x)) \in Nat /\ Cardinality(Giving(busy', x)) \in Nat
    BY <1>3, <1>1, <1>7, RefsNat DEF PbufIInv, PbufTypes
  <2> QED
    BY <1>1, <1>5, <2>1, <2>2 DEF Refs
<1>11. \A x \in PbufElem : CountRight(pool', next', ref', held', busy', x)
  <2> TAKE x \in PbufElem
  <2>1. CASE x = p
    BY <1>1, <1>4, <1>10, <2>1 DEF CountRight
  <2>2. CASE x # p
    <3>1. \A u \in PbufThread : Dies(busy'[u], x) <=> Dies(busy[u], x)
      BY <1>2, <1>3, <2>2
    <3>2. CountRight(pool, next, ref, held, busy, x)
      BY DEF PbufIInv
    <3> QED
      BY <1>1, <1>10, <2>2, <3>1, <3>2 DEF CountRight
  <2> QED
    BY <2>1, <2>2
<1>12. PbufTypes'
  <2>1. busy'[t].in = "none" <=> busy'[t].p = NoPbuf
    BY <1>2, <1>3
  <2>2. pool' \subseteq PbufElem /\ len' \in [PbufElem -> Int] /\ tot_len' \in [PbufElem -> Int]
    BY <1>1 DEF PbufIInv, PbufTypes
  <2> QED
    BY <1>1, <1>3, <1>7, <2>1, <2>2 DEF PbufIInv, PbufTypes
<1>13. AllEnd(next')
  BY <1>1, EndsCut DEF PbufIInv
<1>14. ASSUME NEW u \in PbufThread, NEW q \in PbufElem \ {p}, Alone(pool, next, held, busy, u, q)
       PROVE  Alone(pool', next', held', busy', u, q)
  <2>1. u # t
    BY <1>1, <1>14 DEF Alone
  <2>2. v # q
    BY <1>4, <1>1, <1>14 DEF Alone, Into, v
  <2>3. Into(pool', next', q) = {}
    BY <1>7, <1>8, <1>14, PbufAssumption DEF Alone, Into
  <2> QED
    BY <1>1, <1>2, <1>3, <1>7, <1>14, <2>1, <2>2, <2>3 DEF Alone
<1>15. BusyRight(pool', next', held', busy')
  <2>1. ASSUME NEW u \in PbufThread, busy'[u].in = "pbuf_alloc"
        PROVE  busy'[u].r = busy'[u].p /\ Alone(pool', next', held', busy', u, busy'[u].p)
    <3>1. u # t /\ busy'[u] = busy[u]
      BY <1>2, <1>3, <2>1
    <3>2. busy[u].p \in PbufElem /\ busy[u].r = busy[u].p /\ Alone(pool, next, held, busy, u, busy[u].p)
      BY <2>1, <3>1 DEF PbufIInv, PbufTypes, Business, BusyRight
    <3>3. busy[u].p # p
      BY <1>1, <3>1, <3>2 DEF Alone
    <3> QED
      BY <1>14, <3>1, <3>2, <3>3
  <2>2. ASSUME NEW u \in PbufThread, busy'[u].in = "memp_free"
        PROVE  u # t /\ busy[u].in = "memp_free" /\ busy'[u].p = busy[u].p /\ busy'[u].p \notin pool'
    <3>1. u # t /\ busy'[u] = busy[u]
      BY <1>2, <1>3, <2>2
    <3>2. busy[u].p \notin pool /\ busy[u].p # p
      BY <1>1, <2>2, <3>1 DEF PbufIInv, BusyRight
    <3> QED
      BY <1>1, <2>2, <3>1, <3>2
  <2>3. ASSUME NEW u \in PbufThread, NEW w \in PbufThread,
               busy'[u].in = "memp_free", busy'[w].in = "memp_free", busy'[u].p = busy'[w].p
        PROVE  u = w
    BY <2>2, <2>3 DEF PbufIInv, BusyRight
  <2> QED
    BY <2>1, <2>2, <2>3 DEF BusyRight
<1>16. ASSUME NEW q \in PbufElem \ pool'
       PROVE  Right(next', len', tot_len', q) \/ \E u \in PbufThread : Alone(pool', next', held', busy', u, q)
  <2>1. q \in PbufElem \ pool /\ q # p
    BY <1>1, <1>16
  <2>2. CASE Right(next, len, tot_len, q)
    <3>1. next[q] # p
      BY <1>6, <2>1 DEF Into
    <3>2. /\ next'[q] = next[q] /\ len'[q] = len[q] /\ tot_len'[q] = tot_len[q]
          /\ next[q] # NoPbuf => tot_len'[next[q]] = tot_len[next[q]]
      BY <1>1, <1>7, <2>1, <3>1 DEF PbufIInv, PbufTypes, Links
    <3> QED
      BY <2>2, <3>2 DEF Right
  <2>3. CASE \E u \in PbufThread : Alone(pool, next, held, busy, u, q)
    BY <1>14, <2>1, <2>3
  <2> QED
    BY <2>1, <2>2, <2>3 DEF PbufIInv, Lengths
<1>17. Lengths(pool', next', len', tot_len', held', busy')
  BY <1>16 DEF Lengths
<1>18. \A x \in pool' : next'[x] = NoPbuf
  BY <1>1, <1>7 DEF PbufIInv, PbufTypes
<1> QED
  BY <1>11, <1>12, <1>13, <1>15, <1>17, <1>18 DEF PbufIInv

\* pbuf_alloc: the first pbuf.
LEMMA FirstKeeps ==
  ASSUME PbufIInv, NEW t \in PbufThread, AllocFirst(t)
  PROVE  PbufIInv'
<1>1. PICK p \in pool, l \in 1 .. MaxLen, rest \in {0, 1} :
       /\ pool' = pool \ {p}
       /\ len' = [len EXCEPT ![p] = l] /\ tot_len' = [tot_len EXCEPT ![p] = l + rest]
       /\ next' = [next EXCEPT ![p] = NoPbuf] /\ ref' = [ref EXCEPT ![p] = 1]
       /\ IF rest = 0
          THEN held' = [held EXCEPT ![t][p] = 1] /\ UNCHANGED busy
          ELSE busy' = [busy EXCEPT ![t] = Allocating(p, p)] /\ UNCHANGED held
  BY DEF AllocFirst
<1>2. /\ p \in PbufElem /\ next[p] = NoPbuf /\ Into(pool, next, p) = {} /\ p # NoPbuf
      /\ \A u \in PbufThread : held[u][p] = 0 /\ busy[u].p # p
      /\ CountRight(pool, next, ref, held, busy, p)
  BY InPool, PbufAssumption DEF PbufIInv
<1>3. /\ next \in Links /\ held \in Holdings /\ busy \in [PbufThread -> Business]
      /\ busy[t].in = "none" /\ busy[t].p = NoPbuf
  BY DEF PbufIInv, PbufTypes, AllocFirst, MayCall
<1>4. next' = next
  BY <1>1, <1>2, <1>3 DEF Links
<1>5. \A x \in PbufElem : Into(pool', next', x) = Into(pool, next, x)
  BY <1>1, <1>2, <1>3, <1>4, IntoPool
<1>6. \A x \in PbufElem : ~Gives(busy[t], x) /\ ~Dies(busy[t], x)
  BY <1>3 DEF Gives, Dies
<1>7. /\ busy' \in [PbufThread -> Business]
      /\ \A u \in PbufThread \ {t} : busy'[u] = busy[u]
      /\ rest = 0 => busy' = busy
      /\ rest = 1 => busy'[t].in = "pbuf_alloc" /\ busy'[t].p = p /\ busy'[t].r = p
      /\ \A x \in PbufElem : /\ ~Dies(busy'[t], x)
                             /\ Cardinality(Giving(busy', x)) = Cardinality(Giving(busy, x)) + (IF x = p THEN rest ELSE 0)
  <2>1. CASE rest = 0
    <3>1. busy' = busy /\ \A x \in PbufElem : Cardinality(Giving(busy, x)) \in Nat
      BY <1>1, <1>3, <2>1, RefsNat
    <3> QED
      BY <1>3, <1>6, <2>1, <3>1
  <2>2. CASE rest = 1
    <3>1. /\ Allocating(p, p) \in Business /\ Allocating(p, p).p = p /\ Allocating(p, p).r = p
          /\ Allocating(p, p).in = "pbuf_alloc"
          /\ \A x \in PbufElem : (Gives(Allocating(p, p), x) <=> x = p) /\ ~Dies(Allocating(p, p), x)
      BY <1>2, AllocatingIs
    <3>2. busy' = [busy EXCEPT ![t] = Allocating(p, p)]
      BY <1>1, <2>2
    <3>3. \A x \in PbufElem :
            /\ Cardinality(Giving(busy', x))
               = Cardinality(Giving(busy, x)) - One(Gives(busy[t], x)) + One(Gives(Allocating(p, p), x))
            /\ Cardinality(Giving(busy, x)) \in Nat
      BY <1>3, <3>1, <3>2, GivingChange
    <3>4. /\ busy' \in [PbufThread -> Business] /\ busy'[t] = Allocating(p, p)
          /\ \A u \in PbufThread \ {t} : busy'[u] = busy[u]
      BY <1>3, <3>1, <3>2
    <3>5. ASSUME NEW x \in PbufElem
          PROVE  Cardinality(Giving(busy', x)) = Cardinality(Giving(busy, x)) + (IF x = p THEN rest ELSE 0)
      <4>1. CASE x = p
        BY <4>1, <1>6, <2>2, <3>1, <3>3 DEF One
      <4>2. CASE x # p
        BY <4>2, <1>6, <2>2, <3>1, <3>3 DEF One
      <4> QED
        BY <4>1, <4>2
    <3> QED
      BY <2>2, <3>1, <3>4, <3>5
  <2> QED
    BY <2>1, <2>2
<1>8. /\ held' \in Holdings
      /\ \A x \in PbufElem : Holding(held', x) = Holding(held, x) + (IF x = p THEN 1 - rest ELSE 0)
      /\ \A u \in PbufThread, x \in PbufElem \ {p} : held'[u][x] = held[u][x]
      /\ rest = 1 => held' = held
  <2>1. \A x \in PbufElem : Holding(held, x) \in Nat
    BY <1>3, HoldingNat
  <2>2. CASE rest = 0
    <3>1. held' = WithHeld(held, t, p, 1) /\ 1 \in Nat
      BY <1>1, <2>2 DEF WithHeld
    <3>2. /\ held' \in Holdings
          /\ \A x \in PbufElem : Holding(held', x)
               = IF x = p THEN Holding(held, x) - held[t][p] + 1 ELSE Holding(held, x)
          /\ \A u \in PbufThread, x \in PbufElem :
                held'[u][x] = IF u = t /\ x = p THEN 1 ELSE held[u][x]
      BY <1>2, <1>3, <3>1, HoldingChange
    <3> QED
      BY <1>2, <2>1, <2>2, <3>2
  <2>3. CASE rest = 1
    BY <1>1, <1>3, <2>1, <2>3
  <2> QED
    BY <2>2, <2>3
<1>9. \A x \in PbufElem : /\ Holding(held, x) \in Nat /\ Cardinality(Into(pool, next, x)) \in Nat
                          /\ Cardinality(Giving(busy, x)) \in Nat
  BY <1>3, RefsNat
<1>10. ASSUME NEW x \in PbufElem
       PROVE  Refs(pool', next', held', busy', x) = Refs(pool, next, held, busy, x) + (IF x = p THEN 1 ELSE 0)
  <2>1. CASE x = p
    BY <1>5, <1>7, <1>8, <1>9, <2>1 DEF Refs
  <2>2. CASE x # p
    BY <1>5, <1>7, <1>8, <1>9, <2>2 DEF Refs
  <2> QED
    BY <2>1, <2>2
<1>11. /\ ref' \in [PbufElem -> Int] /\ ref'[p] = 1 /\ \A x \in PbufElem \ {p} : ref'[x] = ref[x]
       /\ len' \in [PbufElem -> Int] /\ len'[p] = l /\ \A x \in PbufElem \ {p} : len'[x] = len[x]
       /\ tot_len' \in [PbufElem -> Int] /\ tot_len'[p] = l + rest
       /\ \A x \in PbufElem \ {p} : tot_len'[x] = tot_len[x]
  BY <1>1, <1>2, PbufAssumption DEF PbufIInv, PbufTypes
<1>12. \A x \in PbufElem : CountRight(pool', next', ref', held', busy', x)
  <2> TAKE x \in PbufElem
  <2>1. CASE x = p
    <3>1. \A u \in PbufThread : ~Dies(busy'[u], p)
      BY <1>2, <1>7 DEF Dies
    <3>2. Refs(pool, next, held, busy, p) = 0
      BY <1>2 DEF CountRight
    <3>3. Refs(pool', next', held', busy', p) = 1
      BY <1>2, <1>10, <3>2
    <3> QED
      BY <1>1, <1>11, <2>1, <3>1, <3>3 DEF CountRight
  <2>2. CASE x # p
    <3>1. \A u \in PbufThread : Dies(busy'[u], x) <=> Dies(busy[u], x)
      BY <1>6, <1>7
    <3>2. CountRight(pool, next, ref, held, busy, x) /\ ref'[x] = ref[x]
      BY <1>11, <2>2 DEF PbufIInv
    <3>3. Refs(pool, next, held, busy, x) \in Nat
      BY <1>9 DEF Refs
    <3>4. Refs(pool', next', held', busy', x) = Refs(pool, next, held, busy, x)
      BY <1>10, <2>2, <3>3
    <3> QED
      BY <1>1, <2>2, <3>1, <3>2, <3>4 DEF CountRight
  <2> QED
    BY <2>1, <2>2
<1>13. PbufTypes'
  <2>1. \A u \in PbufThread : busy'[u].in = "none" <=> busy'[u].p = NoPbuf
    BY <1>2, <1>3, <1>7, <1>1 DEF PbufIInv, PbufTypes
  <2> QED
    BY <1>1, <1>3, <1>4, <1>7, <1>8, <1>11, <2>1 DEF PbufIInv, PbufTypes
<1>14. ASSUME NEW u \in PbufThread, NEW q \in PbufElem, Alone(pool, next, held, busy, u, q)
       PROVE  u # t /\ q # p /\ Alone(pool', next', held', busy', u, q)
  <2>1. u # t /\ q # p
    BY <1>2, <1>3, <1>14, PbufAssumption DEF Alone
  <2> QED
    BY <1>1, <1>3, <1>4, <1>5, <1>7, <1>8, <1>14, <2>1, ZenonT(60) DEF Alone
<1>15. rest = 1 => Alone(pool', next', held', busy', t, p)
  BY <1>2, <1>4, <1>5, <1>7, <1>8 DEF Alone
<1>16. BusyRight(pool', next', held', busy')
  <2>1. ASSUME NEW u \in PbufThread, busy'[u].in = "pbuf_alloc"
        PROVE  busy'[u].r = busy'[u].p /\ Alone(pool', next', held', busy', u, busy'[u].p)
    <3>1. CASE u = t
      BY <1>1, <1>3, <1>7, <1>15, <2>1, <3>1
    <3>2. CASE u # t
      <4>1. busy[u].p \in PbufElem /\ busy[u].r = busy[u].p /\ Alone(pool, next, held, busy, u, busy[u].p)
        BY <1>7, <2>1, <3>2 DEF PbufIInv, PbufTypes, Business, BusyRight
      <4> QED
        BY <1>7, <1>14, <3>2, <4>1
    <3> QED
      BY <3>1, <3>2
  <2>2. ASSUME NEW u \in PbufThread, busy'[u].in = "memp_free"
        PROVE  u # t /\ busy[u].in = "memp_free" /\ busy'[u].p = busy[u].p /\ busy'[u].p \notin pool'
    <3>1. u # t
      BY <1>1, <1>3, <1>7, <2>2
    <3> QED
      BY <1>1, <1>7, <2>2, <3>1 DEF PbufIInv, BusyRight
  <2>3. ASSUME NEW u \in PbufThread, NEW w \in PbufThread,
               busy'[u].in = "memp_free", busy'[w].in = "memp_free", busy'[u].p = busy'[w].p
        PROVE  u = w
    BY <2>2, <2>3 DEF PbufIInv, BusyRight
  <2> QED
    BY <2>1, <2>2, <2>3 DEF BusyRight
<1>17. ASSUME NEW q \in PbufElem \ pool'
       PROVE  Right(next', len', tot_len', q) \/ \E u \in PbufThread : Alone(pool', next', held', busy', u, q)
  <2>1. CASE q = p
    <3>1. CASE rest = 0
      <4>1. tot_len'[p] = l + 0 /\ l + 0 = l
        BY <1>11, <3>1
      <4> QED
        BY <1>2, <1>4, <1>11, <2>1, <4>1 DEF Right
    <3> QED
      BY <1>1, <1>15, <2>1, <3>1
  <2>2. CASE q # p
    <3>1. q \notin pool /\ next[q] # p
      BY <1>1, <1>2, <1>17, <2>2 DEF Into
    <3>2. CASE Right(next, len, tot_len, q)
      <4>1. /\ next'[q] = next[q] /\ len'[q] = len[q] /\ tot_len'[q] = tot_len[q]
            /\ next[q] # NoPbuf => tot_len'[next[q]] = tot_len[next[q]]
        BY <1>3, <1>4, <1>11, <1>17, <2>2, <3>1 DEF Links
      <4> QED
        BY <3>2, <4>1 DEF Right
    <3> QED
      BY <1>14, <1>17, <3>1, <3>2 DEF PbufIInv, Lengths
  <2> QED
    BY <2>1, <2>2
<1>18. Lengths(pool', next', len', tot_len', held', busy')
  BY <1>17 DEF Lengths
<1> QED
  BY <1>1, <1>4, <1>12, <1>13, <1>16, <1>18 DEF PbufIInv

\* pbuf_alloc: the next pbuf.
LEMMA NextKeeps ==
  ASSUME PbufIInv, NEW t \in PbufThread, AllocNext(t)
  PROVE  PbufIInv'
<1> DEFINE r == busy[t].p
           rest == tot_len[r] - len[r]
<1>1. /\ busy \in [PbufThread -> Business] /\ next \in Links /\ held \in Holdings
      /\ r \in PbufElem /\ busy[t].in = "pbuf_alloc" /\ busy[t].p = r /\ busy[t].r = r
      /\ Alone(pool, next, held, busy, t, r)
  BY PbufAssumption DEF AllocNext, PbufIInv, PbufTypes, Business, BusyRight
<1>2. PICK p \in pool :
       /\ pool' = pool \ {p}
       /\ len' = [len EXCEPT ![p] = rest] /\ tot_len' = [tot_len EXCEPT ![p] = rest]
       /\ next' = [next EXCEPT ![p] = NoPbuf, ![r] = p] /\ ref' = [ref EXCEPT ![p] = 1]
       /\ held' = [held EXCEPT ![t][r] = 1]
       /\ busy' = [busy EXCEPT ![t] = NotBusy]
  BY <1>1 DEF AllocNext
<1> HIDE DEF r, rest
<1>3. /\ p \in PbufElem /\ next[p] = NoPbuf /\ Into(pool, next, p) = {} /\ p # NoPbuf
      /\ \A u \in PbufThread : held[u][p] = 0 /\ busy[u].p # p
      /\ CountRight(pool, next, ref, held, busy, p)
  BY InPool, PbufAssumption DEF PbufIInv
<1>4. /\ r \notin pool /\ r # p /\ next[r] = NoPbuf /\ held[t][r] = 0 /\ r # NoPbuf
      /\ Into(pool, next, r) = {}
      /\ \A u \in PbufThread : held[u][r] = 0 /\ (u # t => busy[u].p # r)
  BY <1>1, <1>3, NotInPool, PbufAssumption DEF Alone
<1>5. /\ next' = WithNext(next, r, p) /\ next' \in Links /\ next'[r] = p
      /\ \A x \in PbufElem \ {r} : next'[x] = next[x]
      /\ \A x \in PbufElem : /\ Cardinality(Into(pool, next', x))
                               = Cardinality(Into(pool, next, x)) + (IF x = p THEN 1 ELSE 0)
                             /\ Cardinality(Into(pool, next, x)) \in Nat
  <2>1. next' = WithNext(next, r, p)
    <3>1. [next EXCEPT ![p] = NoPbuf] = next
      BY <1>1, <1>3 DEF Links
    <3> QED
      BY <1>1, <1>2, <1>3, <1>4, <3>1 DEF WithNext, Links
  <2>2. r \in PbufElem \ pool /\ p \in PbufElem \cup {NoPbuf}
    BY <1>1, <1>3, <1>4
  <2>3. /\ next' \in Links /\ next'[r] = p
        /\ \A x \in PbufElem \ {r} : next'[x] = next[x]
        /\ \A x \in PbufElem :
              /\ Cardinality(Into(pool, next', x))
                 = Cardinality(Into(pool, next, x)) - (IF next[r] = x THEN 1 ELSE 0) + (IF p = x THEN 1 ELSE 0)
              /\ Cardinality(Into(pool, next, x)) \in Nat
    BY <1>1, <2>1, <2>2, IntoChange
  <2> QED
    BY <1>4, <2>1, <2>3, PbufAssumption
<1>6. \A x \in PbufElem : Into(pool', next', x) = Into(pool, next', x)
  <2>1. pool' = pool \ {p} /\ p \in PbufElem /\ next'[p] = NoPbuf
    BY <1>2, <1>3, <1>4, <1>5
  <2>2. next' \in Links
    BY <1>5
  <2>3. \A x \in PbufElem : Into(pool \ {p}, next', x) = Into(pool, next', x)
    BY <2>1, <2>2, IntoPool
  <2> QED
    BY <2>1, <2>3
<1>7. /\ held' \in Holdings
      /\ \A x \in PbufElem : Holding(held', x) = Holding(held, x) + (IF x = r THEN 1 ELSE 0)
      /\ \A u \in PbufThread, x \in PbufElem \ {r} : held'[u][x] = held[u][x]
  <2>1. held' = WithHeld(held, t, r, 1) /\ 1 \in Nat /\ r \in PbufElem /\ held \in Holdings
    BY <1>1, <1>2 DEF WithHeld
  <2>2. /\ held' \in Holdings
        /\ \A x \in PbufElem : Holding(held', x)
             = IF x = r THEN Holding(held, x) - held[t][r] + 1 ELSE Holding(held, x)
        /\ \A u \in PbufThread, x \in PbufElem :
              held'[u][x] = IF u = t /\ x = r THEN 1 ELSE held[u][x]
    BY <2>1, HoldingChange
  <2>3. \A x \in PbufElem : Holding(held, x) \in Nat
    BY <1>1, HoldingNat
  <2> QED
    BY <1>4, <2>2, <2>3
<1>8. /\ busy' \in [PbufThread -> Business] /\ busy'[t] = NotBusy
      /\ \A u \in PbufThread \ {t} : busy'[u] = busy[u]
      /\ \A x \in PbufElem : ~Dies(busy'[t], x) /\ ~Dies(busy[t], x)
      /\ \A x \in PbufElem : /\ Cardinality(Giving(busy', x)) = Cardinality(Giving(busy, x)) - (IF x = r THEN 1 ELSE 0)
                             /\ Cardinality(Giving(busy, x)) \in Nat
  <2>1. /\ busy \in [PbufThread -> Business] /\ NotBusy \in Business
        /\ busy' = [busy EXCEPT ![t] = NotBusy]
    BY <1>1, <1>2, NotBusyIs
  <2>2. \A x \in PbufElem : (Gives(busy[t], x) <=> x = r) /\ ~Dies(busy[t], x)
    BY <1>1 DEF Gives, Dies
  <2>3. \A x \in PbufElem : ~Gives(NotBusy, x) /\ ~Dies(NotBusy, x)
    BY NotBusyIs
  <2>4. \A x \in PbufElem :
          /\ Cardinality(Giving(busy', x)) = Cardinality(Giving(busy, x)) - One(Gives(busy[t], x)) + One(Gives(NotBusy, x))
          /\ Cardinality(Giving(busy, x)) \in Nat
    BY <2>1, GivingChange
  <2>5. ASSUME NEW x \in PbufElem
        PROVE  Cardinality(Giving(busy', x)) = Cardinality(Giving(busy, x)) - (IF x = r THEN 1 ELSE 0)
    <3>1. CASE x = r
      BY <3>1, <2>2, <2>3, <2>4 DEF One
    <3>2. CASE x # r
      BY <3>2, <2>2, <2>3, <2>4 DEF One
    <3> QED
      BY <3>1, <3>2
  <2> QED
    BY <2>1, <2>2, <2>3, <2>4, <2>5
<1>9. \A x \in PbufElem : Holding(held, x) \in Nat
  BY <1>1, HoldingNat
<1>10. ASSUME NEW x \in PbufElem
       PROVE  Refs(pool', next', held', busy', x) = Refs(pool, next, held, busy, x) + (IF x = p THEN 1 ELSE 0)
  <2>1. CASE x = p
    BY <1>4, <1>5, <1>6, <1>7, <1>8, <1>9, <2>1 DEF Refs
  <2>2. CASE x = r
    BY <1>4, <1>5, <1>6, <1>7, <1>8, <1>9, <2>2 DEF Refs
  <2>3. CASE x # p /\ x # r
    BY <1>5, <1>6, <1>7, <1>8, <1>9, <2>3 DEF Refs
  <2> QED
    BY <2>1, <2>2, <2>3
<1>11. /\ rest \in Int /\ tot_len[r] = len[r] + rest
       /\ ref' \in [PbufElem -> Int] /\ ref'[p] = 1 /\ \A x \in PbufElem \ {p} : ref'[x] = ref[x]
       /\ len' \in [PbufElem -> Int] /\ len'[p] = rest /\ \A x \in PbufElem \ {p} : len'[x] = len[x]
       /\ tot_len' \in [PbufElem -> Int] /\ tot_len'[p] = rest
       /\ \A x \in PbufElem \ {p} : tot_len'[x] = tot_len[x]
  <2>1. rest \in Int /\ tot_len[r] = len[r] + rest
    BY <1>1 DEF rest, PbufIInv, PbufTypes
  <2> QED
    BY <1>2, <1>3, <2>1 DEF PbufIInv, PbufTypes
<1>12. \A x \in PbufElem : CountRight(pool', next', ref', held', busy', x)
  <2> TAKE x \in PbufElem
  <2>1. CASE x = p
    <3>1. \A u \in PbufThread : ~Dies(busy'[u], p)
      BY <1>3, <1>8 DEF Dies
    <3>2. Refs(pool, next, held, busy, p) = 0
      BY <1>3 DEF CountRight
    <3>3. Refs(pool', next', held', busy', p) = 1
      BY <1>3, <1>10, <3>2
    <3> QED
      BY <1>2, <1>11, <2>1, <3>1, <3>3 DEF CountRight
  <2>2. CASE x # p
    <3>1. \A u \in PbufThread : Dies(busy'[u], x) <=> Dies(busy[u], x)
      BY <1>8
    <3>2. CountRight(pool, next, ref, held, busy, x) /\ ref'[x] = ref[x]
      BY <1>11, <2>2 DEF PbufIInv
    <3>3. Refs(pool, next, held, busy, x) \in Nat
      BY <1>5, <1>8, <1>9 DEF Refs
    <3>4. Refs(pool', next', held', busy', x) = Refs(pool, next, held, busy, x)
      BY <1>10, <2>2, <3>3
    <3> QED
      BY <1>2, <2>2, <3>1, <3>2, <3>4 DEF CountRight
  <2> QED
    BY <2>1, <2>2
<1>13. PbufTypes'
  <2>1. \A u \in PbufThread : busy'[u].in = "none" <=> busy'[u].p = NoPbuf
    BY <1>8, NotBusyIs DEF PbufIInv, PbufTypes
  <2>2. pool' \subseteq PbufElem
    BY <1>2 DEF PbufIInv, PbufTypes
  <2> QED
    BY <1>5, <1>7, <1>8, <1>11, <2>1, <2>2 DEF PbufTypes
<1>14. AllEnd(next')
  <2>1. Reach(next, p) = {p}
    BY <1>1, <1>3, ReachStep
  <2>2. r \notin Reach(next, p) /\ AllEnd(next)
    BY <1>4, <2>1 DEF PbufIInv
  <2> QED
    BY <1>1, <1>3, <1>5, <2>2, EndsLink DEF WithNext
<1>15. ASSUME NEW u \in PbufThread \ {t}, NEW q \in PbufElem, Alone(pool, next, held, busy, u, q)
       PROVE  Alone(pool', next', held', busy', u, q)
  <2>1. q # p /\ q # r
    BY <1>1, <1>3, <1>15 DEF Alone
  <2>2. Into(pool', next', q) = {}
    BY <1>5, <1>6, <1>15, <2>1 DEF Into, Alone
  <2>3. busy'[t].p # q
    BY <1>8, <1>15, NotBusyIs, PbufAssumption
  <2> QED
    BY <1>5, <1>7, <1>8, <1>15, <2>1, <2>2, <2>3 DEF Alone
<1>16. BusyRight(pool', next', held', busy')
  <2>1. ASSUME NEW u \in PbufThread, busy'[u].in = "pbuf_alloc"
        PROVE  busy'[u].r = busy'[u].p /\ Alone(pool', next', held', busy', u, busy'[u].p)
    <3>1. u # t /\ busy'[u] = busy[u]
      BY <1>8, <2>1, NotBusyIs
    <3>2. busy[u].p \in PbufElem /\ busy[u].r = busy[u].p /\ Alone(pool, next, held, busy, u, busy[u].p)
      BY <2>1, <3>1 DEF PbufIInv, PbufTypes, Business, BusyRight
    <3> QED
      BY <1>15, <3>1, <3>2
  <2>2. ASSUME NEW u \in PbufThread, busy'[u].in = "memp_free"
        PROVE  busy[u].in = "memp_free" /\ busy'[u].p = busy[u].p /\ busy'[u].p \notin pool'
    <3>1. u # t
      BY <1>8, <2>2, NotBusyIs
    <3> QED
      BY <1>2, <1>8, <2>2, <3>1 DEF PbufIInv, BusyRight
  <2>3. ASSUME NEW u \in PbufThread, NEW w \in PbufThread,
               busy'[u].in = "memp_free", busy'[w].in = "memp_free", busy'[u].p = busy'[w].p
        PROVE  u = w
    BY <2>2, <2>3 DEF PbufIInv, BusyRight
  <2> QED
    BY <2>1, <2>2, <2>3 DEF BusyRight
<1>17. ASSUME NEW q \in PbufElem \ pool'
       PROVE  Right(next', len', tot_len', q) \/ \E u \in PbufThread : Alone(pool', next', held', busy', u, q)
  <2>1. CASE q = p
    <3>1. next'[p] = NoPbuf /\ rest + 0 = rest
      BY <1>3, <1>4, <1>5, <1>11
    <3> QED
      BY <1>11, <2>1, <3>1 DEF Right
  <2>2. CASE q = r
    <3>1. next'[r] = p /\ tot_len'[r] = len'[r] + tot_len'[p]
      BY <1>1, <1>4, <1>5, <1>11
    <3> QED
      BY <1>3, <2>2, <3>1 DEF Right
  <2>3. CASE q # p /\ q # r
    <3>1. q \notin pool /\ next[q] # p /\ next[q] # r
      BY <1>2, <1>3, <1>4, <1>17, <2>3 DEF Into
    <3>2. CASE Right(next, len, tot_len, q)
      <4>1. /\ next'[q] = next[q] /\ len'[q] = len[q] /\ tot_len'[q] = tot_len[q]
            /\ next[q] # NoPbuf => tot_len'[next[q]] = tot_len[next[q]]
        BY <1>1, <1>5, <1>11, <1>17, <2>3, <3>1 DEF Links
      <4> QED
        BY <3>2, <4>1 DEF Right
    <3>3. CASE \E u \in PbufThread : Alone(pool, next, held, busy, u, q)
      <4>1. PICK u \in PbufThread : Alone(pool, next, held, busy, u, q)
        BY <3>3
      <4>2. u # t
        BY <1>1, <2>3, <4>1 DEF Alone
      <4> QED
        BY <1>15, <4>1, <4>2
    <3> QED
      BY <1>17, <3>1, <3>2, <3>3 DEF PbufIInv, Lengths
  <2> QED
    BY <2>1, <2>2, <2>3
<1>18. Lengths(pool', next', len', tot_len', held', busy')
  BY <1>17 DEF Lengths
<1>19. \A x \in pool' : next'[x] = NoPbuf
  BY <1>2, <1>4, <1>5 DEF PbufIInv, PbufTypes
<1> QED
  BY <1>12, <1>13, <1>14, <1>16, <1>18, <1>19 DEF PbufIInv

\* A thread that is not busy cuts a chain it can reach behind q, and is to give up
\* the rest.
LEMMA ShortenKeeps ==
  ASSUME PbufIInv, NEW t \in PbufThread, busy[t].in = "none",
         NEW p \in PbufElem, held[t][p] > 0, NEW q \in Reach(next, p),
         next' = WithNext(next, q, NoPbuf), busy' = [busy EXCEPT ![t] = Freeing(next[q])],
         pool' = pool, ref' = ref, held' = held
  PROVE  /\ q \in PbufElem \ pool /\ next' \in Links /\ next'[q] = NoPbuf
         /\ \A x \in PbufElem \ {q} : next'[x] = next[x]
         /\ busy' \in [PbufThread -> Business]
         /\ \A u \in PbufThread : busy'[u].in = "none" <=> busy'[u].p = NoPbuf
         /\ \A x \in pool' : next'[x] = NoPbuf
         /\ AllEnd(next')
         /\ \A x \in PbufElem : CountRight(pool', next', ref', held', busy', x)
         /\ BusyRight(pool', next', held', busy')
         /\ \A u \in PbufThread, x \in PbufElem :
              Alone(pool, next, held, busy, u, x) => Alone(pool', next', held', busy', u, x)
<1> DEFINE v == next[q]
<1>1. /\ busy \in [PbufThread -> Business] /\ next \in Links /\ held \in Holdings
      /\ busy[t].p = NoPbuf /\ q \in PbufElem \ pool /\ v \in PbufElem \cup {NoPbuf}
  BY HeldRight DEF PbufIInv, PbufTypes, Links
<1> HIDE DEF v
<1>2. /\ Freeing(v) \in Business /\ Freeing(v).p = v
      /\ Freeing(v).in = (IF v = NoPbuf THEN "none" ELSE "pbuf_free")
      /\ \A x \in PbufElem : (Gives(Freeing(v), x) <=> x = v) /\ ~Dies(Freeing(v), x)
      /\ \A x \in PbufElem : ~Gives(busy[t], x) /\ ~Dies(busy[t], x)
  <2>1. \A x \in PbufElem : ~Gives(busy[t], x) /\ ~Dies(busy[t], x)
    BY DEF Gives, Dies
  <2> QED
    BY <1>1, <2>1, FreeingIs
<1>3. busy' = [busy EXCEPT ![t] = Freeing(v)]
  BY DEF v
<1>4. /\ busy' \in [PbufThread -> Business] /\ busy'[t] = Freeing(v)
      /\ \A u \in PbufThread \ {t} : busy'[u] = busy[u]
      /\ \A u \in PbufThread : busy'[u].in = "none" <=> busy'[u].p = NoPbuf
  <2>1. /\ busy' \in [PbufThread -> Business] /\ busy'[t] = Freeing(v)
        /\ \A u \in PbufThread \ {t} : busy'[u] = busy[u]
    BY <1>1, <1>2, <1>3
  <2> QED
    BY <1>2, <2>1 DEF PbufIInv, PbufTypes
<1>5. /\ next' \in Links /\ next'[q] = NoPbuf /\ \A x \in PbufElem \ {q} : next'[x] = next[x]
      /\ \A x \in PbufElem : /\ Cardinality(Into(pool, next', x))
                               = Cardinality(Into(pool, next, x)) - (IF x = v THEN 1 ELSE 0)
                             /\ Cardinality(Into(pool, next, x)) \in Nat
  <2>1. NoPbuf \in PbufElem \cup {NoPbuf}
    OBVIOUS
  <2>2. /\ next' \in Links /\ next'[q] = NoPbuf
        /\ \A x \in PbufElem \ {q} : next'[x] = next[x]
        /\ \A x \in PbufElem :
              /\ Cardinality(Into(pool, next', x))
                 = Cardinality(Into(pool, next, x)) - (IF next[q] = x THEN 1 ELSE 0) + (IF NoPbuf = x THEN 1 ELSE 0)
              /\ Cardinality(Into(pool, next, x)) \in Nat
    BY <1>1, <2>1, IntoChange, SMTT(30)
  <2> QED
    BY <2>2, PbufAssumption DEF v
<1>6. \A x \in PbufElem :
        /\ Cardinality(Giving(busy', x))
           = Cardinality(Giving(busy, x)) - One(Gives(busy[t], x)) + One(Gives(Freeing(v), x))
        /\ Cardinality(Giving(busy, x)) \in Nat
  <2>1. PICK a \in Business : a = Freeing(v)
    BY <1>2
  <2>2. busy \in [PbufThread -> Business] /\ busy' = [busy EXCEPT ![t] = a]
    BY <1>1, <1>3, <2>1
  <2>3. \A x \in PbufElem :
          /\ Cardinality(Giving(busy', x)) = Cardinality(Giving(busy, x)) - One(Gives(busy[t], x)) + One(Gives(a, x))
          /\ Cardinality(Giving(busy, x)) \in Nat
    BY <2>2, GivingChange
  <2> QED
    BY <2>1, <2>3, Zenon
<1>7. ASSUME NEW x \in PbufElem
      PROVE  Refs(pool', next', held', busy', x) = Refs(pool, next, held, busy, x)
  <2>1. Cardinality(Giving(busy', x)) = Cardinality(Giving(busy, x)) + (IF x = v THEN 1 ELSE 0)
    <3>1. Gives(Freeing(v), x) = (x = v) /\ Gives(busy[t], x) = FALSE
      BY <1>2 DEF Gives
    <3>2. One(Gives(Freeing(v), x)) = One(x = v) /\ One(Gives(busy[t], x)) = One(FALSE)
      BY <3>1, Zenon
    <3>3. One(x = v) = (IF x = v THEN 1 ELSE 0) /\ One(FALSE) = 0
      BY DEF One
    <3>4. /\ Cardinality(Giving(busy', x)) = Cardinality(Giving(busy, x)) - 0 + (IF x = v THEN 1 ELSE 0)
          /\ Cardinality(Giving(busy, x)) \in Nat
      BY <1>6, <3>2, <3>3, Zenon
    <3> QED
      BY <3>4
  <2>2. Holding(held, x) \in Nat /\ Cardinality(Giving(busy, x)) \in Nat
    BY <1>1, <1>6, HoldingNat
  <2>3. CASE x = v
    BY <1>5, <2>1, <2>2, <2>3 DEF Refs
  <2>4. CASE x # v
    BY <1>5, <2>1, <2>2, <2>4 DEF Refs
  <2> QED
    BY <2>3, <2>4
<1>8. \A x \in PbufElem : CountRight(pool', next', ref', held', busy', x)
  <2> TAKE x \in PbufElem
  <2>1. \A u \in PbufThread : Dies(busy'[u], x) <=> Dies(busy[u], x)
    BY <1>2, <1>4
  <2>2. CountRight(pool, next, ref, held, busy, x)
    BY DEF PbufIInv
  <2> QED
    BY <1>7, <2>1, <2>2 DEF CountRight
<1>9. AllEnd(next')
  <2>1. q \in PbufElem /\ AllEnd(next) /\ next' = [next EXCEPT ![q] = NoPbuf]
    BY <1>1 DEF PbufIInv, WithNext
  <2> QED
    BY <2>1, EndsCut
<1>10. ASSUME NEW u \in PbufThread, NEW x \in PbufElem, Alone(pool, next, held, busy, u, x)
       PROVE  u # t /\ Alone(pool', next', held', busy', u, x)
  <2>1. u # t
    BY <1>1, <1>10, PbufAssumption DEF Alone
  <2>2. x # v
    BY <1>1, <1>10 DEF Alone, Into, v
  <2>3. Into(pool', next', x) = {}
    BY <1>5, <1>10, PbufAssumption DEF Into, Alone
  <2> QED
    BY <1>2, <1>4, <1>5, <1>10, <2>1, <2>2, <2>3 DEF Alone
<1>11. BusyRight(pool', next', held', busy')
  <2>1. ASSUME NEW u \in PbufThread, busy'[u].in = "pbuf_alloc"
        PROVE  busy'[u].r = busy'[u].p /\ Alone(pool', next', held', busy', u, busy'[u].p)
    <3>1. u # t /\ busy'[u] = busy[u]
      BY <1>2, <1>4, <2>1
    <3>2. busy[u].p \in PbufElem /\ busy[u].r = busy[u].p /\ Alone(pool, next, held, busy, u, busy[u].p)
      BY <1>1, <2>1, <3>1 DEF PbufIInv, Business, BusyRight, PbufTypes
    <3> QED
      BY <1>10, <3>1, <3>2
  <2>2. \A u \in PbufThread : busy'[u].in = "memp_free" => u # t /\ busy'[u] = busy[u]
    BY <1>2, <1>4
  <2>3. BusyRight(pool, next, held, busy)
    BY DEF PbufIInv
  <2>4. \A u \in PbufThread : busy'[u].in = "memp_free" => busy'[u].p \notin pool'
    BY <2>2, <2>3 DEF BusyRight
  <2>5. ASSUME NEW u \in PbufThread, NEW w \in PbufThread,
               busy'[u].in = "memp_free", busy'[w].in = "memp_free", busy'[u].p = busy'[w].p
        PROVE  u = w
    BY <2>2, <2>3, <2>5 DEF BusyRight
  <2> QED
    BY <2>1, <2>4, <2>5 DEF BusyRight
<1>12. \A x \in pool' : next'[x] = NoPbuf
  BY <1>1, <1>5 DEF PbufIInv, PbufTypes
<1> QED
  BY <1>1, <1>4, <1>5, <1>8, <1>9, <1>10, <1>11, <1>12

\* pbuf_dechain.
LEMMA DechainKeeps ==
  ASSUME PbufIInv, NEW t \in PbufThread, pbuf_dechain(t)
  PROVE  PbufIInv'
<1>1. PICK p \in PbufElem :
        /\ Holds(t, p) /\ Apart(p) /\ next[p] # NoPbuf
        /\ tot_len' = [tot_len EXCEPT ![p] = len[p]]
        /\ next' = [next EXCEPT ![p] = NoPbuf]
        /\ busy' = [busy EXCEPT ![t] = Freeing(next[p])]
  BY DEF pbuf_dechain
<1>2. /\ busy[t].in = "none" /\ held[t][p] > 0 /\ p \in Reach(next, p)
      /\ next' = WithNext(next, p, NoPbuf) /\ busy' = [busy EXCEPT ![t] = Freeing(next[p])]
      /\ pool' = pool /\ ref' = ref /\ held' = held /\ len' = len
  BY <1>1, ReachSelf DEF pbuf_dechain, Holds, MayCall, WithNext
<1>3. /\ p \in PbufElem \ pool /\ next' \in Links /\ next'[p] = NoPbuf
      /\ \A x \in PbufElem \ {p} : next'[x] = next[x]
      /\ busy' \in [PbufThread -> Business]
      /\ \A u \in PbufThread : busy'[u].in = "none" <=> busy'[u].p = NoPbuf
      /\ \A x \in pool' : next'[x] = NoPbuf
      /\ AllEnd(next')
      /\ \A x \in PbufElem : CountRight(pool', next', ref', held', busy', x)
      /\ BusyRight(pool', next', held', busy')
      /\ \A u \in PbufThread, x \in PbufElem :
           Alone(pool, next, held, busy, u, x) => Alone(pool', next', held', busy', u, x)
  BY <1>2, ShortenKeeps
<1>4. /\ tot_len' \in [PbufElem -> Int] /\ tot_len'[p] = len[p] /\ len[p] \in Int
      /\ \A x \in PbufElem \ {p} : tot_len'[x] = tot_len[x]
  BY <1>1 DEF PbufIInv, PbufTypes
<1>5. PbufTypes'
  BY <1>2, <1>3, <1>4 DEF PbufIInv, PbufTypes
<1>6. ASSUME NEW x \in PbufElem \ pool, Right(next, len, tot_len, x)
      PROVE  Right(next', len', tot_len', x)
  <2>1. CASE x = p
    BY <1>2, <1>3, <1>4, <2>1 DEF Right
  <2>2. CASE x # p
    <3>1. next[x] # p
      BY <1>1, <1>2, <1>6, ModelWords DEF Apart, Into
    <3>2. /\ next'[x] = next[x] /\ tot_len'[x] = tot_len[x] /\ len'[x] = len[x]
          /\ next[x] # NoPbuf => tot_len'[next[x]] = tot_len[next[x]]
      BY <1>2, <1>3, <1>4, <2>2, <3>1 DEF PbufIInv, PbufTypes, Links
    <3> QED
      BY <1>6, <3>2 DEF Right
  <2> QED
    BY <2>1, <2>2
<1>7. Lengths(pool', next', len', tot_len', held', busy')
  BY <1>2, <1>3, <1>6 DEF Lengths, PbufIInv
<1> QED
  BY <1>3, <1>5, <1>7 DEF PbufIInv

\* pbuf_realloc.
LEMMA ReallocKeeps ==
  ASSUME PbufIInv, NEW t \in PbufThread, pbuf_realloc(t)
  PROVE  PbufIInv'
<1>0. PICK p \in PbufElem : \E q \in Chain(p), cut \in 0 .. MaxLen - 1 :
       LET lost == cut + IF next[q] = NoPbuf THEN 0 ELSE tot_len[next[q]] IN
       /\ Holds(t, p) /\ Apart(p) /\ cut < len[q] /\ lost > 0
       /\ tot_len' = [x \in PbufElem |->
            IF x \in Chain(p) \ (Chain(q) \ {q}) THEN tot_len[x] - lost ELSE tot_len[x]]
       /\ len' = [len EXCEPT ![q] = @ - cut]
       /\ next' = [next EXCEPT ![q] = NoPbuf]
       /\ busy' = [busy EXCEPT ![t] = Freeing(next[q])]
  BY DEF pbuf_realloc
<1>1. PICK q \in Chain(p), cut \in 0 .. MaxLen - 1 :
       LET lost == cut + IF next[q] = NoPbuf THEN 0 ELSE tot_len[next[q]] IN
       /\ Holds(t, p) /\ Apart(p) /\ cut < len[q] /\ lost > 0
       /\ tot_len' = [x \in PbufElem |->
            IF x \in Chain(p) \ (Chain(q) \ {q}) THEN tot_len[x] - lost ELSE tot_len[x]]
       /\ len' = [len EXCEPT ![q] = @ - cut]
       /\ next' = [next EXCEPT ![q] = NoPbuf]
       /\ busy' = [busy EXCEPT ![t] = Freeing(next[q])]
  BY <1>0
<1> DEFINE lost == cut + IF next[q] = NoPbuf THEN 0 ELSE tot_len[next[q]]
           P == Reach(next, p)
           Q == Reach(next, q) \ {q}
<1>2. /\ busy[t].in = "none" /\ held[t][p] > 0 /\ Apart(p) /\ q \in Reach(next, p)
      /\ next' = WithNext(next, q, NoPbuf) /\ busy' = [busy EXCEPT ![t] = Freeing(next[q])]
      /\ pool' = pool /\ ref' = ref /\ held' = held
  BY <1>1, ModelWords DEF pbuf_realloc, Holds, MayCall, WithNext
<1>3. /\ q \in PbufElem \ pool /\ next' \in Links /\ next'[q] = NoPbuf
      /\ \A x \in PbufElem \ {q} : next'[x] = next[x]
      /\ busy' \in [PbufThread -> Business]
      /\ \A u \in PbufThread : busy'[u].in = "none" <=> busy'[u].p = NoPbuf
      /\ \A x \in pool' : next'[x] = NoPbuf
      /\ AllEnd(next')
      /\ \A x \in PbufElem : CountRight(pool', next', ref', held', busy', x)
      /\ BusyRight(pool', next', held', busy')
      /\ \A u \in PbufThread, x \in PbufElem :
           Alone(pool, next, held, busy, u, x) => Alone(pool', next', held', busy', u, x)
  BY <1>2, ShortenKeeps
<1>4. /\ next \in Links /\ len \in [PbufElem -> Int] /\ tot_len \in [PbufElem -> Int]
      /\ cut \in Int /\ AllEnd(next)
  BY DEF PbufIInv, PbufTypes
<1>5. lost \in Int /\ Right(next, len, tot_len, q)
      /\ tot_len[q] = len[q] + (IF next[q] = NoPbuf THEN 0 ELSE tot_len[next[q]])
  <2>1. Right(next, len, tot_len, q)
    BY <1>2, HeldRight
  <2>2. next[q] # NoPbuf => tot_len[next[q]] \in Int
    BY <1>3, <1>4 DEF Links
  <2> QED
    BY <1>4, <2>1, <2>2 DEF Right
<1>6. /\ tot_len' \in [PbufElem -> Int]
      /\ \A x \in PbufElem : tot_len'[x] = IF x \in P \ Q THEN tot_len[x] - lost ELSE tot_len[x]
      /\ len' \in [PbufElem -> Int] /\ len'[q] = len[q] - cut
      /\ \A x \in PbufElem \ {q} : len'[x] = len[x]
  <2>1. tot_len' = [x \in PbufElem |-> IF x \in P \ Q THEN tot_len[x] - lost ELSE tot_len[x]]
    BY <1>1, ModelWords
  <2>2. len' = [len EXCEPT ![q] = @ - cut]
    BY <1>1
  <2> HIDE DEF lost, P, Q
  <2> QED
    BY <1>3, <1>4, <1>5, <2>1, <2>2
<1>7. PbufTypes'
  <2> HIDE DEF lost, P, Q
  <2> QED
    BY <1>2, <1>3, <1>6 DEF PbufIInv, PbufTypes
<1>8. /\ P \in SUBSET PbufElem /\ Q \in SUBSET PbufElem /\ Q \subseteq P /\ p \in P /\ q \in P \ Q
  BY <1>2, <1>3, <1>4, ReachSelf, ReachWithin
\* Both the part that stays and the part that goes are left through q only.
<1>9. ASSUME NEW x \in PbufElem \ pool, next[x] \in P
      PROVE  (x \in P /\ next[x] # q) \/ (x \in P \ Q /\ next[x] = q)
  <2>1. x \in P
    BY <1>2, <1>9, ApartBack
  <2>2. next[x] = q => x \notin Reach(next, q)
    BY <1>3, <1>4, NoCycle
  <2> QED
    BY <2>1, <2>2
<1>10. ASSUME NEW x \in PbufElem \ pool, x # q, next[x] \in P
       PROVE  x \in Q <=> next[x] \in Q
  <2>1. ASSUME x \in Q PROVE next[x] \in Q
    <3>1. next[x] \in Reach(next, q)
      BY <1>3, <1>4, <1>8, <1>10, <2>1, ReachClosed, PbufAssumption DEF Closed
    <3>2. next[x] # q
      BY <1>3, <1>4, <2>1, NoCycle
    <3> QED
      BY <3>1, <3>2
  <2>2. ASSUME next[x] \in Q PROVE x \in Q
    <3>1. PICK z \in Reach(next, q) : next[z] = next[x]
      BY <1>3, <1>4, <2>2, ReachBack
    <3>2. next[z] # p
      BY <1>2, <1>10, ApartBack, <3>1
    <3>3. z \in PbufElem \ pool
      BY <1>2, <1>3, <1>4, <3>1, HeldRight, ReachWithin
    <3>4. x = z
      <4>1. Cardinality(Into(pool, next, next[x])) = 1
        BY <1>2, <1>10, <3>1, <3>2, ModelWords DEF Apart
      <4>2. x \in Into(pool, next, next[x]) /\ z \in Into(pool, next, next[x])
        BY <1>10, <3>1, <3>3 DEF Into
      <4>3. IsFiniteSet(Into(pool, next, next[x]))
        BY PbufAssumption, FS_Subset DEF Into
      <4> QED
        BY <4>1, <4>2, <4>3, FS_Singleton
    <3> QED
      BY <1>10, <3>1, <3>4
  <2> QED
    BY <2>1, <2>2
<1>11. ASSUME NEW x \in PbufElem \ pool, Right(next, len, tot_len, x)
       PROVE  Right(next', len', tot_len', x)
  <2>1. CASE x = q
    <3>1. tot_len'[q] = tot_len[q] - lost /\ len'[q] = len[q] - cut
      BY <1>3, <1>6, <1>8
    <3>2. tot_len[q] - lost = len[q] - cut
      <4>1. len[q] \in Int /\ (next[q] # NoPbuf => tot_len[next[q]] \in Int)
        BY <1>3, <1>4 DEF Links
      <4> QED
        BY <1>4, <1>5, <4>1
    <3>3. len[q] - cut \in Int
      BY <1>3, <1>4
    <3> HIDE DEF lost
    <3> QED
      BY <1>3, <2>1, <3>1, <3>2, <3>3 DEF Right
  <2>2. CASE x # q /\ next[x] = NoPbuf
    <3>1. CASE x \in P \ Q
      \* The end is q or behind it.
      <4>1. x \in Reach(next, q)
        <5>1. PICK e \in Reach(next, q) : next[e] = NoPbuf
          BY <1>3, <1>4 DEF AllEnd, Ends
        <5>2. e \in Reach(next, p)
          BY <1>2, <1>4, <5>1, ReachWithin
        <5> QED
          BY <1>4, <2>2, <3>1, <5>1, <5>2, OneEnd
      <4> QED
        BY <2>2, <3>1, <4>1
    <3>2. CASE x \notin P \ Q
      <4>1. tot_len'[x] = tot_len[x] /\ len'[x] = len[x] /\ next'[x] = NoPbuf
        BY <1>3, <1>6, <2>2, <3>2
      <4> QED
        BY <1>11, <2>2, <4>1 DEF Right
    <3> QED
      BY <3>1, <3>2
  <2>3. CASE x # q /\ next[x] # NoPbuf
    <3>1. next[x] \in PbufElem /\ next'[x] = next[x] /\ len'[x] = len[x]
          /\ len[x] \in Int /\ tot_len[x] \in Int /\ tot_len[next[x]] \in Int
          /\ tot_len[x] = len[x] + tot_len[next[x]]
      BY <1>3, <1>4, <1>6, <1>11, <2>3 DEF Links, Right
    <3>2. x \in P <=> next[x] \in P
      <4>1. x \in P => next[x] \in P
        BY <1>4, <2>3, ReachClosed DEF Closed
      <4> QED
        BY <1>9, <4>1
    <3>3. x \in P \ Q <=> next[x] \in P \ Q
      BY <1>10, <2>3, <3>2
    <3>4. tot_len'[x] = len'[x] + tot_len'[next[x]]
      <4> HIDE DEF lost, P, Q
      <4> QED
        BY <1>5, <1>6, <3>1, <3>3
    <3> QED
      BY <2>3, <3>1, <3>4 DEF Right
  <2> QED
    BY <2>1, <2>2, <2>3
<1>12. Lengths(pool', next', len', tot_len', held', busy')
  <2> HIDE DEF lost, P, Q
  <2> QED
    BY <1>2, <1>3, <1>11 DEF Lengths, PbufIInv
<1> QED
  <2> HIDE DEF lost, P, Q
  <2> QED
    BY <1>3, <1>7, <1>12 DEF PbufIInv

\* pbuf_header.
LEMMA HeaderKeeps ==
  ASSUME PbufIInv, NEW t \in PbufThread, pbuf_header(t)
  PROVE  PbufIInv'
<1>1. PICK p \in PbufElem, inc \in {-1, 1} :
       /\ Holds(t, p) /\ Before(p) = {} /\ len[p] + inc \in 0 .. MaxLen
       /\ len' = [len EXCEPT ![p] = @ + inc]
       /\ tot_len' = [tot_len EXCEPT ![p] = @ + inc]
  BY DEF pbuf_header
<1>2. /\ UNCHANGED <<pool, next, ref, held, busy>> /\ inc \in Int
      /\ held[t][p] > 0 /\ Into(pool, next, p) = {}
  BY <1>1, ModelWords DEF pbuf_header, Holds
<1>3. /\ len \in [PbufElem -> Int] /\ tot_len \in [PbufElem -> Int] /\ next \in Links
      /\ len' \in [PbufElem -> Int] /\ len'[p] = len[p] + inc
      /\ tot_len' \in [PbufElem -> Int] /\ tot_len'[p] = tot_len[p] + inc
      /\ \A x \in PbufElem \ {p} : len'[x] = len[x] /\ tot_len'[x] = tot_len[x]
  BY <1>1, <1>2 DEF PbufIInv, PbufTypes
<1>4. PbufTypes'
  BY <1>2, <1>3 DEF PbufIInv, PbufTypes
<1>5. ASSUME NEW x \in PbufElem \ pool, Right(next, len, tot_len, x)
      PROVE  Right(next', len', tot_len', x)
  <2>1. next[x] # p
    BY <1>2, <1>5 DEF Into
  <2>2. next'[x] = next[x] /\ (next[x] # NoPbuf => next[x] \in PbufElem /\ tot_len'[next[x]] = tot_len[next[x]])
    BY <1>2, <1>3, <2>1 DEF Links
  <2>3. CASE x = p
    <3>1. len[p] \in Int /\ tot_len[p] \in Int /\ (next[p] # NoPbuf => tot_len[next[p]] \in Int)
      BY <1>3 DEF Links
    <3> QED
      BY <1>2, <1>3, <1>5, <2>2, <2>3, <3>1 DEF Right
  <2>4. CASE x # p
    BY <1>3, <1>5, <2>2, <2>4 DEF Right
  <2> QED
    BY <2>3, <2>4
<1>6. Lengths(pool', next', len', tot_len', held', busy')
  BY <1>2, <1>5 DEF Lengths, PbufIInv
<1> QED
  BY <1>2, <1>4, <1>6 DEF PbufIInv

\* pbuf_cat and pbuf_chain: the chain of h is lengthened by that of tail, which is
\* another one.
LEMMA JoinKeeps ==
  ASSUME PbufIInv, NEW t \in PbufThread, NEW h \in PbufElem, NEW tail \in PbufElem,
         Apiece(t, h, tail), Catenate(h, tail), pool' = pool, len' = len, busy' = busy
  PROVE  /\ next' \in Links /\ AllEnd(next') /\ tot_len' \in [PbufElem -> Int]
         /\ \A x \in pool : next'[x] = NoPbuf
         /\ \A x \in PbufElem :
              /\ Cardinality(Into(pool, next', x)) = Cardinality(Into(pool, next, x)) + (IF x = tail THEN 1 ELSE 0)
              /\ Cardinality(Into(pool, next, x)) \in Nat
         /\ \A x \in PbufElem \ pool : Right(next, len, tot_len, x) => Right(next', len', tot_len', x)
         /\ \A u \in PbufThread, x \in PbufElem : Alone(pool, next, held, busy, u, x) =>
              x # tail /\ next'[x] = NoPbuf /\ Into(pool, next', x) = {}
         /\ held[t][tail] > 0
<1> DEFINE L == LastOf(h)
           H == Reach(next, h)
           T == Reach(next, tail)
<1>1. /\ next \in Links /\ AllEnd(next) /\ len \in [PbufElem -> Int] /\ tot_len \in [PbufElem -> Int]
      /\ held[t][h] > 0 /\ held[t][tail] > 0 /\ Apart(h) /\ h \notin T /\ tail \notin H
  BY ModelWords DEF PbufIInv, PbufTypes, Apiece, Holds
<1>2. L \in H /\ next[L] = NoPbuf
  <2>1. \E q \in H : next[q] = NoPbuf
    BY <1>1 DEF AllEnd, Ends
  <2> QED
    BY <2>1, ModelWords DEF LastOf
<1>3. /\ next' = WithNext(next, L, tail)
      /\ tot_len' = [p \in PbufElem |-> IF p \in H THEN tot_len[p] + tot_len[tail] ELSE tot_len[p]]
  BY ModelWords DEF Catenate, Lengthened, WithNext
<1> HIDE DEF L
<1>4. /\ H \in SUBSET PbufElem /\ T \in SUBSET PbufElem /\ h \in H /\ tail \in T
      /\ Closed(next, H) /\ Closed(next, T)
      /\ \A x \in H : x \in PbufElem \ pool /\ Right(next, len, tot_len, x)
      /\ \A x \in T : x \in PbufElem \ pool
  BY <1>1, ReachSelf, ReachClosed, HeldRight
\* Who leads into the chain of h is in it.
<1>5. \A x \in PbufElem : next[x] \in H => x \in H
  BY <1>1, ApartBack
\* So the chain of tail does not lead into it.
<1>6. T \cap H = {}
  <2>1. Closed(next, T \ H) /\ T \ H \in SUBSET PbufElem /\ tail \in T \ H
    BY <1>1, <1>4, <1>5 DEF Closed
  <2> HIDE DEF H
  <2> QED
    BY <2>1, ReachLeast
<1>7. AllEnd(next')
  <2>1. L \in PbufElem /\ L \notin T /\ next' = [next EXCEPT ![L] = tail]
    BY <1>2, <1>3, <1>4, <1>6 DEF WithNext
  <2> QED
    BY <1>1, <2>1, EndsLink
<1>8. /\ next' \in Links /\ next'[L] = tail /\ \A x \in PbufElem \ {L} : next'[x] = next[x]
      /\ \A x \in PbufElem :
           /\ Cardinality(Into(pool, next', x)) = Cardinality(Into(pool, next, x)) + (IF x = tail THEN 1 ELSE 0)
           /\ Cardinality(Into(pool, next, x)) \in Nat
  <2>1. L \in PbufElem \ pool
    BY <1>2, <1>4
  <2>2. /\ next' \in Links /\ next'[L] = tail
        /\ \A x \in PbufElem \ {L} : next'[x] = next[x]
        /\ \A x \in PbufElem :
              /\ Cardinality(Into(pool, next', x))
                 = Cardinality(Into(pool, next, x)) - (IF next[L] = x THEN 1 ELSE 0) + (IF tail = x THEN 1 ELSE 0)
              /\ Cardinality(Into(pool, next, x)) \in Nat
    <3>1. next \in Links /\ next' = WithNext(next, L, tail) /\ tail \in PbufElem \cup {NoPbuf}
      BY <1>1, <1>3
    <3> QED
      BY <2>1, <3>1, IntoChange
  <2> QED
    BY <1>2, <2>2, PbufAssumption
<1>9. /\ tot_len' \in [PbufElem -> Int] /\ tot_len[tail] \in Int
      /\ \A x \in PbufElem : tot_len'[x] = IF x \in H THEN tot_len[x] + tot_len[tail] ELSE tot_len[x]
  <2> HIDE DEF H
  <2> QED
    BY <1>1, <1>3
<1>10. ASSUME NEW x \in PbufElem \ pool, Right(next, len, tot_len, x)
       PROVE  Right(next', len', tot_len', x)
  <2>1. len[x] \in Int /\ tot_len[x] \in Int /\ (next[x] # NoPbuf => next[x] \in PbufElem /\ tot_len[next[x]] \in Int)
    BY <1>1 DEF Links
  <2>2. CASE x = L
    <3>1. tot_len[x] = len[x] /\ next'[x] = tail /\ tail # NoPbuf /\ x \in H
      BY <1>2, <1>8, <1>10, <2>1, <2>2, PbufAssumption DEF Right
    <3>2. tot_len'[x] = tot_len[x] + tot_len[tail] /\ tot_len'[tail] = tot_len[tail]
      BY <1>1, <1>9, <3>1
    <3> QED
      BY <3>1, <3>2 DEF Right
  <2>3. CASE x # L /\ next[x] = NoPbuf
    <3>1. x \notin H
      BY <1>1, <1>2, <2>3, OneEnd
    <3> QED
      BY <1>8, <1>9, <1>10, <2>3, <3>1 DEF Right
  <2>4. CASE x # L /\ next[x] # NoPbuf
    <3>1. (x \in H <=> next[x] \in H) /\ next'[x] = next[x]
      BY <1>4, <1>5, <1>8, <2>4 DEF Closed
    <3>2. tot_len'[x] = len[x] + tot_len'[next[x]]
      <4> HIDE DEF H
      <4>1. tot_len[x] = len[x] + tot_len[next[x]]
        BY <1>10, <2>4 DEF Right
      <4> QED
        BY <1>9, <2>1, <2>4, <3>1, <4>1
    <3> QED
      BY <2>4, <3>1, <3>2 DEF Right
  <2> QED
    BY <2>2, <2>3, <2>4
<1>11. ASSUME NEW u \in PbufThread, NEW x \in PbufElem, Alone(pool, next, held, busy, u, x)
       PROVE  x # tail /\ next'[x] = NoPbuf /\ Into(pool, next', x) = {}
  <2>1. x # tail /\ x \notin H
    BY <1>1, <1>11, AloneOut DEF Alone
  <2>2. x # L
    BY <1>2, <2>1
  <2> QED
    BY <1>8, <1>11, <2>1, <2>2 DEF Alone, Into
<1>12. \A x \in pool : next'[x] = NoPbuf
  BY <1>2, <1>4, <1>8 DEF PbufIInv, PbufTypes
<1> QED
  BY <1>1, <1>7, <1>8, <1>9, <1>10, <1>11, <1>12

\* pbuf_cat.
LEMMA CatKeeps ==
  ASSUME PbufIInv, NEW t \in PbufThread, pbuf_cat(t)
  PROVE  PbufIInv'
<1>1. PICK h \in PbufElem, tail \in PbufElem :
        /\ Apiece(t, h, tail) /\ Catenate(h, tail)
        /\ held' = [held EXCEPT ![t][tail] = @ - 1]
  BY DEF pbuf_cat
<1>2. pool' = pool /\ len' = len /\ ref' = ref /\ busy' = busy
  BY DEF pbuf_cat
<1>3. /\ next' \in Links /\ AllEnd(next') /\ tot_len' \in [PbufElem -> Int]
      /\ \A x \in pool : next'[x] = NoPbuf
      /\ \A x \in PbufElem :
           /\ Cardinality(Into(pool, next', x)) = Cardinality(Into(pool, next, x)) + (IF x = tail THEN 1 ELSE 0)
           /\ Cardinality(Into(pool, next, x)) \in Nat
      /\ \A x \in PbufElem \ pool : Right(next, len, tot_len, x) => Right(next', len', tot_len', x)
      /\ \A u \in PbufThread, x \in PbufElem : Alone(pool, next, held, busy, u, x) =>
           x # tail /\ next'[x] = NoPbuf /\ Into(pool, next', x) = {}
      /\ held[t][tail] > 0
  BY <1>1, <1>2, JoinKeeps
<1>4. /\ held' \in Holdings
      /\ \A x \in PbufElem : Holding(held', x) = Holding(held, x) - (IF x = tail THEN 1 ELSE 0)
      /\ \A u \in PbufThread, x \in PbufElem \ {tail} : held'[u][x] = held[u][x]
  <2>1. PICK v \in Nat : v = held[t][tail] - 1
    BY <1>3 DEF PbufIInv, PbufTypes, Holdings
  <2>2. held' = WithHeld(held, t, tail, v) /\ held \in Holdings
    BY <1>1, <2>1 DEF WithHeld, PbufIInv, PbufTypes
  <2>3. /\ held' \in Holdings
        /\ \A x \in PbufElem : Holding(held', x)
             = IF x = tail THEN Holding(held, x) - held[t][tail] + v ELSE Holding(held, x)
        /\ \A u \in PbufThread, x \in PbufElem :
              held'[u][x] = IF u = t /\ x = tail THEN v ELSE held[u][x]
    BY <2>2, HoldingChange
  <2>4. held[t][tail] \in Nat /\ \A x \in PbufElem : Holding(held, x) \in Nat
    BY <2>2, HoldingNat DEF Holdings
  <2> QED
    BY <2>1, <2>3, <2>4
<1>5. \A x \in PbufElem : CountRight(pool', next', ref', held', busy', x)
  <2> TAKE x \in PbufElem
  <2>1. Holding(held, x) \in Nat /\ Cardinality(Giving(busy, x)) \in Nat
    BY RefsNat DEF PbufIInv, PbufTypes
  <2>2. Refs(pool', next', held', busy', x) = Refs(pool, next, held, busy, x)
    <3>1. CASE x = tail
      BY <1>2, <1>3, <1>4, <2>1, <3>1 DEF Refs
    <3>2. CASE x # tail
      BY <1>2, <1>3, <1>4, <2>1, <3>2 DEF Refs
    <3> QED
      BY <3>1, <3>2
  <2>3. CountRight(pool, next, ref, held, busy, x)
    BY DEF PbufIInv
  <2> QED
    BY <1>2, <2>2, <2>3 DEF CountRight
<1>6. PbufTypes'
  BY <1>2, <1>3, <1>4 DEF PbufIInv, PbufTypes
<1>7. ASSUME NEW u \in PbufThread, NEW x \in PbufElem, Alone(pool, next, held, busy, u, x)
      PROVE  Alone(pool', next', held', busy', u, x)
  BY <1>2, <1>3, <1>4, <1>7 DEF Alone
<1>8. BusyRight(pool', next', held', busy')
  <2>1. \A u \in PbufThread : busy[u].in = "pbuf_alloc" => busy[u].p \in PbufElem
    BY DEF PbufIInv, PbufTypes, Business, BusyRight
  <2> QED
    BY <1>2, <1>7, <2>1 DEF BusyRight, PbufIInv
<1>9. Lengths(pool', next', len', tot_len', held', busy')
  BY <1>2, <1>3, <1>7 DEF Lengths, PbufIInv
<1> QED
  BY <1>2, <1>3, <1>5, <1>6, <1>8, <1>9 DEF PbufIInv

\* pbuf_chain.
LEMMA ChainKeeps ==
  ASSUME PbufIInv, NEW t \in PbufThread, pbuf_chain(t)
  PROVE  PbufIInv'
<1>1. PICK h \in PbufElem, tail \in PbufElem :
        /\ Apiece(t, h, tail) /\ Catenate(h, tail)
        /\ ref' = [ref EXCEPT ![tail] = @ + 1]
  BY DEF pbuf_chain
<1>2. pool' = pool /\ len' = len /\ held' = held /\ busy' = busy
  BY DEF pbuf_chain
<1>3. /\ next' \in Links /\ AllEnd(next') /\ tot_len' \in [PbufElem -> Int]
      /\ \A x \in pool : next'[x] = NoPbuf
      /\ \A x \in PbufElem :
           /\ Cardinality(Into(pool, next', x)) = Cardinality(Into(pool, next, x)) + (IF x = tail THEN 1 ELSE 0)
           /\ Cardinality(Into(pool, next, x)) \in Nat
      /\ \A x \in PbufElem \ pool : Right(next, len, tot_len, x) => Right(next', len', tot_len', x)
      /\ \A u \in PbufThread, x \in PbufElem : Alone(pool, next, held, busy, u, x) =>
           x # tail /\ next'[x] = NoPbuf /\ Into(pool, next', x) = {}
      /\ held[t][tail] > 0
  BY <1>1, <1>2, JoinKeeps
<1>4. /\ ref' \in [PbufElem -> Int] /\ ref'[tail] = ref[tail] + 1 /\ \A x \in PbufElem \ {tail} : ref'[x] = ref[x]
  BY <1>1 DEF PbufIInv, PbufTypes
<1>5. /\ tail \notin pool /\ ref[tail] = Refs(pool, next, held, busy, tail) /\ ref[tail] > 0 /\ ref[tail] \in Int
      /\ \A u \in PbufThread : ~Dies(busy[u], tail)
  BY <1>3, Referred DEF PbufIInv, PbufTypes
<1>6. \A x \in PbufElem : CountRight(pool', next', ref', held', busy', x)
  <2> TAKE x \in PbufElem
  <2>1. Holding(held, x) \in Nat /\ Cardinality(Giving(busy, x)) \in Nat
    BY RefsNat DEF PbufIInv, PbufTypes
  <2>2. CASE x = tail
    <3>1. Refs(pool', next', held', busy', x) = Refs(pool, next, held, busy, x) + 1
      BY <1>2, <1>3, <2>1, <2>2 DEF Refs
    <3> QED
      BY <1>2, <1>4, <1>5, <2>2, <3>1 DEF CountRight
  <2>3. CASE x # tail
    <3>1. Refs(pool', next', held', busy', x) = Refs(pool, next, held, busy, x)
      BY <1>2, <1>3, <2>1, <2>3 DEF Refs
    <3>2. CountRight(pool, next, ref, held, busy, x)
      BY DEF PbufIInv
    <3> QED
      BY <1>2, <1>4, <2>3, <3>1, <3>2 DEF CountRight
  <2> QED
    BY <2>2, <2>3
<1>7. PbufTypes'
  BY <1>2, <1>3, <1>4 DEF PbufIInv, PbufTypes
<1>8. ASSUME NEW u \in PbufThread, NEW x \in PbufElem, Alone(pool, next, held, busy, u, x)
      PROVE  Alone(pool', next', held', busy', u, x)
  BY <1>2, <1>3, <1>8 DEF Alone
<1>9. BusyRight(pool', next', held', busy')
  <2>1. \A u \in PbufThread : busy[u].in = "pbuf_alloc" => busy[u].p \in PbufElem
    BY DEF PbufIInv, PbufTypes, Business, BusyRight
  <2> QED
    BY <1>2, <1>8, <2>1 DEF BusyRight, PbufIInv
<1>10. Lengths(pool', next', len', tot_len', held', busy')
  BY <1>2, <1>3, <1>8 DEF Lengths, PbufIInv
<1> QED
  BY <1>2, <1>3, <1>6, <1>7, <1>9, <1>10 DEF PbufIInv

-----------------------------------------------------------------------------
\* memp_init: everything is in the pool.
LEMMA PbufInitKeeps == PbufInit => PbufIInv
<1> SUFFICES ASSUME PbufInit PROVE PbufIInv
  OBVIOUS
<1> USE DEF PbufInit
<1>1. /\ next \in Links /\ held \in Holdings /\ busy \in [PbufThread -> Business]
      /\ \A p \in PbufElem : next[p] = NoPbuf
      /\ \A t \in PbufThread : busy[t].in = "none" /\ busy[t].p = NoPbuf
      /\ \A t \in PbufThread, p \in PbufElem : held[t][p] = 0
  BY NotBusyIs DEF Links, Holdings
<1>2. PbufTypes
  BY <1>1 DEF PbufTypes
<1>3. AllEnd(next)
  BY <1>1, ReachSelf DEF AllEnd, Ends
<1>4. ASSUME NEW p \in PbufElem PROVE CountRight(pool, next, ref, held, busy, p)
  <2>1. Into(pool, next, p) = {} /\ Giving(busy, p) = {} /\ p \in pool
    BY <1>1 DEF Into, Giving, Gives
  <2>2. Holding(held, p) = 0
    <3> DEFINE f == [v \in PbufThread |-> held[v][p]]
    <3>1. \A v \in PbufThread : f[v] = 0
      BY <1>1
    <3>2. SumFunctionOnSet(f, PbufThread) = 0
      <4> HIDE DEF f
      <4> QED
        BY <3>1, SumZero, PbufAssumption
    <3> QED
      BY <3>2 DEF Holding
  <2>3. Refs(pool, next, held, busy, p) = 0
    BY <2>1, <2>2, FS_EmptySet DEF Refs
  <2> QED
    BY <2>1, <2>3 DEF CountRight
<1>5. BusyRight(pool, next, held, busy)
  BY <1>1 DEF BusyRight
<1>6. Lengths(pool, next, len, tot_len, held, busy)
  BY DEF Lengths
<1> QED
  BY <1>1, <1>2, <1>3, <1>4, <1>5, <1>6 DEF PbufIInv

\* Every function keeps the invariant.
LEMMA PbufStepKeeps == PbufIInv /\ [PbufNext]_pbufVars => PbufIInv'
<1> SUFFICES ASSUME PbufIInv, [PbufNext]_pbufVars PROVE PbufIInv'
  OBVIOUS
<1>1. CASE UNCHANGED pbufVars
  BY <1>1 DEF pbufVars, PbufIInv, PbufTypes
<1>2. ASSUME NEW t \in PbufThread,
             \/ AllocFirst(t) \/ AllocNext(t) \/ AllocFails(t)
             \/ Free(t) \/ Unref(t) \/ memp_free(t) \/ pbuf_ref(t) \/ Handover(t)
             \/ pbuf_cat(t) \/ pbuf_chain(t) \/ pbuf_dechain(t) \/ pbuf_realloc(t) \/ pbuf_header(t)
      PROVE  PbufIInv'
  BY <1>2, FirstKeeps, NextKeeps, FailsKeeps, GiveUpKeeps, UnrefKeeps, ReleaseKeeps, RefKeeps,
     HandoverKeeps, CatKeeps, ChainKeeps, DechainKeeps, ReallocKeeps, HeaderKeeps
<1> QED
  BY <1>1, <1>2 DEF PbufNext

\* The invariant is enough for what the runs check.
LEMMA PbufIInvEnough == PbufIInv => PbufInv
<1> SUFFICES ASSUME PbufIInv PROVE PbufInv
  OBVIOUS
<1>1. RefsCounted
  <2> SUFFICES ASSUME NEW p \in PbufElem
               PROVE  LET dying == \E t \in PbufThread : busy[t].in = "memp_free" /\ busy[t].p = p IN
                      IF p \in pool THEN References(p) = 0 ELSE ref[p] = References(p) /\ (ref[p] = 0 <=> dying)
    BY DEF RefsCounted
  <2>1. CountRight(pool, next, ref, held, busy, p)
    BY DEF PbufIInv
  <2> QED
    BY <2>1, ModelWords DEF CountRight, Dies
<1>2. TotLenRight
  BY HeldRight, ModelWords DEF TotLenRight, Right, PbufIInv, PbufTypes, Holdings
<1> QED
  BY <1>1, <1>2 DEF PbufInv

\* Whatever threads do with chains they share, and however often the pool runs out: a
\* pbuf's count is the number of references to it, it is in the pool exactly when there
\* is none, and the tot_len of what a thread can reach is the length of what is there
\* (pbuf_alloc, pbuf_free, pbuf_ref, pbuf_cat, pbuf_chain, pbuf_dechain, pbuf_realloc,
\* pbuf_header).
THEOREM ChainsCorrect == PbufSpec => []PbufInv
<1>1. PbufInit => PbufIInv
  BY PbufInitKeeps
<1>2. PbufIInv /\ [PbufNext]_pbufVars => PbufIInv'
  BY PbufStepKeeps
<1>3. PbufIInv => PbufInv
  BY PbufIInvEnough
<1> QED
  BY <1>1, <1>2, <1>3, PTL DEF PbufSpec

-----------------------------------------------------------------------------
(* The sockets.                                                            *)

\* The steps of lwip_select, those at which its select_cb is on the list, and those at
\* which it must not miss an event.
Enlisted == {"register", "scan2", "wait", "unregister", "unlink"}
Selects == Enlisted \cup Scans \cup {"link"}
Alert == {"scan2", "wait"}
Steps == Selects \cup {"idle", "received", "accept", "close"}
Calls == [pc : Steps, set : SUBSET Socket, todo : SUBSET Socket, ready : SUBSET Int, timed : BOOLEAN]
Events == [s : Socket \cup {NoSocket}, scb : Actor, stale : BOOLEAN]

SockTypes ==
  /\ conn \in [Socket -> States] /\ early \in [Socket -> Nat] /\ mail \in [Socket -> Nat]
  /\ rcvevent \in [Socket -> Int] /\ select_waiting \in [Socket -> Int]
  /\ select_cb_list \in Seq(Thread)
  /\ signalled \in [Thread -> BOOLEAN] /\ sem \in [Thread -> Nat]
  /\ call \in [Thread -> Calls] /\ event \in [Actor -> Events]
  /\ posted \in Socket \cup {NoSocket}

\* What the state k of the sockets says of a call c on them.  A socket that is not open is
\* in the call of one thread.
Fits(c, k) ==
  /\ c.todo \subseteq c.set
  /\ c.pc = "idle" => c.set = {}
  /\ c.pc \in Selects \cup {"received"} => \A s \in c.set : k[s] = "open"
  /\ c.pc = "received" => \E s \in Socket : c.set = {s}
  /\ c.pc = "accept" => \A s \in c.set : k[s] \in {"claimed", "reset"}
  /\ c.pc = "close" => \A s \in c.set : k[s] = "closing"
Separate(t, u) == \A s \in call[t].set \cap call[u].set : conn[s] = "open"
UsesRight == \A t \in Thread : Fits(call[t], conn) /\ \A u \in Thread \ {t} : Separate(t, u)

\* What is counted before there is a socket, and after.
JustPosted(s) == IF posted = s THEN 1 ELSE 0
Told(s) ==
  /\ conn[s] \in {"pending", "claimed", "reset"} => early[s] + JustPosted(s) = mail[s]
  /\ conn[s] \in {"none", "closing", "open"} => early[s] = 0
  /\ conn[s] \in {"none", "closing"} => mail[s] = 0 /\ posted # s
  /\ conn[s] = "reset" => rcvevent[s] = 0 /\ select_waiting[s] = 0

\* The list has the threads that have linked their select_cb, each once.
Distinct(list) == \A i, j \in DOMAIN list : list[i] = list[j] => i = j
Lists(list, t) == \E i \in DOMAIN list : list[i] = t
ListRight ==
  /\ Distinct(select_cb_list)
  /\ \A t \in Thread : Lists(select_cb_list, t) <=> call[t].pc \in Enlisted

\* An event_callback that has not been told to start again stands at the list.
Standing(a) ==
  Running(a) =>
    event[a].s \in Socket /\ (event[a].stale = FALSE => Lists(select_cb_list, event[a].scb))
EventsRight == (\A a \in Actor : Standing(a)) /\ (posted # NoSocket => ~Running(tcpip))

\* A thread that scans for the second time, or waits, misses nothing it has looked at.
Looked(t) == IF call[t].pc = "wait" THEN call[t].set ELSE call[t].set \ call[t].todo
Alerted(t) ==
  call[t].pc = "wait" \/ (call[t].pc = "scan2" /\ call[t].ready = {}) =>
    signalled[t] = TRUE \/ \A s \in Looked(t) : Readable(s) => Coming(t, s)

SockIInv ==
  /\ SockTypes /\ UsesRight /\ ListRight /\ EventsRight /\ Counted
  /\ \A s \in Socket : Told(s)
  /\ \A t \in Thread : Alerted(t)

\* What follows the select_cb that an event_callback looks at.
LEMMA AtIs ==
  ASSUME NEW list \in Seq(Thread), Distinct(list), NEW t, Lists(list, t)
  PROVE  /\ At(list, t) \in 1 .. Len(list) /\ list[At(list, t)] = t
         /\ \A i \in 1 .. Len(list) : list[i] = t => i = At(list, t)
  BY DEF At, Lists, Distinct

LEMMA FollowingIs ==
  ASSUME NEW list \in Seq(Thread), Distinct(list), NEW e, e.stale = FALSE, Lists(list, e.scb)
  PROVE  /\ Following(list, e) \in Seq(Thread)
         /\ Len(Following(list, e)) = Len(list) - At(list, e.scb)
         /\ \A i \in 1 .. Len(list) - At(list, e.scb) :
              Following(list, e)[i] = list[At(list, e.scb) + i]
<1>1. PICK k \in 1 .. Len(list) : k = At(list, e.scb)
  BY AtIs
<1>2. Following(list, e) = SubSeq(list, k + 1, Len(list))
  BY <1>1 DEF Following, Again
<1>3. SubSeq(list, k + 1, Len(list)) \in Seq(Thread)
  BY SMT
<1>4. Len(SubSeq(list, k + 1, Len(list))) = Len(list) - k
  BY SMT
<1>5. \A i \in 1 .. Len(list) - k : SubSeq(list, k + 1, Len(list))[i] = list[k + i]
  BY SMT
<1> QED
  BY <1>1, <1>2, <1>3, <1>4, <1>5

\* The after select_cb is on the list, and who followed follows it or is it.
LEMMA NextOf ==
  ASSUME NEW list \in Seq(Thread), Distinct(list), NEW e \in Events,
         e.stale = FALSE => Lists(list, e.scb), Following(list, e) # << >>,
         NEW d \in Events, d.stale = FALSE, d.scb = Head(Following(list, e))
  PROVE  /\ d.scb \in Thread /\ Lists(list, d.scb)
         /\ \A t \in Range(Following(list, e)) : t = d.scb \/ t \in Range(Following(list, d))
<1>1. PICK k \in 0 .. Len(list) :
        /\ Following(list, e) \in Seq(Thread) /\ Len(Following(list, e)) = Len(list) - k
        /\ \A i \in 1 .. Len(list) - k : Following(list, e)[i] = list[k + i]
  <2>0. e.stale \in BOOLEAN
    BY DEF Events
  <2>1. CASE e.stale = TRUE
    <3>1. Following(list, e) = list
      BY <2>1 DEF Following, Again
    <3>2. 0 \in 0 .. Len(list)
      OBVIOUS
    <3> QED
      BY <3>1, <3>2
  <2>2. CASE e.stale = FALSE
    <3>1. At(list, e.scb) \in 0 .. Len(list)
      BY <2>2, AtIs
    <3> QED
      BY <2>2, <3>1, FollowingIs
  <2> QED
    BY <2>0, <2>1, <2>2
<1>2. k + 1 \in 1 .. Len(list) /\ d.scb = list[k + 1] /\ d.scb \in Thread
  <2>1. Len(Following(list, e)) > 0
    BY <1>1
  <2>2. Head(Following(list, e)) = Following(list, e)[1]
    BY <1>1, <2>1
  <2> QED
    BY <1>1, <2>1, <2>2
<1>3. Lists(list, d.scb)
  BY <1>2 DEF Lists
<1>4. At(list, d.scb) = k + 1
  BY <1>2, <1>3, AtIs
<1>5. ASSUME NEW t \in Range(Following(list, e))
      PROVE  t = d.scb \/ t \in Range(Following(list, d))
  <2>1. PICK i \in 1 .. Len(list) - k : t = list[k + i]
    BY <1>1 DEF Range
  <2>2. CASE i = 1
    BY <1>2, <2>1, <2>2
  <2>3. CASE i # 1
    <3>1. PICK n \in 1 .. Len(list) - (k + 1) : k + i = (k + 1) + n
      <4>1. i - 1 \in 1 .. Len(list) - (k + 1) /\ k + i = (k + 1) + (i - 1)
        BY <1>1, <2>3
      <4> QED
        BY <4>1
    <3>2. /\ Following(list, d) \in Seq(Thread)
          /\ Len(Following(list, d)) = Len(list) - At(list, d.scb)
          /\ \A j \in 1 .. Len(list) - At(list, d.scb) :
               Following(list, d)[j] = list[At(list, d.scb) + j]
      BY <1>3, FollowingIs
    <3>3. Following(list, d)[n] = list[(k + 1) + n]
      BY <1>4, <3>1, <3>2
    <3>4. t = Following(list, d)[n] /\ n \in DOMAIN Following(list, d)
      BY <1>4, <2>1, <3>1, <3>2, <3>3
    <3> QED
      BY <3>4 DEF Range
  <2> QED
    BY <2>2, <2>3
<1> QED
  BY <1>2, <1>3, <1>5

LEMMA Prefixed ==
  ASSUME NEW list \in Seq(Thread), Distinct(list), NEW t \in Thread, ~Lists(list, t)
  PROVE  /\ <<t>> \o list \in Seq(Thread) /\ Distinct(<<t>> \o list)
         /\ \A u \in Thread : Lists(<<t>> \o list, u) <=> u = t \/ Lists(list, u)
<1>1. PICK l : l = <<t>> \o list
  OBVIOUS
<1>2. l \in Seq(Thread) /\ Len(l) = Len(list) + 1 /\ l[1] = t
  BY <1>1
<1>3. \A i \in 1 .. Len(list) : l[i + 1] = list[i]
  BY <1>1
<1>4. \A i \in 1 .. Len(l) : i = 1 \/ (i - 1 \in 1 .. Len(list) /\ l[i] = list[i - 1])
  BY <1>2, <1>3
<1>5. DOMAIN l = 1 .. Len(l) /\ DOMAIN list = 1 .. Len(list)
  BY <1>2
<1>6. Distinct(l)
  <2> SUFFICES ASSUME NEW i \in 1 .. Len(l), NEW j \in 1 .. Len(l), l[i] = l[j] PROVE i = j
    BY <1>5 DEF Distinct
  <2>1. \A n \in 1 .. Len(list) : list[n] # t
    BY <1>5 DEF Lists
  <2>2. CASE i = 1 \/ j = 1
    BY <1>2, <1>4, <2>1, <2>2
  <2>3. CASE i # 1 /\ j # 1
    <3>1. /\ i - 1 \in 1 .. Len(list) /\ l[i] = list[i - 1]
          /\ j - 1 \in 1 .. Len(list) /\ l[j] = list[j - 1]
      BY <1>4, <2>3
    <3>2. i - 1 = j - 1
      BY <1>5, <3>1 DEF Distinct
    <3> QED
      BY <3>2
  <2> QED
    BY <2>2, <2>3
<1>7. ASSUME NEW u \in Thread PROVE Lists(l, u) <=> u = t \/ Lists(list, u)
  <2>1. Lists(l, u) => u = t \/ Lists(list, u)
    BY <1>2, <1>4, <1>5 DEF Lists
  <2>2. u = t => Lists(l, u)
    <3>1. 1 \in DOMAIN l
      BY <1>2, <1>5
    <3> QED
      BY <1>2, <3>1 DEF Lists
  <2>3. ASSUME Lists(list, u) PROVE Lists(l, u)
    <3>1. PICK i \in 1 .. Len(list) : list[i] = u
      BY <1>5, <2>3 DEF Lists
    <3>2. i + 1 \in DOMAIN l /\ l[i + 1] = u
      BY <1>2, <1>3, <1>5, <3>1
    <3> QED
      BY <3>2 DEF Lists
  <2> QED
    BY <2>1, <2>2, <2>3
<1> QED
  BY <1>1, <1>2, <1>6, <1>7

LEMMA WithoutIt ==
  ASSUME NEW list \in Seq(Thread), Distinct(list), NEW t \in Thread, Lists(list, t)
  PROVE  /\ RemoveAt(list, At(list, t)) \in Seq(Thread) /\ Distinct(RemoveAt(list, At(list, t)))
         /\ \A u \in Thread : Lists(RemoveAt(list, At(list, t)), u) <=> u # t /\ Lists(list, u)
<1>1. PICK k \in 1 .. Len(list) : k = At(list, t)
  BY AtIs
<1>2. list[k] = t /\ \A i \in 1 .. Len(list) : list[i] = t => i = k
  BY <1>1, AtIs
<1>3. PICK p, q : p = SubSeq(list, 1, k - 1) /\ q = SubSeq(list, k + 1, Len(list))
  OBVIOUS
<1>4. p \in Seq(Thread) /\ Len(p) = k - 1 /\ \A i \in 1 .. k - 1 : p[i] = list[i]
  BY <1>3
<1>5. q \in Seq(Thread) /\ Len(q) = Len(list) - k /\ \A i \in 1 .. Len(list) - k : q[i] = list[k + i]
  BY <1>3
<1>6. PICK l : l = p \o q
  OBVIOUS
<1>7. l \in Seq(Thread) /\ Len(l) = Len(list) - 1
  <2>1. p \in Seq(Thread) /\ q \in Seq(Thread)
    BY <1>4, <1>5
  <2>2. l \in Seq(Thread) /\ Len(l) = Len(p) + Len(q)
    BY <1>6, <2>1
  <2> QED
    BY <1>4, <1>5, <2>2
<1>8. \A i \in 1 .. Len(l) : l[i] = IF i < k THEN list[i] ELSE list[i + 1]
  <2> SUFFICES ASSUME NEW i \in 1 .. Len(l) PROVE l[i] = IF i < k THEN list[i] ELSE list[i + 1]
    OBVIOUS
  <2>1. CASE i < k
    <3>1. i \in 1 .. Len(p)
      BY <1>4, <2>1
    <3>2. l[i] = p[i]
      BY <1>4, <1>5, <1>6, <3>1
    <3> QED
      BY <1>4, <2>1, <3>1, <3>2
  <2>2. CASE ~(i < k)
    <3>1. i - Len(p) \in 1 .. Len(q) /\ i > Len(p) /\ i <= Len(p) + Len(q)
      BY <1>4, <1>5, <1>7, <2>2
    <3>2. l[i] = q[i - Len(p)]
      BY <1>4, <1>5, <1>6, <3>1
    <3>3. k + (i - Len(p)) = i + 1
      BY <1>4
    <3> QED
      BY <1>5, <2>2, <3>1, <3>2, <3>3
  <2> QED
    BY <2>1, <2>2
<1>9. DOMAIN l = 1 .. Len(l) /\ DOMAIN list = 1 .. Len(list)
  BY <1>7
<1>10. Distinct(l)
  <2> SUFFICES ASSUME NEW i \in 1 .. Len(l), NEW j \in 1 .. Len(l), l[i] = l[j] PROVE i = j
    BY <1>9 DEF Distinct
  <2>0. ASSUME NEW x \in 1 .. Len(l)
        PROVE  \E m \in 1 .. Len(list) : l[x] = list[m] /\ m = IF x < k THEN x ELSE x + 1
    <3>1. CASE x < k
      BY <1>7, <1>8, <3>1
    <3>2. CASE ~(x < k)
      <4>1. x + 1 \in 1 .. Len(list) /\ l[x] = list[x + 1]
        BY <1>7, <1>8, <3>2
      <4> QED
        BY <3>2, <4>1
    <3> QED
      BY <3>1, <3>2
  <2>1. PICK m \in 1 .. Len(list) : l[i] = list[m] /\ m = IF i < k THEN i ELSE i + 1
    BY <2>0
  <2>2. PICK n \in 1 .. Len(list) : l[j] = list[n] /\ n = IF j < k THEN j ELSE j + 1
    BY <2>0
  <2>3. m = n
    BY <1>9, <2>1, <2>2 DEF Distinct
  <2> QED
    BY <1>1, <2>1, <2>2, <2>3
<1>11. ASSUME NEW u \in Thread PROVE Lists(l, u) <=> u # t /\ Lists(list, u)
  <2>1. ASSUME Lists(l, u) PROVE u # t /\ Lists(list, u)
    <3>1. PICK i \in 1 .. Len(l) : l[i] = u
      BY <1>9, <2>1 DEF Lists
    <3>2. PICK j \in 1 .. Len(list) : j # k /\ list[j] = u
      BY <1>7, <1>8, <3>1
    <3> QED
      BY <1>2, <1>9, <3>2 DEF Lists
  <2>2. ASSUME u # t, Lists(list, u) PROVE Lists(l, u)
    <3>1. PICK i \in 1 .. Len(list) : list[i] = u
      BY <1>9, <2>2 DEF Lists
    <3>2. i # k
      BY <1>2, <2>2, <3>1
    <3>3. CASE i < k
      <4>1. i \in 1 .. Len(l) /\ l[i] = u
        BY <1>7, <1>8, <3>1, <3>3
      <4> QED
        BY <1>9, <4>1 DEF Lists
    <3>4. CASE i > k
      <4>1. i - 1 \in 1 .. Len(l) /\ l[i - 1] = u
        BY <1>7, <1>8, <3>1, <3>4
      <4> QED
        BY <1>9, <4>1 DEF Lists
    <3> QED
      BY <3>2, <3>3, <3>4
  <2> QED
    BY <2>1, <2>2
<1> QED
  BY <1>1, <1>3, <1>6, <1>7, <1>10, <1>11 DEF RemoveAt

-----------------------------------------------------------------------------
LEMMA CallIs ==
  ASSUME SockTypes, NEW t \in Thread
  PROVE  /\ call[t] \in Calls /\ call[t].pc \in Steps /\ call[t].set \in SUBSET Socket
         /\ call[t].todo \in SUBSET Socket /\ call[t].ready \in SUBSET Int
         /\ call[t].timed \in BOOLEAN
<1>1. call[t] \in Calls
  BY DEF SockTypes
<1> QED
  BY <1>1 DEF Calls

LEMMA EventIs ==
  ASSUME SockTypes, NEW a \in Actor
  PROVE  /\ event[a] \in Events /\ event[a].s \in Socket \cup {NoSocket}
         /\ event[a].scb \in Actor /\ event[a].stale \in BOOLEAN
<1>1. event[a] \in Events
  BY DEF SockTypes
<1> QED
  BY <1>1 DEF Events

\* Two sets of threads that differ in t at most.
LEMMA OneMore ==
  ASSUME NEW A \in SUBSET Thread, NEW B \in SUBSET Thread, NEW t \in Thread,
         \A u \in Thread \ {t} : u \in A <=> u \in B
  PROVE  /\ Cardinality(A) \in Nat /\ Cardinality(B) \in Nat
         /\ Cardinality(B) = Cardinality(A) + (IF t \in B THEN 1 ELSE 0) - (IF t \in A THEN 1 ELSE 0)
<1>1. IsFiniteSet(A) /\ IsFiniteSet(B)
  BY SockAssumption, FS_Subset
<1>2. Cardinality(A) \in Nat /\ Cardinality(B) \in Nat
  BY <1>1, FS_CardinalityType
<1>3. CASE (t \in A) <=> (t \in B)
  <2>1. A = B
    BY <1>3
  <2> QED
    BY <1>2, <2>1
<1>4. CASE t \in A /\ t \notin B
  <2>1. B = A \ {t}
    BY <1>4
  <2>2. Cardinality(B) = Cardinality(A) - 1
    BY <1>1, <1>4, <2>1, FS_RemoveElement
  <2> QED
    BY <1>2, <1>4, <2>2
<1>5. CASE t \notin A /\ t \in B
  <2>1. B = A \cup {t}
    BY <1>5
  <2>2. Cardinality(B) = Cardinality(A) + 1
    BY <1>1, <1>5, <2>1, FS_AddElement
  <2> QED
    BY <1>2, <1>5, <2>2
<1> QED
  BY <1>2, <1>3, <1>4, <1>5

\* What a call contributes to the counters of a socket.
Takes(c, s) == IF c.pc = "received" /\ c.set = {s} THEN 1 ELSE 0
Registers(c, s) ==
  IF \/ c.pc = "register" /\ s \in c.set \ c.todo
     \/ c.pc \in {"scan2", "wait"} /\ s \in c.set
     \/ c.pc = "unregister" /\ s \in c.todo
  THEN 1 ELSE 0

LEMMA Counting ==
  ASSUME SockTypes, NEW t \in Thread, NEW c \in Calls, call' = [call EXCEPT ![t] = c], NEW s
  PROVE  /\ Cardinality(Taking(s)) \in Nat /\ Cardinality(Taking(s))' \in Nat
         /\ Cardinality(Taking(s))' = Cardinality(Taking(s)) + Takes(c, s) - Takes(call[t], s)
         /\ Cardinality(Registered(s)) \in Nat /\ Cardinality(Registered(s))' \in Nat
         /\ Cardinality(Registered(s))'
              = Cardinality(Registered(s)) + Registers(c, s) - Registers(call[t], s)
<1>1. call'[t] = c /\ \A u \in Thread \ {t} : call'[u] = call[u]
  BY DEF SockTypes
<1>2. PICK A \in SUBSET Thread, B \in SUBSET Thread : A = Taking(s) /\ B = Taking(s)'
  BY DEF Taking
<1>3. \A u \in Thread \ {t} : u \in A <=> u \in B
  BY <1>1, <1>2 DEF Taking
<1>4. (t \in A <=> call[t].pc = "received" /\ call[t].set = {s})
      /\ (t \in B <=> c.pc = "received" /\ c.set = {s})
  BY <1>1, <1>2 DEF Taking
<1>5. PICK C \in SUBSET Thread, D \in SUBSET Thread : C = Registered(s) /\ D = Registered(s)'
  BY DEF Registered
<1>6. \A u \in Thread \ {t} : u \in C <=> u \in D
  BY <1>1, <1>5 DEF Registered
<1>7. /\ t \in C <=> \/ call[t].pc = "register" /\ s \in call[t].set \ call[t].todo
                     \/ call[t].pc \in {"scan2", "wait"} /\ s \in call[t].set
                     \/ call[t].pc = "unregister" /\ s \in call[t].todo
      /\ t \in D <=> \/ c.pc = "register" /\ s \in c.set \ c.todo
                     \/ c.pc \in {"scan2", "wait"} /\ s \in c.set
                     \/ c.pc = "unregister" /\ s \in c.todo
  BY <1>1, <1>5 DEF Registered
<1>8. /\ Cardinality(A) \in Nat /\ Cardinality(B) \in Nat
      /\ Cardinality(B) = Cardinality(A) + (IF t \in B THEN 1 ELSE 0) - (IF t \in A THEN 1 ELSE 0)
  BY <1>3, OneMore
<1>9. /\ Cardinality(C) \in Nat /\ Cardinality(D) \in Nat
      /\ Cardinality(D) = Cardinality(C) + (IF t \in D THEN 1 ELSE 0) - (IF t \in C THEN 1 ELSE 0)
  BY <1>6, OneMore
<1>10. (IF t \in B THEN 1 ELSE 0) = Takes(c, s) /\ (IF t \in A THEN 1 ELSE 0) = Takes(call[t], s)
  BY <1>4 DEF Takes
<1>11. /\ (IF t \in D THEN 1 ELSE 0) = Registers(c, s)
       /\ (IF t \in C THEN 1 ELSE 0) = Registers(call[t], s)
  BY <1>7 DEF Registers
<1> QED
  BY <1>2, <1>5, <1>8, <1>9, <1>10, <1>11

LEMMA CountsAlike ==
  ASSUME SockTypes, call' = call, NEW s
  PROVE  /\ Cardinality(Taking(s)) \in Nat /\ Cardinality(Taking(s))' = Cardinality(Taking(s))
         /\ Cardinality(Registered(s)) \in Nat
         /\ Cardinality(Registered(s))' = Cardinality(Registered(s))
<1>1. Taking(s)' = Taking(s) /\ Registered(s)' = Registered(s)
  BY DEF Taking, Registered
<1>2. Taking(s) \subseteq Thread /\ Registered(s) \subseteq Thread
  BY DEF Taking, Registered
<1>3. IsFiniteSet(Taking(s)) /\ IsFiniteSet(Registered(s))
  BY <1>2, SockAssumption, FS_Subset
<1>4. Cardinality(Taking(s)) \in Nat /\ Cardinality(Registered(s)) \in Nat
  BY <1>3, FS_CardinalityType
<1> QED
  BY <1>1, <1>4

\* Thread t goes on to c, and the sockets stay as they are.
LEMMA GoesOn ==
  ASSUME SockTypes, UsesRight, NEW t \in Thread, NEW c \in Calls, call' = [call EXCEPT ![t] = c],
         conn' = conn, Fits(c, conn), \A s \in c.set \ call[t].set : conn[s] = "open"
  PROVE  UsesRight'
<1>1. call'[t] = c /\ \A u \in Thread \ {t} : call'[u] = call[u]
  BY DEF SockTypes
<1>2. ASSUME NEW u \in Thread PROVE Fits(call'[u], conn')
  BY <1>1 DEF UsesRight
<1>3. ASSUME NEW u \in Thread, NEW v \in Thread \ {u} PROVE Separate(u, v)'
  <2>1. Separate(u, v) /\ Separate(v, u)
    BY <1>3 DEF UsesRight
  <2>2. CASE u = t
    BY <1>1, <2>1, <2>2 DEF Separate
  <2>3. CASE v = t
    BY <1>1, <2>1, <2>3 DEF Separate
  <2>4. CASE u # t /\ v # t
    BY <1>1, <2>1, <2>4 DEF Separate
  <2> QED
    BY <2>2, <2>3, <2>4
<1> QED
  BY <1>2, <1>3 DEF UsesRight

LEMMA ListStays ==
  ASSUME SockTypes, ListRight, NEW t \in Thread, NEW c \in Calls, call' = [call EXCEPT ![t] = c],
         select_cb_list' = select_cb_list, c.pc \in Enlisted <=> call[t].pc \in Enlisted
  PROVE  ListRight'
<1>1. call'[t] = c /\ \A u \in Thread \ {t} : call'[u] = call[u]
  BY DEF SockTypes
<1>2. select_cb_list \in Seq(Thread)
  BY DEF SockTypes
<1>3. ASSUME NEW u \in Thread PROVE Lists(select_cb_list', u) <=> call'[u].pc \in Enlisted
  BY <1>1 DEF ListRight
<1> QED
  BY <1>3 DEF ListRight

LEMMA EventsStay ==
  ASSUME EventsRight, event' = event, select_cb_list' = select_cb_list,
         posted' = posted \/ posted' = NoSocket
  PROVE  EventsRight'
  BY DEF EventsRight, Standing, Running

\* A thread whose call stays, for which nothing becomes readable and no event is lost.
LEMMA StaysAlert ==
  ASSUME SockTypes, NEW u \in Thread, Alerted(u), call'[u] = call[u],
         signalled[u] = TRUE => signalled'[u] = TRUE,
         \A s \in call[u].set : Readable(s)' => Readable(s),
         \A s \in call[u].set : Coming(u, s) => Coming(u, s)'
  PROVE  Alerted(u)'
<1>1. Looked(u)' = Looked(u) /\ Looked(u) \subseteq call[u].set
  BY DEF Looked
<1> QED
  BY <1>1 DEF Alerted

LEMMA ComesStill ==
  ASSUME event' = event, select_cb_list' = select_cb_list, NEW u, NEW s, Coming(u, s)
  PROVE  Coming(u, s)'
  BY DEF Coming, Running

\* A step of one thread that nobody else sees, but for what it takes from a mailbox and
\* the selects it counts.
LEMMA OneThread ==
  ASSUME SockIInv, NEW t \in Thread, NEW c \in Calls, call' = [call EXCEPT ![t] = c],
         UNCHANGED <<conn, early, rcvevent, select_cb_list, signalled, event, posted>>,
         sem' \in [Thread -> Nat], mail' \in [Socket -> Nat], select_waiting' \in [Socket -> Int],
         Fits(c, conn), \A s \in c.set \ call[t].set : conn[s] = "open",
         c.pc \in Enlisted <=> call[t].pc \in Enlisted,
         \A s \in Socket : conn[s] # "open" =>
           mail'[s] = mail[s] /\ select_waiting'[s] = select_waiting[s],
         \A s \in Socket : conn[s] = "open" =>
           /\ mail'[s] + Takes(c, s) = mail[s] + Takes(call[t], s)
           /\ select_waiting'[s] - Registers(c, s) = select_waiting[s] - Registers(call[t], s),
         Alerted(t)'
  PROVE  SockIInv'
<1>0. SockTypes /\ UsesRight /\ ListRight /\ EventsRight /\ Counted
  BY DEF SockIInv
<1>1. SockTypes'
  <2>1. call' \in [Thread -> Calls]
    BY <1>0 DEF SockTypes
  <2> QED
    BY <1>0, <2>1 DEF SockTypes
<1>2. UsesRight'
  BY <1>0, GoesOn
<1>3. ListRight'
  BY <1>0, ListStays
<1>4. EventsRight'
  BY <1>0, EventsStay
<1>5. Counted'
  <2> SUFFICES ASSUME NEW s \in Socket, conn[s] = "open"
               PROVE  /\ rcvevent[s] = mail'[s] + Cardinality(Taking(s))' - (IF posted = s THEN 1 ELSE 0)
                      /\ select_waiting'[s] = Cardinality(Registered(s))'
    BY DEF Counted
  <2>1. /\ rcvevent[s] = mail[s] + Cardinality(Taking(s)) - (IF posted = s THEN 1 ELSE 0)
        /\ select_waiting[s] = Cardinality(Registered(s))
    BY <1>0 DEF Counted
  <2>2. /\ Cardinality(Taking(s)) \in Nat
        /\ Cardinality(Taking(s))' = Cardinality(Taking(s)) + Takes(c, s) - Takes(call[t], s)
        /\ Cardinality(Registered(s)) \in Nat
        /\ Cardinality(Registered(s))'
             = Cardinality(Registered(s)) + Registers(c, s) - Registers(call[t], s)
    BY <1>0, Counting
  <2>3. /\ mail'[s] + Takes(c, s) = mail[s] + Takes(call[t], s)
        /\ select_waiting'[s] - Registers(c, s) = select_waiting[s] - Registers(call[t], s)
    OBVIOUS
  <2>4. /\ mail[s] \in Nat /\ mail'[s] \in Nat /\ select_waiting[s] \in Int /\ select_waiting'[s] \in Int
        /\ Takes(c, s) \in Int /\ Takes(call[t], s) \in Int
        /\ Registers(c, s) \in Int /\ Registers(call[t], s) \in Int
    BY <1>0 DEF SockTypes, Takes, Registers
  <2>5. PICK p \in Int : p = IF posted = s THEN 1 ELSE 0
    OBVIOUS
  <2> QED
    BY <2>1, <2>2, <2>3, <2>4, <2>5
<1>6. ASSUME NEW s \in Socket PROVE Told(s)'
  <2>1. Told(s)
    BY DEF SockIInv
  <2>2. conn[s] # "open" => mail'[s] = mail[s] /\ select_waiting'[s] = select_waiting[s]
    OBVIOUS
  <2>3. JustPosted(s)' = JustPosted(s)
    BY DEF JustPosted
  <2> QED
    BY <2>1, <2>2, <2>3 DEF Told
<1>7. ASSUME NEW u \in Thread, u # t PROVE Alerted(u)'
  <2>1. call'[u] = call[u]
    BY <1>0, <1>7 DEF SockTypes
  <2>2. \A s \in call[u].set : (Readable(s)' => Readable(s)) /\ (Coming(u, s) => Coming(u, s)')
    BY ComesStill DEF Readable
  <2>3. Alerted(u)
    BY DEF SockIInv
  <2> QED
    BY <1>0, <2>1, <2>2, <2>3, StaysAlert
<1>8. \A u \in Thread : Alerted(u)'
  BY <1>7
<1> QED
  BY <1>1, <1>2, <1>3, <1>4, <1>5, <1>6, <1>8 DEF SockIInv

\* A thread that is not about to wait is not concerned.
LEMMA NotAlert ==
  ASSUME NEW t, call'[t].pc \notin {"scan2", "wait"}
  PROVE  Alerted(t)'
  BY DEF Alerted

LEMMA LowestIs ==
  ASSUME NEW S \in SUBSET Socket, S # {}
  PROVE  Lowest(S) \in S
<1>1. S \in SUBSET Nat
  BY SockAssumption
<1>2. Min(S) \in S /\ \A y \in S : Min(S) <= y
  BY <1>1, MinOf
<1> QED
  BY <1>2 DEF Lowest

\* Goes begins a step on all sockets of the call.
LEMMA GoesIs ==
  ASSUME SockTypes, UsesRight, NEW t \in Thread, NEW pc \in Selects, call[t].pc \in Selects, Goes(t, pc)
  PROVE  \E c \in Calls :
           /\ call' = [call EXCEPT ![t] = c] /\ c.pc = pc /\ c.set = call[t].set /\ c.todo = c.set
           /\ c.ready = call[t].ready /\ Fits(c, conn) /\ \A s \in c.set \ call[t].set : conn[s] = "open"
<1>1. PICK b \in Calls : b = call[t]
  BY CallIs
<1>2. PICK c : c = [b EXCEPT !.pc = pc, !.todo = b.set]
  OBVIOUS
<1>3. /\ c \in Calls /\ c.pc = pc /\ c.set = b.set /\ c.todo = b.set /\ c.ready = b.ready
  BY <1>2 DEF Calls, Steps
<1>4. call' = [call EXCEPT ![t] = c]
  BY <1>1, <1>2 DEF Goes, SockTypes
<1>5. Fits(b, conn)
  BY <1>1 DEF UsesRight
<1>6. Fits(c, conn)
  <2>1. pc \notin {"idle", "received", "accept", "close"}
    BY DEF Selects, Enlisted, Scans
  <2> QED
    BY <1>1, <1>3, <1>5, <2>1 DEF Fits
<1> QED
  BY <1>1, <1>3, <1>4, <1>6

LEMMA NoCallIs ==
  NoCall \in Calls /\ NoCall.set = {} /\ NoCall.pc = "idle" /\ NoCall.todo = {}
<1>1. PICK none \in Steps : none = "idle"
  BY DEF Steps
<1>2. [pc |-> none, set |-> {}, todo |-> {}, ready |-> {}, timed |-> FALSE] \in Calls
  BY DEF Calls
<1> QED
  BY <1>1, <1>2 DEF NoCall

LEMMA ReturnsIs ==
  ASSUME SockTypes, NEW t \in Thread, Returns(t)
  PROVE  /\ NoCall \in Calls /\ call' = [call EXCEPT ![t] = NoCall] /\ Fits(NoCall, conn)
         /\ NoCall.set = {} /\ NoCall.pc = "idle" /\ call'[t] = NoCall
         /\ \A s : Takes(NoCall, s) = 0 /\ Registers(NoCall, s) = 0
         /\ Alerted(t)'
<1>3. /\ NoCall \in Calls /\ NoCall.set = {} /\ NoCall.pc = "idle" /\ NoCall.todo = {}
  BY NoCallIs
<1>4. call' = [call EXCEPT ![t] = NoCall] /\ call'[t] = NoCall
  BY DEF Returns, SockTypes
<1>5. Fits(NoCall, conn)
  BY <1>3 DEF Fits, Selects, Enlisted, Scans
<1>6. \A s : Takes(NoCall, s) = 0 /\ Registers(NoCall, s) = 0
  BY <1>3 DEF Takes, Registers
<1>7. Alerted(t)'
  BY <1>3, <1>4, NotAlert
<1> QED
  BY <1>3, <1>4, <1>5, <1>6, <1>7

LEMMA SelectKeeps ==
  ASSUME SockIInv, NEW t \in Thread, NEW set \in Sets, NEW timed \in BOOLEAN, lwip_select(t, set, timed)
  PROVE  SockIInv'
<1>0. SockTypes /\ UsesRight
  BY DEF SockIInv
<1>1. PICK pc \in Steps : pc = "scan1"
  BY DEF Steps, Selects, Scans
<1>2. set \in SUBSET Socket
  BY SockAssumption
<1>3. PICK c : c = [pc |-> pc, set |-> set, todo |-> set, ready |-> {}, timed |-> timed]
  OBVIOUS
<1>4. c \in Calls /\ c.pc = "scan1" /\ c.set = set /\ c.todo = set
  BY <1>1, <1>2, <1>3 DEF Calls
<1>5. call' = [call EXCEPT ![t] = c] /\ call[t].pc = "idle" /\ \A s \in set : conn[s] = "open"
  BY <1>1, <1>3 DEF lwip_select, Does
<1>6. call'[t] = c
  BY <1>0, <1>5 DEF SockTypes
<1>7. Fits(c, conn)
  BY <1>4, <1>5 DEF Fits
<1>8. \A s \in Socket : /\ Takes(c, s) = 0 /\ Takes(call[t], s) = 0
                        /\ Registers(c, s) = 0 /\ Registers(call[t], s) = 0
  BY <1>4, <1>5 DEF Takes, Registers
<1>9. Alerted(t)'
  BY <1>4, <1>6, NotAlert
<1>10. c.pc \in Enlisted <=> call[t].pc \in Enlisted
  BY <1>4, <1>5 DEF Enlisted
<1>11. UNCHANGED <<conn, early, rcvevent, select_cb_list, signalled, event, posted, sem, mail, select_waiting>>
  BY DEF lwip_select, OtherVars
<1>12. sem' \in [Thread -> Nat] /\ mail' \in [Socket -> Nat] /\ select_waiting' \in [Socket -> Int]
  BY <1>0, <1>11 DEF SockTypes
<1> QED
  BY <1>4, <1>5, <1>7, <1>8, <1>9, <1>10, <1>11, <1>12, OneThread

LEMMA SelscanKeeps ==
  ASSUME SockIInv, NEW t \in Thread, lwip_selscan(t)
  PROVE  SockIInv'
<1>0. SockTypes /\ UsesRight /\ Alerted(t)
  BY DEF SockIInv
<1>1. PICK b \in Calls : b = call[t]
  BY <1>0, CallIs
<1>2. b.pc \in Scans /\ b.todo # {} /\ b.todo \in SUBSET Socket /\ b.ready \in SUBSET Int
  BY <1>1 DEF lwip_selscan, Calls
<1>3. PICK s \in b.todo : s = Lowest(b.todo)
  BY <1>2, LowestIs
<1>4. PICK ready \in SUBSET Int : ready = b.ready \cup {x \in {s} : Readable(x)}
  <2>1. s \in Int
    <3>1. s \in Socket
      BY <1>2, <1>3
    <3>2. Socket \subseteq Nat
      BY SockAssumption
    <3> QED
      BY <3>1, <3>2
  <2> QED
    BY <1>2, <2>1
<1>5. PICK c : c = [b EXCEPT !.todo = b.todo \ {s}, !.ready = ready]
  OBVIOUS
<1>6. /\ c \in Calls /\ c.pc = b.pc /\ c.set = b.set /\ c.todo = b.todo \ {s} /\ c.ready = ready
  BY <1>5 DEF Calls
<1>7. call' = [call EXCEPT ![t] = c]
  BY <1>0, <1>1, <1>3, <1>4, <1>5 DEF lwip_selscan, SockTypes
<1>8. call'[t] = c
  BY <1>0, <1>7 DEF SockTypes
<1>9. Fits(b, conn)
  BY <1>0, <1>1 DEF UsesRight
<1>10. Fits(c, conn)
  BY <1>6, <1>9 DEF Fits
<1>11. \A x \in Socket : Takes(c, x) = Takes(b, x) /\ Registers(c, x) = Registers(b, x)
  <2>1. b.pc # "received" /\ b.pc # "register" /\ b.pc # "unregister"
    BY <1>2 DEF Scans
  <2> QED
    BY <1>6, <2>1 DEF Takes, Registers
<1>12. UNCHANGED <<conn, early, rcvevent, select_cb_list, signalled, event, posted, sem, mail, select_waiting>>
  BY DEF lwip_selscan, OtherVars
<1>13. sem' \in [Thread -> Nat] /\ mail' \in [Socket -> Nat] /\ select_waiting' \in [Socket -> Int]
  BY <1>0, <1>12 DEF SockTypes
<1>14. Alerted(t)'
  <2>1. CASE b.pc # "scan2"
    <3>1. b.pc # "wait"
      BY <1>2 DEF Scans
    <3> QED
      BY <1>6, <1>8, <2>1, <3>1, NotAlert
  <2>2. CASE b.pc = "scan2"
    <3> SUFFICES ASSUME ready = {}, signalled[t] # TRUE, NEW x \in b.set \ (b.todo \ {s}), Readable(x)'
                 PROVE  Coming(t, x)'
      BY <1>6, <1>8, <1>12, <2>2 DEF Alerted, Looked
    <3>1. b.ready = {} /\ ~Readable(s)
      BY <1>4
    <3>2. Readable(x)
      BY <1>12 DEF Readable
    <3>3. x \in b.set \ b.todo
      BY <3>1, <3>2
    <3>4. Coming(t, x)
      BY <1>0, <1>1, <2>2, <3>1, <3>2, <3>3 DEF Alerted, Looked
    <3> QED
      BY <1>12, <3>4, ComesStill
  <2> QED
    BY <2>1, <2>2
<1> QED
  BY <1>1, <1>6, <1>7, <1>10, <1>11, <1>12, <1>13, <1>14, OneThread

LEMMA ScannedKeeps ==
  ASSUME SockIInv, NEW t \in Thread, Scanned(t)
  PROVE  SockIInv'
<1>0. SockTypes /\ UsesRight /\ Alerted(t)
  BY DEF SockIInv
<1>1. PICK b \in Calls : b = call[t]
  BY <1>0, CallIs
<1>2. b.pc \in Scans /\ b.todo = {} /\ b.pc \in Selects
  BY <1>1 DEF Scanned, Selects
<1>3. UNCHANGED <<conn, early, rcvevent, select_cb_list, signalled, event, posted, sem, mail, select_waiting>>
  BY DEF Scanned, OtherVars
<1>4. sem' \in [Thread -> Nat] /\ mail' \in [Socket -> Nat] /\ select_waiting' \in [Socket -> Int]
  BY <1>0, <1>3 DEF SockTypes
<1>5. ASSUME NEW pc \in Selects, Goes(t, pc), pc \in Enlisted <=> b.pc \in Enlisted,
             \A s \in Socket, c \in Calls :
               c.pc = pc /\ c.set = b.set /\ c.todo = b.set => Registers(c, s) = Registers(b, s),
             Alerted(t)'
      PROVE  SockIInv'
  <2>1. PICK c \in Calls :
          /\ call' = [call EXCEPT ![t] = c] /\ c.pc = pc /\ c.set = b.set /\ c.todo = c.set
          /\ Fits(c, conn) /\ \A s \in c.set \ call[t].set : conn[s] = "open"
    BY <1>0, <1>1, <1>2, <1>5, GoesIs
  <2>2. \A s \in Socket : Registers(c, s) = Registers(b, s)
    BY <1>5, <2>1
  <2>3. \A s \in Socket : Takes(c, s) = 0 /\ Takes(b, s) = 0
    BY <1>2, <1>5, <2>1 DEF Takes, Selects, Scans, Enlisted
  <2>4. c.pc \in Enlisted <=> call[t].pc \in Enlisted
    BY <1>1, <1>5, <2>1
  <2>5. \A s \in Socket :
          /\ mail'[s] = mail[s] /\ select_waiting'[s] = select_waiting[s]
          /\ mail'[s] + Takes(c, s) = mail[s] + Takes(call[t], s)
          /\ select_waiting'[s] - Registers(c, s) = select_waiting[s] - Registers(call[t], s)
    BY <1>1, <1>3, <2>2, <2>3
  <2>6. Alerted(t)'
    BY <1>5
  <2> QED
    BY <1>3, <1>4, <2>1, <2>4, <2>5, <2>6, OneThread
<1>6. ASSUME NEW pc \in Selects, Goes(t, pc)
      PROVE  call'[t].pc = pc /\ call'[t].set = b.set /\ call'[t].ready = b.ready
  <2>1. PICK c \in Calls :
          call' = [call EXCEPT ![t] = c] /\ c.pc = pc /\ c.set = b.set /\ c.ready = b.ready
    BY <1>0, <1>1, <1>2, <1>6, GoesIs
  <2> QED
    BY <1>0, <2>1 DEF SockTypes
<1>7. CASE b.pc = "scan3" \/ (b.pc = "scan1" /\ b.ready # {})
  <2>1. Returns(t)
    BY <1>1, <1>7 DEF Scanned
  <2>2. /\ NoCall \in Calls /\ call' = [call EXCEPT ![t] = NoCall] /\ Fits(NoCall, conn)
        /\ NoCall.set = {} /\ NoCall.pc = "idle"
        /\ \A s : Takes(NoCall, s) = 0 /\ Registers(NoCall, s) = 0
        /\ Alerted(t)'
    BY <1>0, <2>1, ReturnsIs
  <2>3. \A s \in Socket : Takes(b, s) = 0 /\ Registers(b, s) = 0
    BY <1>7 DEF Takes, Registers
  <2>4. NoCall.pc \in Enlisted <=> b.pc \in Enlisted
    BY <1>7, <2>2 DEF Enlisted
  <2> QED
    BY <1>1, <1>3, <1>4, <2>2, <2>3, <2>4, OneThread, ZenonT(60)
<1>8. CASE b.pc = "scan1" /\ b.ready = {}
  <2>1. Goes(t, "link")
    BY <1>1, <1>8 DEF Scanned
  <2>2. PICK pc \in Selects : pc = "link"
    BY DEF Selects
  <2>3. Alerted(t)'
    BY <1>6, <2>1, <2>2, NotAlert
  <2>4. pc \in Enlisted <=> b.pc \in Enlisted
    BY <1>8, <2>2 DEF Enlisted
  <2>5. \A s \in Socket, c \in Calls :
          c.pc = pc /\ c.set = b.set /\ c.todo = b.set => Registers(c, s) = Registers(b, s)
    BY <1>8, <2>2 DEF Registers
  <2> QED
    BY <1>5, <2>1, <2>2, <2>3, <2>4, <2>5
<1>9. CASE b.pc = "scan2" /\ b.ready = {}
  <2>1. Goes(t, "wait")
    BY <1>1, <1>9 DEF Scanned
  <2>2. PICK pc \in Selects : pc = "wait"
    BY DEF Selects, Enlisted
  <2>3. Alerted(t)'
    <3> SUFFICES ASSUME signalled[t] # TRUE, NEW x \in b.set, Readable(x)' PROVE Coming(t, x)'
      BY <1>3, <1>6, <2>1, <2>2 DEF Alerted, Looked
    <3>1. Readable(x)
      BY <1>3 DEF Readable
    <3>2. Coming(t, x)
      BY <1>0, <1>1, <1>2, <1>9, <3>1 DEF Alerted, Looked
    <3> QED
      BY <1>3, <3>2, ComesStill
  <2>4. pc \in Enlisted <=> b.pc \in Enlisted
    BY <1>9, <2>2 DEF Enlisted
  <2>5. \A s \in Socket, c \in Calls :
          c.pc = pc /\ c.set = b.set /\ c.todo = b.set => Registers(c, s) = Registers(b, s)
    BY <1>9, <2>2 DEF Registers
  <2> QED
    BY <1>5, <2>1, <2>2, <2>3, <2>4, <2>5
<1>10. CASE b.pc = "scan2" /\ b.ready # {}
  <2>1. Goes(t, "unregister")
    BY <1>1, <1>10 DEF Scanned
  <2>2. PICK pc \in Selects : pc = "unregister"
    BY DEF Selects, Enlisted
  <2>3. Alerted(t)'
    BY <1>6, <2>1, <2>2, NotAlert
  <2>4. pc \in Enlisted <=> b.pc \in Enlisted
    BY <1>10, <2>2 DEF Enlisted
  <2>5. \A s \in Socket, c \in Calls :
          c.pc = pc /\ c.set = b.set /\ c.todo = b.set => Registers(c, s) = Registers(b, s)
    BY <1>10, <2>2 DEF Registers
  <2> QED
    BY <1>5, <2>1, <2>2, <2>3, <2>4, <2>5
<1> QED
  BY <1>2, <1>7, <1>8, <1>9, <1>10 DEF Scans

\* The two loops over select_waiting.
LEMMA CountsKeeps ==
  ASSUME SockIInv, NEW t \in Thread,
         NEW delta \in Int, NEW after \in Selects, Counts(t, delta, after),
         \/ call[t].pc = "register" /\ delta = 1 /\ after = "scan2"
         \/ call[t].pc = "unregister" /\ delta = -1 /\ after = "unlink"
  PROVE  SockIInv'
<1>0. SockTypes /\ UsesRight
  BY DEF SockIInv
<1>1. PICK b \in Calls : b = call[t]
  BY <1>0, CallIs
<1>2. b.pc \in {"register", "unregister"} /\ b.pc \in Selects /\ b.todo \in SUBSET Socket
  BY <1>1 DEF Calls, Selects, Enlisted
<1>3. UNCHANGED <<conn, early, rcvevent, select_cb_list, signalled, event, posted, sem, mail>>
  BY DEF Counts, OtherVars
<1>4. sem' \in [Thread -> Nat] /\ mail' \in [Socket -> Nat]
  BY <1>0, <1>3 DEF SockTypes
<1>5. Fits(b, conn)
  BY <1>0, <1>1 DEF UsesRight
<1>6. CASE b.todo # {}
  <2>1. PICK s \in b.todo : s = Lowest(b.todo)
    BY <1>2, <1>6, LowestIs
  <2>2. PICK c : c = [b EXCEPT !.todo = b.todo \ {s}]
    OBVIOUS
  <2>3. c \in Calls /\ c.pc = b.pc /\ c.set = b.set /\ c.todo = b.todo \ {s}
    BY <2>2 DEF Calls
  <2>4. call' = [call EXCEPT ![t] = c]
    BY <1>0, <1>1, <1>6, <2>1, <2>2 DEF Counts, SockTypes
  <2>5. s \in Socket /\ s \in b.set /\ conn[s] = "open"
    BY <1>2, <1>5, <2>1 DEF Fits
  <2>6. PICK w \in Int : w = select_waiting[s] + delta
    BY <1>0, <2>5 DEF SockTypes
  <2>7. select_waiting' = [select_waiting EXCEPT ![s] = w]
    BY <1>1, <1>6, <2>1, <2>6 DEF Counts
  <2>8. select_waiting' \in [Socket -> Int]
    BY <1>0, <2>7 DEF SockTypes
  <2>9. Fits(c, conn)
    BY <1>5, <2>3 DEF Fits
  <2>10. \A x \in Socket : Takes(c, x) = 0 /\ Takes(b, x) = 0
    BY <1>2, <2>3 DEF Takes
  <2>11. ASSUME NEW x \in Socket
         PROVE  select_waiting'[x] - Registers(c, x) = select_waiting[x] - Registers(b, x)
    <3>1. select_waiting[x] \in Int
      BY <1>0 DEF SockTypes
    <3>2. CASE x # s
      <4>1. select_waiting'[x] = select_waiting[x]
        BY <1>0, <2>7, <3>2 DEF SockTypes
      <4>2. Registers(c, x) = Registers(b, x)
        BY <2>3, <3>2 DEF Registers
      <4> QED
        BY <4>1, <4>2
    <3>3. CASE x = s
      <4>1. select_waiting'[x] = select_waiting[x] + delta
        BY <1>0, <2>5, <2>6, <2>7, <3>3 DEF SockTypes
      <4>2. CASE b.pc = "register"
        <5>1. Registers(c, x) = 1 /\ Registers(b, x) = 0 /\ delta = 1
          BY <1>1, <2>1, <2>3, <2>5, <3>3, <4>2 DEF Registers
        <5> QED
          BY <3>1, <4>1, <5>1
      <4>3. CASE b.pc = "unregister"
        <5>1. Registers(c, x) = 0 /\ Registers(b, x) = 1 /\ delta = -1
          BY <1>1, <2>1, <2>3, <2>5, <3>3, <4>3 DEF Registers
        <5> QED
          BY <3>1, <4>1, <5>1
      <4> QED
        BY <1>2, <4>2, <4>3
    <3> QED
      BY <3>2, <3>3
  <2>12. call'[t] = c
    BY <1>0, <2>4 DEF SockTypes
  <2>13. Alerted(t)'
    BY <1>2, <2>3, <2>12, NotAlert
  <2>14. \A x \in Socket : conn[x] # "open" => select_waiting'[x] = select_waiting[x]
    BY <1>0, <2>5, <2>7 DEF SockTypes
  <2>15. \A x \in Socket :
           /\ conn[x] # "open" => mail'[x] = mail[x] /\ select_waiting'[x] = select_waiting[x]
           /\ mail'[x] + Takes(c, x) = mail[x] + Takes(call[t], x)
           /\ select_waiting'[x] - Registers(c, x) = select_waiting[x] - Registers(call[t], x)
    BY <1>1, <1>3, <2>10, <2>11, <2>14
  <2>16. c.pc \in Enlisted <=> call[t].pc \in Enlisted
    BY <1>1, <2>3
  <2>17. \A x \in c.set \ call[t].set : conn[x] = "open"
    BY <1>1, <2>3
  <2> QED
    BY <1>3, <1>4, <2>3, <2>4, <2>8, <2>9, <2>13, <2>15, <2>16, <2>17, OneThread, ZenonT(60)
<1>7. CASE b.todo = {}
  <2>1. Goes(t, after) /\ select_waiting' = select_waiting
    BY <1>1, <1>7 DEF Counts
  <2>2. PICK c \in Calls :
          /\ call' = [call EXCEPT ![t] = c] /\ c.pc = after /\ c.set = b.set /\ c.todo = c.set
          /\ Fits(c, conn) /\ \A s \in c.set \ call[t].set : conn[s] = "open"
    BY <1>0, <1>1, <1>2, <2>1, GoesIs
  <2>3. call'[t] = c
    BY <1>0, <2>2 DEF SockTypes
  <2>4. \A x \in Socket : Takes(c, x) = 0 /\ Takes(b, x) = 0 /\ Registers(c, x) = Registers(b, x)
    BY <1>1, <1>7, <2>2 DEF Takes, Registers
  <2>5. c.pc \in Enlisted <=> call[t].pc \in Enlisted
    BY <2>2 DEF Enlisted
  <2>6. Alerted(t)'
    <3>1. Looked(t)' = {} \/ c.pc # "scan2"
      BY <2>2, <2>3 DEF Looked
    <3>2. c.pc # "wait"
      BY <2>2
    <3> QED
      BY <2>3, <3>1, <3>2 DEF Alerted
  <2>7. select_waiting' \in [Socket -> Int]
    BY <1>0, <2>1 DEF SockTypes
  <2>8. \A x \in Socket :
          /\ mail'[x] = mail[x] /\ select_waiting'[x] = select_waiting[x]
          /\ mail'[x] + Takes(c, x) = mail[x] + Takes(call[t], x)
          /\ select_waiting'[x] - Registers(c, x) = select_waiting[x] - Registers(call[t], x)
    BY <1>1, <1>3, <2>1, <2>4
  <2> QED
    BY <1>3, <1>4, <2>2, <2>5, <2>6, <2>7, <2>8, OneThread
<1> QED
  BY <1>6, <1>7

LEMMA SelectWaitKeeps ==
  ASSUME SockIInv, NEW t \in Thread, SelectWait(t)
  PROVE  SockIInv'
<1>0. SockTypes /\ UsesRight
  BY DEF SockIInv
<1>1. PICK b \in Calls : b = call[t]
  BY <1>0, CallIs
<1>2. b.pc = "wait" /\ b.pc \in Selects
  BY <1>1 DEF SelectWait, Does, Selects, Enlisted
<1>3. UNCHANGED <<conn, early, rcvevent, select_cb_list, signalled, event, posted, mail, select_waiting>>
  BY DEF SelectWait, OtherVars
<1>4. mail' \in [Socket -> Nat] /\ select_waiting' \in [Socket -> Int]
  BY <1>0, <1>3 DEF SockTypes
<1>5. Fits(b, conn)
  BY <1>0, <1>1 DEF UsesRight
<1>6. sem' \in [Thread -> Nat] /\
      \E c \in Calls :
        /\ call' = [call EXCEPT ![t] = c] /\ c.pc = "unregister" /\ c.set = b.set /\ c.todo = c.set
        /\ Fits(c, conn) /\ \A s \in c.set \ call[t].set : conn[s] = "open"
  <2>1. PICK pc \in Selects : pc = "unregister"
    BY DEF Selects, Enlisted
  <2>2. CASE sem[t] > 0 /\ sem' = [sem EXCEPT ![t] = @ - 1] /\ Goes(t, "unregister")
    <3>1. sem' \in [Thread -> Nat]
      BY <1>0, <2>2 DEF SockTypes
    <3>2. \E c \in Calls :
        /\ call' = [call EXCEPT ![t] = c] /\ c.pc = pc /\ c.set = call[t].set /\ c.todo = c.set
        /\ c.ready = call[t].ready /\ Fits(c, conn) /\ \A s \in c.set \ call[t].set : conn[s] = "open"
      BY <1>0, <1>1, <1>2, <2>1, <2>2, GoesIs
    <3> QED
      BY <1>1, <2>1, <3>1, <3>2
  <2>3. CASE /\ UNCHANGED sem
             /\ call' = [call EXCEPT ![t].pc = "unregister", ![t].todo = call[t].set, ![t].timed = FALSE,
                                     ![t].ready = {-1}]
    <3>1. PICK ready \in SUBSET Int : ready = {-1}
      <4>1. {-1} \in SUBSET Int
        OBVIOUS
      <4> QED
        BY <4>1
    <3>2. PICK c : c = [b EXCEPT !.pc = pc, !.todo = b.set, !.timed = FALSE, !.ready = ready]
      OBVIOUS
    <3>3. c \in Calls /\ c.pc = "unregister" /\ c.set = b.set /\ c.todo = b.set
      BY <2>1, <3>2 DEF Calls, Steps
    <3>4. call' = [call EXCEPT ![t] = c]
      BY <1>0, <1>1, <2>1, <2>3, <3>1, <3>2 DEF SockTypes
    <3>5. Fits(c, conn)
      BY <1>2, <1>5, <3>3 DEF Fits
    <3> QED
      BY <1>0, <1>1, <2>3, <3>3, <3>4, <3>5 DEF SockTypes
  <2> QED
    BY <2>2, <2>3 DEF SelectWait
<1>7. PICK c \in Calls :
        /\ call' = [call EXCEPT ![t] = c] /\ c.pc = "unregister" /\ c.set = b.set /\ c.todo = c.set
        /\ Fits(c, conn) /\ \A s \in c.set \ call[t].set : conn[s] = "open"
  BY <1>6
<1>8. call'[t] = c
  BY <1>0, <1>7 DEF SockTypes
<1>9. \A x \in Socket : Takes(c, x) = 0 /\ Takes(b, x) = 0 /\ Registers(c, x) = Registers(b, x)
  BY <1>2, <1>7 DEF Takes, Registers
<1>10. Alerted(t)'
  BY <1>7, <1>8, NotAlert
<1>11. \A x \in Socket :
         /\ mail'[x] = mail[x] /\ select_waiting'[x] = select_waiting[x]
         /\ mail'[x] + Takes(c, x) = mail[x] + Takes(call[t], x)
         /\ select_waiting'[x] - Registers(c, x) = select_waiting[x] - Registers(call[t], x)
  BY <1>1, <1>3, <1>9
<1>12. c.pc \in Enlisted <=> call[t].pc \in Enlisted
  BY <1>1, <1>2, <1>7 DEF Enlisted
<1> QED
  BY <1>3, <1>4, <1>6, <1>7, <1>10, <1>11, <1>12, OneThread

LEMMA RecvfromKeeps ==
  ASSUME SockIInv, NEW t \in Thread, NEW s \in Socket, lwip_recvfrom(t, s)
  PROVE  SockIInv'
<1>0. SockTypes /\ UsesRight
  BY DEF SockIInv
<1>1. call[t].pc = "idle" /\ conn[s] = "open" /\ mail[s] > 0 /\ mail[s] \in Nat
  BY <1>0 DEF lwip_recvfrom, Does, SockTypes
<1>2. PICK pc \in Steps : pc = "received"
  BY DEF Steps
<1>3. PICK set \in SUBSET Socket : set = {s}
  OBVIOUS
<1>4. PICK c : c = [NoCall EXCEPT !.pc = pc, !.set = set]
  OBVIOUS
<1>5. c \in Calls /\ c.pc = "received" /\ c.set = {s} /\ c.todo = {}
  <2>1. PICK n \in Calls : n = NoCall /\ n.todo = {}
    BY NoCallIs
  <2>2. c = [n EXCEPT !.pc = pc, !.set = set]
    BY <1>4, <2>1
  <2> QED
    BY <1>2, <1>3, <2>1, <2>2 DEF Calls
<1>6. call' = [call EXCEPT ![t] = c]
  <2>1. [NoCall EXCEPT !.pc = pc, !.set = set] = c
    BY <1>4
  <2>2. call' = [call EXCEPT ![t] = [NoCall EXCEPT !.pc = "received", !.set = {s}]]
    BY DEF lwip_recvfrom
  <2> QED
    BY <1>2, <1>3, <2>1, <2>2
<1>7. PICK m \in Nat : m = mail[s] - 1
  BY <1>1
<1>8. mail' = [mail EXCEPT ![s] = m]
  BY <1>7 DEF lwip_recvfrom
<1>9. UNCHANGED <<conn, early, rcvevent, select_cb_list, signalled, event, posted, sem, select_waiting>>
  BY DEF lwip_recvfrom
<1>10. sem' \in [Thread -> Nat] /\ mail' \in [Socket -> Nat] /\ select_waiting' \in [Socket -> Int]
  BY <1>0, <1>8, <1>9 DEF SockTypes
<1>11. Fits(c, conn)
  <2>1. "received" \notin Selects
    BY DEF Selects, Enlisted, Scans
  <2> QED
    BY <1>1, <1>5, <2>1 DEF Fits
<1>12. \A x \in Socket : Takes(call[t], x) = 0 /\ Registers(c, x) = 0 /\ Registers(call[t], x) = 0
  BY <1>1, <1>5 DEF Takes, Registers
<1>13. \A x \in Socket : Takes(c, x) = IF x = s THEN 1 ELSE 0
  BY <1>5 DEF Takes
<1>14. ASSUME NEW x \in Socket
       PROVE  /\ conn[x] # "open" => mail'[x] = mail[x] /\ select_waiting'[x] = select_waiting[x]
              /\ mail'[x] + Takes(c, x) = mail[x] + Takes(call[t], x)
              /\ select_waiting'[x] - Registers(c, x) = select_waiting[x] - Registers(call[t], x)
  <2>1. mail[x] \in Nat /\ mail'[x] = IF x = s THEN m ELSE mail[x]
    BY <1>0, <1>8 DEF SockTypes
  <2> QED
    BY <1>1, <1>7, <1>9, <1>12, <1>13, <2>1
<1>15. call'[t] = c
  BY <1>0, <1>6 DEF SockTypes
<1>16. Alerted(t)'
  BY <1>5, <1>15, NotAlert
<1>17. c.pc \in Enlisted <=> call[t].pc \in Enlisted
  BY <1>1, <1>5 DEF Enlisted
<1>18. \A x \in c.set \ call[t].set : conn[x] = "open"
  BY <1>1, <1>5
<1> QED
  BY <1>5, <1>6, <1>9, <1>10, <1>11, <1>14, <1>16, <1>17, <1>18, OneThread

-----------------------------------------------------------------------------
\* When the list changes, all events on their way start again.
LEMMA ListedIs ==
  ASSUME SockTypes, EventsRight, NEW list, Listed(list), posted' = posted
  PROVE  /\ event' \in [Actor -> Events] /\ EventsRight'
         /\ \A u, s : Coming(u, s) => Coming(u, s)'
<1>1. ASSUME NEW a \in Actor, Running(a)
      PROVE  /\ event'[a] \in Events /\ event'[a].s = event[a].s /\ event'[a].stale = TRUE
             /\ event'[a].s \in Socket /\ event'[a] # NoEvent
  <2>1. PICK e \in Events : e = event[a]
    BY EventIs
  <2>2. event'[a] = [e EXCEPT !.stale = TRUE]
    BY <1>1, <2>1 DEF Listed
  <2>3. event'[a] \in Events /\ event'[a].s = e.s /\ event'[a].stale = TRUE
    BY <2>2 DEF Events
  <2>4. e.s \in Socket
    BY <1>1, <2>1 DEF EventsRight, Standing
  <2>5. NoEvent.stale = FALSE
    BY DEF NoEvent
  <2> QED
    BY <2>1, <2>3, <2>4, <2>5
<1>2. ASSUME NEW a \in Actor, ~Running(a) PROVE event'[a] = NoEvent /\ event'[a] \in Events
  <2>1. event'[a] = NoEvent
    BY <1>2 DEF Listed
  <2>2. NoEvent \in Events
    <3>1. NoEvent = event[a]
      BY <1>2 DEF Running
    <3> QED
      BY <3>1, EventIs
  <2> QED
    BY <2>1, <2>2
<1>3. event' \in [Actor -> Events]
  BY <1>1, <1>2 DEF Listed
<1>4. EventsRight'
  <2>1. ASSUME NEW a \in Actor PROVE Standing(a)'
    BY <1>1, <1>2 DEF Standing, Running
  <2>2. posted # NoSocket => ~Running(tcpip)'
    <3>1. tcpip \in Actor
      BY DEF Actor
    <3> QED
      BY <1>2, <3>1 DEF EventsRight, Running
  <2> QED
    BY <2>1, <2>2 DEF EventsRight
<1>5. ASSUME NEW u, NEW s, Coming(u, s) PROVE Coming(u, s)'
  <2>1. PICK a \in Actor : Running(a) /\ event[a].s = s
    BY <1>5 DEF Coming
  <2>2. event'[a].s = s /\ event'[a].stale = TRUE /\ event'[a] # NoEvent
    BY <1>1, <2>1
  <2> QED
    BY <2>2 DEF Coming, Running
<1> QED
  BY <1>3, <1>4, <1>5

\* A thread puts its select_cb on the list, or takes it off.
LEMMA Relists ==
  ASSUME SockIInv, NEW t \in Thread, NEW c \in Calls, call' = [call EXCEPT ![t] = c],
         NEW list \in Seq(Thread), Distinct(list), Listed(list),
         Lists(list, t) <=> c.pc \in Enlisted,
         \A u \in Thread \ {t} : Lists(list, u) <=> Lists(select_cb_list, u),
         UNCHANGED <<conn, early, mail, rcvevent, select_waiting, posted>>,
         signalled' \in [Thread -> BOOLEAN], sem' \in [Thread -> Nat],
         \A u \in Thread \ {t} : signalled'[u] = signalled[u],
         Fits(c, conn), \A s \in c.set \ call[t].set : conn[s] = "open",
         \A s \in Socket : Takes(c, s) = Takes(call[t], s) /\ Registers(c, s) = Registers(call[t], s),
         c.pc \notin {"scan2", "wait"}
  PROVE  SockIInv'
<1>0. SockTypes /\ UsesRight /\ ListRight /\ EventsRight /\ Counted
  BY DEF SockIInv
<1>1. /\ event' \in [Actor -> Events] /\ EventsRight'
      /\ \A u, s : Coming(u, s) => Coming(u, s)'
  BY <1>0, ListedIs
<1>2. call' \in [Thread -> Calls] /\ call'[t] = c /\ \A u \in Thread \ {t} : call'[u] = call[u]
  BY <1>0 DEF SockTypes
<1>3. select_cb_list' = list
  BY DEF Listed
<1>4. SockTypes'
  BY <1>0, <1>1, <1>2, <1>3 DEF SockTypes
<1>5. UsesRight'
  BY <1>0, GoesOn
<1>6. ListRight'
  BY <1>0, <1>2, <1>3 DEF ListRight
<1>7. Counted'
  <2> SUFFICES ASSUME NEW s \in Socket, conn[s] = "open"
               PROVE  /\ rcvevent[s] = mail[s] + Cardinality(Taking(s))' - (IF posted = s THEN 1 ELSE 0)
                      /\ select_waiting[s] = Cardinality(Registered(s))'
    BY DEF Counted
  <2>1. /\ Cardinality(Taking(s)) \in Nat
        /\ Cardinality(Taking(s))' = Cardinality(Taking(s)) + Takes(c, s) - Takes(call[t], s)
        /\ Cardinality(Registered(s)) \in Nat
        /\ Cardinality(Registered(s))'
             = Cardinality(Registered(s)) + Registers(c, s) - Registers(call[t], s)
    BY <1>0, Counting
  <2>2. Takes(c, s) \in Int /\ Registers(c, s) \in Int
    BY DEF Takes, Registers
  <2>3. Cardinality(Taking(s))' = Cardinality(Taking(s)) /\ Cardinality(Registered(s))' = Cardinality(Registered(s))
    BY <2>1, <2>2
  <2> QED
    BY <1>0, <2>3 DEF Counted
<1>8. ASSUME NEW s \in Socket PROVE Told(s)'
  BY DEF SockIInv, Told, JustPosted
<1>9. ASSUME NEW u \in Thread PROVE Alerted(u)'
  <2>1. CASE u = t
    BY <1>2, <2>1, NotAlert
  <2>2. CASE u # t
    <3>1. \A s \in call[u].set : Readable(s)' => Readable(s)
      BY DEF Readable
    <3>2. Alerted(u)
      BY DEF SockIInv
    <3> QED
      BY <1>0, <1>1, <1>2, <2>2, <3>1, <3>2, StaysAlert
  <2> QED
    BY <2>1, <2>2
<1> QED
  BY <1>1, <1>4, <1>5, <1>6, <1>7, <1>8, <1>9 DEF SockIInv

LEMMA LinkKeeps ==
  ASSUME SockIInv, NEW t \in Thread, Link(t)
  PROVE  SockIInv'
<1>0. SockTypes /\ UsesRight /\ ListRight
  BY DEF SockIInv
<1>1. call[t].pc = "link" /\ call[t].pc \in Selects
  BY DEF Link, Does, Selects
<1>2. PICK pc \in Selects : pc = "register"
  BY DEF Selects, Enlisted
<1>3. Goes(t, pc)
  BY <1>2 DEF Link
<1>4. PICK c \in Calls :
        /\ call' = [call EXCEPT ![t] = c] /\ c.pc = "register" /\ c.set = call[t].set /\ c.todo = c.set
        /\ Fits(c, conn) /\ \A s \in c.set \ call[t].set : conn[s] = "open"
  BY <1>0, <1>1, <1>2, <1>3, GoesIs
<1>5. ~Lists(select_cb_list, t)
  BY <1>0, <1>1 DEF ListRight, Enlisted
<1>6. select_cb_list \in Seq(Thread) /\ Distinct(select_cb_list)
  BY <1>0 DEF SockTypes, ListRight
<1>7. PICK list : list = <<t>> \o select_cb_list
  OBVIOUS
<1>8. /\ list \in Seq(Thread) /\ Distinct(list)
      /\ \A u \in Thread : Lists(list, u) <=> u = t \/ Lists(select_cb_list, u)
  BY <1>5, <1>6, <1>7, Prefixed
<1>9. Listed(list)
  BY <1>7 DEF Link
<1>10. c.pc \in Enlisted
  BY <1>4 DEF Enlisted
<1>11. /\ Lists(list, t) <=> c.pc \in Enlisted
       /\ \A u \in Thread \ {t} : Lists(list, u) <=> Lists(select_cb_list, u)
  BY <1>8, <1>10
<1>12. UNCHANGED <<conn, early, mail, rcvevent, select_waiting, posted>>
  BY DEF Link, OtherVars
<1>13. /\ signalled' \in [Thread -> BOOLEAN] /\ sem' \in [Thread -> Nat]
       /\ \A u \in Thread \ {t} : signalled'[u] = signalled[u]
  BY <1>0 DEF Link, SockTypes
<1>14. \A s \in Socket : Takes(c, s) = Takes(call[t], s) /\ Registers(c, s) = Registers(call[t], s)
  BY <1>1, <1>4 DEF Takes, Registers
<1>15. c.pc \notin {"scan2", "wait"}
  BY <1>4
<1> QED
  BY <1>4, <1>8, <1>9, <1>11, <1>12, <1>13, <1>14, <1>15, Relists

LEMMA UnlinkKeeps ==
  ASSUME SockIInv, NEW t \in Thread, Unlink(t)
  PROVE  SockIInv'
<1>0. SockTypes /\ UsesRight /\ ListRight
  BY DEF SockIInv
<1>1. PICK b \in Calls : b = call[t]
  BY <1>0, CallIs
<1>2. b.pc = "unlink" /\ b.pc \in Selects
  BY <1>1 DEF Unlink, Does, Selects, Enlisted
<1>3. Fits(b, conn)
  BY <1>0, <1>1 DEF UsesRight
<1>4. \E c \in Calls :
        /\ call' = [call EXCEPT ![t] = c] /\ Fits(c, conn)
        /\ \A s \in c.set \ b.set : conn[s] = "open"
        /\ \A s \in Socket : Takes(c, s) = 0 /\ Registers(c, s) = 0
        /\ c.pc \in {"idle", "scan3"}
  <2>1. CASE call[t].ready = {-1}
    <3>1. Returns(t)
      BY <2>1 DEF Unlink
    <3> QED
      BY <1>0, <3>1, ReturnsIs
  <2>2. CASE call[t].ready # {-1}
    <3>1. PICK pc \in Steps : pc = "scan3"
      BY DEF Steps, Selects, Scans
    <3>2. PICK c : c = [b EXCEPT !.pc = pc, !.todo = b.set, !.ready = {}]
      OBVIOUS
    <3>3. c \in Calls /\ c.pc = "scan3" /\ c.set = b.set /\ c.todo = b.set
      BY <3>1, <3>2 DEF Calls
    <3>4. call' = [call EXCEPT ![t] = c]
      BY <1>0, <1>1, <2>2, <3>1, <3>2 DEF Unlink, SockTypes
    <3>5. Fits(c, conn)
      BY <1>2, <1>3, <3>3 DEF Fits
    <3>6. \A s \in Socket : Takes(c, s) = 0 /\ Registers(c, s) = 0
      BY <3>3 DEF Takes, Registers
    <3> QED
      BY <3>3, <3>4, <3>5, <3>6
  <2> QED
    BY <2>1, <2>2
<1>5. PICK c \in Calls :
        /\ call' = [call EXCEPT ![t] = c] /\ Fits(c, conn)
        /\ \A s \in c.set \ b.set : conn[s] = "open"
        /\ \A s \in Socket : Takes(c, s) = 0 /\ Registers(c, s) = 0
        /\ c.pc \in {"idle", "scan3"}
  BY <1>4
<1>6. Lists(select_cb_list, t)
  BY <1>0, <1>1, <1>2 DEF ListRight, Enlisted
<1>7. select_cb_list \in Seq(Thread) /\ Distinct(select_cb_list)
  BY <1>0 DEF SockTypes, ListRight
<1>8. PICK list : list = RemoveAt(select_cb_list, At(select_cb_list, t))
  OBVIOUS
<1>9. /\ list \in Seq(Thread) /\ Distinct(list)
      /\ \A u \in Thread : Lists(list, u) <=> u # t /\ Lists(select_cb_list, u)
  BY <1>6, <1>7, <1>8, WithoutIt
<1>10. Listed(list)
  BY <1>8 DEF Unlink
<1>11. c.pc \notin Enlisted /\ c.pc \notin {"scan2", "wait"}
  BY <1>5 DEF Enlisted
<1>12. /\ Lists(list, t) <=> c.pc \in Enlisted
       /\ \A u \in Thread \ {t} : Lists(list, u) <=> Lists(select_cb_list, u)
  BY <1>9, <1>11
<1>13. UNCHANGED <<conn, early, mail, rcvevent, select_waiting, posted, signalled, sem>>
  BY DEF Unlink, OtherVars
<1>14. signalled' \in [Thread -> BOOLEAN] /\ sem' \in [Thread -> Nat]
  BY <1>0, <1>13 DEF SockTypes
<1>15. \A s \in Socket : Takes(call[t], s) = 0 /\ Registers(call[t], s) = 0
  BY <1>1, <1>2 DEF Takes, Registers
<1>16. \A u \in Thread \ {t} : signalled'[u] = signalled[u]
  BY <1>13
<1>17. \A s \in c.set \ call[t].set : conn[s] = "open"
  BY <1>1, <1>5
<1>18. \A s \in Socket : Takes(c, s) = Takes(call[t], s) /\ Registers(c, s) = Registers(call[t], s)
  BY <1>5, <1>15
<1> QED
  BY <1>5, <1>9, <1>10, <1>11, <1>12, <1>13, <1>14, <1>16, <1>17, <1>18, Relists

-----------------------------------------------------------------------------
\* An event_callback that looks at the first of those that follow the event e.
LEMMA Delivers ==
  ASSUME SockTypes, ListRight, EventsRight, NEW a \in Actor, NEW e \in Events,
         e.stale = FALSE => Lists(select_cb_list, e.scb),
         NEW list, list = Following(select_cb_list, e), list # << >>,
         NEW s \in Socket, NEW n \in Int, LookAt(a, Head(list), s, n), select_cb_list' = select_cb_list
  PROVE  /\ event' \in [Actor -> Events] /\ \A b \in Actor : Standing(b)'
         /\ \A b \in Actor \ {a} : event'[b] = event[b]
         /\ signalled' \in [Thread -> BOOLEAN] /\ sem' \in [Thread -> Nat]
         /\ \A u \in Thread : signalled[u] = TRUE => signalled'[u] = TRUE
         /\ \A u \in Thread :
              n > 0 /\ s \in call[u].set /\ u \in Range(list) => signalled'[u] = TRUE \/ Coming(u, s)'
<1>1. PICK h : h = Head(list)
  OBVIOUS
<1>2. PICK d : d = [s |-> s, scb |-> h, stale |-> FALSE]
  OBVIOUS
<1>3. d.s = s /\ d.scb = h /\ d.stale = FALSE
  BY <1>2
<1>4. select_cb_list \in Seq(Thread) /\ Distinct(select_cb_list)
  BY DEF SockTypes, ListRight
<1>5. /\ h \in Thread /\ Lists(select_cb_list, h)
      /\ \A u \in Range(list) : u = h \/ u \in Range(Following(select_cb_list, d))
  <2>1. d.scb = Head(Following(select_cb_list, e))
    BY <1>1, <1>3
  <2>3. d \in Events
    <3>1. Following(select_cb_list, e) \in Seq(Thread)
      <4>1. CASE e.stale = TRUE
        BY <1>4, <4>1 DEF Following, Again
      <4>2. CASE e.stale = FALSE
        BY <1>4, <4>2, FollowingIs
      <4> QED
        BY <4>1, <4>2 DEF Events
    <3>2. h \in Actor
      BY <1>1, <3>1 DEF Actor
    <3> QED
      BY <1>2, <3>2 DEF Events
  <2>2. /\ d.scb \in Thread /\ Lists(select_cb_list, d.scb)
        /\ \A u \in Range(Following(select_cb_list, e)) :
             u = d.scb \/ u \in Range(Following(select_cb_list, d))
    <3>1. Following(select_cb_list, e) # << >>
      OBVIOUS
    <3>2. d.stale = FALSE
      BY <1>3
    <3> QED
      BY <1>4, <2>1, <2>3, <3>1, <3>2, NextOf
  <2> QED
    BY <1>3, <2>2
<1>6. d \in Events
  BY <1>2, <1>5 DEF Events, Actor
<1>7. event' = [event EXCEPT ![a] = d]
  BY <1>1, <1>2 DEF LookAt
<1>8. event'[a] = d /\ event' \in [Actor -> Events] /\ \A b \in Actor \ {a} : event'[b] = event[b]
  BY <1>6, <1>7 DEF SockTypes
<1>9. d # NoEvent
  <2>1. s # NoSocket
    BY SockAssumption DEF NoSocket
  <2>2. NoEvent.s = NoSocket
    BY DEF NoEvent
  <2> QED
    BY <1>3, <2>1, <2>2
<1>10. ASSUME NEW b \in Actor PROVE Standing(b)'
  <2>1. CASE b = a
    BY <1>3, <1>5, <1>8, <2>1 DEF Standing
  <2>2. CASE b # a
    BY <1>8, <2>2 DEF Standing, EventsRight, Running
  <2> QED
    BY <2>1, <2>2
<1>11. /\ signalled' \in [Thread -> BOOLEAN] /\ sem' \in [Thread -> Nat]
       /\ \A u \in Thread : signalled[u] = TRUE => signalled'[u] = TRUE
       /\ n > 0 /\ s \in call[h].set => signalled'[h] = TRUE
  <2>1. CASE Signals(h, s, n)
    <3>1. signalled' = [signalled EXCEPT ![h] = TRUE] /\ sem' = [sem EXCEPT ![h] = @ + 1]
      BY <1>1, <2>1 DEF LookAt
    <3> QED
      BY <1>5, <3>1 DEF SockTypes
  <2>2. CASE ~Signals(h, s, n)
    <3>1. signalled' = signalled /\ sem' = sem
      BY <1>1, <2>2 DEF LookAt
    <3>2. signalled[h] \in BOOLEAN
      BY <1>5 DEF SockTypes
    <3> QED
      BY <2>2, <3>1, <3>2 DEF SockTypes, Signals
  <2> QED
    BY <2>1, <2>2
<1>12. ASSUME NEW u \in Thread, n > 0, s \in call[u].set, u \in Range(list)
       PROVE  signalled'[u] = TRUE \/ Coming(u, s)'
  <2>1. CASE u = h
    BY <1>11, <1>12, <2>1
  <2>2. CASE u \in Range(Following(select_cb_list, d))
    <3>1. Running(a)' /\ event'[a].s = s /\ u \in Range(Following(select_cb_list', event'[a]))
      BY <1>3, <1>8, <1>9, <2>2 DEF Running
    <3> QED
      BY <3>1 DEF Coming
  <2> QED
    BY <1>5, <1>12, <2>1, <2>2
<1> QED
  BY <1>8, <1>10, <1>11, <1>12

\* A change of the event of one thread concerns only those it was on its way to.
LEMMA ComesFrom ==
  ASSUME NEW a \in Actor, \A b \in Actor \ {a} : event'[b] = event[b], select_cb_list' = select_cb_list,
         NEW u, NEW s, Coming(u, s)
  PROVE  \/ Coming(u, s)'
         \/ /\ Running(a) /\ event[a].s = s
            /\ event[a].stale \/ u \in Range(Following(select_cb_list, event[a]))
<1>1. PICK b \in Actor : /\ Running(b) /\ event[b].s = s
                         /\ event[b].stale \/ u \in Range(Following(select_cb_list, event[b]))
  BY DEF Coming
<1>2. CASE b = a
  BY <1>1, <1>2
<1>3. CASE b # a
  BY <1>1, <1>3 DEF Coming, Running
<1> QED
  BY <1>2, <1>3

LEMMA AwaitedIs ==
  ASSUME SockTypes, ListRight, NEW u \in Thread, call[u].pc \in Enlisted, NEW e,
         e.stale \/ u \in Range(Following(select_cb_list, e))
  PROVE  u \in Range(Following(select_cb_list, e))
<1>1. Lists(select_cb_list, u)
  BY DEF ListRight
<1>2. CASE e.stale
  BY <1>1, <1>2 DEF Following, Again, Lists, Range
<1>3. CASE ~e.stale
  BY <1>3
<1> QED
  BY <1>2, <1>3

LEMMA EventKeeps ==
  ASSUME SockIInv, NEW a \in Actor, event_callback(a)
  PROVE  SockIInv'
<1>0. SockTypes /\ UsesRight /\ ListRight /\ EventsRight /\ Counted
  BY DEF SockIInv
<1>1. PICK e \in Events : e = event[a]
  BY <1>0, EventIs
<1>2. Running(a) /\ e.s \in Socket /\ e.stale \in BOOLEAN /\ (e.stale = FALSE => Lists(select_cb_list, e.scb))
  <2>1. Running(a)
    BY DEF event_callback
  <2>2. Standing(a)
    BY <1>0 DEF EventsRight
  <2>3. e.stale \in BOOLEAN
    BY DEF Events
  <2> QED
    BY <1>1, <2>1, <2>2, <2>3 DEF Standing
<1>3. PICK list : list = Following(select_cb_list, e)
  OBVIOUS
<1>4. PICK s \in Socket, n \in Int : s = e.s /\ n = rcvevent[e.s]
  BY <1>0, <1>2 DEF SockTypes
<1>5. UNCHANGED <<conn, early, mail, rcvevent, select_waiting, select_cb_list, call, posted>>
  BY DEF event_callback
<1>6. /\ event' \in [Actor -> Events] /\ \A b \in Actor : Standing(b)'
      /\ \A b \in Actor \ {a} : event'[b] = event[b]
      /\ signalled' \in [Thread -> BOOLEAN] /\ sem' \in [Thread -> Nat]
      /\ \A u \in Thread : signalled[u] = TRUE => signalled'[u] = TRUE
      /\ \A u \in Thread :
           n > 0 /\ s \in call[u].set /\ u \in Range(list) => signalled'[u] = TRUE \/ Coming(u, s)'
  <2>1. CASE list = << >>
    <3>1. event' = [event EXCEPT ![a] = NoEvent] /\ signalled' = signalled /\ sem' = sem
      BY <1>1, <1>3, <2>1 DEF event_callback
    <3>2. NoEvent \in Events
      <4>1. NoEvent.s = NoSocket /\ tcpip \in Actor
        BY DEF NoEvent, Actor
      <4> QED
        BY <4>1 DEF Events, NoEvent
    <3>3. event'[a] = NoEvent /\ event' \in [Actor -> Events] /\ \A b \in Actor \ {a} : event'[b] = event[b]
      BY <1>0, <3>1, <3>2 DEF SockTypes
    <3>4. ASSUME NEW b \in Actor PROVE Standing(b)'
      <4>1. CASE b = a
        BY <3>3, <4>1 DEF Standing, Running
      <4>2. CASE b # a
        BY <1>0, <1>5, <3>3, <4>2 DEF Standing, EventsRight, Running
      <4> QED
        BY <4>1, <4>2
    <3>5. Range(list) = {}
      BY <2>1 DEF Range
    <3> QED
      BY <1>0, <3>1, <3>3, <3>4, <3>5 DEF SockTypes
  <2>3. select_cb_list' = select_cb_list
    BY <1>5
  <2>2. CASE list # << >>
    <3>1. LookAt(a, Head(list), s, n)
      BY <1>1, <1>3, <1>4, <2>2 DEF event_callback
    <3> QED
      BY <1>0, <1>2, <1>3, <2>2, <2>3, <3>1, Delivers
  <2> QED
    BY <2>1, <2>2
<1>7. SockTypes'
  BY <1>0, <1>5, <1>6 DEF SockTypes
<1>8. UsesRight'
  BY <1>0, <1>5 DEF UsesRight, Fits, Separate
<1>9. ListRight'
  BY <1>0, <1>5 DEF ListRight
<1>10. EventsRight'
  <2>1. posted # NoSocket => a # tcpip
    BY <1>0, <1>2 DEF EventsRight
  <2>2. posted # NoSocket => ~Running(tcpip)'
    BY <1>0, <1>6, <2>1 DEF EventsRight, Running, Actor
  <2> QED
    BY <1>5, <1>6, <2>2 DEF EventsRight
<1>11. Counted'
  <2>1. \A x \in Socket : Cardinality(Taking(x))' = Cardinality(Taking(x))
                          /\ Cardinality(Registered(x))' = Cardinality(Registered(x))
    BY <1>0, <1>5, CountsAlike
  <2> QED
    BY <1>0, <1>5, <2>1 DEF Counted
<1>12. ASSUME NEW x \in Socket PROVE Told(x)'
  BY <1>5 DEF SockIInv, Told, JustPosted
<1>13. ASSUME NEW u \in Thread PROVE Alerted(u)'
  <2> SUFFICES ASSUME call[u].pc = "wait" \/ (call[u].pc = "scan2" /\ call[u].ready = {}),
                      signalled'[u] # TRUE, NEW x \in Looked(u), Readable(x)
               PROVE  Coming(u, x)'
    BY <1>5 DEF Alerted, Looked, Readable
  <2>1. Coming(u, x)
    BY <1>6 DEF SockIInv, Alerted
  <2>2. CASE /\ Running(a) /\ event[a].s = x
             /\ event[a].stale \/ u \in Range(Following(select_cb_list, event[a]))
    <3>1. call[u].pc \in Enlisted
      BY DEF Enlisted
    <3>2. u \in Range(list)
      BY <1>0, <1>1, <1>3, <2>2, <3>1, AwaitedIs
    <3>3. x = s /\ s \in call[u].set
      BY <1>1, <1>4, <2>2 DEF Looked
    <3>4. n > 0
      BY <1>4, <3>3 DEF Readable
    <3> QED
      BY <1>6, <3>2, <3>3, <3>4
  <2>3. Coming(u, x)' \/ /\ Running(a) /\ event[a].s = x
                         /\ event[a].stale \/ u \in Range(Following(select_cb_list, event[a]))
    BY <1>5, <1>6, <2>1, ComesFrom
  <2> QED
    BY <2>2, <2>3
<1> QED
  BY <1>7, <1>8, <1>9, <1>10, <1>11, <1>12, <1>13 DEF SockIInv

LEMMA WaitedFor ==
  ASSUME SockTypes, Counted, NEW u \in Thread, NEW s \in call[u].set, conn[s] = "open",
         call[u].pc = "wait" \/ (call[u].pc = "scan2" /\ call[u].ready = {})
  PROVE  select_waiting[s] # 0
<1>1. s \in Socket
  BY CallIs
<1>2. u \in Registered(s) /\ Registered(s) \subseteq Thread
  BY DEF Registered
<1>3. IsFiniteSet(Registered(s))
  BY <1>2, SockAssumption, FS_Subset
<1>4. Cardinality(Registered(s)) # 0
  BY <1>2, <1>3, FS_EmptySet
<1> QED
  BY <1>1, <1>4 DEF Counted

\* The event of an open socket goes to all whose select_cb is on the list.
LEMMA EventOfIs ==
  ASSUME SockTypes, ListRight, EventsRight, NEW a \in Actor, ~Running(a), NEW s \in Socket, conn[s] = "open",
         NEW delta \in Int, EventOf(a, s, delta), select_cb_list' = select_cb_list
  PROVE  /\ rcvevent' = [rcvevent EXCEPT ![s] = rcvevent[s] + delta] /\ early' = early
         /\ event' \in [Actor -> Events] /\ \A b \in Actor : Standing(b)'
         /\ \A b \in Actor \ {a} : event'[b] = event[b]
         /\ signalled' \in [Thread -> BOOLEAN] /\ sem' \in [Thread -> Nat]
         /\ \A u \in Thread : signalled[u] = TRUE => signalled'[u] = TRUE
         /\ \A u, x : Coming(u, x) => Coming(u, x)'
         /\ \A u \in Thread :
              /\ call[u].pc \in Enlisted /\ s \in call[u].set
              /\ select_waiting[s] # 0 /\ rcvevent[s] + delta > 0
              => signalled'[u] = TRUE \/ Coming(u, s)'
<1>1. rcvevent' = [rcvevent EXCEPT ![s] = rcvevent[s] + delta] /\ early' = early
  BY DEF EventOf
<1>2. CASE select_waiting[s] = 0 \/ select_cb_list = << >>
  <2>1. event' = event /\ signalled' = signalled /\ sem' = sem
    BY <1>2 DEF EventOf, Unwaited
  <2>2. ASSUME NEW u \in Thread, call[u].pc \in Enlisted, select_waiting[s] # 0 PROVE FALSE
    <3>1. Lists(select_cb_list, u)
      BY <2>2 DEF ListRight
    <3> QED
      BY <1>2, <2>2, <3>1 DEF Lists
  <2>3. \A b \in Actor : Standing(b)'
    BY <2>1 DEF EventsRight, Standing, Running
  <2>4. \A u, x : Coming(u, x) => Coming(u, x)'
    BY <2>1, ComesStill
  <2> QED
    BY <1>1, <2>1, <2>2, <2>3, <2>4 DEF SockTypes
<1>3. CASE select_waiting[s] # 0 /\ select_cb_list # << >>
  <2>1. PICK e : e = [s |-> s, scb |-> tcpip, stale |-> TRUE]
    OBVIOUS
  <2>2. e \in Events /\ e.stale = TRUE
    BY <2>1 DEF Events, Actor
  <2>3. PICK list : list = Following(select_cb_list, e) /\ list = select_cb_list
    BY <2>2 DEF Following, Again
  <2>4. PICK n \in Int : n = rcvevent[s] + delta
    BY DEF SockTypes
  <2>5. LookAt(a, Head(list), s, n)
    BY <1>3, <2>3, <2>4 DEF EventOf, Unwaited
  <2>6. /\ event' \in [Actor -> Events] /\ \A b \in Actor : Standing(b)'
        /\ \A b \in Actor \ {a} : event'[b] = event[b]
        /\ signalled' \in [Thread -> BOOLEAN] /\ sem' \in [Thread -> Nat]
        /\ \A u \in Thread : signalled[u] = TRUE => signalled'[u] = TRUE
        /\ \A u \in Thread :
             n > 0 /\ s \in call[u].set /\ u \in Range(list) => signalled'[u] = TRUE \/ Coming(u, s)'
    <3>1. list # << >> /\ (e.stale = FALSE => Lists(select_cb_list, e.scb))
      BY <1>3, <2>2, <2>3
    <3> QED
      BY <2>2, <2>3, <2>5, <3>1, Delivers
  <2>7. \A u \in Thread : call[u].pc \in Enlisted => u \in Range(list)
    BY <2>2, <2>3, AwaitedIs
  <2>8. \A u, x : Coming(u, x) => Coming(u, x)'
    BY <2>6, ComesFrom
  <2> QED
    BY <1>1, <2>4, <2>6, <2>7, <2>8
<1> QED
  BY <1>1, <1>2, <1>3

LEMMA RecvUdpKeeps ==
  ASSUME SockIInv, NEW s \in Socket, recv_udp(s)
  PROVE  SockIInv'
<1>0. SockTypes /\ UsesRight /\ ListRight /\ EventsRight /\ Counted
  BY DEF SockIInv
<1>1. UNCHANGED <<conn, early, rcvevent, select_waiting, select_cb_list, signalled, sem, call, event>>
  BY DEF recv_udp
<1>2. mail' = [mail EXCEPT ![s] = mail[s] + 1] /\ posted' = s /\ posted = NoSocket /\ ~Running(tcpip)
  BY DEF recv_udp, TcpipReady
<1>3. mail' \in [Socket -> Nat] /\ \A x \in Socket : mail'[x] = IF x = s THEN mail[x] + 1 ELSE mail[x]
  BY <1>0, <1>2 DEF SockTypes
<1>4. \A x \in Socket : x # NoSocket
  BY SockAssumption DEF NoSocket
<1>5. SockTypes'
  BY <1>0, <1>1, <1>2, <1>3 DEF SockTypes
<1>6. UsesRight' /\ ListRight'
  BY <1>0, <1>1 DEF UsesRight, Fits, Separate, ListRight
<1>7. EventsRight'
  BY <1>0, <1>1, <1>2 DEF EventsRight, Standing, Running
<1>8. Counted'
  <2> SUFFICES ASSUME NEW x \in Socket, conn[x] = "open"
               PROVE  /\ rcvevent[x] = mail'[x] + Cardinality(Taking(x))' - (IF posted' = x THEN 1 ELSE 0)
                      /\ select_waiting[x] = Cardinality(Registered(x))'
    BY <1>1 DEF Counted
  <2>1. /\ rcvevent[x] = mail[x] + Cardinality(Taking(x)) - (IF posted = x THEN 1 ELSE 0)
        /\ select_waiting[x] = Cardinality(Registered(x))
    BY <1>0 DEF Counted
  <2>2. /\ Cardinality(Taking(x)) \in Nat /\ Cardinality(Taking(x))' = Cardinality(Taking(x))
        /\ Cardinality(Registered(x))' = Cardinality(Registered(x))
    BY <1>0, <1>1, CountsAlike
  <2>3. mail[x] \in Nat
    BY <1>0 DEF SockTypes
  <2> QED
    BY <1>2, <1>3, <1>4, <2>1, <2>2, <2>3
<1>9. ASSUME NEW x \in Socket PROVE Told(x)'
  <2>1. Told(x) /\ mail[x] \in Nat /\ early[x] \in Nat
    BY <1>0 DEF SockIInv, SockTypes
  <2>2. JustPosted(x)' = (IF x = s THEN 1 ELSE 0) /\ JustPosted(x) = 0
    BY <1>2, <1>4 DEF JustPosted
  <2>3. conn[s] \notin {"none", "closing"}
    BY DEF recv_udp
  <2> QED
    BY <1>1, <1>2, <1>3, <2>1, <2>2, <2>3 DEF Told
<1>10. ASSUME NEW u \in Thread PROVE Alerted(u)'
  <2>1. \A x \in call[u].set : (Readable(x)' => Readable(x)) /\ (Coming(u, x) => Coming(u, x)')
    BY <1>1, ComesStill DEF Readable
  <2>2. Alerted(u)
    BY DEF SockIInv
  <2> QED
    BY <1>0, <1>1, <2>1, <2>2, StaysAlert
<1> QED
  BY <1>5, <1>6, <1>7, <1>8, <1>9, <1>10 DEF SockIInv

LEMMA PostedKeeps ==
  ASSUME SockIInv, Posted
  PROVE  SockIInv'
<1>0. SockTypes /\ UsesRight /\ ListRight /\ EventsRight /\ Counted
  BY DEF SockIInv
<1>1. UNCHANGED <<conn, mail, select_waiting, select_cb_list, call>> /\ posted' = NoSocket
  BY DEF Posted
<1>2. PICK s \in Socket : s = posted
  BY <1>0 DEF Posted, SockTypes
<1>3. EventOf(tcpip, s, 1) /\ ~Running(tcpip) /\ tcpip \in Actor
  BY <1>0, <1>2 DEF Posted, EventsRight, Actor
<1>4. \A x \in Socket : x # NoSocket
  BY SockAssumption DEF NoSocket
<1>5. UsesRight' /\ ListRight'
  BY <1>0, <1>1 DEF UsesRight, Fits, Separate, ListRight
<1>6. \A x \in Socket : JustPosted(x)' = 0 /\ JustPosted(x) = IF x = s THEN 1 ELSE 0
  BY <1>1, <1>2, <1>4 DEF JustPosted
<1>7. ASSUME NEW x \in Socket
      PROVE  /\ mail[x] \in Nat /\ early[x] \in Nat /\ rcvevent[x] \in Int
             /\ Cardinality(Taking(x)) \in Nat /\ Cardinality(Taking(x))' = Cardinality(Taking(x))
             /\ Cardinality(Registered(x))' = Cardinality(Registered(x))
             /\ conn[x] = "open" =>
                  /\ rcvevent[x] = mail[x] + Cardinality(Taking(x)) - (IF x = s THEN 1 ELSE 0)
                  /\ select_waiting[x] = Cardinality(Registered(x))
  <2>1. /\ Cardinality(Taking(x)) \in Nat /\ Cardinality(Taking(x))' = Cardinality(Taking(x))
        /\ Cardinality(Registered(x))' = Cardinality(Registered(x))
    BY <1>0, <1>1, CountsAlike
  <2>2. conn[x] = "open" =>
          /\ rcvevent[x] = mail[x] + Cardinality(Taking(x)) - (IF x = s THEN 1 ELSE 0)
          /\ select_waiting[x] = Cardinality(Registered(x))
    BY <1>0, <1>2 DEF Counted
  <2> QED
    BY <1>0, <2>1, <2>2 DEF SockTypes
<1>8. CASE conn[s] # "open"
  <2>1. early' = [early EXCEPT ![s] = early[s] + 1] /\ UNCHANGED <<rcvevent, event, signalled, sem>>
    BY <1>3, <1>8 DEF EventOf
  <2>2. early' \in [Socket -> Nat] /\ \A x \in Socket : early'[x] = IF x = s THEN early[x] + 1 ELSE early[x]
    BY <1>0, <2>1 DEF SockTypes
  <2>3. SockTypes'
    BY <1>0, <1>1, <2>1, <2>2 DEF SockTypes
  <2>4. EventsRight'
    BY <1>0, <1>1, <2>1, EventsStay
  <2>5. Counted'
    <3>1. ASSUME NEW x \in Socket, conn[x] = "open"
          PROVE  /\ rcvevent[x] = mail[x] + Cardinality(Taking(x))' - 0
                 /\ select_waiting[x] = Cardinality(Registered(x))'
      BY <1>7, <1>8, <3>1
    <3> QED
      BY <1>1, <1>4, <2>1, <3>1 DEF Counted
  <2>6. ASSUME NEW x \in Socket PROVE Told(x)'
    <3>1. Told(x) /\ Told(s)
      BY DEF SockIInv
    <3>2. conn[s] \notin {"none", "closing"}
      BY <1>2, <3>1 DEF Told
    <3> QED
      BY <1>1, <1>4, <1>6, <1>7, <1>8, <2>1, <2>2, <3>1, <3>2 DEF Told
  <2>7. ASSUME NEW u \in Thread PROVE Alerted(u)'
    <3>1. \A x \in call[u].set : (Readable(x)' => Readable(x)) /\ (Coming(u, x) => Coming(u, x)')
      BY <1>1, <2>1, ComesStill DEF Readable
    <3>2. Alerted(u)
      BY DEF SockIInv
    <3> QED
      BY <1>0, <1>1, <2>1, <3>1, <3>2, StaysAlert
  <2> QED
    BY <1>5, <2>3, <2>4, <2>5, <2>6, <2>7 DEF SockIInv
<1>9. CASE conn[s] = "open"
  <2>1. /\ rcvevent' = [rcvevent EXCEPT ![s] = rcvevent[s] + 1] /\ early' = early
        /\ event' \in [Actor -> Events] /\ \A b \in Actor : Standing(b)'
        /\ signalled' \in [Thread -> BOOLEAN] /\ sem' \in [Thread -> Nat]
        /\ \A u \in Thread : signalled[u] = TRUE => signalled'[u] = TRUE
        /\ \A u, x : Coming(u, x) => Coming(u, x)'
        /\ \A u \in Thread :
             /\ call[u].pc \in Enlisted /\ s \in call[u].set
             /\ select_waiting[s] # 0 /\ rcvevent[s] + 1 > 0
             => signalled'[u] = TRUE \/ Coming(u, s)'
    <3>1. PICK d \in Int : d = 1
      OBVIOUS
    <3>2. EventOf(tcpip, s, d) /\ select_cb_list' = select_cb_list
      BY <1>1, <1>3, <3>1
    <3>3. /\ rcvevent' = [rcvevent EXCEPT ![s] = rcvevent[s] + d] /\ early' = early
          /\ event' \in [Actor -> Events] /\ \A b \in Actor : Standing(b)'
          /\ \A b \in Actor \ {tcpip} : event'[b] = event[b]
          /\ signalled' \in [Thread -> BOOLEAN] /\ sem' \in [Thread -> Nat]
          /\ \A u \in Thread : signalled[u] = TRUE => signalled'[u] = TRUE
          /\ \A u, x : Coming(u, x) => Coming(u, x)'
          /\ \A u \in Thread :
               /\ call[u].pc \in Enlisted /\ s \in call[u].set
               /\ select_waiting[s] # 0 /\ rcvevent[s] + d > 0
               => signalled'[u] = TRUE \/ Coming(u, s)'
      BY <1>0, <1>3, <1>9, <3>2, EventOfIs
    <3> QED
      BY <3>1, <3>3
  <2>2. rcvevent' \in [Socket -> Int]
        /\ \A x \in Socket : rcvevent'[x] = IF x = s THEN rcvevent[x] + 1 ELSE rcvevent[x]
    BY <1>0, <2>1 DEF SockTypes
  <2>3. SockTypes'
    BY <1>0, <1>1, <2>1, <2>2 DEF SockTypes
  <2>4. EventsRight'
    BY <1>1, <2>1 DEF EventsRight
  <2>5. Counted'
    <3>1. ASSUME NEW x \in Socket, conn[x] = "open"
          PROVE  /\ rcvevent'[x] = mail[x] + Cardinality(Taking(x))' - 0
                 /\ select_waiting[x] = Cardinality(Registered(x))'
      BY <1>7, <2>2, <3>1
    <3> QED
      BY <1>1, <1>4, <3>1 DEF Counted
  <2>6. ASSUME NEW x \in Socket PROVE Told(x)'
    <3>1. Told(x)
      BY DEF SockIInv
    <3> QED
      BY <1>1, <1>4, <1>6, <1>7, <1>9, <2>1, <2>2, <3>1 DEF Told
  <2>7. ASSUME NEW u \in Thread PROVE Alerted(u)'
    <3> SUFFICES ASSUME call[u].pc = "wait" \/ (call[u].pc = "scan2" /\ call[u].ready = {}),
                        signalled'[u] # TRUE, NEW x \in Looked(u), Readable(x)'
                 PROVE  Coming(u, x)'
      BY <1>1 DEF Alerted, Looked
    <3>1. call[u].pc \in Enlisted /\ x \in call[u].set
      BY DEF Enlisted, Looked
    <3>2. x \in Socket
      BY <1>0, <3>1, CallIs
    <3>3. CASE x = s
      <4>1. select_waiting[s] # 0
        BY <1>0, <1>9, <3>1, <3>3, WaitedFor
      <4>2. rcvevent[s] + 1 > 0
        BY <2>2, <3>2, <3>3 DEF Readable
      <4> QED
        BY <2>1, <3>1, <3>3, <4>1, <4>2
    <3>4. CASE x # s
      <4>1. Readable(x)
        BY <2>2, <3>2, <3>4 DEF Readable
      <4>2. Coming(u, x)
        BY <2>1, <4>1 DEF SockIInv, Alerted
      <4> QED
        BY <2>1, <4>2
    <3> QED
      BY <3>3, <3>4
  <2> QED
    BY <1>5, <2>3, <2>4, <2>5, <2>6, <2>7 DEF SockIInv
<1> QED
  BY <1>8, <1>9

LEMMA ReceivedKeeps ==
  ASSUME SockIInv, NEW t \in Thread, Received(t)
  PROVE  SockIInv'
<1>0. SockTypes /\ UsesRight /\ ListRight /\ EventsRight /\ Counted
  BY DEF SockIInv
<1>1. UNCHANGED <<conn, mail, select_waiting, select_cb_list, posted>> /\ Returns(t)
  BY DEF Received
<1>2. call[t].pc = "received" /\ ~Running(t) /\ Fits(call[t], conn)
  BY <1>0 DEF Received, Does, UsesRight
<1>3. PICK s \in Socket : call[t].set = {s} /\ conn[s] = "open"
  BY <1>2 DEF Fits
<1>4. EventOf(t, s, -1) /\ t \in Actor /\ -1 \in Int
  BY <1>3 DEF Received, Actor
<1>5. /\ NoCall \in Calls /\ call' = [call EXCEPT ![t] = NoCall] /\ Fits(NoCall, conn)
      /\ NoCall.set = {} /\ NoCall.pc = "idle"
      /\ \A x : Takes(NoCall, x) = 0 /\ Registers(NoCall, x) = 0
      /\ Alerted(t)'
  BY <1>0, <1>1, ReturnsIs
<1>6. /\ rcvevent' = [rcvevent EXCEPT ![s] = rcvevent[s] + -1] /\ early' = early
      /\ event' \in [Actor -> Events] /\ \A b \in Actor : Standing(b)'
      /\ \A b \in Actor \ {t} : event'[b] = event[b]
      /\ signalled' \in [Thread -> BOOLEAN] /\ sem' \in [Thread -> Nat]
      /\ \A u \in Thread : signalled[u] = TRUE => signalled'[u] = TRUE
      /\ \A u, x : Coming(u, x) => Coming(u, x)'
  <2>1. PICK d \in Int : d = -1
    BY <1>4
  <2>2. EventOf(t, s, d) /\ select_cb_list' = select_cb_list
    BY <1>1, <1>4, <2>1
  <2>3. /\ rcvevent' = [rcvevent EXCEPT ![s] = rcvevent[s] + d] /\ early' = early
        /\ event' \in [Actor -> Events] /\ \A b \in Actor : Standing(b)'
        /\ \A b \in Actor \ {t} : event'[b] = event[b]
        /\ signalled' \in [Thread -> BOOLEAN] /\ sem' \in [Thread -> Nat]
        /\ \A u \in Thread : signalled[u] = TRUE => signalled'[u] = TRUE
        /\ \A u, x : Coming(u, x) => Coming(u, x)'
        /\ \A u \in Thread :
             /\ call[u].pc \in Enlisted /\ s \in call[u].set
             /\ select_waiting[s] # 0 /\ rcvevent[s] + d > 0
             => signalled'[u] = TRUE \/ Coming(u, s)'
    <3>1. t \in Actor /\ ~Running(t)
      BY <1>2, <1>4
    <3>2. s \in Socket /\ conn[s] = "open" /\ d \in Int
      BY <1>3, <2>1
    <3>3. EventOf(t, s, d) /\ select_cb_list' = select_cb_list
      BY <2>2
    <3> QED
      BY <1>0, <3>1, <3>2, <3>3, EventOfIs
  <2> QED
    BY <2>1, <2>3
<1>7. rcvevent' \in [Socket -> Int]
      /\ \A x \in Socket : rcvevent'[x] = IF x = s THEN rcvevent[x] - 1 ELSE rcvevent[x]
  BY <1>0, <1>6 DEF SockTypes
<1>8. call' \in [Thread -> Calls] /\ \A u \in Thread \ {t} : call'[u] = call[u]
  BY <1>0, <1>5 DEF SockTypes
<1>9. SockTypes'
  BY <1>0, <1>1, <1>6, <1>7, <1>8 DEF SockTypes
<1>10. UsesRight'
  BY <1>0, <1>1, <1>5, GoesOn
<1>11. ListRight'
  <2>1. NoCall.pc \in Enlisted <=> call[t].pc \in Enlisted
    BY <1>2, <1>5 DEF Enlisted
  <2> QED
    BY <1>0, <1>1, <1>5, <2>1, ListStays
<1>12. EventsRight'
  <2>1. tcpip # t /\ tcpip \in Actor
    BY SockAssumption DEF Actor
  <2>2. event'[tcpip] = event[tcpip]
    BY <1>6, <2>1
  <2> QED
    BY <1>0, <1>1, <1>6, <2>2 DEF EventsRight, Running
<1>13. Counted'
  <2> SUFFICES ASSUME NEW x \in Socket, conn[x] = "open"
               PROVE  /\ rcvevent'[x] = mail[x] + Cardinality(Taking(x))' - (IF posted = x THEN 1 ELSE 0)
                      /\ select_waiting[x] = Cardinality(Registered(x))'
    BY <1>1 DEF Counted
  <2>1. /\ rcvevent[x] = mail[x] + Cardinality(Taking(x)) - (IF posted = x THEN 1 ELSE 0)
        /\ select_waiting[x] = Cardinality(Registered(x))
    BY <1>0 DEF Counted
  <2>2. /\ Cardinality(Taking(x)) \in Nat
        /\ Cardinality(Taking(x))' = Cardinality(Taking(x)) + Takes(NoCall, x) - Takes(call[t], x)
        /\ Cardinality(Registered(x)) \in Nat
        /\ Cardinality(Registered(x))'
             = Cardinality(Registered(x)) + Registers(NoCall, x) - Registers(call[t], x)
    BY <1>0, <1>5, Counting
  <2>3. Takes(call[t], x) = (IF x = s THEN 1 ELSE 0) /\ Registers(call[t], x) = 0
    BY <1>2, <1>3 DEF Takes, Registers
  <2>4. mail[x] \in Nat
    BY <1>0 DEF SockTypes
  <2>5. PICK p \in Int : p = IF posted = x THEN 1 ELSE 0
    OBVIOUS
  <2>6. Cardinality(Taking(x))' = Cardinality(Taking(x)) - (IF x = s THEN 1 ELSE 0)
        /\ Cardinality(Registered(x))' = Cardinality(Registered(x))
    BY <1>5, <2>2, <2>3
  <2> QED
    BY <1>7, <2>1, <2>2, <2>4, <2>5, <2>6
<1>14. ASSUME NEW x \in Socket PROVE Told(x)'
  <2>1. Told(x)
    BY DEF SockIInv
  <2> QED
    BY <1>1, <1>3, <1>6, <1>7, <2>1 DEF Told, JustPosted
<1>15. ASSUME NEW u \in Thread, u # t PROVE Alerted(u)'
  <2>1. ASSUME NEW x \in call[u].set PROVE Readable(x)' => Readable(x)
    <3>1. x \in Socket
      BY <1>0, CallIs
    <3>2. rcvevent[x] \in Int
      BY <1>0, <3>1 DEF SockTypes
    <3> QED
      BY <1>7, <3>1, <3>2 DEF Readable
  <2>2. Alerted(u)
    BY DEF SockIInv
  <2> QED
    BY <1>0, <1>6, <1>8, <1>15, <2>1, <2>2, StaysAlert
<1>16. \A u \in Thread : Alerted(u)'
  BY <1>5, <1>15
<1> QED
  BY <1>9, <1>10, <1>11, <1>12, <1>13, <1>14, <1>16 DEF SockIInv

-----------------------------------------------------------------------------
\* A step of one thread that makes, opens or closes the sockets S, which nobody else uses.
LEMMA ConnStep ==
  ASSUME SockIInv, NEW t \in Thread, NEW c \in Calls, call' = [call EXCEPT ![t] = c],
         NEW S \in SUBSET Socket, \A u \in Thread \ {t} : call[u].set \cap S = {},
         conn' \in [Socket -> States], early' \in [Socket -> Nat], mail' \in [Socket -> Nat],
         rcvevent' \in [Socket -> Int], select_waiting' \in [Socket -> Int],
         \A x \in Socket \ S :
           /\ conn'[x] = conn[x] /\ early'[x] = early[x] /\ mail'[x] = mail[x]
           /\ rcvevent'[x] = rcvevent[x] /\ select_waiting'[x] = select_waiting[x]
           /\ Takes(c, x) = Takes(call[t], x) /\ Registers(c, x) = Registers(call[t], x),
         UNCHANGED <<select_cb_list, signalled, sem, event, posted>>,
         Fits(c, conn'), \A x \in c.set : x \in call[t].set \/ x \in S,
         c.pc \in Enlisted <=> call[t].pc \in Enlisted, c.pc \notin {"scan2", "wait"},
         \A x \in S : Told(x)',
         \A x \in S : conn'[x] = "open" =>
           /\ rcvevent'[x] = mail'[x] + Cardinality(Taking(x))' - (IF posted = x THEN 1 ELSE 0)
           /\ select_waiting'[x] = Cardinality(Registered(x))'
  PROVE  SockIInv'
<1>0. SockTypes /\ UsesRight /\ ListRight /\ EventsRight /\ Counted
  BY DEF SockIInv
<1>1. call' \in [Thread -> Calls] /\ call'[t] = c /\ \A u \in Thread \ {t} : call'[u] = call[u]
  BY <1>0 DEF SockTypes
<1>2. SockTypes'
  BY <1>0, <1>1 DEF SockTypes
<1>3. UsesRight'
  <2>1. \A u \in Thread : call[u].set \subseteq Socket
    BY <1>0, CallIs
  <2>2. ASSUME NEW u \in Thread, u # t PROVE Fits(call'[u], conn')
    <3>1. PICK d : d = call[u] /\ d = call'[u]
      BY <1>1, <2>2
    <3>2. Fits(d, conn)
      BY <1>0, <3>1 DEF UsesRight
    <3>3. \A x \in d.set : conn'[x] = conn[x]
      BY <2>1, <2>2, <3>1
    <3>4. Fits(d, conn')
      BY <3>2, <3>3 DEF Fits
    <3> QED
      BY <3>1, <3>4
  <2>3. ASSUME NEW u \in Thread, u # t, NEW x \in c.set \cap call[u].set PROVE conn'[x] = "open"
    <3>1. x \notin S /\ x \in Socket
      BY <2>1, <2>3
    <3>2. x \in call[t].set /\ Separate(t, u)
      BY <1>0, <2>3, <3>1 DEF UsesRight
    <3>3. conn[x] = "open"
      BY <2>3, <3>2 DEF Separate
    <3> QED
      BY <3>1, <3>3
  <2>4. ASSUME NEW u \in Thread, u # t, NEW v \in Thread \ {u}, v # t, NEW x \in call[u].set \cap call[v].set
        PROVE  conn'[x] = "open"
    <3>1. x \notin S /\ x \in Socket
      BY <2>1, <2>4
    <3>2. Separate(u, v)
      BY <1>0, <2>4 DEF UsesRight
    <3> QED
      BY <2>4, <3>1, <3>2 DEF Separate
  <2>5. ASSUME NEW u \in Thread, NEW v \in Thread \ {u} PROVE Separate(u, v)'
    <3>1. CASE u = t
      BY <1>1, <2>3, <2>5, <3>1 DEF Separate
    <3>2. CASE v = t
      BY <1>1, <2>3, <2>5, <3>2 DEF Separate
    <3>3. CASE u # t /\ v # t
      BY <1>1, <2>4, <2>5, <3>3 DEF Separate
    <3> QED
      BY <3>1, <3>2, <3>3
  <2>6. \A u \in Thread : Fits(call'[u], conn')
    BY <1>1, <2>2
  <2> QED
    BY <2>5, <2>6 DEF UsesRight
<1>4. ListRight'
  BY <1>0, ListStays
<1>5. EventsRight'
  BY <1>0, EventsStay
<1>6. Counted'
  <2> SUFFICES ASSUME NEW x \in Socket, conn'[x] = "open"
               PROVE  /\ rcvevent'[x] = mail'[x] + Cardinality(Taking(x))' - (IF posted = x THEN 1 ELSE 0)
                      /\ select_waiting'[x] = Cardinality(Registered(x))'
    BY DEF Counted
  <2>1. CASE x \in S
    BY <2>1
  <2>2. CASE x \notin S
    <3>1. /\ Cardinality(Taking(x)) \in Nat
          /\ Cardinality(Taking(x))' = Cardinality(Taking(x)) + Takes(c, x) - Takes(call[t], x)
          /\ Cardinality(Registered(x)) \in Nat
          /\ Cardinality(Registered(x))'
               = Cardinality(Registered(x)) + Registers(c, x) - Registers(call[t], x)
      BY <1>0, Counting, ZenonT(60)
    <3>2. Takes(c, x) \in Int /\ Registers(c, x) \in Int
      BY DEF Takes, Registers
    <3>3. Cardinality(Taking(x))' = Cardinality(Taking(x)) /\ Cardinality(Registered(x))' = Cardinality(Registered(x))
      BY <2>2, <3>1, <3>2
    <3>4. conn[x] = "open" =>
            /\ rcvevent[x] = mail[x] + Cardinality(Taking(x)) - (IF posted = x THEN 1 ELSE 0)
            /\ select_waiting[x] = Cardinality(Registered(x))
      BY <1>0 DEF Counted
    <3> QED
      BY <2>2, <3>3, <3>4
  <2> QED
    BY <2>1, <2>2
<1>7. ASSUME NEW x \in Socket PROVE Told(x)'
  <2>1. CASE x \in S
    BY <2>1
  <2>2. CASE x \notin S
    <3>1. Told(x)
      BY DEF SockIInv
    <3> QED
      BY <2>2, <3>1 DEF Told, JustPosted
  <2> QED
    BY <2>1, <2>2
<1>8. ASSUME NEW u \in Thread PROVE Alerted(u)'
  <2>1. CASE u = t
    BY <1>1, <2>1, NotAlert
  <2>2. CASE u # t
    <3>1. ASSUME NEW x \in call[u].set PROVE Readable(x)' => Readable(x)
      <4>1. x \in Socket \ S
        BY <1>0, <2>2, CallIs
      <4> QED
        BY <4>1 DEF Readable
    <3>2. Alerted(u) /\ \A x \in call[u].set : Coming(u, x) => Coming(u, x)'
      BY ComesStill DEF SockIInv
    <3> QED
      BY <1>0, <1>1, <2>2, <3>1, <3>2, StaysAlert
  <2> QED
    BY <2>1, <2>2
<1> QED
  BY <1>2, <1>3, <1>4, <1>5, <1>6, <1>7, <1>8 DEF SockIInv

\* A socket that is not open is in the call of nobody else.
LEMMA Nobodys ==
  ASSUME SockTypes, UsesRight, NEW t \in Thread, NEW s \in call[t].set, conn[s] # "open"
  PROVE  \A u \in Thread \ {t} : s \notin call[u].set
  BY DEF UsesRight, Separate

LEMMA AcceptKeeps ==
  ASSUME SockIInv, NEW t \in Thread, NEW s \in Socket, lwip_accept(t, s)
  PROVE  SockIInv'
<1>0. SockTypes /\ UsesRight
  BY DEF SockIInv
<1>1. call[t].pc = "idle" /\ conn[s] = "pending"
  BY DEF lwip_accept, Does
<1>2. PICK pc \in Steps, k \in States : pc = "accept" /\ k = "claimed"
  BY DEF Steps, States
<1>3. PICK set \in SUBSET Socket : set = {s}
  OBVIOUS
<1>4. PICK c : c = [NoCall EXCEPT !.pc = pc, !.set = set]
  OBVIOUS
<1>5. c \in Calls /\ c.pc = "accept" /\ c.set = {s} /\ c.todo = {}
  <2>1. PICK n \in Calls : n = NoCall /\ n.todo = {}
    BY NoCallIs
  <2>2. c = [n EXCEPT !.pc = pc, !.set = set]
    BY <1>4, <2>1
  <2> QED
    BY <1>2, <1>3, <2>1, <2>2 DEF Calls
<1>6. call' = [call EXCEPT ![t] = c]
  <2>1. call' = [call EXCEPT ![t] = [NoCall EXCEPT !.pc = "accept", !.set = {s}]]
    BY DEF lwip_accept
  <2> QED
    BY <1>2, <1>3, <1>4, <2>1
<1>7. conn' = [conn EXCEPT ![s] = k]
  BY <1>2 DEF lwip_accept
<1>8. conn' \in [Socket -> States] /\ \A x \in Socket : conn'[x] = IF x = s THEN k ELSE conn[x]
  BY <1>0, <1>7 DEF SockTypes
<1>9. UNCHANGED <<early, mail, rcvevent, select_waiting, select_cb_list, signalled, sem, event, posted>>
  BY DEF lwip_accept
<1>10. /\ early' \in [Socket -> Nat] /\ mail' \in [Socket -> Nat]
       /\ rcvevent' \in [Socket -> Int] /\ select_waiting' \in [Socket -> Int]
  BY <1>0, <1>9 DEF SockTypes
<1>11. \A u \in Thread : s \notin call[u].set
  <2>1. ASSUME NEW u \in Thread PROVE s \notin call[u].set
    <3>1. Fits(call[u], conn) /\ call[u].pc \in Steps
      BY <1>0, CallIs DEF UsesRight
    <3> QED
      BY <1>1, <3>1 DEF Fits, Steps
  <2> QED
    BY <2>1
<1>12. PICK S \in SUBSET Socket : S = {s}
  OBVIOUS
<1>13. \A u \in Thread \ {t} : call[u].set \cap S = {}
  BY <1>11, <1>12
<1>14. \A x \in Socket : /\ Takes(c, x) = 0 /\ Takes(call[t], x) = 0
                         /\ Registers(c, x) = 0 /\ Registers(call[t], x) = 0
  BY <1>1, <1>5 DEF Takes, Registers
<1>15. \A x \in Socket \ S :
         /\ conn'[x] = conn[x] /\ early'[x] = early[x] /\ mail'[x] = mail[x]
         /\ rcvevent'[x] = rcvevent[x] /\ select_waiting'[x] = select_waiting[x]
         /\ Takes(c, x) = Takes(call[t], x) /\ Registers(c, x) = Registers(call[t], x)
  BY <1>8, <1>9, <1>12, <1>14
<1>16. Fits(c, conn')
  <2>1. "accept" \notin Selects
    BY DEF Selects, Enlisted, Scans
  <2> QED
    BY <1>2, <1>5, <1>8, <2>1 DEF Fits
<1>17. /\ \A x \in c.set : x \in call[t].set \/ x \in S
       /\ c.pc \in Enlisted <=> call[t].pc \in Enlisted
       /\ c.pc \notin {"scan2", "wait"}
  BY <1>1, <1>5, <1>12 DEF Enlisted
<1>18. \A x \in S : Told(x)'
  <2>1. Told(s)
    BY DEF SockIInv
  <2>2. Told(s)'
    BY <1>1, <1>2, <1>8, <1>9, <2>1 DEF Told, JustPosted
  <2> QED
    BY <1>12, <2>2
<1>19. \A x \in S : conn'[x] # "open"
  BY <1>2, <1>8, <1>12
<1> QED
  BY <1>5, <1>6, <1>8, <1>9, <1>10, <1>13, <1>15, <1>16, <1>17, <1>18, <1>19, ConnStep, ZenonT(60)

LEMMA CloseKeeps ==
  ASSUME SockIInv, NEW t \in Thread, NEW s \in Socket, lwip_close(t, s)
  PROVE  SockIInv'
<1>0. SockTypes /\ UsesRight
  BY DEF SockIInv
<1>1. call[t].pc = "idle" /\ conn[s] = "open" /\ posted = NoSocket /\ s # NoSocket
  BY SockAssumption DEF lwip_close, Does, TcpipReady, NoSocket
<1>2. PICK pc \in Steps, k \in States : pc = "close" /\ k = "closing"
  BY DEF Steps, States
<1>3. PICK set \in SUBSET Socket : set = {s}
  OBVIOUS
<1>4. PICK c : c = [NoCall EXCEPT !.pc = pc, !.set = set]
  OBVIOUS
<1>5. c \in Calls /\ c.pc = "close" /\ c.set = {s} /\ c.todo = {}
  <2>1. PICK n \in Calls : n = NoCall /\ n.todo = {}
    BY NoCallIs
  <2>2. c = [n EXCEPT !.pc = pc, !.set = set]
    BY <1>4, <2>1
  <2> QED
    BY <1>2, <1>3, <2>1, <2>2 DEF Calls
<1>6. call' = [call EXCEPT ![t] = c]
  <2>1. call' = [call EXCEPT ![t] = [NoCall EXCEPT !.pc = "close", !.set = {s}]]
    BY DEF lwip_close
  <2> QED
    BY <1>2, <1>3, <1>4, <2>1
<1>7. conn' = [conn EXCEPT ![s] = k] /\ mail' = [mail EXCEPT ![s] = 0]
      /\ rcvevent' = [rcvevent EXCEPT ![s] = rcvevent[s] + 1]
  BY <1>2 DEF lwip_close
<1>8. /\ conn' \in [Socket -> States] /\ \A x \in Socket : conn'[x] = IF x = s THEN k ELSE conn[x]
      /\ mail' \in [Socket -> Nat] /\ \A x \in Socket : mail'[x] = IF x = s THEN 0 ELSE mail[x]
      /\ rcvevent' \in [Socket -> Int] /\ \A x \in Socket : x # s => rcvevent'[x] = rcvevent[x]
  BY <1>0, <1>7 DEF SockTypes
<1>9. UNCHANGED <<early, select_waiting, select_cb_list, signalled, sem, event, posted>>
  BY DEF lwip_close
<1>10. early' \in [Socket -> Nat] /\ select_waiting' \in [Socket -> Int]
  BY <1>0, <1>9 DEF SockTypes
<1>11. \A u \in Thread \ {t} : s \notin call[u].set
  BY DEF lwip_close, Unused
<1>12. PICK S \in SUBSET Socket : S = {s}
  OBVIOUS
<1>13. \A u \in Thread \ {t} : call[u].set \cap S = {}
  BY <1>11, <1>12
<1>14. \A x \in Socket : /\ Takes(c, x) = 0 /\ Takes(call[t], x) = 0
                         /\ Registers(c, x) = 0 /\ Registers(call[t], x) = 0
  BY <1>1, <1>5 DEF Takes, Registers
<1>15. \A x \in Socket \ S :
         /\ conn'[x] = conn[x] /\ early'[x] = early[x] /\ mail'[x] = mail[x]
         /\ rcvevent'[x] = rcvevent[x] /\ select_waiting'[x] = select_waiting[x]
         /\ Takes(c, x) = Takes(call[t], x) /\ Registers(c, x) = Registers(call[t], x)
  BY <1>8, <1>9, <1>12, <1>14
<1>16. Fits(c, conn')
  <2>1. "close" \notin Selects
    BY DEF Selects, Enlisted, Scans
  <2> QED
    BY <1>2, <1>5, <1>8, <2>1 DEF Fits
<1>17. /\ \A x \in c.set : x \in call[t].set \/ x \in S
       /\ c.pc \in Enlisted <=> call[t].pc \in Enlisted
       /\ c.pc \notin {"scan2", "wait"}
  BY <1>1, <1>5, <1>12 DEF Enlisted
<1>18. \A x \in S : Told(x)'
  <2>1. Told(s)
    BY DEF SockIInv
  <2>2. Told(s)'
    BY <1>1, <1>2, <1>8, <1>9, <2>1 DEF Told, JustPosted
  <2> QED
    BY <1>12, <2>2
<1>19. \A x \in S : conn'[x] # "open"
  BY <1>2, <1>8, <1>12
<1> QED
  BY <1>5, <1>6, <1>8, <1>9, <1>10, <1>13, <1>15, <1>16, <1>17, <1>18, <1>19, ConnStep, ZenonT(60)

LEMMA FreeSocketKeeps ==
  ASSUME SockIInv, NEW t \in Thread, free_socket(t)
  PROVE  SockIInv'
<1>0. SockTypes /\ UsesRight
  BY DEF SockIInv
<1>1. PICK S \in SUBSET Socket : S = call[t].set
  BY <1>0, CallIs
<1>2. call[t].pc = "close" /\ \A x \in S : conn[x] = "closing"
  <2>1. Fits(call[t], conn) /\ call[t].pc = "close"
    BY <1>0 DEF UsesRight, free_socket, Does
  <2> QED
    BY <1>1, <2>1 DEF Fits
<1>3. Returns(t)
  BY DEF free_socket
<1>4. /\ NoCall \in Calls /\ call' = [call EXCEPT ![t] = NoCall]
      /\ NoCall.set = {} /\ NoCall.pc = "idle" /\ NoCall.todo = {}
      /\ \A x : Takes(NoCall, x) = 0 /\ Registers(NoCall, x) = 0
  BY <1>0, <1>3, ReturnsIs, NoCallIs
<1>5. PICK k \in States : k = "none"
  BY DEF States
<1>6. conn' \in [Socket -> States] /\ \A x \in Socket : conn'[x] = IF x \in S THEN k ELSE conn[x]
  <2>1. conn' = [x \in Socket |-> IF x \in S THEN k ELSE conn[x]]
    BY <1>1, <1>5 DEF free_socket
  <2> QED
    BY <1>0, <2>1 DEF SockTypes
<1>7. UNCHANGED <<early, mail, rcvevent, select_waiting, select_cb_list, signalled, sem, event, posted>>
  BY DEF free_socket
<1>8. /\ early' \in [Socket -> Nat] /\ mail' \in [Socket -> Nat]
      /\ rcvevent' \in [Socket -> Int] /\ select_waiting' \in [Socket -> Int]
  BY <1>0, <1>7 DEF SockTypes
<1>9. \A u \in Thread \ {t} : call[u].set \cap S = {}
  BY <1>0, <1>1, <1>2, Nobodys
<1>10. \A x \in Socket : Takes(call[t], x) = 0 /\ Registers(call[t], x) = 0
  BY <1>2 DEF Takes, Registers
<1>11. \A x \in Socket \ S :
         /\ conn'[x] = conn[x] /\ early'[x] = early[x] /\ mail'[x] = mail[x]
         /\ rcvevent'[x] = rcvevent[x] /\ select_waiting'[x] = select_waiting[x]
         /\ Takes(NoCall, x) = Takes(call[t], x) /\ Registers(NoCall, x) = Registers(call[t], x)
  BY <1>4, <1>6, <1>7, <1>10
<1>12. Fits(NoCall, conn')
  BY <1>4 DEF Fits
<1>13. /\ \A x \in NoCall.set : x \in call[t].set \/ x \in S
       /\ NoCall.pc \in Enlisted <=> call[t].pc \in Enlisted
       /\ NoCall.pc \notin {"scan2", "wait"}
  BY <1>2, <1>4 DEF Enlisted
<1>14. ASSUME NEW x \in S PROVE Told(x)'
  <2>1. Told(x)
    BY DEF SockIInv
  <2> QED
    BY <1>2, <1>5, <1>6, <1>7, <2>1 DEF Told, JustPosted
<1>15. \A x \in S : conn'[x] # "open"
  BY <1>5, <1>6
<1> QED
  BY <1>4, <1>6, <1>7, <1>8, <1>9, <1>11, <1>12, <1>13, <1>14, <1>15, ConnStep, ZenonT(60)

LEMMA AcceptingKeeps ==
  ASSUME SockIInv, NEW t \in Thread, Accepting(t)
  PROVE  SockIInv'
<1>0. SockTypes /\ UsesRight
  BY DEF SockIInv
<1>1. PICK s \in call[t].set :
        \/ /\ conn[s] = "claimed"
           /\ conn' = [conn EXCEPT ![s] = "reset"]
           /\ rcvevent' = [rcvevent EXCEPT ![s] = 0]
           /\ select_waiting' = [select_waiting EXCEPT ![s] = 0]
           /\ UNCHANGED <<early, call>>
        \/ /\ conn[s] = "reset"
           /\ conn' = [conn EXCEPT ![s] = "open"]
           /\ rcvevent' = [rcvevent EXCEPT ![s] = Assigned(s)]
           /\ early' = [early EXCEPT ![s] = 0]
           /\ UNCHANGED select_waiting
           /\ Returns(t)
  BY DEF Accepting
<1>2. s \in Socket /\ conn[s] # "open" /\ call[t].pc = "accept" /\ Fits(call[t], conn)
  BY <1>0, <1>1, CallIs DEF Accepting, Does, UsesRight
<1>3. PICK S \in SUBSET Socket : S = {s}
  BY <1>2
<1>4. \A u \in Thread \ {t} : s \notin call[u].set
  BY <1>0, <1>2, Nobodys
<1>5. \A u \in Thread \ {t} : call[u].set \cap S = {}
  BY <1>3, <1>4
<1>6. UNCHANGED <<mail, select_cb_list, signalled, sem, event, posted>>
  BY DEF Accepting
<1>7. \A x \in Socket : Takes(call[t], x) = 0 /\ Registers(call[t], x) = 0
  BY <1>2 DEF Takes, Registers
<1>8. Told(s) /\ mail[s] \in Nat /\ early[s] \in Nat /\ rcvevent[s] \in Int
  BY <1>0, <1>2 DEF SockIInv, SockTypes
<1>9. CASE conn[s] = "claimed"
  <2>1. PICK k \in States : k = "reset"
    BY DEF States
  <2>2. /\ conn' = [conn EXCEPT ![s] = k] /\ rcvevent' = [rcvevent EXCEPT ![s] = 0]
        /\ select_waiting' = [select_waiting EXCEPT ![s] = 0]
        /\ UNCHANGED <<early, call>>
    BY <1>1, <1>9, <2>1
  <2>3. /\ conn' \in [Socket -> States] /\ \A x \in Socket : conn'[x] = IF x = s THEN k ELSE conn[x]
        /\ rcvevent' \in [Socket -> Int] /\ \A x \in Socket : rcvevent'[x] = IF x = s THEN 0 ELSE rcvevent[x]
        /\ select_waiting' \in [Socket -> Int]
        /\ \A x \in Socket : select_waiting'[x] = IF x = s THEN 0 ELSE select_waiting[x]
    <3>0. PICK z \in Int : z = 0
      OBVIOUS
    <3>1. conn' \in [Socket -> States] /\ \A x \in Socket : conn'[x] = IF x = s THEN k ELSE conn[x]
      BY <1>0, <2>2 DEF SockTypes
    <3>2. rcvevent' \in [Socket -> Int] /\ \A x \in Socket : rcvevent'[x] = IF x = s THEN z ELSE rcvevent[x]
      BY <1>0, <2>2, <3>0 DEF SockTypes
    <3>3. /\ select_waiting' \in [Socket -> Int]
          /\ \A x \in Socket : select_waiting'[x] = IF x = s THEN z ELSE select_waiting[x]
      BY <1>0, <2>2, <3>0 DEF SockTypes
    <3> QED
      BY <3>0, <3>1, <3>2, <3>3
  <2>4. early' \in [Socket -> Nat] /\ mail' \in [Socket -> Nat]
    BY <1>0, <1>6, <2>2 DEF SockTypes
  <2>5. PICK c \in Calls : c = call[t] /\ call' = [call EXCEPT ![t] = c]
    <3>1. call[t] \in Calls
      BY <1>0, CallIs
    <3>2. call' = [call EXCEPT ![t] = call[t]]
      BY <1>0, <2>2 DEF SockTypes
    <3> QED
      BY <3>1, <3>2
  <2>6. \A x \in Socket \ S :
          /\ conn'[x] = conn[x] /\ early'[x] = early[x] /\ mail'[x] = mail[x]
          /\ rcvevent'[x] = rcvevent[x] /\ select_waiting'[x] = select_waiting[x]
          /\ Takes(c, x) = Takes(call[t], x) /\ Registers(c, x) = Registers(call[t], x)
    BY <1>3, <1>6, <2>2, <2>3, <2>5
  <2>7. Fits(c, conn')
    <3>1. "accept" \notin Selects
      BY DEF Selects, Enlisted, Scans
    <3>2. \A x \in c.set : x \in Socket
      BY <1>0, <2>5, CallIs
    <3> QED
      BY <1>2, <2>1, <2>3, <2>5, <3>1, <3>2 DEF Fits
  <2>8. /\ \A x \in c.set : x \in call[t].set \/ x \in S
        /\ c.pc \in Enlisted <=> call[t].pc \in Enlisted
        /\ c.pc \notin {"scan2", "wait"}
    BY <1>2, <2>5
  <2>9. \A x \in S : Told(x)'
    <3>1. Told(s)'
      BY <1>2, <1>6, <1>8, <1>9, <2>1, <2>2, <2>3 DEF Told, JustPosted
    <3> QED
      BY <1>3, <3>1
  <2>10. \A x \in S : conn'[x] # "open"
    BY <1>2, <1>3, <2>1, <2>3
  <2> QED
    <3>1. UNCHANGED <<select_cb_list, signalled, sem, event, posted>>
      BY <1>6
    <3>2. \A x \in S : conn'[x] = "open" =>
            /\ rcvevent'[x] = mail'[x] + Cardinality(Taking(x))' - (IF posted = x THEN 1 ELSE 0)
            /\ select_waiting'[x] = Cardinality(Registered(x))'
      BY <2>10
    <3>3. /\ conn' \in [Socket -> States] /\ rcvevent' \in [Socket -> Int]
          /\ select_waiting' \in [Socket -> Int]
      BY <2>3
    <3>4. c \in Calls /\ call' = [call EXCEPT ![t] = c]
      BY <2>5
    <3> QED
      BY <1>5, <2>4, <2>6, <2>7, <2>8, <2>9, <3>1, <3>2, <3>3, <3>4, ConnStep, ZenonT(60)
<1>10. CASE conn[s] = "reset"
  <2>1. PICK k \in States : k = "open"
    BY DEF States
  <2>2. PICK n \in Int : n = rcvevent[s] + early[s]
    BY <1>8
  <2>3. /\ conn' = [conn EXCEPT ![s] = k] /\ rcvevent' = [rcvevent EXCEPT ![s] = n]
        /\ early' = [early EXCEPT ![s] = 0] /\ UNCHANGED select_waiting /\ Returns(t)
    BY <1>1, <1>10, <2>1, <2>2 DEF Assigned, CountsEarly
  <2>4. /\ conn' \in [Socket -> States] /\ \A x \in Socket : conn'[x] = IF x = s THEN k ELSE conn[x]
        /\ rcvevent' \in [Socket -> Int] /\ \A x \in Socket : rcvevent'[x] = IF x = s THEN n ELSE rcvevent[x]
        /\ early' \in [Socket -> Nat] /\ \A x \in Socket : early'[x] = IF x = s THEN 0 ELSE early[x]
    BY <1>0, <2>3 DEF SockTypes
  <2>5. select_waiting' \in [Socket -> Int] /\ mail' \in [Socket -> Nat]
    BY <1>0, <1>6, <2>3 DEF SockTypes
  <2>6. /\ NoCall \in Calls /\ call' = [call EXCEPT ![t] = NoCall] /\ call'[t] = NoCall
        /\ NoCall.set = {} /\ NoCall.pc = "idle" /\ NoCall.todo = {}
        /\ \A x : Takes(NoCall, x) = 0 /\ Registers(NoCall, x) = 0
    BY <1>0, <2>3, ReturnsIs, NoCallIs
  <2>7. \A x \in Socket \ S :
          /\ conn'[x] = conn[x] /\ early'[x] = early[x] /\ mail'[x] = mail[x]
          /\ rcvevent'[x] = rcvevent[x] /\ select_waiting'[x] = select_waiting[x]
          /\ Takes(NoCall, x) = Takes(call[t], x) /\ Registers(NoCall, x) = Registers(call[t], x)
    BY <1>3, <1>6, <1>7, <2>3, <2>4, <2>6
  <2>8. Fits(NoCall, conn')
    BY <2>6 DEF Fits, Selects, Enlisted, Scans
  <2>9. /\ \A x \in NoCall.set : x \in call[t].set \/ x \in S
        /\ NoCall.pc \in Enlisted <=> call[t].pc \in Enlisted
        /\ NoCall.pc \notin {"scan2", "wait"}
    BY <1>2, <2>6 DEF Enlisted
  <2>10. \A x \in S : Told(x)'
    <3>1. Told(s)'
      BY <1>2, <2>1, <2>4 DEF Told
    <3> QED
      BY <1>3, <3>1
  <2>11. ASSUME NEW x \in S
         PROVE  /\ rcvevent'[x] = mail'[x] + Cardinality(Taking(x))' - (IF posted = x THEN 1 ELSE 0)
                /\ select_waiting'[x] = Cardinality(Registered(x))'
    <3>1. x = s /\ x \in Socket
      BY <1>3
    <3>2. \A u \in Thread : x \notin call'[u].set
      BY <1>0, <1>4, <2>6, <3>1 DEF SockTypes
    <3>3. Taking(x)' = {}
      BY <3>2 DEF Taking
    <3>4. Registered(x)' = {}
      <4>1. ASSUME NEW u \in Thread PROVE call'[u].todo \subseteq call'[u].set
        <5>1. CASE u = t
          BY <2>6, <5>1
        <5>2. CASE u # t
          <6>1. call'[u] = call[u] /\ Fits(call[u], conn)
            BY <1>0, <2>6, <5>2 DEF UsesRight, SockTypes
          <6> QED
            BY <6>1 DEF Fits
        <5> QED
          BY <5>1, <5>2
      <4> QED
        BY <3>2, <4>1 DEF Registered
    <3>5. Cardinality(Taking(x))' = 0 /\ Cardinality(Registered(x))' = 0
      BY <3>3, <3>4, FS_EmptySet
    <3>6. early[s] + JustPosted(s) = mail[s] /\ rcvevent[s] = 0 /\ select_waiting[s] = 0
      BY <1>8, <1>10 DEF Told
    <3> QED
      BY <1>6, <1>8, <2>2, <2>3, <2>4, <3>1, <3>5, <3>6 DEF JustPosted
  <2>12. \A x \in S : conn'[x] = "open" =>
           /\ rcvevent'[x] = mail'[x] + Cardinality(Taking(x))' - (IF posted = x THEN 1 ELSE 0)
           /\ select_waiting'[x] = Cardinality(Registered(x))'
    BY <2>11
  <2> QED
    BY <1>5, <1>6, <2>4, <2>5, <2>6, <2>7, <2>8, <2>9, <2>10, <2>12, ConnStep, ZenonT(60)
<1> QED
  BY <1>1, <1>9, <1>10

LEMMA ConnectedKeeps ==
  ASSUME SockIInv, NEW s \in Socket, Connected(s)
  PROVE  SockIInv'
<1>0. SockTypes /\ UsesRight /\ ListRight /\ EventsRight /\ Counted
  BY DEF SockIInv
<1>1. PICK k \in States : k = "pending"
  BY DEF States
<1>2. conn[s] = "none" /\ conn' = [conn EXCEPT ![s] = k]
  BY <1>1 DEF Connected
<1>3. conn' \in [Socket -> States] /\ \A x \in Socket : conn'[x] = IF x = s THEN k ELSE conn[x]
  BY <1>0, <1>2 DEF SockTypes
<1>4. UNCHANGED <<early, mail, rcvevent, select_waiting, select_cb_list, signalled, sem, call, event, posted>>
  BY DEF Connected
<1>5. SockTypes'
  BY <1>0, <1>3, <1>4 DEF SockTypes
<1>6. ASSUME NEW u \in Thread PROVE call[u].set \subseteq Socket \ {s}
  <2>1. Fits(call[u], conn) /\ call[u].pc \in Steps /\ call[u].set \subseteq Socket
    BY <1>0, CallIs DEF UsesRight
  <2>2. s \notin call[u].set
    BY <1>2, <2>1 DEF Fits, Steps
  <2> QED
    BY <2>1, <2>2
<1>7. UsesRight'
  <2>1. ASSUME NEW u \in Thread PROVE Fits(call[u], conn')
    <3>1. \A x \in call[u].set : conn'[x] = conn[x]
      BY <1>3, <1>6
    <3> QED
      BY <1>0, <3>1 DEF UsesRight, Fits
  <2>2. ASSUME NEW u \in Thread, NEW v \in Thread \ {u} PROVE Separate(u, v)'
    <3>1. Separate(u, v) /\ \A x \in call[u].set : conn'[x] = conn[x]
      BY <1>0, <1>3, <1>6 DEF UsesRight
    <3> QED
      BY <1>4, <3>1 DEF Separate
  <2> QED
    BY <1>4, <2>1, <2>2 DEF UsesRight
<1>8. ListRight' /\ EventsRight'
  BY <1>0, <1>4, EventsStay DEF ListRight
<1>9. Counted'
  <2>1. \A x \in Socket : Cardinality(Taking(x))' = Cardinality(Taking(x))
                          /\ Cardinality(Registered(x))' = Cardinality(Registered(x))
    BY <1>0, <1>4, CountsAlike
  <2>2. \A x \in Socket : conn'[x] = "open" => conn[x] = "open"
    BY <1>1, <1>3
  <2> QED
    BY <1>0, <1>4, <2>1, <2>2 DEF Counted
<1>10. ASSUME NEW x \in Socket PROVE Told(x)'
  <2>1. Told(x) /\ Told(s)
    BY DEF SockIInv
  <2>2. CASE x = s
    BY <1>1, <1>2, <1>3, <1>4, <2>1, <2>2 DEF Told, JustPosted
  <2>3. CASE x # s
    BY <1>3, <1>4, <2>1, <2>3 DEF Told, JustPosted
  <2> QED
    BY <2>2, <2>3
<1>11. ASSUME NEW u \in Thread PROVE Alerted(u)'
  <2>1. \A x \in call[u].set : (Readable(x)' => Readable(x)) /\ (Coming(u, x) => Coming(u, x)')
    BY <1>4, ComesStill DEF Readable
  <2>2. Alerted(u)
    BY DEF SockIInv
  <2> QED
    BY <1>0, <1>4, <2>1, <2>2, StaysAlert
<1> QED
  BY <1>5, <1>7, <1>8, <1>9, <1>10, <1>11 DEF SockIInv

-----------------------------------------------------------------------------
LEMMA SockInitial ==
  ASSUME SockInit
  PROVE  SockIInv
<1>1. PICK k \in States : k = "none"
  BY DEF States
<1>2. conn = [s \in Socket |-> k] /\ call = [t \in Thread |-> NoCall] /\ event = [a \in Actor |-> NoEvent]
      /\ posted = NoSocket /\ select_cb_list = << >>
  BY <1>1 DEF SockInit
<1>3. NoCall \in Calls /\ NoCall.set = {} /\ NoCall.pc = "idle" /\ NoCall.todo = {}
  BY NoCallIs
<1>4. NoEvent \in Events
  <2>1. NoEvent.s = NoSocket /\ tcpip \in Actor
    BY DEF NoEvent, Actor
  <2> QED
    BY <2>1 DEF Events, NoEvent
<1>5. SockTypes
  <2>1. << >> \in Seq(Thread)
    OBVIOUS
  <2>2. call \in [Thread -> Calls] /\ event \in [Actor -> Events] /\ conn \in [Socket -> States]
    BY <1>2, <1>3, <1>4
  <2>3. /\ early \in [Socket -> Nat] /\ mail \in [Socket -> Nat]
        /\ rcvevent \in [Socket -> Int] /\ select_waiting \in [Socket -> Int]
        /\ signalled \in [Thread -> BOOLEAN] /\ sem \in [Thread -> Nat]
    BY DEF SockInit
  <2> QED
    BY <1>2, <2>1, <2>2, <2>3 DEF SockTypes
<1>6. UsesRight
  BY <1>2, <1>3 DEF UsesRight, Fits, Separate, Selects, Enlisted, Scans
<1>7. ListRight
  <2>1. \A t \in Thread : ~Lists(select_cb_list, t)
    BY <1>2 DEF Lists
  <2>2. Distinct(select_cb_list)
    BY <1>2 DEF Distinct
  <2>3. \A t \in Thread : call[t].pc \notin Enlisted
    BY <1>2, <1>3 DEF Enlisted
  <2> QED
    BY <2>1, <2>2, <2>3 DEF ListRight
<1>8. EventsRight
  BY <1>2 DEF EventsRight, Standing, Running
<1>9. Counted /\ \A s \in Socket : Told(s)
  <2>1. \A s \in Socket : conn[s] = "none" /\ early[s] = 0 /\ mail[s] = 0 /\ posted # s
    BY <1>1, <1>2, SockAssumption DEF SockInit, NoSocket
  <2> QED
    BY <2>1 DEF Counted, Told
<1>10. \A t \in Thread : Alerted(t)
  BY <1>2, <1>3 DEF Alerted
<1> QED
  BY <1>5, <1>6, <1>7, <1>8, <1>9, <1>10 DEF SockIInv

LEMMA SockKeeps ==
  ASSUME SockIInv, [SockNext]_sockVars
  PROVE  SockIInv'
<1>1. CASE UNCHANGED sockVars
  <2>1. UNCHANGED <<conn, early, mail, rcvevent, select_waiting, select_cb_list, signalled, sem, call, event, posted>>
    BY <1>1 DEF sockVars
  <2>2. SockTypes' /\ UsesRight' /\ ListRight'
    BY <2>1 DEF SockIInv, SockTypes, UsesRight, Fits, Separate, ListRight
  <2>3. EventsRight'
    BY <2>1, EventsStay DEF SockIInv
  <2>4. Counted'
    BY <2>1 DEF SockIInv, Counted, Taking, Registered
  <2>5. \A s \in Socket : Told(s)'
    BY <2>1 DEF SockIInv, Told, JustPosted
  <2>6. ASSUME NEW u \in Thread PROVE Alerted(u)'
    <3>1. \A x \in call[u].set : (Readable(x)' => Readable(x)) /\ (Coming(u, x) => Coming(u, x)')
      BY <2>1, ComesStill DEF Readable
    <3> QED
      BY <2>1, <3>1, StaysAlert DEF SockIInv
  <2> QED
    BY <2>2, <2>3, <2>4, <2>5, <2>6 DEF SockIInv
<1>2. CASE \E a \in Actor : event_callback(a)
  BY <1>2, EventKeeps
<1>3. CASE \E s \in Socket : recv_udp(s) \/ Connected(s)
  BY <1>3, RecvUdpKeeps, ConnectedKeeps
<1>4. CASE Posted
  BY <1>4, PostedKeeps
<1>5. ASSUME NEW t \in Thread, \E set \in Sets, timed \in BOOLEAN : lwip_select(t, set, timed)
      PROVE  SockIInv'
  BY <1>5, SelectKeeps
<1>9. ASSUME NEW t \in Thread, Register(t) \/ Unregister(t) PROVE SockIInv'
  <2>1. PICK p \in Selects, q \in Selects : p = "scan2" /\ q = "unlink"
    BY DEF Selects, Enlisted
  <2>2. PICK i \in Int, j \in Int : i = 1 /\ j = -1
    OBVIOUS
  <2>3. CASE Register(t)
    <3>1. call[t].pc = "register" /\ Counts(t, i, p)
      BY <2>1, <2>2, <2>3 DEF Register, Does, AfterRegister
    <3> QED
      BY <2>1, <2>2, <3>1, CountsKeeps
  <2>4. CASE Unregister(t)
    <3>1. call[t].pc = "unregister" /\ Counts(t, j, q)
      BY <2>1, <2>2, <2>4 DEF Unregister, Does
    <3> QED
      BY <2>1, <2>2, <3>1, CountsKeeps
  <2> QED
    BY <1>9, <2>3, <2>4
<1>6. ASSUME NEW t \in Thread, lwip_selscan(t) \/ Scanned(t) \/ Link(t) \/ Register(t) \/ SelectWait(t)
      PROVE  SockIInv'
  BY <1>6, <1>9, SelscanKeeps, ScannedKeeps, LinkKeeps, SelectWaitKeeps
<1>7. ASSUME NEW t \in Thread, Unregister(t) \/ Unlink(t) \/ Received(t) \/ Accepting(t) \/ free_socket(t)
      PROVE  SockIInv'
  BY <1>7, <1>9, UnlinkKeeps, ReceivedKeeps, AcceptingKeeps, FreeSocketKeeps
<1>8. ASSUME NEW t \in Thread, NEW s \in Socket, lwip_recvfrom(t, s) \/ lwip_accept(t, s) \/ lwip_close(t, s)
      PROVE  SockIInv'
  BY <1>8, RecvfromKeeps, AcceptKeeps, CloseKeeps
<1> QED
  BY <1>1, <1>2, <1>3, <1>4, <1>5, <1>6, <1>7, <1>8 DEF SockNext

LEMMA SockIInvHolds == SockSpec => []SockIInv
<1>1. SockInit => SockIInv
  BY SockInitial
<1>2. SockIInv /\ [SockNext]_sockVars => SockIInv'
  BY SockKeeps
<1> QED
  BY <1>1, <1>2, PTL DEF SockSpec

\* No wake-up is lost: a thread that waits in lwip_select has been signalled, or has
\* nothing to read, or an event_callback is on its way to it.  An event_callback never
\* looks at the select_cb of a call that has returned, and the counters of an open socket
\* are what the calls on it make of them (sockets.c:1108-1183, 1251-1359).
THEOREM SelectMissesNothing == SockSpec => []SelectInv
<1>1. ASSUME SockIInv PROVE SelectInv
  <2>1. NoLostWakeup
    <3>1. ASSUME NEW t \in Thread, call[t].pc = "wait", ~signalled[t], NEW s \in call[t].set, Readable(s)
          PROVE  Coming(t, s)
      <4>1. Alerted(t)
        BY <1>1 DEF SockIInv
      <4> QED
        BY <3>1, <4>1 DEF Alerted, Looked
    <3> QED
      BY <3>1 DEF NoLostWakeup
  <2>2. OnStack
    <3>1. ASSUME NEW a \in Actor, Running(a), ~Again(event[a]) PROVE OnList(event[a].scb)
      <4>1. Standing(a) /\ event[a].stale \in BOOLEAN
        BY <1>1, EventIs DEF SockIInv, EventsRight
      <4> QED
        BY <3>1, <4>1 DEF Standing, Again, OnList, Lists
    <3> QED
      BY <3>1 DEF OnStack
  <2>3. Counted
    BY <1>1 DEF SockIInv
  <2> QED
    BY <2>1, <2>2, <2>3 DEF SelectInv
<1> QED
  BY <1>1, SockIInvHolds, PTL
=============================================================================
