------------------------------ MODULE MemHeap ------------------------------
(***************************************************************************)
(* The heap of lwIP (core/mem.c).  Every function works under mem_mutex    *)
(* and is one step.  Sizes are counted in units: one for a struct mem, one *)
(* for MIN_SIZE.                                                           *)
(***************************************************************************)
EXTENDS Integers, FiniteSets, FiniteSetsExt, Functions

CONSTANTS
  MemSize,         \* MEM_SIZE: the offset of ram_end
  MaxSize          \* bound: the largest size that is asked for

ASSUME HeapAssumption == MemSize \in Nat \ {0, 1} /\ MaxSize \in Nat \ {0}

VARIABLES
  ram,             \* the blocks, by offset: struct mem
  lfree,           \* the offset of the lowest free block
  live,            \* ghost: what was given out: at |-> offset, size |-> size asked for
  refused          \* ghost: the size that mem_malloc could not give, or 0

heapVars == <<ram, lfree, live, refused>>

Offset == 0 .. MemSize
Block(next, prev, used) == [next |-> next, prev |-> prev, used |-> used]
MemMin == 1
Header == 1

\* mem_init.
HeapInit ==
  /\ ram = [o \in {0, MemSize} |-> IF o = 0 THEN Block(MemSize, 0, FALSE)
                                   ELSE Block(MemSize, MemSize, TRUE)]
  /\ lfree = 0
  /\ live = {} /\ refused = 0

Room(o) == ram[o].next - o - Header

\* A block of `size` units at o, which has room for it and for a rest.
Split(o, size) ==
  LET o2 == o + Header + size
      far == ram[o].next
  IN
  [x \in DOMAIN ram \cup {o2} |->
     IF x = o THEN Block(o2, ram[o].prev, TRUE)
     ELSE IF x = o2 THEN Block(far, o, FALSE)
     ELSE IF x = far /\ far # MemSize THEN [ram[far] EXCEPT !.prev = o2]
     ELSE ram[x]]

\* mem_malloc: the first block from lfree on that is free and large enough.
Fitting(size) == {o \in DOMAIN ram : o >= lfree /\ o < MemSize - size
                                     /\ ~ram[o].used /\ Room(o) >= size}
\* lfree moves to the next free block, or to ram_end.
NextBlock(r) == r[lfree].next                                        \* mutant
LowestFree(r) == Min({o \in DOMAIN r : o >= lfree /\ (~r[o].used \/ o = MemSize)})

mem_malloc(size) ==
  IF Fitting(size) = {}
  THEN refused' = size /\ UNCHANGED <<ram, lfree, live>>
  ELSE LET o == Min(Fitting(size)) IN
       /\ ram' = IF Room(o) >= size + Header + MemMin THEN Split(o, size)
                 ELSE [ram EXCEPT ![o].used = TRUE]
       /\ lfree' = IF o = lfree THEN LowestFree(ram') ELSE lfree
       /\ live' = live \cup {[at |-> o, size |-> size]}
       /\ refused' = 0

\* plug_holes: the free block o is joined with a free one behind it, and with a
\* free one before it.
Joined(r, o) ==
  LET far == r[o].next
      last == r[far].next
  IN
  [x \in DOMAIN r \ {far} |->
     IF x = o THEN [r[o] EXCEPT !.next = last]
     ELSE IF x = last THEN [r[last] EXCEPT !.prev = o]
     ELSE r[x]]
FreeBehind(r, o) == r[o].next # o /\ ~r[r[o].next].used /\ r[o].next # MemSize
FreeBefore(r, o) == r[o].prev # o /\ ~r[r[o].prev].used
PlugBehind(r, o) == IF FreeBehind(r, o) THEN Joined(r, o) ELSE r
PlugHoles(r, o) ==
  LET b == PlugBehind(r, o) IN
  IF FreeBefore(b, o) THEN Joined(b, b[o].prev) ELSE b
\* lfree follows the block it names into the one it is joined with.
LfreePlugged(r, o, l) ==
  LET l1 == IF FreeBehind(r, o) /\ l = r[o].next THEN o ELSE l
      b == PlugBehind(r, o)
  IN IF FreeBefore(b, o) /\ l1 = o THEN b[o].prev ELSE l1

LfreeStays(o) == lfree                                               \* mutant
LfreeLowered(o) == IF o < lfree THEN o ELSE lfree

mem_free(m) ==
  LET r == [ram EXCEPT ![m.at].used = FALSE]
      l == LfreeLowered(m.at)
  IN
  /\ ram' = PlugHoles(r, m.at)
  /\ lfree' = LfreePlugged(r, m.at, l)
  /\ live' = live \ {m}
  /\ refused' = 0

\* mem_trim: what is given back is added to a free block behind, or becomes a free
\* block if it is large enough for one.
Moved(o, o2) ==
  LET far == ram[o].next
      last == ram[far].next
  IN
  [x \in (DOMAIN ram \ {far}) \cup {o2} |->
     IF x = o THEN [ram[o] EXCEPT !.next = o2]
     ELSE IF x = o2 THEN Block(last, o, FALSE)
     ELSE IF x = last /\ last # MemSize THEN [ram[last] EXCEPT !.prev = o2]
     ELSE ram[x]]
Trimmed(m, size) ==
  LET o == m.at
      o2 == o + Header + size
      far == ram[o].next
  IN
  IF ~ram[far].used
  THEN ram' = Moved(o, o2) /\ lfree' = IF lfree = far THEN o2 ELSE lfree
  ELSE IF size + Header + MemMin <= Room(o)
  THEN ram' = Split(o, size) /\ lfree' = IF o2 < lfree THEN o2 ELSE lfree
  ELSE UNCHANGED <<ram, lfree>>

mem_trim(m, size) ==
  /\ size < Room(m.at)
  /\ Trimmed(m, size)
  /\ live' = (live \ {m}) \cup {[m EXCEPT !.size = size]}
  /\ refused' = 0

HeapNext ==
  \/ \E size \in 1 .. MaxSize : mem_malloc(size)
  \/ \E m \in live : mem_free(m) \/ \E size \in 1 .. m.size : mem_trim(m, size)

HeapSpec == HeapInit /\ [][HeapNext]_heapVars

-----------------------------------------------------------------------------
\* The blocks cover the heap without a gap, their links agree both ways, no two
\* free ones are neighbours, lfree is the lowest free one, and what was given out
\* is in a used block of its own that is large enough, whatever the order of
\* allocations, frees and trims (mem.c:235-268, 344, 430-470, 594-612).
BlocksRight ==
  /\ \A o \in DOMAIN ram : o # MemSize =>
       /\ ram[o].next \in DOMAIN ram /\ ram[o].next > o
       /\ \A x \in DOMAIN ram : x <= o \/ x >= ram[o].next
       /\ ram[o].next # MemSize => ram[ram[o].next].prev = o
       /\ ~ram[o].used => ram[o].next = MemSize \/ ram[ram[o].next].used
  /\ lfree = Min({o \in DOMAIN ram : ~ram[o].used \/ o = MemSize})
  /\ \A m \in live : m.at \in DOMAIN ram /\ ram[m.at].used /\ Room(m.at) >= m.size
  /\ \A m, n \in live : m.at = n.at => m = n
  /\ \A o \in DOMAIN ram : ram[o].used => o = MemSize \/ \E m \in live : m.at = o

\* mem_malloc gives up only if no free block is large enough, so memory that was
\* given back is found again (mem.c:534-550).
RefusedOnlyIfFull ==
  refused # 0 => \A o \in DOMAIN ram : ram[o].used \/ Room(o) < refused

\* Both: the heap is in order, and gives what it has.
HeapInv == BlocksRight /\ RefusedOnlyIfFull
=============================================================================
