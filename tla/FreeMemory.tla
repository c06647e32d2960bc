------------------------------ MODULE FreeMemory ------------------------------
(***************************************************************************)
(* The kernel heap of xinu-hw9: getmem.c, freemem.c, malloc.c and free.c   *)
(* over one free list for each core.                                       *)
(*                                                                         *)
(* Addresses and sizes count memblks of 8 bytes.  The list of core c hangs *)
(* on a cell of its own, Head(c), which is freelist[c] seen as a memblk,   *)
(* the way the code uses it: its next is the head of the list, its length  *)
(* the size of the list.  The calls disable interrupts and work on a list  *)
(* with its lock held, so a call is one step, except that getmem reads the *)
(* head of the list before it has the lock.                                *)
(***************************************************************************)
EXTENDS Integers, FiniteSets, FiniteSetsExt

CONSTANTS
  NCORES,
  BOUND,      \* the bound of every list: units in the region of a core
  Getters,    \* cores whose programs allocate
  Sizes,      \* units that they ask for
  HeadAddr,   \* where freelist[c] lies, as an address of these units
  Words,      \* what a program may leave in the second word of its block
  Follow      \* bound: whether behaviours go on after a getmem from an old head

Cores == 0 .. NCORES - 1
NULL  == 0
Addrs == 1 .. NCORES * BOUND
Head(c) == -1 - c
WORD  == 2 ^ 29           \* units in the 32-bit address space

Plus(a, b)  == (a + b) % WORD
Minus(a, b) == (a - b) % WORD
Cells == Addrs \cup {Head(c) : c \in Cores}

ASSUME FreeMemoryAssumption ==
  /\ NCORES \in Nat \ {0} /\ BOUND \in Nat \ {0} /\ NCORES * BOUND < WORD
  /\ Getters \subseteq Cores
  /\ Sizes \subseteq Nat \ {0} /\ Words \subseteq 0 .. WORD - 1
  /\ Follow \in BOOLEAN
  /\ HeadAddr \in [Cores -> Int] /\ \A c \in Cores : HeadAddr[c] <= 0

base(c)   == c * BOUND + 1
Region(c) == base(c) .. base(c) + BOUND - 1

VARIABLES
  next, length,   \* the memblk at each cell
  owned,          \* blocks in the hands of programs
  refused,        \* history: blocks freemem has not taken back
  written,        \* history: owned blocks whose second word a program has written
  stale,          \* history: a getmem has started from an old head
  ctx,            \* the request and the head that getmem has read, on each core
  wild            \* freemem has followed the NULL at the end of a list

memory == <<next, length>>
vars   == <<memory, owned, refused, written, stale, ctx, wild>>

Blocks == [addr : Addrs, size : 0 .. WORD - 1, by : {"getmem", "malloc"}]
Idle   == [n |-> 0, by |-> "none", curr |-> NULL]

Init ==
  /\ next = [a \in Cells |-> IF a \in Addrs THEN NULL ELSE base(-1 - a)]
  /\ length = [a \in Cells |-> IF a < 0 \/ \E c \in Cores : a = base(c) THEN BOUND ELSE 0]
  /\ owned = {} /\ refused = {} /\ written = {} /\ stale = FALSE
  /\ ctx = [c \in Cores |-> Idle]
  /\ wild = FALSE

(* The blocks met on the way from one: start, its next, and so on.         *)
Walk(start) ==
  LET walk[i \in 0 .. NCORES * BOUND] ==
        IF i = 0 THEN start ELSE IF walk[i - 1] = NULL THEN NULL ELSE next[walk[i - 1]]
  IN  walk

Goes     == ~wild /\ (stale => Follow)
Idles(c) == Goes /\ ctx[c] = Idle

-----------------------------------------------------------------------------
(* getmem, malloc *)

GetmemRead(c, n, by) ==
  /\ Idles(c) /\ c \in Getters
  /\ ctx' = [ctx EXCEPT ![c] = [n |-> n, by |-> by, curr |-> next[Head(c)]]]
  /\ UNCHANGED <<memory, owned, refused, written, stale, wild>>

Getmem(c, n) == GetmemRead(c, n, "getmem")
Malloc(c, n) == GetmemRead(c, n + 1, "malloc")   \* and its accounting block

(* Take n units from the low end of curr, the block behind prev.  The      *)
(* memory after each part of a call is a record.                           *)
Splits(curr, n) == length[curr] > n

SplitBehind(c, prev, curr, n) ==  \* mutant: the rest begins at the end of the block
  LET rest == curr + length[curr]
  IN  [next |-> [next EXCEPT ![rest] = next[curr], ![prev] = rest],
       length |-> [length EXCEPT ![rest] = Minus(length[curr], n), ![curr] = n,
                                 ![Head(c)] = Minus(@, n)]]

Split(c, prev, curr, n) ==
  [next |-> [next EXCEPT ![curr + n] = next[curr], ![prev] = curr + n],
   length |-> [length EXCEPT ![curr + n] = Minus(length[curr], n), ![curr] = n,
                             ![Head(c)] = Minus(@, n)]]

UnlinkUncounted(c, prev, curr, n) ==  \* mutant: the size of the list stays
  [next |-> [next EXCEPT ![prev] = next[curr]], length |-> length]

Unlink(c, prev, curr, n) ==
  [next |-> [next EXCEPT ![prev] = next[curr]], length |-> [length EXCEPT ![Head(c)] = Minus(@, n)]]

(* What is left of a block whose length is not its own (an old head may be *)
(* anything by now) can lie outside the heap: the system is wild.          *)
GetmemFit(c) ==
  LET call == ctx[c]
      walk == Walk(call.curr)
      fit  == {i \in DOMAIN walk : walk[i] # NULL /\ length[walk[i]] >= call.n}
      i    == Min(fit)
      prev == IF i = 0 THEN Head(c) ELSE walk[i - 1]
      got  == IF Splits(walk[i], call.n) THEN Split(c, prev, walk[i], call.n)
              ELSE Unlink(c, prev, walk[i], call.n)
      outside == fit # {} /\ Splits(walk[i], call.n) /\ walk[i] + call.n \notin Addrs
  IN  /\ Goes /\ call # Idle
      /\ wild' = outside
      /\ IF fit = {} \/ outside THEN UNCHANGED <<memory, owned>>
         ELSE /\ next' = IF call.by = "malloc" THEN [got.next EXCEPT ![walk[i]] = walk[i]] ELSE got.next
              /\ length' = got.length   \* malloc writes the same length again
              /\ owned' = owned \cup {[addr |-> walk[i], size |-> call.n, by |-> call.by]}
      /\ stale' = (stale \/ call.curr # next[Head(c)])
      /\ ctx' = [ctx EXCEPT ![c] = Idle]
      /\ UNCHANGED <<refused, written>>

(* A program uses its block.  What malloc has written before it is safe.   *)
Write(c, b, word) ==
  /\ Idles(c) /\ b \in owned /\ b.by = "getmem"
  /\ length' = [length EXCEPT ![b.addr] = word]
  /\ written' = written \cup {b}
  /\ UNCHANGED <<next, owned, refused, stale, ctx, wild>>

-----------------------------------------------------------------------------
(* freemem, free *)

(* The list of the block: the first one whose region, its end included,    *)
(* holds the address.                                                      *)
ListOf(a) == Min({c \in Cores : base(c) <= a /\ a <= base(c) + BOUND})

Linked(prev, a, n, nxt) ==
  [next |-> [next EXCEPT ![prev] = a, ![a] = nxt], length |-> [length EXCEPT ![a] = n]]

(* The list head passes for a block that lies at HeadAddr.                 *)
At(prev) == IF prev \in Addrs THEN prev ELSE HeadAddr[-1 - prev]

JoinPrev(m, prev, a, nxt) ==
  [next |-> [m.next EXCEPT ![prev] = nxt], length |-> [m.length EXCEPT ![prev] = Plus(@, m.length[a])]]

JoinNextShort(m, block, nxt) ==  \* mutant: the length of the next block is not added
  [next |-> [m.next EXCEPT ![block] = m.next[nxt]], length |-> m.length]

JoinNext(m, block, nxt) ==
  [next |-> [m.next EXCEPT ![block] = m.next[nxt]],
   length |-> [m.length EXCEPT ![block] = Plus(@, m.length[nxt])]]

CoalesceNextOnly(prev, a, n, nxt) ==  \* mutant: the previous block is left alone
  LET m == Linked(prev, a, n, nxt)
  IN  IF a + n = nxt THEN JoinNext(m, a, nxt) ELSE m

Coalesce(prev, a, n, nxt) ==
  LET m      == Linked(prev, a, n, nxt)
      abuts  == a = Plus(At(prev), m.length[prev])
      joined == IF abuts THEN JoinPrev(m, prev, a, nxt) ELSE m
  IN  IF a + n = nxt THEN JoinNext(joined, IF abuts THEN prev ELSE a, nxt) ELSE joined

OverlapsInclusive(prev, a, nxt) ==  \* mutant: a block may not abut the next one
  \/ prev \in Addrs /\ a < Plus(prev, length[prev])
  \/ Plus(a, length[a]) >= nxt

(* The overlap check takes the length of the block from its second word.   *)
Overlaps(prev, a, nxt) ==
  \/ prev \in Addrs /\ a < Plus(prev, length[prev])
  \/ Plus(a, length[a]) > nxt

Refuse(b) == refused' = refused \cup {b}

(* The walk to the place of the block ends at a higher block only: without *)
(* one it goes on through address 0.  What that reads and overwrites is    *)
(* not modelled; the system is wild.                                       *)
Freemem(b, n) ==
  LET k      == ListOf(b.addr)
      walk   == Walk(next[Head(k)])
      beyond == {i \in DOMAIN walk : walk[i] # NULL /\ b.addr <= walk[i]}
      i      == Min(beyond)
      prev   == IF i = 0 THEN Head(k) ELSE walk[i - 1]
      after  == Coalesce(prev, b.addr, n, walk[i])
  IN  CASE beyond = {} -> wild' = TRUE /\ UNCHANGED <<memory, refused>>
        [] beyond # {} /\ Overlaps(prev, b.addr, walk[i]) -> Refuse(b) /\ UNCHANGED <<memory, wild>>
        [] OTHER -> /\ next' = after.next
                    /\ length' = [after.length EXCEPT ![Head(k)] = Plus(@, n)]
                    /\ UNCHANGED <<refused, wild>>

Release(c, b, by) ==
  /\ Idles(c) /\ b \in owned /\ b.by = by
  /\ owned' = owned \ {b}
  /\ written' = written \ {b}
  /\ UNCHANGED <<stale, ctx>>

(* kill frees the stack of a process on the core of the process.           *)
FreeStack(c, b) == Release(c, b, "getmem") /\ Freemem(b, b.size)

(* free goes by what malloc left in front of the block.                    *)
Free(c, b) ==
  /\ Release(c, b, "malloc")
  /\ IF next[b.addr] # b.addr THEN Refuse(b) /\ UNCHANGED <<memory, wild>>
     ELSE Freemem(b, length[b.addr])

-----------------------------------------------------------------------------
Stopped == ~Goes /\ UNCHANGED vars

Next ==
  \/ \E c \in Cores :
       \/ \E n \in Sizes : Getmem(c, n) \/ Malloc(c, n)
       \/ GetmemFit(c)
       \/ \E b \in owned : FreeStack(c, b) \/ Free(c, b) \/ \E w \in Words : Write(c, b, w)
  \/ Stopped

Spec == Init /\ [][Next]_vars

-----------------------------------------------------------------------------
(* Properties *)

TypeOK ==
  /\ next \in [Cells -> Addrs \cup {NULL}]
  /\ length \in [Cells -> 0 .. WORD - 1]
  /\ owned \subseteq Blocks /\ written \subseteq owned /\ refused \subseteq Blocks
  /\ ctx \in [Cores -> [n : Nat, by : {"none", "getmem", "malloc"}, curr : Addrs \cup {NULL}]]
  /\ stale \in BOOLEAN /\ wild \in BOOLEAN

Nodes(c) == {Walk(next[Head(c)])[i] : i \in 0 .. NCORES * BOUND} \ {NULL}

Extent(a, n) == a .. a + n - 1

Sound == ~stale /\ ~wild

(* A unit of the heap is in one free block of its list, or in the hands of *)
(* one program, or lost to a free that was refused, and never in two: no   *)
(* memory is given out twice.  (As long as no getmem has used an old head: *)
(* see BlocksDisjoint.)                                                    *)
EveryUnitOnce ==
  Sound => \A c \in Cores : LET nodes == Nodes(c) IN \A u \in Region(c) :
    Cardinality({a \in nodes : u \in Extent(a, length[a])})
    + Cardinality({b \in owned : u \in Extent(b.addr, b.size)})
    + Cardinality({r \in refused : u \in Extent(r.addr, r.size)}) = 1

(* "non-constant; current size of list" (memory.h): as many units as its   *)
(* blocks extend over.                                                     *)
LengthIsListSize ==
  Sound => \A c \in Cores : LET nodes == Nodes(c) IN
    length[Head(c)] = Cardinality({u \in Addrs : \E a \in nodes : u \in Extent(a, length[a])})

(* The list is in ascending order, stays in the region of its core, and no *)
(* two of its blocks touch: adjacent free memory is always one block.      *)
Coalesced ==
  Sound => \A c \in Cores : \A a \in Nodes(c) :
    /\ a \in Region(c)
    /\ next[a] # NULL => a + length[a] < next[a]

(* What malloc gave out is taken back: free goes by the accounting block,  *)
(* and the overlap tests of freemem never mistake an intact one, wherever  *)
(* the splits and joins before have left its neighbours.                   *)
MallocTakenBack == Sound => \A r \in refused : r.by = "getmem"

(* "This function can only fail because of memory corruption or specifying *)
(* an invalid memory block" (freemem.c:22-23).                             *)
NoneRefused == Sound => refused = {}

(* "lock for mutual exclusion" (memory.h): whatever the cores do at once,  *)
(* no two programs hold the same memory.                                   *)
BlocksDisjoint ==
  \A b, d \in owned : b # d => Extent(b.addr, b.size) \cap Extent(d.addr, d.size) = {}
===============================================================================
