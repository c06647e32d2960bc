--------------------------- MODULE FileSystemProofs ---------------------------
(***************************************************************************)
(* Proofs about the file system, for disks, segments and directories of    *)
(* all sizes.                                                              *)
(*                                                                         *)
(* First the types, for any number of processes and all faults.  Then, for *)
(* one process and no crash in the middle of fileDelete, the invariant Inv *)
(* in two parts.  MemOK: of the places in memory where a block may be (the *)
(* own block and the entries of a segment, a file, the hand of the         *)
(* process) no two hold the same one.  DiskInv: the list on the disk is    *)
(* that of memory, with numbers for pointers, but for what the call has    *)
(* still to write; and no block is in two places there.  Each action keeps *)
(* each part, and sbOpen rebuilds both from a disk that is sound.          *)
(***************************************************************************)
EXTENDS FileSystem, FiniteSetTheorems, NaturalsInduction, WellFoundedInduction, TLAPS

(* A set of numbers has a least one.                                       *)
LEMMA LeastNumber ==
  ASSUME NEW S \in SUBSET Nat, S # {}
  PROVE  \E x \in S : \A y \in S : x <= y
<1> DEFINE R == {ss \in Nat \X Nat : ss[1] < ss[2]}
<1>1. IsWellFoundedOn(R, Nat)
  BY NatLessThanWellFounded DEF OpToRel
<1>2. \A x, y \in Nat : x < y => <<x, y>> \in R
  OBVIOUS
<1> HIDE DEF R
<1>3. PICK x \in S : \A y \in S : ~(<<y, x>> \in R)
  BY <1>1, WFMin, Zenon
<1>4. ASSUME NEW y \in S PROVE x <= y
  <2>1. x \in Nat /\ y \in Nat
    OBVIOUS
  <2>2. ~(y < x)
    BY <1>2, <1>3, <2>1, Zenon
  <2> QED
    BY <2>1, <2>2
<1> QED
  BY <1>4

(* The constants, and which numbers are blocks, cells and words.           *)
LEMMA Constants ==
  /\ DISKBLOCKTOTAL \in Nat /\ DISKBLOCKTOTAL > 3
  /\ FREEBLOCKMAX \in Nat /\ FREEBLOCKMAX > 0
  /\ DIRENTRIES \in Nat /\ DIRENTRIES > 0
  /\ "free" \notin Procs
  BY FileSystemAssumption

(* The cells are the numbers below -2.                                     *)
LEMMA CellsAre == Cells = (-3 - DISKBLOCKTOTAL) .. (-3)
<1>1. ASSUME NEW c \in Cells PROVE c \in (-3 - DISKBLOCKTOTAL) .. (-3)
  BY Constants DEF Cells, Cell
<1>2. ASSUME NEW c \in (-3 - DISKBLOCKTOTAL) .. (-3) PROVE c \in Cells
  <2>1. -3 - c \in 0 .. DISKBLOCKTOTAL /\ c = Cell(-3 - c)
    BY Constants DEF Cell
  <2> QED
    BY <2>1 DEF Cells
<1> QED
  BY <1>1, <1>2, Zenon

(* The words: cells, the two errors, and numbers up to JUNK.               *)
LEMMA WordsAre ==
  /\ Words = Cells \cup {-2, -1} \cup 0 .. DISKBLOCKTOTAL
  /\ Blocks \subseteq Words /\ Cells \subseteq Words
  /\ {NULL, SYSERR, JUNK, DIR, SUPERBLOCKNUM, DIRBLOCKNUM} \subseteq Words
  /\ 0 .. DISKBLOCKTOTAL - 1 \subseteq Words
  BY Constants DEF Words, DIR, SYSERR, Blocks, NULL, JUNK, SUPERBLOCKNUM, DIRBLOCKNUM

(* Blocks, cells and the words that stand for none have nothing in common. *)
LEMMA Unlike ==
  /\ \A b \in Blocks : b \in Nat /\ b > 1 /\ b < DISKBLOCKTOTAL
  /\ \A c \in Cells : c \in Int /\ c < -2
  /\ Blocks \cap (Cells \cup {NULL, SYSERR, JUNK, DIR, SUPERBLOCKNUM, DIRBLOCKNUM}) = {}
  /\ NULL \notin Cells
  BY Constants, CellsAre DEF Blocks, NULL, SYSERR, JUNK, DIR, SUPERBLOCKNUM, DIRBLOCKNUM

(* Min of slots, and the cell that is taken.                               *)
LEMMA MinIn ==
  ASSUME NEW S \in SUBSET Nat, S # {}
  PROVE  Min(S) \in S
<1>1. \E x \in S : \A y \in S : x <= y
  BY LeastNumber
<1> QED
  BY <1>1, Zenon DEF Min

(* With room there is an unused cell.                                      *)
LEMMA UnusedIn ==
  ASSUME live \subseteq Cells, Room
  PROVE  Unused \in Cells \ live
<1> DEFINE S == {-3 - c : c \in Cells \ live}
<1>1. S \in SUBSET Nat
  BY CellsAre, Constants
<1>2. S # {}
  BY DEF Room
<1>3. PICK x \in S : \A y \in S : x <= y
  BY <1>1, <1>2, LeastNumber, Zenon
<1>4. PICK c \in Cells \ live : x = -3 - c
  BY <1>3
<1>5. ASSUME NEW d \in Cells \ live PROVE c >= d
  <2>1. x <= -3 - d
    BY <1>3
  <2> QED
    BY <2>1, <1>4, CellsAre, Constants
<1> QED
  BY <1>4, <1>5 DEF Unused, Max

-----------------------------------------------------------------------------
(* The list on the disk and the way through memory.                        *)

(* The chain of segments of a disk is what sbOpen follows, block by block. *)
NextOf(d, b) == IF b \in Blocks /\ d[b].type = "seg" THEN d[b].seg.next ELSE NULL

(* The recursive function Chain is defined: each block from the one        *)
(* before.                                                                 *)
LEMMA ChainIs ==
  ASSUME NEW d
  PROVE  Chain(d) = [i \in 0 .. DISKBLOCKTOTAL |->
                       IF i = 0 THEN d[SUPERBLOCKNUM].freelst ELSE NextOf(d, Chain(d)[i - 1])]
<1> DEFINE Upto(n, f) == f = [i \in 0 .. n |-> IF i = 0 THEN d[SUPERBLOCKNUM].freelst ELSE NextOf(d, f[i - 1])]
           Bad == {n \in Nat : ~ \E f : Upto(n, f)}
<1>1. Bad = {}
  <2> SUFFICES ASSUME Bad # {} PROVE FALSE
    OBVIOUS
  <2>1. PICK n \in Bad : \A m \in Bad : n <= m
    <3>1. Bad \in SUBSET Nat
      OBVIOUS
    <3> QED
      BY <3>1, LeastNumber, Zenon
  <2>2. n # 0
    <3>1. Upto(0, [i \in 0 .. 0 |-> d[SUPERBLOCKNUM].freelst])
      OBVIOUS
    <3> QED
      BY <3>1, Zenon
  <2>3. n \in Nat /\ n - 1 \in Nat /\ n - 1 \notin Bad
    <3>1. n \in Nat
      BY <2>1
    <3>2. n - 1 \in Nat /\ ~(n <= n - 1)
      BY <3>1, <2>2
    <3> HIDE DEF Bad
    <3> QED
      BY <2>1, <3>1, <3>2
  <2>4. PICK f : Upto(n - 1, f)
    BY <2>3
  <2> DEFINE g == [i \in 0 .. n |-> IF i < n THEN f[i] ELSE NextOf(d, f[n - 1])]
  <2>5. ASSUME NEW i \in 0 .. n
        PROVE g[i] = IF i = 0 THEN d[SUPERBLOCKNUM].freelst ELSE NextOf(d, g[i - 1])
    <3>1. CASE i = 0
      <4>1. 0 \in 0 .. n - 1 /\ 0 < n
        BY <2>3
      <4>2. f[0] = d[SUPERBLOCKNUM].freelst
        BY <2>4, <4>1
      <4> QED
        BY <3>1, <4>1, <4>2
    <3>2. CASE i # 0 /\ i < n
      <4>1. i \in 0 .. n - 1 /\ i - 1 \in 0 .. n /\ i - 1 < n
        BY <2>3, <3>2
      <4>2. f[i] = NextOf(d, f[i - 1])
        BY <2>4, <4>1, <3>2
      <4>3. g[i] = f[i] /\ g[i - 1] = f[i - 1]
        BY <4>1, <3>2
      <4> QED
        BY <4>2, <4>3, <3>2
    <3>3. CASE i # 0 /\ ~(i < n)
      <4>1. i = n /\ n - 1 \in 0 .. n /\ n - 1 < n /\ n \in 0 .. n
        BY <2>3, <3>3
      <4>2. g[n] = NextOf(d, f[n - 1]) /\ g[n - 1] = f[n - 1]
        BY <4>1
      <4> QED
        BY <4>1, <4>2, <3>3
    <3> QED
      BY <3>1, <3>2, <3>3
  <2>6. g = [i \in 0 .. n |-> IF i = 0 THEN d[SUPERBLOCKNUM].freelst ELSE NextOf(d, g[i - 1])]
    <3> HIDE DEF g
    <3>1. g = [i \in 0 .. n |-> g[i]]
      BY DEF g
    <3> QED
      BY <3>1, <2>5, Zenon
  <2>7. Upto(n, g)
    BY <2>6
  <2> QED
    BY <2>1, <2>7, Zenon
<1>2. PICK f : Upto(DISKBLOCKTOTAL, f)
  BY <1>1, Constants
<1> DEFINE Rec(u) == u = [i \in 0 .. DISKBLOCKTOTAL |->
                       IF i = 0 THEN d[SUPERBLOCKNUM].freelst
                       ELSE IF u[i - 1] \in Blocks /\ d[u[i - 1]].type = "seg"
                            THEN d[u[i - 1]].seg.next ELSE NULL]
           chain == CHOOSE u : Rec(u)
<1>3. Rec(f)
  BY <1>2, Zenon DEF NextOf
<1>4. Rec(chain)
  BY <1>3, Zenon
<1>5. Chain(d) = chain
  BY DEF Chain
<1> HIDE DEF chain
<1>6. chain = [i \in 0 .. DISKBLOCKTOTAL |->
                       IF i = 0 THEN d[SUPERBLOCKNUM].freelst ELSE NextOf(d, chain[i - 1])]
  BY <1>4, Zenon DEF NextOf
<1> QED
  BY <1>5, <1>6, Zenon

(* One step along the chain of a disk.                                     *)
LEMMA ChainStep ==
  ASSUME NEW d
  PROVE  /\ Chain(d)[0] = d[SUPERBLOCKNUM].freelst
         /\ \A i \in 0 .. DISKBLOCKTOTAL - 1 : Chain(d)[i + 1] = NextOf(d, Chain(d)[i])
         /\ DOMAIN Chain(d) = 0 .. DISKBLOCKTOTAL
<1> DEFINE ch == Chain(d)
<1>1. ch = [i \in 0 .. DISKBLOCKTOTAL |->
                       IF i = 0 THEN d[SUPERBLOCKNUM].freelst ELSE NextOf(d, ch[i - 1])]
  BY ChainIs
<1> HIDE DEF ch
<1>2. \A i \in 0 .. DISKBLOCKTOTAL - 1 : i + 1 \in 0 .. DISKBLOCKTOTAL /\ i + 1 # 0 /\ (i + 1) - 1 = i
  BY Constants
<1>3. 0 \in 0 .. DISKBLOCKTOTAL
  BY Constants
<1>4. ch[0] = d[SUPERBLOCKNUM].freelst
  BY <1>1, <1>3
<1>5. ASSUME NEW i \in 0 .. DISKBLOCKTOTAL - 1 PROVE ch[i + 1] = NextOf(d, ch[i])
  <2>1. ch[i + 1] = NextOf(d, ch[(i + 1) - 1])
    BY <1>1, <1>2, Zenon
  <2> QED
    BY <2>1, <1>2
<1> QED
  BY <1>1, <1>4, <1>5, Zenon DEF ch

(* The way through memory, from cell to cell, is what sbFreeBlock follows. *)
After(x) == IF x \in live THEN seg[x].next ELSE x

(* So is Walk, from cell to cell.                                          *)
LEMMA WalkIs ==
  ASSUME NEW c
  PROVE  Walk(c) = [i \in 0 .. DISKBLOCKTOTAL |->
                       IF i = 0 THEN c ELSE After(Walk(c)[i - 1])]
<1> DEFINE Upto(n, f) == f = [i \in 0 .. n |-> IF i = 0 THEN c ELSE After(f[i - 1])]
           Bad == {n \in Nat : ~ \E f : Upto(n, f)}
<1>1. Bad = {}
  <2> SUFFICES ASSUME Bad # {} PROVE FALSE
    OBVIOUS
  <2>1. PICK n \in Bad : \A m \in Bad : n <= m
    <3>1. Bad \in SUBSET Nat
      OBVIOUS
    <3> QED
      BY <3>1, LeastNumber, Zenon
  <2>2. n # 0
    <3>1. Upto(0, [i \in 0 .. 0 |-> c])
      OBVIOUS
    <3> QED
      BY <3>1, Zenon
  <2>3. n \in Nat /\ n - 1 \in Nat /\ n - 1 \notin Bad
    <3>1. n \in Nat
      BY <2>1
    <3>2. n - 1 \in Nat /\ ~(n <= n - 1)
      BY <3>1, <2>2
    <3> HIDE DEF Bad
    <3> QED
      BY <2>1, <3>1, <3>2
  <2>4. PICK f : Upto(n - 1, f)
    BY <2>3
  <2> DEFINE g == [i \in 0 .. n |-> IF i < n THEN f[i] ELSE After(f[n - 1])]
  <2>5. ASSUME NEW i \in 0 .. n
        PROVE g[i] = IF i = 0 THEN c ELSE After(g[i - 1])
    <3>1. CASE i = 0
      <4>1. 0 \in 0 .. n - 1 /\ 0 < n
        BY <2>3
      <4>2. f[0] = c
        BY <2>4, <4>1
      <4> QED
        BY <3>1, <4>1, <4>2
    <3>2. CASE i # 0 /\ i < n
      <4>1. i \in 0 .. n - 1 /\ i - 1 \in 0 .. n /\ i - 1 < n
        BY <2>3, <3>2
      <4>2. f[i] = After(f[i - 1])
        BY <2>4, <4>1, <3>2
      <4>3. g[i] = f[i] /\ g[i - 1] = f[i - 1]
        BY <4>1, <3>2
      <4> QED
        BY <4>2, <4>3, <3>2
    <3>3. CASE i # 0 /\ ~(i < n)
      <4>1. i = n /\ n - 1 \in 0 .. n /\ n - 1 < n /\ n \in 0 .. n
        BY <2>3, <3>3
      <4>2. g[n] = After(f[n - 1]) /\ g[n - 1] = f[n - 1]
        BY <4>1
      <4> QED
        BY <4>1, <4>2, <3>3
    <3> QED
      BY <3>1, <3>2, <3>3
  <2>6. g = [i \in 0 .. n |-> IF i = 0 THEN c ELSE After(g[i - 1])]
    <3> HIDE DEF g
    <3>1. g = [i \in 0 .. n |-> g[i]]
      BY DEF g
    <3> QED
      BY <3>1, <2>5, Zenon
  <2>7. Upto(n, g)
    BY <2>6
  <2> QED
    BY <2>1, <2>7, Zenon
<1>2. PICK f : Upto(DISKBLOCKTOTAL, f)
  BY <1>1, Constants, Zenon
<1> DEFINE Rec(u) == u = [i \in 0 .. DISKBLOCKTOTAL |->
                       IF i = 0 THEN c ELSE IF u[i - 1] \in live THEN seg[u[i - 1]].next ELSE u[i - 1]]
           walk == CHOOSE u : Rec(u)
<1>3. Rec(f)
  BY <1>2, Zenon DEF After
<1>4. Rec(walk)
  BY <1>3, Zenon
<1>5. Walk(c) = walk
  BY DEF Walk
<1> HIDE DEF walk
<1>6. walk = [i \in 0 .. DISKBLOCKTOTAL |-> IF i = 0 THEN c ELSE After(walk[i - 1])]
  BY <1>4, Zenon DEF After
<1> QED
  BY <1>5, <1>6, Zenon

(* One step along the way through memory.                                  *)
LEMMA WalkStep ==
  ASSUME NEW c
  PROVE  /\ Walk(c)[0] = c
         /\ \A i \in 0 .. DISKBLOCKTOTAL - 1 : Walk(c)[i + 1] = After(Walk(c)[i])
<1> DEFINE ch == Walk(c)
<1>1. ch = [i \in 0 .. DISKBLOCKTOTAL |-> IF i = 0 THEN c ELSE After(ch[i - 1])]
  BY WalkIs
<1> HIDE DEF ch
<1>2. \A i \in 0 .. DISKBLOCKTOTAL - 1 : i + 1 \in 0 .. DISKBLOCKTOTAL /\ i + 1 # 0 /\ (i + 1) - 1 = i
  BY Constants
<1>3. 0 \in 0 .. DISKBLOCKTOTAL
  BY Constants
<1>4. ch[0] = c
  BY <1>1, <1>3
<1>5. ASSUME NEW i \in 0 .. DISKBLOCKTOTAL - 1 PROVE ch[i + 1] = After(ch[i])
  <2>1. ch[i + 1] = After(ch[(i + 1) - 1])
    BY <1>1, <1>2, Zenon
  <2> QED
    BY <2>1, <1>2
<1> QED
  BY <1>4, <1>5 DEF ch

(* The end of the way is a segment in memory that links to nothing.        *)
LEMMA LastIs ==
  ASSUME NEW c, Whole(c), c # NULL
  PROVE  LastOf(c) \in live /\ seg[LastOf(c)].next = NULL
<1> DEFINE S == {i \in 0 .. DISKBLOCKTOTAL : Walk(c)[i] = NULL}
<1>1. S \in SUBSET Nat /\ S # {}
  BY Constants DEF Whole
<1>2. PICK k \in S : \A j \in S : k <= j
  BY <1>1, LeastNumber, Zenon
<1>3. k # 0
  BY <1>2, WalkStep
<1>4. k - 1 \in 0 .. DISKBLOCKTOTAL - 1 /\ k - 1 \in 0 .. DISKBLOCKTOTAL /\ (k - 1) + 1 = k /\ ~(k <= k - 1)
  BY <1>2, <1>3, Constants
<1>5. Walk(c)[k - 1] # NULL
  BY <1>2, <1>4
<1>6. NULL = After(Walk(c)[k - 1])
  BY <1>2, <1>4, WalkStep
<1>7. Walk(c)[k - 1] \in live /\ seg[Walk(c)[k - 1]].next = NULL
  BY <1>5, <1>6 DEF After
<1> QED
  BY <1>4, <1>7 DEF LastOf

-----------------------------------------------------------------------------
(* Nothing follows the end of a chain.                                     *)
LEMMA ChainEnds ==
  ASSUME NEW d, NEW i \in 0 .. DISKBLOCKTOTAL, Chain(d)[i] = NULL, NEW j \in i .. DISKBLOCKTOTAL
  PROVE  Chain(d)[j] = NULL
<1> DEFINE S == {k \in i .. DISKBLOCKTOTAL : Chain(d)[k] # NULL}
<1>0. S \in SUBSET Nat
  OBVIOUS
<1>1. SUFFICES ASSUME S # {} PROVE FALSE
  OBVIOUS
<1>2. PICK k \in S : \A l \in S : k <= l
  BY <1>0, <1>1, LeastNumber, Zenon
<1>3. k # i
  BY <1>2
<1>4. k - 1 \in 0 .. DISKBLOCKTOTAL - 1 /\ k - 1 \in i .. DISKBLOCKTOTAL /\ (k - 1) + 1 = k /\ ~(k <= k - 1)
  BY <1>2, <1>3, Constants
<1>5. Chain(d)[k - 1] = NULL
  BY <1>2, <1>4
<1>6. Chain(d)[k] = NextOf(d, NULL)
  BY <1>4, <1>5, ChainStep
<1> QED
  BY <1>2, <1>6, Unlike DEF NextOf

(* Two places of a chain that meet stay together ...                       *)
LEMMA ChainShift ==
  ASSUME NEW d, NEW i \in 0 .. DISKBLOCKTOTAL, NEW j \in 0 .. DISKBLOCKTOTAL,
         i <= j, Chain(d)[i] = Chain(d)[j], NEW m \in Nat, j + m <= DISKBLOCKTOTAL
  PROVE  Chain(d)[i + m] = Chain(d)[j + m]
<1> DEFINE S == {k \in Nat : j + k <= DISKBLOCKTOTAL /\ Chain(d)[i + k] # Chain(d)[j + k]}
<1>0. S \in SUBSET Nat
  OBVIOUS
<1>1. SUFFICES ASSUME S # {} PROVE FALSE
  BY Zenon
<1>2. PICK k \in S : \A l \in S : k <= l
  BY <1>0, <1>1, LeastNumber, Zenon
<1>3. k # 0
  <2>1. i + 0 = i /\ j + 0 = j
    OBVIOUS
  <2> QED
    BY <1>2, <2>1
<1>4. /\ k - 1 \in Nat /\ j + (k - 1) <= DISKBLOCKTOTAL /\ ~(k <= k - 1)
      /\ i + (k - 1) \in 0 .. DISKBLOCKTOTAL - 1 /\ (i + (k - 1)) + 1 = i + k
      /\ j + (k - 1) \in 0 .. DISKBLOCKTOTAL - 1 /\ (j + (k - 1)) + 1 = j + k
  BY <1>2, <1>3, Constants
<1>5. Chain(d)[i + (k - 1)] = Chain(d)[j + (k - 1)]
  BY <1>2, <1>4
<1>6. Chain(d)[i + k] = NextOf(d, Chain(d)[i + (k - 1)]) /\ Chain(d)[j + k] = NextOf(d, Chain(d)[j + (k - 1)])
  BY <1>4, ChainStep
<1> QED
  BY <1>2, <1>5, <1>6

(* ... so that a chain that ends meets no block twice.                     *)
LEMMA ChainOnce ==
  ASSUME NEW d, Chain(d)[DISKBLOCKTOTAL] = NULL,
         NEW i \in 0 .. DISKBLOCKTOTAL, NEW j \in 0 .. DISKBLOCKTOTAL,
         Chain(d)[i] = Chain(d)[j], Chain(d)[i] # NULL
  PROVE  i = j
<1> DEFINE S == {k \in 0 .. DISKBLOCKTOTAL : Chain(d)[k] = NULL}
<1>1. S \in SUBSET Nat /\ S # {}
  BY Constants
<1>2. PICK k \in S : \A l \in S : k <= l
  BY <1>1, LeastNumber, Zenon
<1>3. ASSUME NEW x \in 0 .. DISKBLOCKTOTAL, NEW y \in 0 .. DISKBLOCKTOTAL, x < y,
             Chain(d)[x] = Chain(d)[y], Chain(d)[x] # NULL
      PROVE  FALSE
  <2>1. y < k
    <3>1. CASE k <= y
      <4>1. y \in k .. DISKBLOCKTOTAL
        BY <3>1, <1>2
      <4>2. Chain(d)[k] = NULL /\ k \in 0 .. DISKBLOCKTOTAL
        BY <1>2
      <4> QED
        BY <4>1, <4>2, <1>3, ChainEnds
    <3> QED
      BY <3>1, <1>2, Constants
  <2>2. /\ k - y \in Nat /\ x + (k - y) \in 0 .. DISKBLOCKTOTAL /\ y + (k - y) = k /\ ~(k <= x + (k - y))
        /\ x <= y /\ y + (k - y) <= DISKBLOCKTOTAL
    BY <2>1, <1>2, <1>3, Constants
  <2>3. Chain(d)[x + (k - y)] = Chain(d)[y + (k - y)]
    BY <2>2, <1>3, ChainShift
  <2>4. x + (k - y) \in S
    BY <2>2, <2>3, <1>2
  <2> QED
    BY <2>2, <2>4, <1>2
<1> QED
  BY <1>3, Constants

(* What the words of memory and of the disk may hold.                      *)
Segments == [num : Words, count : 0 .. FREEBLOCKMAX, next : Words, free : [Entries -> Words]]
Files    == [state : SUBSET {"used", "open", "dirty"}, block : Words]
Frames   == [call : {"none", "create", "close", "delete"}, at : Steps, fd : Slots,
             block : Words, cell : Words, save : Words,
             what : {"none", "data", "dir", "super", "seg", "back"}]
Links    == Cells \cup {NULL}

(* The structures on a disk are of the types of those in memory.           *)
DiskOK(d) ==
  /\ DOMAIN d = 0 .. DISKBLOCKTOTAL - 1
  /\ \A b \in 0 .. DISKBLOCKTOTAL - 1 :
       /\ d[b].type = "seg"   => d[b].seg \in Segments
       /\ d[b].type = "super" => d[b].freelst \in Words
       /\ d[b].type = "dir"   => d[b].files \in [Slots -> Files]

(* A cell and its number.                                                  *)
LEMMA CellNumbers ==
  ASSUME NEW i \in 0 .. DISKBLOCKTOTAL
  PROVE  Cell(i) \in Cells /\ -3 - Cell(i) = i
  BY Constants DEF Cells, Cell

(* The cells that sbOpen allocates are those of the blocks of the chain.   *)
LEMMA CellsOfIs ==
  ASSUME NEW d
  PROVE  /\ CellsOf(d) \subseteq Cells
         /\ \A i \in 0 .. DISKBLOCKTOTAL : Cell(i) \in CellsOf(d) <=> Chain(d)[i] # NULL
         /\ \A c \in CellsOf(d) : \E i \in 0 .. DISKBLOCKTOTAL : c = Cell(i)
<1>1. ASSUME NEW i \in 0 .. DISKBLOCKTOTAL, NEW j \in 0 .. DISKBLOCKTOTAL, Cell(i) = Cell(j) PROVE i = j
  BY <1>1, Constants DEF Cell
<1> QED
  BY <1>1 DEF CellsOf, Cells

(* The segment at the i-th cell.                                           *)
LEMMA SegmentAt ==
  ASSUME NEW d, DiskOK(d), Readable(d), NEW i \in 0 .. DISKBLOCKTOTAL, Chain(d)[i] # NULL
  PROVE  LET s == d[Chain(d)[i]].seg
             t == SegmentsOf(d)[Cell(i)]
         IN  /\ i < DISKBLOCKTOTAL
             /\ Chain(d)[i] \in Blocks /\ d[Chain(d)[i]].type = "seg" /\ s \in Segments
             /\ Chain(d)[i + 1] = s.next
             /\ t.num = s.num /\ t.count = s.count /\ t.free = s.free
             /\ t.next = IF s.next = NULL THEN NULL ELSE Cell(i + 1)
             /\ t \in Segments /\ t.next \in Links
<1> DEFINE b == Chain(d)[i]
           s == d[b].seg
           t == SegmentsOf(d)[Cell(i)]
<1>1. Chain(d)[DISKBLOCKTOTAL] = NULL /\ b \in Blocks /\ d[b].type = "seg"
  BY ChainStep, Zenon DEF Readable
<1>2. i < DISKBLOCKTOTAL /\ i \in 0 .. DISKBLOCKTOTAL - 1 /\ i + 1 \in 0 .. DISKBLOCKTOTAL
  BY <1>1, Constants
<1>3. s \in Segments
  BY <1>1 DEF DiskOK, Blocks
<1>4. Chain(d)[i + 1] = s.next
  BY <1>1, <1>2, ChainStep DEF NextOf
<1>5. Cell(i) \in CellsOf(d) /\ Cell(i) \in Cells /\ -3 - Cell(i) = i
  BY CellsOfIs, CellNumbers
<1>6. Cell(i) - 1 = Cell(i + 1) /\ Cell(i + 1) \in Cells
  BY <1>2, CellNumbers DEF Cell
<1> HIDE DEF b
<1>7. t = [s EXCEPT !.next = IF @ = NULL THEN NULL ELSE Cell(i) - 1]
  BY <1>5 DEF SegmentsOf, b
<1> HIDE DEF s, t
<1>8. /\ t.num = s.num /\ t.count = s.count /\ t.free = s.free
      /\ t.next = IF s.next = NULL THEN NULL ELSE Cell(i + 1)
  BY <1>3, <1>6, <1>7 DEF Segments
<1>9. t \in Segments
  BY <1>3, <1>6, <1>7, WordsAre DEF Segments
<1>10. t.next \in Links
  BY <1>6, <1>8 DEF Links
<1> QED
  BY <1>1, <1>2, <1>3, <1>4, <1>8, <1>9, <1>10 DEF b, s, t

(* Memory that nobody wrote is typed.                                      *)
LEMMA BlankIs == Blank \in Segments /\ Blank.next = NULL /\ Blank.count = 0
  BY Constants, WordsAre DEF Blank, Segments

(* The segments sbOpen reads from a disk are typed, and linked by          *)
(* pointers.                                                               *)
LEMMA SegmentsTyped ==
  ASSUME NEW d, DiskOK(d), Readable(d)
  PROVE  /\ SegmentsOf(d) \in [Cells -> Segments]
         /\ \A c \in Cells : SegmentsOf(d)[c].next \in Links
<1>1. ASSUME NEW c \in Cells
      PROVE  SegmentsOf(d)[c] \in Segments /\ SegmentsOf(d)[c].next \in Links
  <2>1. CASE c \in CellsOf(d)
    <3>1. PICK i \in 0 .. DISKBLOCKTOTAL : c = Cell(i)
      BY <2>1, CellsOfIs
    <3>2. Chain(d)[i] # NULL
      BY <2>1, <3>1, CellsOfIs
    <3> QED
      BY <3>1, <3>2, SegmentAt
  <2>2. CASE c \notin CellsOf(d)
    <3>1. SegmentsOf(d)[c] = Blank
      BY <2>2 DEF SegmentsOf
    <3> QED
      BY <3>1, BlankIs DEF Links
  <2> QED
    BY <2>1, <2>2
<1>2. \E f : SegmentsOf(d) = [c \in Cells |-> f[c]]
  <2>1. SegmentsOf(d) = [c \in Cells |-> SegmentsOf(d)[c]]
    BY DEF SegmentsOf
  <2> QED
    BY <2>1
<1> QED
  BY <1>1, <1>2

(* So are the files.                                                       *)
LEMMA FilesTyped ==
  ASSUME NEW d, DiskOK(d), d[DIRBLOCKNUM].type = "dir"
  PROVE  FilesOf(d) \in [Slots -> Files]
<1>1. d[DIRBLOCKNUM].files \in [Slots -> Files]
  BY Constants DEF DiskOK, DIRBLOCKNUM
<1> QED
  BY <1>1 DEF FilesOf, Files

-----------------------------------------------------------------------------
(* The formatted disk.                                                     *)

(* sbInit: the blocks of the formatted disk.                               *)
LEMMA FormattedIs ==
  /\ DOMAIN FormattedDisk = 0 .. DISKBLOCKTOTAL - 1
  /\ FormattedDisk[SUPERBLOCKNUM].type = "super"
  /\ FormattedDisk[SUPERBLOCKNUM].freelst = 2
  /\ FormattedDisk[SUPERBLOCKNUM].dirlst = DIRBLOCKNUM
  /\ FormattedDisk[DIRBLOCKNUM].type = "dir"
  /\ FormattedDisk[DIRBLOCKNUM].files = [fd \in Slots |-> [state |-> {}, block |-> JUNK]]
  /\ \A b \in Blocks : IF b \in Heads THEN /\ FormattedDisk[b].type = "seg"
                                           /\ FormattedDisk[b].seg = Formatted(b)
                       ELSE FormattedDisk[b].type = "data"
<1>1. /\ SUPERBLOCKNUM \in 0 .. DISKBLOCKTOTAL - 1 /\ DIRBLOCKNUM \in 0 .. DISKBLOCKTOTAL - 1
      /\ SUPERBLOCKNUM # DIRBLOCKNUM /\ SUPERBLOCKNUM \notin Heads /\ DIRBLOCKNUM \notin Heads
  BY Constants, Unlike DEF Heads, SUPERBLOCKNUM, DIRBLOCKNUM
<1>2. ASSUME NEW b \in Blocks
      PROVE  b \in 0 .. DISKBLOCKTOTAL - 1 /\ b # SUPERBLOCKNUM /\ b # DIRBLOCKNUM
  BY Constants DEF Blocks, SUPERBLOCKNUM, DIRBLOCKNUM
<1>3. ASSUME NEW b \in Blocks
      PROVE  FormattedDisk[b] = IF b \in Heads THEN Segment(Formatted(b)) ELSE Data
  BY <1>2 DEF FormattedDisk
<1>4. FormattedDisk[DIRBLOCKNUM] = Directory([fd \in Slots |-> [state |-> {}, block |-> JUNK]])
  BY <1>1 DEF FormattedDisk
<1>5. FormattedDisk[SUPERBLOCKNUM] = Superblock(2, DIRBLOCKNUM)
  BY <1>1 DEF FormattedDisk
<1>6. DOMAIN FormattedDisk = 0 .. DISKBLOCKTOTAL - 1
  BY DEF FormattedDisk
<1>7. ASSUME NEW b \in Blocks
      PROVE  IF b \in Heads THEN FormattedDisk[b].type = "seg" /\ FormattedDisk[b].seg = Formatted(b)
             ELSE FormattedDisk[b].type = "data"
  <2>1. Segment(Formatted(b)).type = "seg" /\ Segment(Formatted(b)).seg = Formatted(b) /\ Data.type = "data"
    BY DEF Segment, Data
  <2> QED
    BY <1>3, <2>1
<1>8. /\ FormattedDisk[SUPERBLOCKNUM].type = "super"
      /\ FormattedDisk[SUPERBLOCKNUM].freelst = 2
      /\ FormattedDisk[SUPERBLOCKNUM].dirlst = DIRBLOCKNUM
  BY <1>5 DEF Superblock
<1>9. /\ FormattedDisk[DIRBLOCKNUM].type = "dir"
      /\ FormattedDisk[DIRBLOCKNUM].files = [fd \in Slots |-> [state |-> {}, block |-> JUNK]]
  BY <1>4 DEF Directory
<1> QED
  BY <1>6, <1>7, <1>8, <1>9

(* A segment of the formatted disk: the blocks that follow its own.        *)
LEMMA FormattedAt ==
  ASSUME NEW b \in Heads
  PROVE  LET s   == Formatted(b)
             end == b + FREEBLOCKMAX + 1
         IN  /\ b \in Blocks
             /\ s.num = b /\ s.count \in 0 .. FREEBLOCKMAX
             /\ s.count <= DISKBLOCKTOTAL - b - 1
             /\ s.next = IF end < DISKBLOCKTOTAL THEN end ELSE NULL
             /\ end < DISKBLOCKTOTAL => end \in Heads
             /\ \A i \in Entries : s.free[i] = IF b + i + 1 < DISKBLOCKTOTAL THEN b + i + 1 ELSE JUNK
             /\ \A i \in Entries : i < s.count <=> b + i + 1 < DISKBLOCKTOTAL
             /\ s \in Segments
<1> DEFINE end == b + FREEBLOCKMAX + 1
           s == Formatted(b)
<1>1. b \in Blocks /\ b \in Nat /\ b < DISKBLOCKTOTAL /\ b >= 2
  BY Constants DEF Heads, Blocks
<1>2. PICK j \in 0 .. DISKBLOCKTOTAL : b = 2 + j * (FREEBLOCKMAX + 1)
  BY DEF Heads
<1>3. Min({end, DISKBLOCKTOTAL}) = IF end < DISKBLOCKTOTAL THEN end ELSE DISKBLOCKTOTAL
  <2>1. end \in Nat /\ DISKBLOCKTOTAL \in Nat
    BY <1>1, Constants
  <2>2. Min({end, DISKBLOCKTOTAL}) \in {end, DISKBLOCKTOTAL}
    BY <2>1, MinIn
  <2> HIDE DEF end
  <2>3. \E x \in {end, DISKBLOCKTOTAL} : \A y \in {end, DISKBLOCKTOTAL} : x <= y
    BY <2>1
  <2>4. \A y \in {end, DISKBLOCKTOTAL} : Min({end, DISKBLOCKTOTAL}) <= y
    BY <2>3 DEF Min
  <2> QED
    BY <2>1, <2>2, <2>4
<1>4. s = [num   |-> b,
           count |-> (IF end < DISKBLOCKTOTAL THEN end ELSE DISKBLOCKTOTAL) - b - 1,
           next  |-> IF end < DISKBLOCKTOTAL THEN end ELSE NULL,
           free  |-> [i \in Entries |-> IF b + i + 1 < DISKBLOCKTOTAL THEN b + i + 1 ELSE JUNK]]
  BY <1>3 DEF Formatted
<1>5. /\ s.num = b /\ s.count = (IF end < DISKBLOCKTOTAL THEN end ELSE DISKBLOCKTOTAL) - b - 1
      /\ s.next = IF end < DISKBLOCKTOTAL THEN end ELSE NULL
      /\ s.free = [i \in Entries |-> IF b + i + 1 < DISKBLOCKTOTAL THEN b + i + 1 ELSE JUNK]
  BY <1>4
<1>6. s.count \in 0 .. FREEBLOCKMAX /\ s.count <= DISKBLOCKTOTAL - b - 1
  BY <1>1, <1>5, Constants
<1>7. ASSUME end < DISKBLOCKTOTAL PROVE end \in Heads
  <2>1. end = 2 + (j + 1) * (FREEBLOCKMAX + 1)
    BY <1>2, Constants
  <2>2. (j + 1) * (FREEBLOCKMAX + 1) >= j + 1
    BY Constants
  <2>3. j + 1 \in 0 .. DISKBLOCKTOTAL
    <3>1. end >= 2 + (j + 1)
      <4> DEFINE m == (j + 1) * (FREEBLOCKMAX + 1)
      <4>1. m \in Nat /\ m >= j + 1 /\ end = 2 + m
        BY <2>1, <2>2, Constants
      <4> HIDE DEF m, end
      <4> QED
        BY <4>1, Constants
    <3> QED
      BY <3>1, <1>7, <1>1, Constants
  <2>4. end \in Blocks
    BY <1>1, <1>7, Constants DEF Blocks
  <2> HIDE DEF end
  <2> QED
    BY <2>1, <2>3, <2>4 DEF Heads
<1>8. ASSUME NEW i \in Entries
      PROVE  /\ i < s.count <=> b + i + 1 < DISKBLOCKTOTAL
             /\ s.free[i] = IF b + i + 1 < DISKBLOCKTOTAL THEN b + i + 1 ELSE JUNK
             /\ s.free[i] \in Words
  <2>1. i \in Nat /\ i < FREEBLOCKMAX
    BY Constants DEF Entries
  <2>2. i < s.count <=> b + i + 1 < DISKBLOCKTOTAL
    BY <2>1, <1>1, <1>5, Constants
  <2>3. s.free[i] = IF b + i + 1 < DISKBLOCKTOTAL THEN b + i + 1 ELSE JUNK
    BY <1>5
  <2>4. s.free[i] \in Words
    BY <2>1, <2>3, <1>1, WordsAre, Constants
  <2> QED
    BY <2>2, <2>3, <2>4
<1>9. s \in Segments
  <2>1. s.next \in Words
    BY <1>1, <1>5, WordsAre, Constants
  <2>2. s.free \in [Entries -> Words]
    BY <1>5, <1>8
  <2>3. s.num \in Words
    BY <1>1, <1>5, WordsAre
  <2>4. s = [num |-> s.num, count |-> s.count, next |-> s.next, free |-> s.free]
    BY <1>4
  <2> HIDE DEF s
  <2> QED
    BY <2>1, <2>2, <2>3, <2>4, <1>6 DEF Segments
<1> HIDE DEF s
<1> QED
  BY <1>1, <1>5, <1>6, <1>7, <1>8, <1>9 DEF s

(* The disk that sbInit writes is typed.                                   *)
LEMMA FormattedOK == DiskOK(FormattedDisk)
<1>1. ASSUME NEW b \in 0 .. DISKBLOCKTOTAL - 1
      PROVE  /\ FormattedDisk[b].type = "seg"   => FormattedDisk[b].seg \in Segments
             /\ FormattedDisk[b].type = "super" => FormattedDisk[b].freelst \in Words
             /\ FormattedDisk[b].type = "dir"   => FormattedDisk[b].files \in [Slots -> Files]
  <2>1. CASE b = SUPERBLOCKNUM
    <3>1. 2 \in Words
      BY WordsAre, Constants
    <3> QED
      BY <2>1, <3>1, FormattedIs
  <2>2. CASE b = DIRBLOCKNUM
    <3>1. [fd \in Slots |-> [state |-> {}, block |-> JUNK]] \in [Slots -> Files]
      BY WordsAre DEF Files
    <3> QED
      BY <2>2, <3>1, FormattedIs, Zenon
  <2>3. CASE b \in Blocks
    <3>1. CASE b \in Heads
      BY <2>3, <3>1, FormattedIs, FormattedAt
    <3>2. CASE b \notin Heads
      BY <2>3, <3>2, FormattedIs
    <3> QED
      BY <3>1, <3>2
  <2>4. b = SUPERBLOCKNUM \/ b = DIRBLOCKNUM \/ b \in Blocks
    BY Constants DEF SUPERBLOCKNUM, DIRBLOCKNUM, Blocks
  <2> QED
    BY <2>1, <2>2, <2>3, <2>4
<1> QED
  BY <1>1, FormattedIs DEF DiskOK

(* Its chain goes up from one head to the next, and so ends.               *)
LEMMA FormattedChain ==
  ASSUME NEW i \in 0 .. DISKBLOCKTOTAL
  PROVE  LET b == Chain(FormattedDisk)[i]
         IN  b = NULL \/ (b \in Heads /\ b >= 2 + i)
<1> DEFINE ch == Chain(FormattedDisk)
           S == {k \in 0 .. DISKBLOCKTOTAL : ~(ch[k] = NULL \/ (ch[k] \in Heads /\ ch[k] >= 2 + k))}
<1>0. S \in SUBSET Nat
  OBVIOUS
<1>1. SUFFICES ASSUME S # {} PROVE FALSE
  OBVIOUS
<1>2. PICK k \in S : \A l \in S : k <= l
  BY <1>0, <1>1, LeastNumber, Zenon
<1> HIDE DEF ch
<1>3. k # 0
  <2>1. ch[0] = 2
    BY ChainStep, FormattedIs, Zenon DEF ch
  <2>2. 2 = 2 + 0 * (FREEBLOCKMAX + 1) /\ 0 \in 0 .. DISKBLOCKTOTAL /\ 2 \in Blocks
    BY Constants DEF Blocks
  <2>3. 2 \in Heads
    BY <2>2 DEF Heads
  <2> QED
    BY <2>1, <2>3, <1>2
<1>4. k - 1 \in 0 .. DISKBLOCKTOTAL - 1 /\ k - 1 \in 0 .. DISKBLOCKTOTAL /\ (k - 1) + 1 = k /\ ~(k <= k - 1)
  BY <1>2, <1>3, Constants
<1>5. ch[k] = NextOf(FormattedDisk, ch[k - 1])
  BY <1>4, ChainStep DEF ch
<1>6. ch[k - 1] = NULL \/ (ch[k - 1] \in Heads /\ ch[k - 1] >= 2 + (k - 1))
  BY <1>2, <1>4
<1>7. CASE ch[k - 1] = NULL
  BY <1>7, <1>5, <1>2, Unlike DEF NextOf
<1>8. CASE ch[k - 1] \in Heads /\ ch[k - 1] >= 2 + (k - 1)
  <2> DEFINE b == ch[k - 1]
  <2>1. b \in Blocks /\ FormattedDisk[b].type = "seg" /\ FormattedDisk[b].seg = Formatted(b)
    BY <1>8, FormattedIs, FormattedAt
  <2>2. ch[k] = Formatted(b).next
    BY <1>5, <2>1 DEF NextOf
  <2>3. ch[k] = NULL \/ (ch[k] = b + FREEBLOCKMAX + 1 /\ ch[k] \in Heads)
    BY <2>2, <1>8, FormattedAt
  <2>4. b \in Nat /\ b >= 2 + (k - 1)
    BY <1>8, <2>1, Unlike
  <2>5. ch[k] = NULL \/ ch[k] >= 2 + k
    BY <2>3, <2>4, <1>2, Constants
  <2> QED
    BY <2>3, <2>5, <1>2
<1> QED
  BY <1>6, <1>7, <1>8

(* sbOpen can read it.                                                     *)
LEMMA FormattedReadable == Readable(FormattedDisk)
<1> DEFINE ch == Chain(FormattedDisk)
<1>1. ASSUME NEW i \in 0 .. DISKBLOCKTOTAL, ch[i] # NULL
      PROVE  ch[i] \in Heads /\ ch[i] \in Blocks /\ FormattedDisk[ch[i]].type = "seg" /\ ch[i] >= 2 + i
  <2>1. ch[i] \in Heads /\ ch[i] >= 2 + i
    BY <1>1, FormattedChain
  <2> QED
    BY <2>1, FormattedAt, FormattedIs
<1>2. ch[DISKBLOCKTOTAL] = NULL
  <2>1. DISKBLOCKTOTAL \in 0 .. DISKBLOCKTOTAL
    BY Constants
  <2> QED
    BY <1>1, <2>1, Unlike, Constants
<1>3. DOMAIN ch = 0 .. DISKBLOCKTOTAL
  BY ChainStep
<1> QED
  BY <1>1, <1>2, <1>3, FormattedIs DEF Readable

-----------------------------------------------------------------------------
(* Types: the invariant, and one lemma per action.                         *)

(* Where the frame f of a process is: its steps, by call.                  *)
PhaseOK(f) ==
  /\ f.call = "none" => f.at = "user"
  /\ f.call = "create" =>
       /\ f.at \in {"dirlock", "slot", "head", "freelock", "get", "seek", "write", "unswizzle", "last", "assign"}
       /\ f.at \in {"seek", "write"} => f.what \in {"seg", "super"}
       /\ f.at = "unswizzle" => f.what = "seg"
       /\ f.at = "last" => f.what = "super"
  /\ f.call = "close" =>
       /\ f.at \in {"seek", "write", "closed", "dirlock", "dirdone"}
       /\ f.at \in {"seek", "write"} => f.what \in {"data", "dir"}
  /\ f.call = "delete" =>
       /\ f.at \in {"dirlock", "unlink", "head", "freelock", "put", "seek", "write", "relink", "freed",
                    "refused", "dirdone"}
       /\ f.at \in {"seek", "write"} => f.what \in {"super", "back", "dir"}
       /\ f.at = "relink" => f.what = "super"

(* In the free list, with its lock; with a number in place of a link; with *)
(* a segment that changes.                                                 *)
InList(f) ==
  \/ f.call = "create" /\ f.at \in {"get", "seek", "write", "unswizzle", "last"}
  \/ f.call = "delete" /\ f.at \in {"put", "relink", "freed", "refused"}
  \/ f.call = "delete" /\ f.at \in {"seek", "write"} /\ f.what \in {"super", "back"}
Swapped(f) == f.call = "create" /\ f.what = "seg" /\ f.at \in {"seek", "write", "unswizzle"}
Puts(f) ==
  \/ f.call = "delete" /\ f.at = "relink"
  \/ f.call = "delete" /\ f.at \in {"seek", "write"} /\ f.what \in {"super", "back"}

(* A frame: the cells it works on are cells.                               *)
FrameOK(f) ==
  /\ f \in Frames /\ PhaseOK(f)
  /\ Swapped(f) => f.cell \in Cells /\ f.save \in Links
  /\ Puts(f) => f.cell \in Cells

(* While nobody has left the list with its lock, only the process in it    *)
(* has a number in place of a link.                                        *)
Held    == \A p \in Procs : sb_freelock = p => InList(ctx[p])
LinksOK == Held => \A c \in Cells : seg[c].next \in Links \/ \E p \in Procs : Swapped(ctx[p]) /\ ctx[p].cell = c

(* The inductive invariant of the types: TypeOK, the types on the disk,    *)
(* which FileSystem.TypeOK leaves out, what a frame may hold at its step,  *)
(* and that, while the lock is not left behind, only the segment its       *)
(* holder works on has a number for a link.                                *)
TypeInv ==
  /\ TypeOK
  /\ DiskOK(disk)
  /\ \A p \in Procs : FrameOK(ctx[p])
  /\ ~wild => /\ \A p \in Procs : InList(ctx[p]) => sb_freelock = p
              /\ LinksOK

(* The parts of TypeOK under short names.                                  *)
LEMMA FramesAre == TypeOK => ctx \in [Procs -> Frames] /\ seg \in [Cells -> Segments] /\ filetab \in [Slots -> Files]
  BY DEF TypeOK, Frames, Segments, Files

(* And together again.                                                     *)
LEMMA TypeIs ==
  ASSUME seg \in [Cells -> Segments], live \subseteq Cells, sb_freelst \in Words,
         sb_dirlst \in {DIR, DIRBLOCKNUM}, filetab \in [Slots -> Files],
         sb_freelock \in Procs \cup {"free"}, sb_dirlock \in Procs \cup {"free"},
         current \in 0 .. DISKBLOCKTOTAL - 1, ctx \in [Procs -> Frames],
         wild \in BOOLEAN, unsaved \in BOOLEAN
  PROVE  TypeOK
  BY DEF TypeOK, Frames, Segments, Files

(* A process in no call.                                                   *)
LEMMA UserFrame == FrameOK(User) /\ ~InList(User) /\ ~Swapped(User) /\ ~Puts(User)
  BY WordsAre, Constants DEF FrameOK, User, Frames, PhaseOK, InList, Swapped, Puts, Steps, Slots

(* Memory as a restart finds it is typed.                                  *)
LEMMA RestartTyped ==
  ASSUME NEW d, DiskOK(d), Readable(d), seg = SegmentsOf(d), live = CellsOf(d),
         sb_freelst \in {NULL, Cell(0)}, sb_dirlst = DIR, filetab = FilesOf(d),
         sb_freelock = "free", sb_dirlock = "free", current = DIRBLOCKNUM,
         ctx = [p \in Procs |-> User], wild \in BOOLEAN, unsaved \in BOOLEAN, disk = d
  PROVE  TypeInv
<1>1. seg \in [Cells -> Segments] /\ \A c \in Cells : seg[c].next \in Links
  BY SegmentsTyped
<1>2. live \subseteq Cells
  BY CellsOfIs
<1>3. filetab \in [Slots -> Files]
  BY FilesTyped DEF Readable
<1>4. sb_freelst \in Words /\ current \in 0 .. DISKBLOCKTOTAL - 1
  BY WordsAre, CellNumbers, Constants DEF DIRBLOCKNUM
<1>5. ctx \in [Procs -> Frames]
  BY UserFrame DEF FrameOK
<1>6. TypeOK
  BY <1>1, <1>2, <1>3, <1>4, <1>5, TypeIs
<1> QED
  BY <1>1, <1>6, UserFrame DEF TypeInv, LinksOK

(* The type invariant holds after sbInit and sbOpen.                       *)
LEMMA TypeInit == Init => TypeInv
<1> SUFFICES ASSUME Init PROVE TypeInv
  OBVIOUS
<1> QED
  BY RestartTyped, FormattedOK, FormattedReadable, Zenon DEF Init

(* A crash, and the restart after it, keep the type invariant.             *)
LEMMA TypeCrash ==
  ASSUME TypeInv, Crash
  PROVE  TypeInv'
<1>1. CASE Readable(disk)
  <2>1. /\ seg' = SegmentsOf(disk) /\ live' = CellsOf(disk)
        /\ sb_freelst' \in {NULL, Cell(0)} /\ sb_dirlst' = DIR /\ filetab' = FilesOf(disk)
        /\ sb_freelock' = "free" /\ sb_dirlock' = "free" /\ current' = DIRBLOCKNUM
        /\ ctx' = [p \in Procs |-> User] /\ disk' = disk
        /\ unsaved' = unsaved /\ wild' = wild
    BY <1>1 DEF Crash
  <2>2. DiskOK(disk) /\ unsaved \in BOOLEAN /\ wild \in BOOLEAN
    BY DEF TypeInv, TypeOK
  <2>3. seg' \in [Cells -> Segments] /\ \A c \in Cells : seg'[c].next \in Links
    BY <1>1, <2>1, <2>2, SegmentsTyped
  <2>4. live' \subseteq Cells
    BY <2>1, CellsOfIs
  <2>5. filetab' \in [Slots -> Files]
    BY <1>1, <2>1, <2>2, FilesTyped DEF Readable
  <2>6. sb_freelst' \in Words /\ current' \in 0 .. DISKBLOCKTOTAL - 1
    BY <2>1, WordsAre, CellNumbers, Constants DEF DIRBLOCKNUM
  <2>7. ctx' \in [Procs -> Frames]
    BY <2>1, UserFrame DEF FrameOK
  <2>8. TypeOK'
    BY <2>1, <2>2, <2>3, <2>4, <2>5, <2>6, <2>7 DEF TypeOK, Frames, Segments, Files
  <2> QED
    BY <2>1, <2>2, <2>3, <2>8, UserFrame DEF TypeInv, LinksOK
<1>2. CASE ~Readable(disk)
  BY <1>2 DEF Crash, TypeInv, TypeOK, super, locks
<1> QED
  BY <1>1, <1>2

(* The process p gets the frame f.                                         *)
Moves(p, f) == ctx' = [ctx EXCEPT ![p] = f]

(* A step takes the lock, gives it back, or goes on with or without it.    *)
Stays(p, f)  == sb_freelock' = sb_freelock /\ (InList(f) <=> InList(ctx[p]))
Takes(p, f)  == sb_freelock = "free" /\ sb_freelock' = p /\ InList(f)
Gives(p, f)  == sb_freelock' = "free" /\ InList(ctx[p]) /\ ~InList(f)
Leaves(p, f) == sb_freelock' = sb_freelock /\ InList(ctx[p]) /\ ~InList(f)
(* Every link after the step is a pointer, the number in the segment just  *)
(* swapped, or what it was.                                                *)
LinksStep(p, f) ==
  \A c \in Cells :
    \/ seg'[c].next \in Links
    \/ Swapped(f) /\ f.cell = c
    \/ seg'[c].next = seg[c].next /\ ~(Swapped(ctx[p]) /\ ctx[p].cell = c)

(* A process that moves and takes, keeps, gives back or leaves the lock    *)
(* keeps the frames typed, the lock with the process in the list, and the  *)
(* links pointers.                                                         *)
LEMMA FrameMoves ==
  ASSUME TypeInv, ~wild, NEW p \in Procs, NEW f, Moves(p, f), FrameOK(f),
         Stays(p, f) \/ Takes(p, f) \/ Gives(p, f) \/ Leaves(p, f),
         Leaves(p, f) \/ LinksStep(p, f)
  PROVE  /\ ctx' \in [Procs -> Frames]
         /\ \A q \in Procs : FrameOK(ctx[q])'
         /\ \A q \in Procs : InList(ctx'[q]) => sb_freelock' = q
         /\ LinksOK'
<1>1. /\ ctx \in [Procs -> Frames] /\ \A q \in Procs : FrameOK(ctx[q])
      /\ \A q \in Procs : InList(ctx[q]) => sb_freelock = q
      /\ LinksOK
  BY FramesAre DEF TypeInv
<1>2. ctx' \in [Procs -> Frames]
  BY <1>1 DEF Moves, FrameOK
<1>3. ctx'[p] = f /\ \A q \in Procs \ {p} : ctx'[q] = ctx[q]
  BY <1>1 DEF Moves
<1>4. ASSUME NEW q \in Procs PROVE FrameOK(ctx'[q])
  BY <1>1, <1>3
<1>5. ASSUME NEW q \in Procs, InList(ctx'[q]) PROVE sb_freelock' = q
  <2>1. CASE q = p
    BY <2>1, <1>1, <1>3, <1>5 DEF Stays, Takes, Gives, Leaves
  <2>2. CASE q # p
    BY <2>2, <1>1, <1>3, <1>5, Constants DEF Stays, Takes, Gives, Leaves
  <2> QED
    BY <2>1, <2>2
<1>6. LinksOK'
  <2>1. CASE Leaves(p, f)
    <3>1. sb_freelock' = p /\ ~InList(ctx'[p])
      BY <2>1, <1>1, <1>3 DEF Leaves
    <3> QED
      BY <3>1 DEF LinksOK, Held
  <2>2. CASE ~Leaves(p, f)
    <3> SUFFICES ASSUME Held', NEW c \in Cells
                 PROVE  seg'[c].next \in Links \/ \E q \in Procs : Swapped(ctx'[q]) /\ ctx'[q].cell = c
      BY DEF LinksOK
    <3>1. Held
      <4> SUFFICES ASSUME NEW q \in Procs, sb_freelock = q PROVE InList(ctx[q])
        BY DEF Held
      <4>1. CASE Stays(p, f)
        BY <4>1, <1>3 DEF Stays, Held
      <4>2. CASE Takes(p, f)
        BY <4>2, Constants DEF Takes
      <4>3. CASE Gives(p, f)
        BY <4>3, <1>1 DEF Gives
      <4> QED
        BY <4>1, <4>2, <4>3, <2>2
    <3>2. seg[c].next \in Links \/ \E q \in Procs : Swapped(ctx[q]) /\ ctx[q].cell = c
      BY <3>1, <1>1 DEF LinksOK
    <3>3. \/ seg'[c].next \in Links
          \/ Swapped(f) /\ f.cell = c
          \/ seg'[c].next = seg[c].next /\ ~(Swapped(ctx[p]) /\ ctx[p].cell = c)
      BY <2>2 DEF LinksStep
    <3> QED
      BY <3>2, <3>3, <1>3
  <2> QED
    BY <2>1, <2>2
<1> QED
  BY <1>2, <1>4, <1>5, <1>6

(* The rest of the type invariant of the next state.                       *)
LEMMA TypeNext ==
  ASSUME TypeInv, ~wild, NEW p \in Procs, NEW f, Moves(p, f), FrameOK(f),
         Stays(p, f) \/ Takes(p, f) \/ Gives(p, f) \/ Leaves(p, f),
         Leaves(p, f) \/ LinksStep(p, f),
         seg' \in [Cells -> Segments], live' \subseteq Cells, sb_freelst' \in Words,
         sb_dirlst' \in {DIR, DIRBLOCKNUM}, filetab' \in [Slots -> Files],
         sb_dirlock' \in {sb_dirlock, p, "free"}, current' \in 0 .. DISKBLOCKTOTAL - 1,
         DiskOK(disk'), wild' = wild, unsaved' \in BOOLEAN
  PROVE  TypeInv'
<1>1. /\ ctx' \in [Procs -> Frames]
      /\ \A q \in Procs : FrameOK(ctx[q])'
      /\ \A q \in Procs : InList(ctx'[q]) => sb_freelock' = q
      /\ LinksOK'
  BY FrameMoves
<1>2. sb_freelock' \in Procs \cup {"free"} /\ sb_dirlock' \in Procs \cup {"free"}
  BY DEF TypeInv, TypeOK, Stays, Takes, Gives, Leaves
<1>3. TypeOK'
  BY <1>1, <1>2 DEF TypeInv, TypeOK, Frames, Segments, Files
<1> QED
  BY <1>1, <1>3 DEF TypeInv

(* A step that goes wild changes nothing else.                             *)
LEMMA TypeWild ==
  ASSUME TypeInv, GoesWild
  PROVE  TypeInv'
  BY DEF TypeInv, TypeOK, GoesWild, super, locks, device, faults

(* What a step finds.                                                      *)
LEMMA TypeNow ==
  ASSUME TypeInv
  PROVE  /\ ctx \in [Procs -> Frames] /\ seg \in [Cells -> Segments] /\ filetab \in [Slots -> Files]
         /\ live \subseteq Cells /\ sb_freelst \in Words /\ sb_dirlst \in {DIR, DIRBLOCKNUM}
         /\ current \in 0 .. DISKBLOCKTOTAL - 1 /\ DiskOK(disk) /\ unsaved \in BOOLEAN /\ wild \in BOOLEAN
         /\ \A p \in Procs : FrameOK(ctx[p])
  BY FramesAre DEF TypeInv, TypeOK

(* A step that keeps the lists.                                            *)
LEMMA TypeQuiet ==
  ASSUME TypeInv, ~wild, NEW p \in Procs, NEW f, Moves(p, f), FrameOK(f),
         Stays(p, f) \/ Takes(p, f) \/ Gives(p, f) \/ Leaves(p, f),
         Leaves(p, f) \/ (Swapped(ctx[p]) => Swapped(f) /\ f.cell = ctx[p].cell),
         seg' = seg, live' \subseteq live, sb_freelst' \in Words,
         sb_dirlst' \in {DIR, DIRBLOCKNUM}, filetab' \in [Slots -> Files],
         sb_dirlock' \in {sb_dirlock, p, "free"}, current' \in 0 .. DISKBLOCKTOTAL - 1,
         DiskOK(disk'), wild' = wild, unsaved' \in BOOLEAN
  PROVE  TypeInv'
<1>1. Leaves(p, f) \/ LinksStep(p, f)
  BY DEF LinksStep
<1>2. seg' \in [Cells -> Segments] /\ live' \subseteq Cells
  BY TypeNow
<1> QED
  BY <1>1, <1>2, TypeNext

(* The types are kept when the disk is moved to the block.                 *)
LEMMA TypeSeek ==
  ASSUME TypeInv, ~wild, NEW p \in Procs, Seek(p)
  PROVE  TypeInv'
<1>1. CASE Target(p) \in 0 .. DISKBLOCKTOTAL - 1
  <2> DEFINE f == [ctx[p] EXCEPT !.at = "write"]
  <2>0. ctx[p].at = "seek"
    BY DEF Seek, At
  <2>1. Moves(p, f) /\ current' = Target(p) /\ UNCHANGED <<seg, live, super, filetab, locks, disk, faults, creates, wild>>
    BY <1>1, TypeNow DEF Seek, Goto, Moves
  <2>2. FrameOK(f) /\ (InList(f) <=> InList(ctx[p])) /\ (Swapped(ctx[p]) => Swapped(f) /\ f.cell = ctx[p].cell)
    BY <2>0, TypeNow DEF FrameOK, Frames, Steps, PhaseOK, InList, Swapped, Puts
  <2> HIDE DEF f
  <2> QED
    BY <1>1, <2>1, <2>2, TypeNow, TypeQuiet DEF Stays, super, locks, faults
<1>2. CASE Target(p) \notin 0 .. DISKBLOCKTOTAL - 1
  BY <1>2, TypeWild DEF Seek
<1> QED
  BY <1>1, <1>2

(* Whatever structure a process writes is typed.                           *)
LEMMA WrittenOK ==
  ASSUME TypeInv, ~wild, NEW p \in Procs, ctx[p].at = "write"
  PROVE  DiskOK([disk EXCEPT ![current] = Written(p)])
<1>1. ASSUME NEW v, v.type = "seg" => v.seg \in Segments, v.type = "super" => v.freelst \in Words,
             v.type = "dir" => v.files \in [Slots -> Files]
      PROVE  DiskOK([disk EXCEPT ![current] = v])
  BY <1>1, TypeNow DEF DiskOK
<1>2. FrameOK(ctx[p]) /\ ctx[p].what \in {"data", "dir", "super", "seg", "back"}
  BY TypeNow DEF FrameOK, PhaseOK, Frames
<1>3. CASE ctx[p].what = "data"
  BY <1>1, <1>3, Zenon DEF Written, Data
<1>4. CASE ctx[p].what = "dir"
  BY <1>1, <1>4, TypeNow, Zenon DEF Written, Directory
<1>5. CASE ctx[p].what = "super"
  BY <1>1, <1>5, TypeNow, Zenon DEF Written, Superblock
<1>6. CASE ctx[p].what = "seg"
  <2>1. ctx[p].cell \in Cells
    BY <1>2, <1>6 DEF FrameOK, Frames, PhaseOK, Swapped
  <2>2. seg[ctx[p].cell] \in Segments
    BY <2>1, TypeNow
  <2> QED
    BY <1>1, <1>6, <2>2, Zenon DEF Written, Segment
<1>7. CASE ctx[p].what = "back"
  <2>1. ctx[p].cell \in Cells
    BY <1>2, <1>7 DEF FrameOK, Frames, PhaseOK, Puts
  <2>2. seg[ctx[p].cell] \in Segments
    BY <2>1, TypeNow
  <2> QED
    BY <1>1, <1>7, <2>2, Zenon DEF Written, Segment
<1> QED
  BY <1>2, <1>3, <1>4, <1>5, <1>6, <1>7

(* The types are kept when the structure is written.                       *)
LEMMA TypeWrite ==
  ASSUME TypeInv, ~wild, NEW p \in Procs, Write(p)
  PROVE  TypeInv'
<1> DEFINE at == CASE ctx[p].what = "data"  -> "closed"
               [] ctx[p].what = "dir"   -> "dirdone"
               [] ctx[p].what = "seg"   -> "unswizzle"
               [] ctx[p].what = "back"  -> "freed"
               [] ctx[p].what = "super" -> IF ctx[p].call = "create" THEN "last" ELSE "relink"
           f == [ctx[p] EXCEPT !.at = at]
<1>0. ctx[p].at = "write" /\ disk' = [disk EXCEPT ![current] = Written(p)]
      /\ UNCHANGED <<seg, live, super, filetab, locks, current, faults, creates, wild>>
  BY DEF Write, At
<1>1. Moves(p, f)
  BY TypeNow DEF Write, Goto, Moves
<1>2. FrameOK(f) /\ (InList(f) <=> InList(ctx[p])) /\ (Swapped(ctx[p]) => Swapped(f) /\ f.cell = ctx[p].cell)
  <2>1. CASE ctx[p].what = "data"
    BY <2>1, <1>0, TypeNow DEF FrameOK, Frames, Steps, PhaseOK, InList, Swapped, Puts
  <2>2. CASE ctx[p].what = "dir"
    BY <2>2, <1>0, TypeNow DEF FrameOK, Frames, Steps, PhaseOK, InList, Swapped, Puts
  <2>3. CASE ctx[p].what = "seg"
    BY <2>3, <1>0, TypeNow DEF FrameOK, Frames, Steps, PhaseOK, InList, Swapped, Puts
  <2>4. CASE ctx[p].what = "back"
    BY <2>4, <1>0, TypeNow DEF FrameOK, Frames, Steps, PhaseOK, InList, Swapped, Puts
  <2>5. CASE ctx[p].what = "super"
    BY <2>5, <1>0, TypeNow DEF FrameOK, Frames, Steps, PhaseOK, InList, Swapped, Puts
  <2>6. ctx[p].what \in {"data", "dir", "super", "seg", "back"}
    BY <1>0, TypeNow DEF FrameOK, Frames, PhaseOK
  <2> QED
    BY <2>1, <2>2, <2>3, <2>4, <2>5, <2>6, Zenon
<1> HIDE DEF f
<1> QED
  BY <1>0, <1>1, <1>2, TypeNow, TypeQuiet, WrittenOK, Zenon DEF Stays, super, locks, faults

(* The types are kept when a write fails.                                  *)
LEMMA TypeWriteFails ==
  ASSUME TypeInv, ~wild, NEW p \in Procs, WriteFails(p)
  PROVE  TypeInv'
<1> DEFINE f == IF ctx[p].call = "create" THEN [ctx[p] EXCEPT !.at = "assign", !.block = SYSERR]
                ELSE [ctx[p] EXCEPT !.at = CASE ctx[p].what = "data" -> "closed"
                                             [] ctx[p].what = "dir"  -> "dirdone"
                                             [] OTHER                -> "refused"]
<1>0. ctx[p].at = "write" /\ unsaved' = (unsaved \/ ctx[p].call = "delete")
      /\ UNCHANGED <<seg, live, super, filetab, locks, device, crashes, creates, wild>>
  BY DEF WriteFails, At
<1>1. Moves(p, f)
  BY TypeNow, Zenon DEF WriteFails, Goto, Moves
<1>2. FrameOK(f) /\ IF ctx[p].call = "create" THEN InList(ctx[p]) /\ ~InList(f)
                    ELSE (InList(f) <=> InList(ctx[p])) /\ ~Swapped(ctx[p])
  <2>1. CASE ctx[p].call = "create"
    <3>1. f = [ctx[p] EXCEPT !.at = "assign", !.block = SYSERR] /\ ctx[p] \in Frames
      BY <2>1, TypeNow
    <3> HIDE DEF f
    <3>2. f \in Frames
      BY <3>1, WordsAre, Zenon DEF Frames, Steps
    <3>3. f.at = "assign" /\ f.call = "create"
      BY <2>1, <3>1 DEF Frames
    <3>4. FrameOK(f) /\ ~InList(f)
      BY <3>2, <3>3 DEF FrameOK, PhaseOK, InList, Swapped, Puts
    <3> QED
      BY <3>4, <2>1, <1>0 DEF InList
  <2>2. CASE ctx[p].call = "close"
    BY <2>2, <1>0, TypeNow DEF FrameOK, Frames, Steps, PhaseOK, InList, Swapped, Puts
  <2>3. CASE ctx[p].call = "delete"
    BY <2>3, <1>0, TypeNow DEF FrameOK, Frames, Steps, PhaseOK, InList, Swapped, Puts
  <2>4. ctx[p].call \in {"create", "close", "delete"}
    BY <1>0, TypeNow DEF FrameOK, Frames, PhaseOK
  <2> QED
    BY <2>1, <2>2, <2>3, <2>4
<1> HIDE DEF f
<1>3. unsaved' \in BOOLEAN
  BY <1>0, TypeNow
<1>4. disk' = disk /\ current' = current /\ sb_freelock' = sb_freelock /\ sb_dirlock' = sb_dirlock
      /\ sb_freelst' = sb_freelst /\ sb_dirlst' = sb_dirlst
  BY <1>0 DEF super, locks, device
<1> QED
  BY <1>0, <1>1, <1>2, <1>3, <1>4, TypeNow, TypeQuiet DEF Stays, Leaves

(* The types are kept when the lock of the directory is taken.             *)
LEMMA TypeDirLock ==
  ASSUME TypeInv, ~wild, NEW p \in Procs, DirLock(p)
  PROVE  TypeInv'
<1> DEFINE f == CASE ctx[p].call = "create" -> [ctx[p] EXCEPT !.at = "slot"]
               [] ctx[p].call = "delete" -> [ctx[p] EXCEPT !.at = "unlink"]
               [] ctx[p].call = "close"  -> [ctx[p] EXCEPT !.at = "seek", !.what = "dir"]
<1>0. ctx[p].at = "dirlock"
  BY DEF DirLock, At
<1>1. Moves(p, f)
  BY TypeNow DEF DirLock, Goto, Return, Moves, Save
<1>2. FrameOK(f) /\ (InList(f) <=> InList(ctx[p])) /\ ~Swapped(ctx[p])
  <2>1. CASE ctx[p].call = "create"
    BY <2>1, <1>0, TypeNow, UserFrame, WordsAre, Constants, ZenonT(60) DEF FrameOK, Frames, Steps, PhaseOK, InList, Swapped, Puts, Save, User, Slots
  <2>2. CASE ctx[p].call = "close"
    BY <2>2, <1>0, TypeNow, UserFrame, WordsAre, Constants, ZenonT(60) DEF FrameOK, Frames, Steps, PhaseOK, InList, Swapped, Puts, Save, User, Slots
  <2>3. CASE ctx[p].call = "delete"
    BY <2>3, <1>0, TypeNow, UserFrame, WordsAre, Constants, ZenonT(60) DEF FrameOK, Frames, Steps, PhaseOK, InList, Swapped, Puts, Save, User, Slots
  <2>4. ctx[p].call \in {"create", "close", "delete"}
    BY <1>0, TypeNow DEF FrameOK, Frames, PhaseOK
  <2> QED
    BY <2>1, <2>2, <2>3, <2>4
<1> HIDE DEF f
<1>3. /\ seg' = seg /\ live' = live /\ sb_freelst' \in Words /\ sb_dirlst' \in {DIR, DIRBLOCKNUM}
      /\ filetab' \in [Slots -> Files] /\ sb_dirlock' \in {sb_dirlock, p, "free"}
      /\ current' \in 0 .. DISKBLOCKTOTAL - 1 /\ disk' = disk /\ wild' = wild /\ unsaved' = unsaved
      /\ sb_freelock' = sb_freelock
  BY <1>0, TypeNow DEF DirLock, super, locks, device, faults, Files
<1> QED
  BY <1>0, <1>1, <1>2, <1>3, TypeNow, TypeQuiet DEF Stays

(* The types are kept when the lock of the directory is given back and the *)
(* call returns.                                                           *)
LEMMA TypeDirDone ==
  ASSUME TypeInv, ~wild, NEW p \in Procs, DirDone(p)
  PROVE  TypeInv'
<1> DEFINE f == User
<1>0. ctx[p].at = "dirdone"
  BY DEF DirDone, At
<1>1. Moves(p, f)
  BY TypeNow DEF DirDone, Goto, Return, Moves, Save
<1>2. FrameOK(f) /\ (InList(f) <=> InList(ctx[p])) /\ ~Swapped(ctx[p])
  BY <1>0, TypeNow, UserFrame, WordsAre, Constants DEF FrameOK, Frames, Steps, PhaseOK, InList, Swapped, Puts, Save, User, Slots
<1> HIDE DEF f
<1>3. /\ seg' = seg /\ live' = live /\ sb_freelst' \in Words /\ sb_dirlst' \in {DIR, DIRBLOCKNUM}
      /\ filetab' \in [Slots -> Files] /\ sb_dirlock' \in {sb_dirlock, p, "free"}
      /\ current' \in 0 .. DISKBLOCKTOTAL - 1 /\ disk' = disk /\ wild' = wild /\ unsaved' = unsaved
      /\ sb_freelock' = sb_freelock
  BY <1>0, TypeNow DEF DirDone, super, locks, device, faults, Files
<1> QED
  BY <1>0, <1>1, <1>2, <1>3, TypeNow, TypeQuiet DEF Stays

(* The types are kept when the head of the list is read.                   *)
LEMMA TypeReadHead ==
  ASSUME TypeInv, ~wild, NEW p \in Procs, ReadHead(p)
  PROVE  TypeInv'
<1> DEFINE f == IF ctx[p].call = "create" /\ sb_freelst = NULL THEN [ctx[p] EXCEPT !.at = "assign", !.block = SYSERR]
                ELSE [ctx[p] EXCEPT !.at = "freelock", !.cell = sb_freelst]
<1>0. ctx[p].at = "head"
  BY DEF ReadHead, At
<1>1. Moves(p, f)
  BY TypeNow DEF ReadHead, Goto, Return, Moves, Save
<1>2. FrameOK(f) /\ (InList(f) <=> InList(ctx[p])) /\ ~Swapped(ctx[p])
  <2>1. ctx[p] \in Frames /\ FrameOK(ctx[p]) /\ sb_freelst \in Words
    BY TypeNow
  <2>2. f \in Frames /\ f.call = ctx[p].call /\ f.at \in {"assign", "freelock"}
        /\ (f.at = "assign" => f.call = "create")
    <3>1. CASE ctx[p].call = "create" /\ sb_freelst = NULL
      <4>1. f = [ctx[p] EXCEPT !.at = "assign", !.block = SYSERR]
        BY <3>1
      <4> HIDE DEF f
      <4> QED
        BY <2>1, <3>1, <4>1, WordsAre, Zenon DEF Frames, Steps
    <3>2. CASE ~(ctx[p].call = "create" /\ sb_freelst = NULL)
      <4>1. f = [ctx[p] EXCEPT !.at = "freelock", !.cell = sb_freelst]
        BY <3>2
      <4> HIDE DEF f
      <4> QED
        BY <2>1, <4>1, Zenon DEF Frames, Steps
    <3> QED
      BY <3>1, <3>2
  <2> HIDE DEF f
  <2> QED
    BY <2>1, <2>2, <1>0 DEF FrameOK, PhaseOK, InList, Swapped, Puts
<1> HIDE DEF f
<1>3. /\ seg' = seg /\ live' = live /\ sb_freelst' \in Words /\ sb_dirlst' \in {DIR, DIRBLOCKNUM}
      /\ filetab' \in [Slots -> Files] /\ sb_dirlock' \in {sb_dirlock, p, "free"}
      /\ current' \in 0 .. DISKBLOCKTOTAL - 1 /\ disk' = disk /\ wild' = wild /\ unsaved' = unsaved
      /\ sb_freelock' = sb_freelock
  BY <1>0, TypeNow DEF ReadHead, super, locks, device, faults, Files
<1> QED
  BY <1>0, <1>1, <1>2, <1>3, TypeNow, TypeQuiet DEF Stays

(* The types are kept when fileCreate is called.                           *)
LEMMA TypeCreate ==
  ASSUME TypeInv, ~wild, NEW p \in Procs, Create(p)
  PROVE  TypeInv'
<1> DEFINE f == [User EXCEPT !.call = "create", !.at = "dirlock"]
<1>0. ctx[p].at = "user"
  BY DEF Create, At
<1>1. Moves(p, f)
  BY TypeNow DEF Create, Goto, Return, Moves, Save
<1>2. FrameOK(f) /\ (InList(f) <=> InList(ctx[p])) /\ ~Swapped(ctx[p])
  BY <1>0, TypeNow, UserFrame, WordsAre, Constants, ZenonT(60) DEF FrameOK, Frames, Steps, PhaseOK, InList, Swapped, Puts, Save, User, Slots
<1> HIDE DEF f
<1>3. /\ seg' = seg /\ live' = live /\ sb_freelst' \in Words /\ sb_dirlst' \in {DIR, DIRBLOCKNUM}
      /\ filetab' \in [Slots -> Files] /\ sb_dirlock' \in {sb_dirlock, p, "free"}
      /\ current' \in 0 .. DISKBLOCKTOTAL - 1 /\ disk' = disk /\ wild' = wild /\ unsaved' = unsaved
      /\ sb_freelock' = sb_freelock
  BY <1>0, TypeNow DEF Create, super, locks, device, faults, Files
<1> QED
  BY <1>0, <1>1, <1>2, <1>3, TypeNow, TypeQuiet DEF Stays

(* The types are kept when the slot gets the block.                        *)
LEMMA TypeAssign ==
  ASSUME TypeInv, ~wild, NEW p \in Procs, Assign(p)
  PROVE  TypeInv'
<1> DEFINE f == User
<1>0. ctx[p].at = "assign"
  BY DEF Assign, At
<1>1. Moves(p, f)
  BY TypeNow DEF Assign, Goto, Return, Moves, Save
<1>2. FrameOK(f) /\ (InList(f) <=> InList(ctx[p])) /\ ~Swapped(ctx[p])
  BY <1>0, TypeNow, UserFrame, WordsAre, Constants DEF FrameOK, Frames, Steps, PhaseOK, InList, Swapped, Puts, Save, User, Slots
<1> HIDE DEF f
<1>3. /\ seg' = seg /\ live' = live /\ sb_freelst' \in Words /\ sb_dirlst' \in {DIR, DIRBLOCKNUM}
      /\ filetab' \in [Slots -> Files] /\ sb_dirlock' \in {sb_dirlock, p, "free"}
      /\ current' \in 0 .. DISKBLOCKTOTAL - 1 /\ disk' = disk /\ wild' = wild /\ unsaved' = unsaved
      /\ sb_freelock' = sb_freelock
  BY <1>0, TypeNow DEF Assign, super, locks, device, faults, Files, Frames, FrameOK
<1> QED
  BY <1>0, <1>1, <1>2, <1>3, TypeNow, TypeQuiet DEF Stays

(* The types are kept when the file is marked closed.                      *)
LEMMA TypeClosed ==
  ASSUME TypeInv, ~wild, NEW p \in Procs, Closed(p)
  PROVE  TypeInv'
<1> DEFINE f == [ctx[p] EXCEPT !.at = "dirlock"]
<1>0. ctx[p].at = "closed"
  BY DEF Closed, At
<1>1. Moves(p, f)
  BY TypeNow DEF Closed, Goto, Return, Moves, Save
<1>2. FrameOK(f) /\ (InList(f) <=> InList(ctx[p])) /\ ~Swapped(ctx[p])
  BY <1>0, TypeNow, UserFrame, WordsAre, Constants, ZenonT(60) DEF FrameOK, Frames, Steps, PhaseOK, InList, Swapped, Puts, Save, User, Slots
<1> HIDE DEF f
<1>3. /\ seg' = seg /\ live' = live /\ sb_freelst' \in Words /\ sb_dirlst' \in {DIR, DIRBLOCKNUM}
      /\ filetab' \in [Slots -> Files] /\ sb_dirlock' \in {sb_dirlock, p, "free"}
      /\ current' \in 0 .. DISKBLOCKTOTAL - 1 /\ disk' = disk /\ wild' = wild /\ unsaved' = unsaved
      /\ sb_freelock' = sb_freelock
  BY <1>0, TypeNow, Zenon DEF Closed, super, locks, device, faults, Files
<1> QED
  BY <1>0, <1>1, <1>2, <1>3, TypeNow, TypeQuiet DEF Stays

(* The types are kept when the lock of the list is taken.                  *)
LEMMA TypeFreeLock ==
  ASSUME TypeInv, ~wild, NEW p \in Procs, FreeLock(p)
  PROVE  TypeInv'
<1> DEFINE f == [ctx[p] EXCEPT !.at = IF ctx[p].call = "create" THEN "get" ELSE "put"]
<1>0. ctx[p].at = "freelock" /\ sb_freelock = "free" /\ sb_freelock' = p
      /\ UNCHANGED <<seg, live, super, filetab, sb_dirlock, device, faults, creates, wild>>
  BY DEF FreeLock, At
<1>1. Moves(p, f)
  BY TypeNow DEF FreeLock, Goto, Moves
<1>2. FrameOK(f) /\ InList(f) /\ ~Swapped(ctx[p])
  BY <1>0, TypeNow DEF FrameOK, Frames, Steps, PhaseOK, InList, Swapped, Puts
<1> HIDE DEF f
<1>3. /\ seg' = seg /\ live' = live /\ sb_freelst' = sb_freelst /\ sb_dirlst' = sb_dirlst
      /\ filetab' = filetab /\ sb_dirlock' = sb_dirlock
      /\ current' = current /\ disk' = disk /\ wild' = wild /\ unsaved' = unsaved
  BY <1>0 DEF super, device, faults
<1> QED
  BY <1>0, <1>1, <1>2, <1>3, TypeNow, TypeQuiet DEF Takes

(* The types are kept when the slot is taken, or there is none.            *)
LEMMA TypeSlot ==
  ASSUME TypeInv, ~wild, NEW p \in Procs, Slot(p)
  PROVE  TypeInv'
<1> DEFINE unused == {fd \in Slots : filetab[fd].state = {}}
           f == IF unused = {} THEN User ELSE [ctx[p] EXCEPT !.fd = Min(unused), !.at = "head"]
<1>0. ctx[p].at = "slot" /\ UNCHANGED <<seg, live, super, sb_freelock, device, faults, creates, wild>>
      /\ sb_dirlock' = "free"
  BY DEF Slot, At
<1>1. unused # {} => Min(unused) \in unused
  <2>1. unused \in SUBSET Nat
    BY Constants DEF Slots
  <2> QED
    BY <2>1, MinIn
<1>2. Moves(p, f)
  BY TypeNow, Zenon DEF Slot, Return, Moves
<1>3. FrameOK(f) /\ (InList(f) <=> InList(ctx[p])) /\ ~Swapped(ctx[p])
  <2>1. CASE unused = {}
    <3>1. f = User
      BY <2>1
    <3> HIDE DEF f
    <3> QED
      BY <3>1, <1>0, UserFrame, TypeNow DEF FrameOK, PhaseOK, InList, Swapped
  <2>2. CASE unused # {}
    <3>1. f = [ctx[p] EXCEPT !.fd = Min(unused), !.at = "head"] /\ Min(unused) \in Slots
      BY <2>2, <1>1
    <3> HIDE DEF f, unused
    <3> QED
      BY <3>1, <1>0, TypeNow, Zenon DEF FrameOK, Frames, Steps, PhaseOK, InList, Swapped, Puts
  <2> QED
    BY <2>1, <2>2
<1>4. filetab' \in [Slots -> Files]
  <2>1. filetab' = filetab \/ filetab' = [filetab EXCEPT ![Min(unused)].state = {"used", "open"}]
    BY Zenon DEF Slot
  <2> HIDE DEF unused
  <2> QED
    BY <2>1, TypeNow DEF Files
<1> HIDE DEF f
<1>5. /\ sb_freelst' = sb_freelst /\ sb_dirlst' = sb_dirlst
      /\ current' = current /\ disk' = disk /\ unsaved' = unsaved
  BY <1>0 DEF super, device, faults
<1> QED
  BY <1>0, <1>2, <1>3, <1>4, <1>5, TypeNow, TypeQuiet DEF Stays

(* The types are kept when the block of the only segment is taken.         *)
LEMMA TypeGetLast ==
  ASSUME TypeInv, ~wild, NEW p \in Procs, GetLast(p)
  PROVE  TypeInv'
<1> DEFINE f == [ctx[p] EXCEPT !.block = seg[ctx[p].cell].num, !.at = "seek", !.what = "super"]
<1>0. /\ ctx[p].at = "get" /\ ctx[p].cell \in live /\ sb_freelst' = NULL /\ sb_dirlst' = DIRBLOCKNUM
      /\ UNCHANGED <<seg, live, filetab, locks, device, faults, creates, wild>>
  BY DEF GetLast, Getting, At
<1>1. Moves(p, f)
  BY TypeNow DEF GetLast, Save, Moves
<1>2. seg[ctx[p].cell].num \in Words
  BY <1>0, TypeNow DEF Segments
<1>3. FrameOK(f) /\ (InList(f) <=> InList(ctx[p])) /\ ~Swapped(ctx[p])
  BY <1>0, <1>2, TypeNow, ZenonT(60) DEF FrameOK, Frames, Steps, PhaseOK, InList, Swapped, Puts
<1> HIDE DEF f
<1>4. /\ sb_freelock' = sb_freelock /\ sb_dirlock' = sb_dirlock
      /\ current' = current /\ disk' = disk /\ unsaved' = unsaved /\ sb_freelst' \in Words
  BY <1>0, WordsAre DEF locks, device, faults
<1> QED
  BY <1>0, <1>1, <1>3, <1>4, TypeNow, TypeQuiet DEF Stays

(* The types are kept when the only segment is freed.                      *)
LEMMA TypeLastDone ==
  ASSUME TypeInv, ~wild, NEW p \in Procs, LastDone(p)
  PROVE  TypeInv'
<1> DEFINE f == [ctx[p] EXCEPT !.at = "assign"]
<1>0. /\ ctx[p].at = "last" /\ live' = live \ {ctx[p].cell} /\ sb_dirlst' = DIR /\ sb_freelock' = "free"
      /\ UNCHANGED <<seg, sb_freelst, filetab, sb_dirlock, device, faults, creates, wild>>
  BY DEF LastDone, At
<1>1. Moves(p, f)
  BY TypeNow DEF LastDone, Goto, Moves
<1>3. FrameOK(f) /\ ~InList(f) /\ InList(ctx[p]) /\ ~Swapped(ctx[p])
  BY <1>0, TypeNow DEF FrameOK, Frames, Steps, PhaseOK, InList, Swapped, Puts
<1> HIDE DEF f
<1>4. current' = current /\ disk' = disk /\ unsaved' = unsaved
  BY <1>0 DEF device, faults
<1> QED
  BY <1>0, <1>1, <1>3, <1>4, TypeNow, TypeQuiet DEF Gives

(* The types are kept when the slot is emptied.                            *)
LEMMA TypeUnlink ==
  ASSUME TypeInv, ~wild, NEW p \in Procs, Unlink(p)
  PROVE  TypeInv'
<1>1. CASE sb_dirlst = DIR
  <2> DEFINE f == [ctx[p] EXCEPT !.block = filetab[ctx[p].fd].block, !.at = "head"]
  <2>0. ctx[p].at = "unlink" /\ filetab' = [filetab EXCEPT ![ctx[p].fd].state = {}]
        /\ UNCHANGED <<seg, live, super, locks, device, faults, creates, wild>>
    BY <1>1 DEF Unlink, At
  <2>1. Moves(p, f)
    BY <1>1, TypeNow, Zenon DEF Unlink, Moves
  <2>2. filetab[ctx[p].fd].block \in Words
    BY TypeNow DEF FrameOK, Frames, Files
  <2>3. FrameOK(f) /\ (InList(f) <=> InList(ctx[p])) /\ ~Swapped(ctx[p])
    BY <2>0, <2>2, TypeNow, Zenon DEF FrameOK, Frames, Steps, PhaseOK, InList, Swapped, Puts
  <2> HIDE DEF f
  <2>4. filetab' \in [Slots -> Files]
    BY <2>0, TypeNow, Zenon DEF Files
  <2>5. /\ sb_freelock' = sb_freelock /\ sb_dirlock' = sb_dirlock /\ sb_freelst' = sb_freelst
        /\ sb_dirlst' = sb_dirlst /\ current' = current /\ disk' = disk /\ unsaved' = unsaved
    BY <2>0 DEF super, locks, device, faults
  <2> QED
    BY <2>0, <2>1, <2>3, <2>4, <2>5, TypeNow, TypeQuiet, Zenon DEF Stays
<1>2. CASE sb_dirlst # DIR
  BY <1>2, TypeWild DEF Unlink
<1> QED
  BY <1>1, <1>2

(* The types are kept when the lock of the list is given back.             *)
LEMMA TypeUnlinked ==
  ASSUME TypeInv, ~wild, NEW p \in Procs, Unlinked(p)
  PROVE  TypeInv'
<1> DEFINE f == [ctx[p] EXCEPT !.at = "seek", !.what = "dir"]
<1>0. ctx[p].at = "freed" /\ sb_freelock' = "free"
      /\ UNCHANGED <<seg, live, super, filetab, sb_dirlock, device, faults, creates, wild>>
  BY DEF Unlinked, At
<1>1. Moves(p, f)
  BY TypeNow DEF Unlinked, Save, Moves
<1>3. FrameOK(f) /\ ~InList(f) /\ InList(ctx[p]) /\ ~Swapped(ctx[p])
  BY <1>0, TypeNow, ZenonT(60) DEF FrameOK, Frames, Steps, PhaseOK, InList, Swapped, Puts
<1> HIDE DEF f
<1>4. /\ sb_freelst' = sb_freelst /\ sb_dirlst' = sb_dirlst /\ current' = current /\ disk' = disk
      /\ unsaved' = unsaved
  BY <1>0 DEF super, device, faults
<1> QED
  BY <1>0, <1>1, <1>3, <1>4, TypeNow, TypeQuiet DEF Gives

(* The types are kept when the call returns after a write that failed.     *)
LEMMA TypeRefused ==
  ASSUME TypeInv, ~wild, NEW p \in Procs, Refused(p)
  PROVE  TypeInv'
<1>0. ctx[p].at = "refused" /\ sb_freelock' = "free" /\ sb_dirlock' = "free"
      /\ UNCHANGED <<seg, live, super, filetab, device, faults, creates, wild>>
  BY DEF Refused, At
<1>1. Moves(p, User)
  BY DEF Refused, Return, Moves
<1>3. InList(ctx[p]) /\ ~Swapped(ctx[p])
  BY <1>0, TypeNow DEF FrameOK, Frames, PhaseOK, InList, Swapped
<1>4. /\ sb_freelst' = sb_freelst /\ sb_dirlst' = sb_dirlst /\ current' = current /\ disk' = disk
      /\ unsaved' = unsaved
  BY <1>0 DEF super, device, faults
<1> QED
  BY <1>0, <1>1, <1>3, <1>4, UserFrame, TypeNow, TypeQuiet DEF Gives

(* The types are kept when the superblock is put back.                     *)
LEMMA TypeRelink ==
  ASSUME TypeInv, ~wild, NEW p \in Procs, Relink(p)
  PROVE  TypeInv'
<1> DEFINE f == [ctx[p] EXCEPT !.at = "seek", !.what = "back"]
<1>0. ctx[p].at = "relink" /\ sb_freelst' = ctx[p].save /\ sb_dirlst' = DIR
      /\ UNCHANGED <<seg, live, filetab, locks, device, faults, creates, wild>>
  BY DEF Relink, At
<1>1. Moves(p, f)
  BY TypeNow DEF Relink, Save, Moves
<1>3. FrameOK(f) /\ (InList(f) <=> InList(ctx[p])) /\ ~Swapped(ctx[p])
  BY <1>0, TypeNow, ZenonT(60) DEF FrameOK, Frames, Steps, PhaseOK, InList, Swapped, Puts
<1> HIDE DEF f
<1>4. /\ sb_freelock' = sb_freelock /\ sb_dirlock' = sb_dirlock /\ current' = current /\ disk' = disk
      /\ unsaved' = unsaved /\ sb_freelst' \in Words
  BY <1>0, TypeNow DEF locks, device, faults, FrameOK, Frames
<1> QED
  BY <1>0, <1>1, <1>3, <1>4, TypeNow, TypeQuiet DEF Stays

(* The types are kept by the calls of fileOpen, filePutChar, fileClose and *)
(* fileDelete.                                                             *)
LEMMA TypeOpen ==
  ASSUME TypeInv, ~wild, NEW p \in Procs, NEW fd \in Slots,
         Open(p, fd) \/ PutChar(p, fd) \/ Close(p, fd) \/ Delete(p, fd)
  PROVE  TypeInv'
<1>0. ctx[p].at = "user" /\ ~Swapped(ctx[p]) /\ ~InList(ctx[p])
  BY TypeNow DEF Open, PutChar, Close, Delete, At, InList, Swapped
<1>1. CASE Open(p, fd) \/ PutChar(p, fd)
  <2>1. filetab' \in [Slots -> Files]
    BY <1>1, TypeNow DEF Open, PutChar, Files
  <2>2. current' \in 0 .. DISKBLOCKTOTAL - 1
    BY <1>1, TypeNow DEF Open, PutChar, device, Blocks
  <2>3. UNCHANGED <<seg, live, super, locks, disk, ctx, faults, creates, wild>>
    BY <1>1 DEF Open, PutChar, device
  <2>4. Moves(p, ctx[p])
    BY <2>3, TypeNow DEF Moves
  <2> QED
    BY <1>0, <2>1, <2>2, <2>3, <2>4, TypeNow, TypeQuiet DEF Stays, super, locks, faults
<1>2. CASE Close(p, fd) \/ Delete(p, fd)
  <2>1. UNCHANGED <<seg, live, super, filetab, locks, device, faults, creates, wild>>
    BY <1>2 DEF Close, Delete
  <2>2. PICK f : Moves(p, f) /\ FrameOK(f) /\ ~InList(f)
    <3>1. CASE Delete(p, fd)
      <4> DEFINE g == [User EXCEPT !.call = "delete", !.at = "dirlock", !.fd = fd]
      <4>1. Moves(p, g)
        BY <3>1 DEF Delete, Moves
      <4>2. FrameOK(g) /\ ~InList(g)
        BY UserFrame, Zenon DEF FrameOK, Frames, Steps, PhaseOK, InList, Swapped, Puts, User
      <4> QED
        BY <4>1, <4>2
    <3>2. CASE Close(p, fd) /\ Is(fd, "dirty")
      <4> DEFINE g == [User EXCEPT !.call = "close", !.fd = fd, !.at = "seek", !.what = "data"]
      <4>1. Moves(p, g)
        BY <3>2 DEF Close, Moves, Save
      <4>2. FrameOK(g) /\ ~InList(g)
        BY UserFrame, Zenon DEF FrameOK, Frames, Steps, PhaseOK, InList, Swapped, Puts, User
      <4> QED
        BY <4>1, <4>2
    <3>3. CASE Close(p, fd) /\ ~Is(fd, "dirty")
      <4> DEFINE g == [User EXCEPT !.call = "close", !.fd = fd, !.at = "closed"]
      <4>1. Moves(p, g)
        BY <3>3 DEF Close, Moves
      <4>2. FrameOK(g) /\ ~InList(g)
        BY UserFrame, Zenon DEF FrameOK, Frames, Steps, PhaseOK, InList, Swapped, Puts, User
      <4> QED
        BY <4>1, <4>2
    <3> QED
      BY <1>2, <3>1, <3>2, <3>3
  <2>5. /\ sb_freelock' = sb_freelock /\ sb_dirlock' = sb_dirlock /\ sb_freelst' = sb_freelst
        /\ sb_dirlst' = sb_dirlst /\ current' = current /\ disk' = disk /\ unsaved' = unsaved
    BY <2>1 DEF super, locks, device, faults
  <2> QED
    BY <1>0, <2>1, <2>2, <2>5, TypeNow, TypeQuiet DEF Stays
<1> QED
  BY <1>1, <1>2

(* The process in the list finds every link a pointer, except the one in   *)
(* whose place it has put a number.                                        *)
LEMMA LinksNow ==
  ASSUME TypeInv, ~wild, NEW p \in Procs, InList(ctx[p]), NEW c \in Cells,
         ~(Swapped(ctx[p]) /\ ctx[p].cell = c)
  PROVE  seg[c].next \in Links
<1>1. sb_freelock = p /\ \A q \in Procs : InList(ctx[q]) => sb_freelock = q
  BY DEF TypeInv
<1>2. Held
  BY <1>1 DEF Held
<1>3. seg[c].next \in Links \/ \E q \in Procs : Swapped(ctx[q]) /\ ctx[q].cell = c
  BY <1>2 DEF TypeInv, LinksOK
<1>4. \A q \in Procs : Swapped(ctx[q]) => q = p
  BY <1>1 DEF Swapped, InList
<1> QED
  BY <1>3, <1>4

(* Putting a number for a pointer gives a word.                            *)
LEMMA NumberIs ==
  ASSUME seg \in [Cells -> Segments], NEW x \in Links
  PROVE  Number(x) \in Words
  BY WordsAre DEF Links, Number, Segments

(* The types are kept when the last entry of the first segment is taken.   *)
LEMMA TypeGetEntry ==
  ASSUME TypeInv, ~wild, NEW p \in Procs, GetEntry(p)
  PROVE  TypeInv'
<1> DEFINE c == ctx[p].cell
           s == seg[c]
           n == s.count - 1
           t == [s EXCEPT !.count = n, !.free[n] = NULL, !.next = Number(@)]
           b == IF s.free[n] = NULL THEN SYSERR ELSE s.free[n]
           f == [ctx[p] EXCEPT !.block = b, !.save = s.next, !.at = "seek", !.what = "seg"]
<1>0. /\ ctx[p].at = "get" /\ c \in live /\ s.count > 0 /\ seg' = [seg EXCEPT ![c] = t]
      /\ UNCHANGED <<live, super, filetab, locks, device, faults, creates, wild>>
  BY DEF GetEntry, At
<1>1. Moves(p, f)
  BY TypeNow DEF GetEntry, Save, Moves
<1>2. c \in Cells /\ s \in Segments /\ n \in Entries /\ n \in 0 .. FREEBLOCKMAX
  BY <1>0, TypeNow, Constants DEF Segments, Entries
<1>3. InList(ctx[p]) /\ ~Swapped(ctx[p]) /\ ctx[p].call = "create"
  BY <1>0, TypeNow DEF FrameOK, Frames, PhaseOK, InList, Swapped
<1>4. s.next \in Links
  BY <1>2, <1>3, LinksNow
<1>5. t \in Segments
  BY <1>2, <1>4, TypeNow, NumberIs, WordsAre, Zenon DEF Segments
<1>6. b \in Words /\ s.next \in Words
  BY <1>2, WordsAre DEF Segments
<1>7. FrameOK(f) /\ InList(f) /\ Swapped(f) /\ f.cell = c
  <2> HIDE DEF b, s
  <2> QED
    BY <1>0, <1>2, <1>3, <1>4, <1>6, TypeNow, Zenon DEF FrameOK, Frames, Steps, PhaseOK, InList, Swapped, Puts
<1> HIDE DEF f, t
<1>8. LinksStep(p, f)
  BY <1>0, <1>2, <1>3, <1>7, TypeNow DEF LinksStep
<1>9. seg' \in [Cells -> Segments]
  BY <1>0, <1>5, TypeNow
<1>10. /\ sb_freelock' = sb_freelock /\ sb_dirlock' = sb_dirlock /\ current' = current /\ disk' = disk
       /\ unsaved' = unsaved /\ sb_freelst' = sb_freelst /\ sb_dirlst' = sb_dirlst
  BY <1>0 DEF super, locks, device, faults
<1> QED
  BY <1>0, <1>1, <1>3, <1>7, <1>8, <1>9, <1>10, TypeNow, TypeNext DEF Stays

(* The types are kept when the first segment takes the contents of the     *)
(* next one.                                                               *)
LEMMA TypeGetSegment ==
  ASSUME TypeInv, ~wild, NEW p \in Procs, GetSegment(p)
  PROVE  TypeInv'
<1> DEFINE c == ctx[p].cell
           s == seg[c]
           n == s.next
           t == seg[n]
           g == [i \in Entries |-> IF i < t.count THEN t.free[i] ELSE s.free[i]]
           u == [s EXCEPT !.count = t.count, !.next = Number(t.next), !.free = g]
           f == [ctx[p] EXCEPT !.block = t.num, !.save = t.next, !.at = "seek", !.what = "seg"]
<1>0. /\ ctx[p].at = "get" /\ c \in live /\ n \in live /\ live' = live \ {n}
      /\ UNCHANGED <<super, filetab, locks, device, faults, creates, wild>>
  BY Zenon DEF GetSegment, Getting, At
<1>1. Moves(p, f)
  BY TypeNow, Zenon DEF GetSegment, Save, Moves
<1>2. c \in Cells /\ s \in Segments /\ n \in Cells /\ t \in Segments
  BY <1>0, TypeNow DEF Segments
<1>3. InList(ctx[p]) /\ ~Swapped(ctx[p]) /\ ctx[p].call = "create"
  BY <1>0, TypeNow DEF FrameOK, Frames, PhaseOK, InList, Swapped
<1>4. t.next \in Links
  BY <1>2, <1>3, LinksNow
<1>5. seg' = [seg EXCEPT ![c] = u]
  <2>1. seg' = [seg EXCEPT ![c].count = t.count, ![c].next = Number(t.next),
                           ![c].free = [i \in Entries |-> IF i < t.count THEN t.free[i] ELSE @[i]]]
    BY Zenon DEF GetSegment
  <2> HIDE DEF t
  <2> QED
    BY <2>1, <1>2, TypeNow, Zenon DEF Segments
<1>6. u \in Segments
  <2>1. g \in [Entries -> Words]
    BY <1>2 DEF Segments
  <2>2. Number(t.next) \in Words /\ t.count \in 0 .. FREEBLOCKMAX
    BY <1>2, <1>4, TypeNow, NumberIs DEF Segments
  <2> HIDE DEF g, t, s
  <2> QED
    BY <1>2, <2>1, <2>2, Zenon DEF Segments
<1>7. FrameOK(f) /\ InList(f) /\ Swapped(f) /\ f.cell = c
  <2>1. t.num \in Words /\ t.next \in Words
    BY <1>2 DEF Segments
  <2> HIDE DEF t
  <2> QED
    BY <1>0, <1>2, <1>3, <1>4, <2>1, TypeNow, Zenon DEF FrameOK, Frames, Steps, PhaseOK, InList, Swapped, Puts
<1> HIDE DEF f, u
<1>8. LinksStep(p, f)
  BY <1>5, <1>2, <1>3, <1>7, TypeNow DEF LinksStep
<1>9. seg' \in [Cells -> Segments]
  BY <1>5, <1>6, TypeNow, Zenon
<1>10. /\ sb_freelock' = sb_freelock /\ sb_dirlock' = sb_dirlock /\ current' = current /\ disk' = disk
       /\ unsaved' = unsaved /\ sb_freelst' = sb_freelst /\ sb_dirlst' = sb_dirlst
  BY <1>0 DEF super, locks, device, faults
<1> QED
  BY <1>0, <1>1, <1>3, <1>7, <1>8, <1>9, <1>10, TypeNow, TypeNext DEF Stays

(* The types are kept when the pointer is put back.                        *)
LEMMA TypeUnswizzle ==
  ASSUME TypeInv, ~wild, NEW p \in Procs, Unswizzle(p)
  PROVE  TypeInv'
<1> DEFINE c == ctx[p].cell
           f == [ctx[p] EXCEPT !.at = "assign"]
<1>0. /\ ctx[p].at = "unswizzle" /\ seg' = [seg EXCEPT ![c].next = ctx[p].save] /\ sb_freelock' = "free"
      /\ UNCHANGED <<live, super, filetab, sb_dirlock, device, faults, creates, wild>>
  BY DEF Unswizzle, At
<1>1. Moves(p, f)
  BY TypeNow DEF Unswizzle, Goto, Moves
<1>2. /\ InList(ctx[p]) /\ Swapped(ctx[p]) /\ FrameOK(f) /\ ~InList(f)
      /\ c \in Cells /\ ctx[p].save \in Links /\ ctx[p].save \in Words
  BY <1>0, TypeNow, Zenon DEF FrameOK, Frames, Steps, PhaseOK, InList, Swapped, Puts
<1> HIDE DEF f
<1>3. seg' \in [Cells -> Segments]
  BY <1>0, <1>2, TypeNow DEF Segments
<1>4. LinksStep(p, f)
  BY <1>0, <1>2, TypeNow DEF LinksStep, Segments
<1>10. /\ sb_dirlock' = sb_dirlock /\ current' = current /\ disk' = disk
       /\ unsaved' = unsaved /\ sb_freelst' = sb_freelst /\ sb_dirlst' = sb_dirlst
  BY <1>0 DEF super, device, faults
<1> QED
  BY <1>0, <1>1, <1>2, <1>3, <1>4, <1>10, TypeNow, TypeNext DEF Gives

(* A new segment is typed and links to nothing.                            *)
LEMMA FreshIs == ASSUME NEW b \in Words PROVE Fresh(b) \in Segments /\ Fresh(b).next = NULL /\ Fresh(b).num = b
  BY BlankIs DEF Fresh, Segments

(* The types are kept when the block becomes the first segment.            *)
LEMMA TypePutFirst ==
  ASSUME TypeInv, ~wild, NEW p \in Procs, PutFirst(p)
  PROVE  TypeInv'
<1> DEFINE c == Unused
           f == [ctx[p] EXCEPT !.cell = c, !.save = c, !.at = "seek", !.what = "super"]
<1>0. /\ ctx[p].at = "put" /\ seg' = [seg EXCEPT ![c] = Fresh(ctx[p].block)] /\ live' = live \cup {c}
      /\ sb_freelst' = ctx[p].block /\ sb_dirlst' = DIRBLOCKNUM
      /\ UNCHANGED <<filetab, locks, device, faults, creates, wild>> /\ Room
  BY DEF PutFirst, At
<1>1. Moves(p, f)
  BY TypeNow DEF PutFirst, Save, Moves
<1>2. c \in Cells /\ c \in Words
  BY <1>0, TypeNow, UnusedIn, WordsAre
<1>3. ctx[p].block \in Words
  BY TypeNow DEF Frames
<1> HIDE DEF c
<1>4. FrameOK(f) /\ (InList(f) <=> InList(ctx[p])) /\ ~Swapped(ctx[p])
  BY <1>0, <1>2, TypeNow, ZenonT(60) DEF FrameOK, Frames, Steps, PhaseOK, InList, Swapped, Puts
<1> HIDE DEF f
<1>5. seg' \in [Cells -> Segments]
  BY <1>0, <1>2, <1>3, TypeNow, FreshIs
<1>6. LinksStep(p, f)
  BY <1>0, <1>2, <1>3, <1>4, TypeNow, FreshIs DEF LinksStep, Links
<1>7. unsaved' \in BOOLEAN
  BY <1>0, TypeNow DEF faults
<1>10. /\ sb_freelock' = sb_freelock /\ sb_dirlock' = sb_dirlock /\ current' = current /\ disk' = disk
       /\ wild' = wild
  BY <1>0 DEF locks, device
<1>11. live' \subseteq Cells /\ sb_freelst' \in Words
  BY <1>0, <1>2, <1>3, TypeNow
<1> QED
  BY <1>0, <1>1, <1>4, <1>5, <1>6, <1>7, <1>10, <1>11, TypeNow, TypeNext DEF Stays

(* The types are kept when the block becomes one more segment.             *)
LEMMA TypePutSegment ==
  ASSUME TypeInv, ~wild, NEW p \in Procs, PutSegment(p)
  PROVE  TypeInv'
<1> DEFINE c == Unused
           last == LastOf(ctx[p].cell)
           f == [ctx[p] EXCEPT !.cell = last, !.save = sb_freelst, !.at = "seek", !.what = "super"]
<1>0. /\ ctx[p].at = "put" /\ ctx[p].cell # NULL /\ Whole(ctx[p].cell) /\ sb_freelst \in live
      /\ seg' = [seg EXCEPT ![c] = Fresh(ctx[p].block), ![last].next = c] /\ live' = live \cup {c}
      /\ sb_freelst' = seg[sb_freelst].num /\ sb_dirlst' = DIRBLOCKNUM /\ unsaved' = TRUE
      /\ UNCHANGED <<filetab, locks, device, failures, crashes, creates, wild>> /\ Room
  BY DEF PutSegment, At
<1>1. Moves(p, f)
  BY TypeNow DEF PutSegment, Save, Moves
<1>2. c \in Cells \ live /\ last \in live /\ last \in Cells
  BY <1>0, TypeNow, UnusedIn, LastIs
<1>3. ctx[p].block \in Words /\ c \in Words /\ last \in Words /\ seg[sb_freelst].num \in Words
  BY <1>0, <1>2, TypeNow, WordsAre DEF Frames, Segments
<1> HIDE DEF c, last
<1>4. FrameOK(f) /\ (InList(f) <=> InList(ctx[p])) /\ ~Swapped(ctx[p])
  BY <1>0, <1>2, <1>3, TypeNow, ZenonT(60) DEF FrameOK, Frames, Steps, PhaseOK, InList, Swapped, Puts
<1> HIDE DEF f
<1>5. seg' = [seg EXCEPT ![c] = Fresh(ctx[p].block), ![last] = [seg[last] EXCEPT !.next = c]]
  BY <1>0, <1>2, TypeNow, Zenon
<1>6. seg[last] \in Segments /\ [seg[last] EXCEPT !.next = c] \in Segments
      /\ [seg[last] EXCEPT !.next = c].next \in Links
  BY <1>2, <1>3, TypeNow DEF Segments, Links
<1>7. seg' \in [Cells -> Segments]
  BY <1>2, <1>3, <1>5, <1>6, TypeNow, FreshIs
<1>8. LinksStep(p, f)
  <2>1. seg'[c] = Fresh(ctx[p].block) /\ seg'[last] = [seg[last] EXCEPT !.next = c]
        /\ \A d \in Cells : d # c /\ d # last => seg'[d] = seg[d]
    BY <1>2, <1>5, TypeNow
  <2>2. seg'[c].next \in Links /\ seg'[last].next \in Links
    BY <2>1, <1>3, <1>6, FreshIs DEF Links
  <2> QED
    BY <2>1, <2>2, <1>4, Zenon DEF LinksStep
<1>10. /\ sb_freelock' = sb_freelock /\ sb_dirlock' = sb_dirlock /\ current' = current /\ disk' = disk
       /\ wild' = wild
  BY <1>0 DEF locks, device
<1>11. live' \subseteq Cells /\ sb_freelst' \in Words
  BY <1>0, <1>2, <1>3, TypeNow
<1> QED
  BY <1>0, <1>1, <1>4, <1>7, <1>8, <1>10, <1>11, TypeNow, TypeNext DEF Stays

(* The types are kept when the block becomes the last entry of the last    *)
(* segment.                                                                *)
LEMMA TypePutEntry ==
  ASSUME TypeInv, ~wild, NEW p \in Procs, PutEntry(p)
  PROVE  TypeInv'
<1> DEFINE last == LastOf(ctx[p].cell)
           s == seg[last]
           t == [s EXCEPT !.free[s.count] = ctx[p].block, !.count = @ + 1]
           f == [ctx[p] EXCEPT !.cell = last, !.at = "seek", !.what = "back"]
<1>0. /\ ctx[p].at = "put" /\ ctx[p].cell # NULL /\ Whole(ctx[p].cell) /\ s.count < FREEBLOCKMAX
      /\ seg' = [seg EXCEPT ![last].free[seg[last].count] = ctx[p].block, ![last].count = @ + 1]
      /\ UNCHANGED <<live, super, filetab, locks, device, faults, creates, wild>>
  BY DEF PutEntry, At
<1>1. Moves(p, f)
  BY TypeNow DEF PutEntry, Save, Moves
<1>2. last \in live /\ last \in Cells /\ last \in Words /\ s \in Segments
  BY <1>0, TypeNow, LastIs, WordsAre
<1>3. ctx[p].block \in Words
  BY TypeNow DEF Frames
<1> HIDE DEF last
<1>4. FrameOK(f) /\ (InList(f) <=> InList(ctx[p])) /\ ~Swapped(ctx[p])
  BY <1>0, <1>2, <1>3, TypeNow, Zenon DEF FrameOK, Frames, Steps, PhaseOK, InList, Swapped, Puts
<1> HIDE DEF f
<1>5. seg' = [seg EXCEPT ![last] = t]
  BY <1>0, <1>2, TypeNow DEF Segments
<1>6. t \in Segments /\ t.next = s.next
  <2> HIDE DEF s
  <2>1. s.count \in Entries /\ s.count + 1 \in 0 .. FREEBLOCKMAX /\ s.free \in [Entries -> Words]
    BY <1>0, <1>2, Constants DEF Segments, Entries
  <2> DEFINE g == [s.free EXCEPT ![s.count] = ctx[p].block]
  <2>2. g \in [Entries -> Words]
    BY <2>1, <1>3
  <2>3. t = [s EXCEPT !.free = g, !.count = s.count + 1]
    BY <1>2 DEF Segments
  <2> HIDE DEF g, t
  <2> QED
    BY <1>2, <2>1, <2>2, <2>3, Zenon DEF Segments
<1> HIDE DEF t
<1>7. seg' \in [Cells -> Segments]
  BY <1>2, <1>5, <1>6, TypeNow
<1>8. LinksStep(p, f)
  BY <1>2, <1>4, <1>5, <1>6, TypeNow DEF LinksStep
<1>10. /\ sb_freelock' = sb_freelock /\ sb_dirlock' = sb_dirlock /\ current' = current /\ disk' = disk
       /\ wild' = wild /\ unsaved' = unsaved /\ live' = live /\ filetab' = filetab
       /\ sb_freelst' = sb_freelst /\ sb_dirlst' = sb_dirlst
  BY <1>0 DEF locks, device, super, faults
<1> QED
  BY <1>0, <1>1, <1>4, <1>7, <1>8, <1>10, TypeNow, TypeNext DEF Stays

(* Every step of a process keeps the type invariant.                       *)
LEMMA TypeStep ==
  ASSUME TypeInv, NEW p \in Procs, Step(p)
  PROVE  TypeInv'
<1>1. CASE wild
  <2>1. ~At(p, "seek") /\ \A s \in Steps : ~At(p, s)
    BY <1>1 DEF At
  <2> QED
    BY <2>1, Zenon DEF Step, Seek, Write, WriteFails, DirLock, DirDone, ReadHead, FreeLock, Create, Slot, Assign,
                GetEntry, GetLast, LastDone, GetSegment, Getting, Unswizzle, Closed, Unlink, Unlinked, Refused,
                PutFirst, PutSegment, Relink, PutEntry, Astray, Open, PutChar, Close, Delete, Steps
<1>2. CASE ~wild
  <2>1. Astray(p) => TypeInv'
    BY TypeWild DEF Astray
  <2> QED
    BY <1>2, <2>1, TypeSeek, TypeWrite, TypeWriteFails, TypeDirLock, TypeDirDone, TypeReadHead, TypeFreeLock,
       TypeCreate, TypeSlot, TypeAssign, TypeGetEntry, TypeGetLast, TypeLastDone, TypeGetSegment,
       TypeUnswizzle, TypeClosed, TypeUnlink, TypeUnlinked, TypeRefused, TypePutFirst, TypePutSegment,
       TypeRelink, TypePutEntry, TypeOpen DEF Step
<1> QED
  BY <1>1, <1>2

(* So does a step that changes nothing.                                    *)
LEMMA TypeStutter ==
  ASSUME TypeInv, UNCHANGED vars
  PROVE  TypeInv'
  BY DEF TypeInv, TypeOK, LinksOK, Held, vars, super, locks, device, faults

(* For all constants: the inductive invariant of the types.  Whatever the  *)
(* processes do, and whatever writes fail, while no failed write has left  *)
(* sb_freelock locked, a pointer is swapped for a block number only by its *)
(* holder (sbGetBlock), and what is on the disk is a superblock, a         *)
(* directory, segments or data.                                            *)
THEOREM FileSystemTypeInv == Spec => []TypeInv
<1>1. TypeInv /\ [Next]_vars => TypeInv'
  BY TypeCrash, TypeStep, TypeStutter DEF Next, Stopped
<1> QED
  BY <1>1, TypeInit, PTL DEF Spec

(* For all constants, any number of processes, and all faults: the type    *)
(* invariant of the file system.                                           *)
THEOREM FileSystemTypeOK == Spec => []TypeOK
  BY FileSystemTypeInv, PTL DEF TypeInv

-----------------------------------------------------------------------------
(* One process, as the shell is.                                           *)
Single == \E p : Procs = {p}
me     == CHOOSE p \in Procs : TRUE

(* The state it sees, with its frame f.                                    *)
Now == [seg |-> seg, live |-> live, head |-> sb_freelst, files |-> filetab, disk |-> disk, current |-> current,
        lock |-> sb_freelock, f |-> ctx[me]]

(* The places where a block may be: the own block and the entries of a     *)
(* segment, of those numbered S; a file; the hand of the process.          *)
Own(c)      == <<"own", c, 0>>
Entry(c, i) == <<"entry", c, i>>
File(fd)    == <<"file", fd, 0>>
HAND        == <<"hand", 0, 0>>
Places(S)   == {Own(c) : c \in S} \cup {Entry(c, i) : c \in S, i \in Entries} \cup {File(fd) : fd \in Slots}
               \cup {HAND}

(* No block is in two of them.                                             *)
Once(h, S) == \A x, y \in Places(S) : h[x] = h[y] /\ h[x] \in Blocks => x = y

(* A block is in the hand of the process f between the list and the file.  *)
Holding(f) == \/ Swapped(f)
              \/ f.call = "create" /\ f.at = "assign"
              \/ f.call = "delete" /\ f.at \in {"head", "freelock", "put"}
Hand(f)    == IF Holding(f) THEN f.block ELSE NULL
Making(f, fd)  == f.call = "create" /\ f.at \notin {"dirlock", "slot"} /\ f.fd = fd
BlockOf(m, fd) == IF "used" \in m.files[fd].state /\ ~Making(m.f, fd) THEN m.files[fd].block ELSE NULL

(* The block at each place in memory.                                      *)
InMemory(m) ==
  [x \in Places(Cells) |->
     CASE x[1] = "own"   -> IF x[2] \in m.live THEN m.seg[x[2]].num ELSE NULL
       [] x[1] = "entry" -> IF x[2] \in m.live /\ x[3] < m.seg[x[2]].count THEN m.seg[x[2]].free[x[3]] ELSE NULL
       [] x[1] = "file"  -> BlockOf(m, x[2])
       [] x[1] = "hand"  -> Hand(m.f)]

(* The superblock is written before the only segment is freed (Emptying),  *)
(* and before a first one is there (Starting).                             *)
Emptying(f)  == f.call = "create" /\ f.what = "super" /\ f.at \in {"seek", "write"}
Emptied(f)   == f.call = "create" /\ f.at = "last"
Starting(f)  == f.call = "delete" /\ f.what = "super" /\ f.at \in {"seek", "write"}
Started(f)   == f.call = "delete" /\ f.at = "relink"
Unwritten(f) == f.call = "create" /\ f.what = "seg" /\ f.at \in {"seek", "write"}

(* Memory.                                                                 *)
MemOK(m) ==
  /\ Once(InMemory(m), Cells)
  /\ \A fd \in Slots : m.files[fd].state # {} => "used" \in m.files[fd].state
  /\ m.f.call = "create" /\ m.f.at \in {"dirlock", "slot", "head", "freelock", "get"} => m.f.block = NULL
  /\ m.f.call = "delete" /\ m.f.at \in {"dirlock", "unlink"} => "used" \in m.files[m.f.fd].state
  /\ Emptying(m.f) \/ Emptied(m.f) => m.f.cell \in m.live /\ m.f.block = m.seg[m.f.cell].num

-----------------------------------------------------------------------------
(* Words that are a block or an error, and no other structure's block.     *)
Sane(v)  == v \in Blocks \cup {SYSERR, JUNK}
Plain(v) == v \in Blocks \cup {SYSERR, JUNK, NULL}

(* Where the structure that is about to be written belongs.                *)
Aim(m) ==
  CASE m.f.what = "data"  -> m.files[m.f.fd].block
    [] m.f.what = "dir"   -> DIRBLOCKNUM
    [] m.f.what = "super" -> SUPERBLOCKNUM
    [] OTHER              -> m.seg[m.f.cell].num

(* In the segments and in the files are blocks, or words that say there is *)
(* none, and beyond the count of a segment no blocks at all.               *)
SaneOK(m) ==
  /\ \A c \in m.live : Sane(m.seg[c].num)
  /\ \A c \in m.live, i \in Entries :
       Plain(m.seg[c].free[i]) /\ (i >= m.seg[c].count => m.seg[c].free[i] \notin Blocks)
  /\ \A fd \in Slots : Sane(m.files[fd].block)
  /\ \A b \in Blocks : m.disk[b].type = "seg" => \A i \in Entries : Plain(m.disk[b].seg.free[i])
  /\ Holding(m.f) => Sane(m.f.block)
  /\ m.f.call = "close" => "used" \in m.files[m.f.fd].state
  /\ m.f.at = "write" => m.current = Aim(m)
  /\ ~(m.f.call = "delete" /\ m.f.at = "refused")

(* The lock left behind by a failed write.                                 *)
Stuck(m) == m.lock = me /\ ~InList(m.f)

(* Links, as they are between calls.                                       *)
RealNext(m, c) == IF Swapped(m.f) /\ c = m.f.cell THEN m.f.save ELSE m.seg[c].next
HeadOf(m)      == CASE Emptying(m.f) \/ Emptied(m.f) -> m.f.cell
                    [] Starting(m.f) \/ Started(m.f) -> m.f.save
                    [] OTHER                         -> m.head
NumberOf(m, c) == IF c = NULL THEN NULL ELSE m.seg[c].num

(* The links go from live segment to live segment, from no two to the      *)
(* same, and from none to the first.                                       *)
ListLinks(m) ==
  /\ HeadOf(m) \in m.live \cup {NULL}
  /\ \A x \in m.live : RealNext(m, x) \in m.live \cup {NULL}
  /\ \A x \in m.live : RealNext(m, x) # NULL => RealNext(m, x) # HeadOf(m)
  /\ \A x, y \in m.live : RealNext(m, x) = RealNext(m, y) /\ RealNext(m, x) # NULL => x = y

(* What the frame of the process holds of the list at its step.            *)
FrameLinks(m) ==
  /\ Swapped(m.f) => m.f.cell \in m.live /\ m.seg[m.f.cell].next = NumberOf(m, m.f.save)
  /\ Puts(m.f) => m.f.cell \in m.live /\ m.seg[m.f.cell].next = NULL
  /\ Emptying(m.f) \/ Emptied(m.f) => m.head = NULL
  /\ Starting(m.f) \/ Started(m.f) => m.f.save = m.f.cell
  /\ Starting(m.f) => m.head = m.seg[m.f.cell].num
  /\ m.f.call \in {"create", "delete"} /\ m.f.at \in {"freelock", "get", "put"} => m.f.cell = m.head

(* The superblock and the segments on the disk are those of memory, with   *)
(* numbers for links, but for the one that is about to be written.         *)
SuperMatch(m) ==
  /\ m.disk[SUPERBLOCKNUM].type = "super"
  /\ m.disk[SUPERBLOCKNUM].freelst = IF Starting(m.f) \/ Emptied(m.f) THEN NULL ELSE NumberOf(m, HeadOf(m))
Covers(s, t, i) == t.free[i] \in Blocks => i < s.count /\ t.free[i] = s.free[i]
SegMatch(m, c) ==
  LET s == m.seg[c]
      t == m.disk[s.num].seg
  IN  /\ s.num \in Blocks /\ m.disk[s.num].type = "seg"
      /\ t.num = s.num /\ t.count = s.count /\ t.next = NumberOf(m, RealNext(m, c))
      /\ \A i \in Entries : Covers(s, t, i)
Pending(f, c) == (Unwritten(f) \/ Puts(f)) /\ c = f.cell
Match(m) ==
  /\ ListLinks(m) /\ FrameLinks(m) /\ SuperMatch(m)
  /\ \A c \in m.live : ~Pending(m.f, c) => SegMatch(m, c)

(* The list on the disk d, and files of the blocks fb.                     *)
OnList(d, n) == n \in Blocks /\ d[n].type = "seg" /\ \E i \in 0 .. DISKBLOCKTOTAL : Chain(d)[i] = n
OnDisk(d, fb) ==
  [x \in Places(Blocks) |->
     CASE x[1] = "own"   -> IF OnList(d, x[2]) THEN d[x[2]].seg.num ELSE NULL
       [] x[1] = "entry" -> IF OnList(d, x[2]) /\ x[3] < d[x[2]].seg.count THEN d[x[2]].seg.free[x[3]] ELSE NULL
       [] x[1] = "file"  -> fb[x[2]]
       [] x[1] = "hand"  -> NULL]
ListOK(d, fb) ==
  /\ \A n \in Blocks : OnList(d, n) =>
       d[n].seg.num = n /\ \A i \in Entries : i >= d[n].seg.count => d[n].seg.free[i] \notin Blocks
  /\ Once(OnDisk(d, fb), Blocks)
FilesIn(m) == [fd \in Slots |-> BlockOf(m, fd)]

(* The directory on the disk: a file there is one in memory, but for the   *)
(* one that is being deleted.                                              *)
Deleting(f, fd) == f.call = "delete" /\ f.at # "dirdone" /\ fd = f.fd
DirOK(m) ==
  LET files == m.disk[DIRBLOCKNUM].files
  IN  /\ m.disk[DIRBLOCKNUM].type = "dir"
      /\ \A fd \in Slots : Sane(files[fd].block)
      /\ \A fd \in Slots : "used" \in files[fd].state /\ ~Deleting(m.f, fd) =>
           "used" \in m.files[fd].state /\ ~Making(m.f, fd) /\ files[fd].block = m.files[fd].block

(* Memory and disk together.  While the lock is not left behind they       *)
(* match; the list on the disk is sound unless a fileDelete is on its way. *)
DiskInv(m) ==
  /\ SaneOK(m) /\ DirOK(m)
  /\ ~Stuck(m) => Match(m)
  /\ Stuck(m) => /\ m.f.at = "assign" => m.f.block = SYSERR
                 /\ ~(m.f.call = "delete" /\ m.f.at \in {"seek", "write", "dirdone"})
  /\ m.f.call # "delete" => ListOK(m.disk, FilesIn(m))

(* The inductive invariant: no block in two places of memory, and memory   *)
(* and disk as above unless something is known not to have been saved.     *)
Inv ==
  /\ crashes \in Nat
  /\ ~wild => /\ crashes = 0 \/ ~unsaved => MemOK(Now)
              /\ ~unsaved => DiskInv(Now)

(* The one process is me.                                                  *)
LEMMA OneProcess == ASSUME Single PROVE me \in Procs /\ \A p \in Procs : p = me
  BY DEF Single, me

(* The places are all different.                                           *)
LEMMA PlacesAre ==
  ASSUME NEW S
  PROVE  /\ \A c \in S : Own(c) \in Places(S)
         /\ \A c \in S, i \in Entries : Entry(c, i) \in Places(S)
         /\ \A fd \in Slots : File(fd) \in Places(S)
         /\ HAND \in Places(S)
         /\ \A x \in Places(S) : \/ \E c \in S : x = Own(c)
                                 \/ \E c \in S, i \in Entries : x = Entry(c, i)
                                 \/ \E fd \in Slots : x = File(fd)
                                 \/ x = HAND
  BY DEF Places

(* No place has two names.                                                 *)
LEMMA PlacesDiffer ==
  /\ \A c, d : Own(c) = Own(d) => c = d
  /\ \A c, d, i, j : Entry(c, i) = Entry(d, j) => c = d /\ i = j
  /\ \A c, d : File(c) = File(d) => c = d
  /\ \A c, d, i : Own(c) # Entry(d, i) /\ Own(c) # File(d) /\ Entry(c, i) # File(d)
  /\ \A c, i : Own(c) # HAND /\ Entry(c, i) # HAND /\ File(c) # HAND
  BY DEF Own, Entry, File, HAND

(* The block at each place of memory.                                      *)
LEMMA MemAt ==
  ASSUME NEW m
  PROVE  /\ \A c \in Cells : InMemory(m)[Own(c)] = IF c \in m.live THEN m.seg[c].num ELSE NULL
         /\ \A c \in Cells, i \in Entries :
              InMemory(m)[Entry(c, i)] = IF c \in m.live /\ i < m.seg[c].count THEN m.seg[c].free[i] ELSE NULL
         /\ \A fd \in Slots : InMemory(m)[File(fd)] = BlockOf(m, fd)
         /\ InMemory(m)[HAND] = Hand(m.f)
<1>1. ASSUME NEW c \in Cells PROVE InMemory(m)[Own(c)] = IF c \in m.live THEN m.seg[c].num ELSE NULL
  <2>1. Own(c) \in Places(Cells) /\ Own(c)[1] = "own" /\ Own(c)[2] = c
    BY PlacesAre DEF Own
  <2> HIDE DEF Own
  <2> QED
    BY <2>1 DEF InMemory
<1>2. ASSUME NEW c \in Cells, NEW i \in Entries
      PROVE  InMemory(m)[Entry(c, i)] = IF c \in m.live /\ i < m.seg[c].count THEN m.seg[c].free[i] ELSE NULL
  <2>1. Entry(c, i) \in Places(Cells) /\ Entry(c, i)[1] = "entry" /\ Entry(c, i)[2] = c /\ Entry(c, i)[3] = i
    BY PlacesAre DEF Entry
  <2> HIDE DEF Entry
  <2> QED
    BY <2>1 DEF InMemory
<1>3. ASSUME NEW fd \in Slots PROVE InMemory(m)[File(fd)] = BlockOf(m, fd)
  <2>1. File(fd) \in Places(Cells) /\ File(fd)[1] = "file" /\ File(fd)[2] = fd
    BY PlacesAre DEF File
  <2> QED
    BY <2>1 DEF InMemory
<1>4. InMemory(m)[HAND] = Hand(m.f)
  <2>1. HAND \in Places(Cells) /\ HAND[1] = "hand"
    BY PlacesAre DEF HAND
  <2> QED
    BY <2>1 DEF InMemory
<1> QED
  BY <1>1, <1>2, <1>3, <1>4

(* The block at each place of the disk.                                    *)
LEMMA DiskAt ==
  ASSUME NEW d, NEW fb
  PROVE  /\ \A n \in Blocks : OnDisk(d, fb)[Own(n)] = IF OnList(d, n) THEN d[n].seg.num ELSE NULL
         /\ \A n \in Blocks, i \in Entries :
              OnDisk(d, fb)[Entry(n, i)] = IF OnList(d, n) /\ i < d[n].seg.count THEN d[n].seg.free[i] ELSE NULL
         /\ \A fd \in Slots : OnDisk(d, fb)[File(fd)] = fb[fd]
         /\ OnDisk(d, fb)[HAND] = NULL
<1>1. ASSUME NEW c \in Blocks PROVE OnDisk(d, fb)[Own(c)] = IF OnList(d, c) THEN d[c].seg.num ELSE NULL
  <2>1. Own(c) \in Places(Blocks) /\ Own(c)[1] = "own" /\ Own(c)[2] = c
    BY PlacesAre DEF Own
  <2> QED
    BY <2>1 DEF OnDisk
<1>2. ASSUME NEW c \in Blocks, NEW i \in Entries
      PROVE  OnDisk(d, fb)[Entry(c, i)] = IF OnList(d, c) /\ i < d[c].seg.count THEN d[c].seg.free[i] ELSE NULL
  <2>1. Entry(c, i) \in Places(Blocks) /\ Entry(c, i)[1] = "entry" /\ Entry(c, i)[2] = c /\ Entry(c, i)[3] = i
    BY PlacesAre DEF Entry
  <2> QED
    BY <2>1 DEF OnDisk
<1>3. ASSUME NEW fd \in Slots PROVE OnDisk(d, fb)[File(fd)] = fb[fd]
  <2>1. File(fd) \in Places(Blocks) /\ File(fd)[1] = "file" /\ File(fd)[2] = fd
    BY PlacesAre DEF File
  <2> QED
    BY <2>1 DEF OnDisk
<1>4. OnDisk(d, fb)[HAND] = NULL
  <2>1. HAND \in Places(Blocks) /\ HAND[1] = "hand"
    BY PlacesAre DEF HAND
  <2> QED
    BY <2>1 DEF OnDisk
<1> QED
  BY <1>1, <1>2, <1>3, <1>4

(* What is moved from place to place, and never copied, stays once.        *)
LEMMA OnceMoved ==
  ASSUME NEW S, NEW T, NEW h, NEW g, NEW mv, Once(h, S),
         \A x \in Places(T) : g[x] \in Blocks => mv[x] \in Places(S) /\ h[mv[x]] = g[x],
         \A x, y \in Places(T) : g[x] \in Blocks /\ g[y] \in Blocks /\ mv[x] = mv[y] => x = y
  PROVE  Once(g, T)
  BY DEF Once

(* So it does where nothing has come.                                      *)
LEMMA OnceLess ==
  ASSUME NEW S, NEW h, NEW g, Once(h, S), \A x \in Places(S) : g[x] \in Blocks => g[x] = h[x]
  PROVE  Once(g, S)
  BY DEF Once

(* At most one block has been moved, from b to a, and b has been left.     *)
LEMMA OnceOneMoved ==
  ASSUME NEW S, NEW h, NEW g, Once(h, S), NEW a \in Places(S), NEW b \in Places(S),
         g[a] \in Blocks => g[a] = h[b], a # b => g[b] \notin Blocks,
         \A x \in Places(S) : x # a /\ x # b /\ g[x] \in Blocks => g[x] = h[x]
  PROVE  Once(g, S)
  BY DEF Once

-----------------------------------------------------------------------------
(* What each step does to the state, with one process.                     *)

(* What the type invariant says of such a state.                           *)
Typed(m) ==
  /\ m.seg \in [Cells -> Segments] /\ m.live \subseteq Cells /\ m.head \in Words
  /\ m.files \in [Slots -> Files] /\ DiskOK(m.disk) /\ m.current \in 0 .. DISKBLOCKTOTAL - 1
  /\ m.f \in Frames /\ FrameOK(m.f) /\ m.lock \in {me, "free"}
  /\ InList(m.f) => m.lock = me
  /\ m.lock = "free" \/ InList(m.f) =>
       \A c \in Cells : m.seg[c].next \in Links \/ (Swapped(m.f) /\ m.f.cell = c)

(* The state now.                                                          *)
LEMMA NowIs ==
  ASSUME NEW m, m = Now
  PROVE  /\ m.seg = seg /\ m.live = live /\ m.head = sb_freelst /\ m.files = filetab /\ m.disk = disk
         /\ m.current = current /\ m.lock = sb_freelock /\ m.f = ctx[me]
  BY DEF Now

(* The next state.                                                         *)
LEMMA NextIs ==
  ASSUME NEW m, m = Now'
  PROVE  /\ m.seg = seg' /\ m.live = live' /\ m.head = sb_freelst' /\ m.files = filetab' /\ m.disk = disk'
         /\ m.current = current' /\ m.lock = sb_freelock' /\ m.f = ctx'[me]
  BY DEF Now

(* It is typed.                                                            *)
LEMMA NowTyped ==
  ASSUME Single, TypeInv, ~wild, NEW m, m = Now
  PROVE  Typed(m)
<1>1. me \in Procs /\ \A p \in Procs : p = me
  BY OneProcess
<1>2. ctx \in [Procs -> Frames] /\ seg \in [Cells -> Segments] /\ filetab \in [Slots -> Files]
  BY FramesAre DEF TypeInv
<1>3. sb_freelock \in {me, "free"}
  BY <1>1 DEF TypeInv, TypeOK
<1>4. sb_freelock = "free" \/ InList(ctx[me]) => Held
  BY <1>1, Constants DEF Held, TypeInv
<1>5. sb_freelock = "free" \/ InList(ctx[me]) =>
        \A c \in Cells : seg[c].next \in Links \/ (Swapped(ctx[me]) /\ ctx[me].cell = c)
  BY <1>1, <1>4 DEF LinksOK, TypeInv
<1> QED
  BY <1>1, <1>2, <1>3, <1>5, NowIs DEF Typed, TypeInv, TypeOK

(* And so is the next one.                                                 *)
LEMMA NextTyped ==
  ASSUME Single, TypeInv', ~wild', NEW m, m = Now'
  PROVE  Typed(m)
<1>1. me \in Procs /\ \A p \in Procs : p = me
  BY OneProcess
<1>2. ctx' \in [Procs -> Frames] /\ seg' \in [Cells -> Segments] /\ filetab' \in [Slots -> Files]
  BY DEF TypeInv, TypeOK, Frames, Segments, Files
<1>3. sb_freelock' \in {me, "free"}
  BY <1>1 DEF TypeInv, TypeOK
<1>4. sb_freelock' = "free" \/ InList(ctx'[me]) => Held'
  BY <1>1, Constants DEF Held, TypeInv
<1>5. sb_freelock' = "free" \/ InList(ctx'[me]) =>
        \A c \in Cells : seg'[c].next \in Links \/ (Swapped(ctx'[me]) /\ ctx'[me].cell = c)
  BY <1>1, <1>4 DEF LinksOK, TypeInv
<1> QED
  BY <1>1, <1>2, <1>3, <1>5, NextIs DEF Typed, TypeInv, TypeOK

(* All of a frame.                                                         *)
FrameIs(f, call, at, what, fd, block, cell, save) ==
  /\ f.call = call /\ f.at = at /\ f.what = what /\ f.fd = fd
  /\ f.block = block /\ f.cell = cell /\ f.save = save


(* The state after the last entry of the first segment is taken.           *)
LEMMA GetEntryStep ==
  ASSUME Single, TypeInv, ~wild, GetEntry(me), NEW m, m = Now, NEW n, n = Now'
  PROVE  LET c == m.f.cell
             s == m.seg[c]
             k == s.count - 1
         IN  /\ m.f.call = "create" /\ m.f.at = "get" /\ c \in m.live /\ s.count > 0
             /\ \A x \in Cells \ {c} : n.seg[x] = m.seg[x]
             /\ n.seg[c].num = s.num /\ n.seg[c].count = k /\ n.seg[c].next = NumberOf(m, s.next)
             /\ n.seg[c].free[k] = NULL /\ \A i \in Entries \ {k} : n.seg[c].free[i] = s.free[i]
             /\ n.live = m.live /\ n.head = m.head /\ n.files = m.files /\ n.disk = m.disk
             /\ n.current = m.current /\ n.lock = m.lock
             /\ FrameIs(n.f, "create", "seek", "seg", m.f.fd, IF s.free[k] = NULL THEN SYSERR ELSE s.free[k], c, s.next)
<1>0. me \in Procs /\ ctx[me] \in Frames /\ PhaseOK(ctx[me]) /\ ctx[me].at = "get"
  BY OneProcess, TypeNow DEF FrameOK, GetEntry, At
<1>1. ctx[me].call = "create"
  BY <1>0 DEF PhaseOK, Frames
<1> DEFINE c == ctx[me].cell
           s == seg[c]
           k == s.count - 1
           b == IF s.free[k] = NULL THEN SYSERR ELSE s.free[k]
           t == [s EXCEPT !.count = k, !.free[k] = NULL, !.next = Number(@)]
<1>2. ctx'[me] = [ctx[me] EXCEPT !.block = b, !.save = s.next, !.at = "seek", !.what = "seg"]
  BY <1>0, TypeNow DEF GetEntry, Save
<1>3. FrameIs(ctx'[me], "create", "seek", "seg", ctx[me].fd, b, c, s.next)
  <2> HIDE DEF b
  <2> QED
    BY <1>0, <1>1, <1>2 DEF Frames, FrameIs
<1>4. /\ c \in live /\ s.count > 0
      /\ seg' = [seg EXCEPT ![c] = t]
      /\ UNCHANGED <<live, super, filetab, locks, device, faults, creates, wild>>
  BY DEF GetEntry
<1>5. c \in Cells /\ s \in Segments
  BY <1>4, TypeNow
<1>6. k \in Entries
  BY <1>4, <1>5, Constants DEF Segments, Entries
<1>7. /\ \A x \in Cells \ {c} : seg'[x] = seg[x]
      /\ seg'[c] = t
  <2> HIDE DEF t, c
  <2> QED
    BY <1>4, <1>5, TypeNow
<1>8. /\ t.num = s.num /\ t.count = k /\ t.next = Number(s.next)
      /\ t.free[k] = NULL /\ \A i \in Entries \ {k} : t.free[i] = s.free[i]
  <2> HIDE DEF c, s, k
  <2> QED
    BY <1>5, <1>6 DEF Segments
<1>9. NumberOf(m, s.next) = Number(s.next)
  BY NowIs DEF NumberOf, Number
<1> HIDE DEF t
<1>10. c = m.f.cell /\ s = m.seg[c] /\ m.f.call = "create" /\ m.f.at = "get" /\ m.f.fd = ctx[me].fd
  BY <1>0, <1>1, NowIs
<1>11. /\ n.live = m.live /\ n.head = m.head /\ n.files = m.files /\ n.disk = m.disk
       /\ n.current = m.current /\ n.lock = m.lock /\ c \in m.live /\ m.seg = seg /\ n.seg = seg' /\ n.f = ctx'[me]
  BY <1>4, NowIs, NextIs, Zenon DEF super, locks, device
<1> HIDE DEF c, s
<1>12. \A x \in Cells \ {c} : n.seg[x] = m.seg[x]
  BY <1>7, <1>11
<1>13. /\ n.seg[c].num = s.num /\ n.seg[c].count = k /\ n.seg[c].next = NumberOf(m, s.next)
       /\ n.seg[c].free[k] = NULL
  BY <1>7, <1>8, <1>9, <1>11
<1>14. \A i \in Entries \ {k} : n.seg[c].free[i] = s.free[i]
  BY <1>7, <1>8, <1>9, <1>11
<1>15. FrameIs(n.f, "create", "seek", "seg", m.f.fd, IF s.free[k] = NULL THEN SYSERR ELSE s.free[k], c, s.next)
  BY <1>3, <1>10, <1>11
<1> HIDE DEF k
<1> QED
  BY <1>4, <1>10, <1>11, <1>12, <1>13, <1>14, <1>15, Zenon DEF k

(* The state after the disk is moved to the block.                         *)
LEMMA SeekStep ==
  ASSUME Single, TypeInv, ~wild, ~wild', Seek(me), NEW m, m = Now, NEW n, n = Now'
  PROVE  /\ m.f.at = "seek"
         /\ n.current = Aim(m)
         /\ n.seg = m.seg /\ n.live = m.live /\ n.head = m.head /\ n.files = m.files /\ n.disk = m.disk /\ n.lock = m.lock
         /\ FrameIs(n.f, m.f.call, "write", m.f.what, m.f.fd, m.f.block, m.f.cell, m.f.save)
<1>0. /\ me \in Procs /\ ctx[me] \in Frames /\ PhaseOK(ctx[me]) /\ ctx[me].at = "seek" /\ m.f = ctx[me]
      /\ ctx \in [Procs -> Frames]
  BY OneProcess, TypeNow, NowIs DEF FrameOK, Seek, At, Getting
<1>1. m.f.at = "seek"
  BY <1>0 DEF PhaseOK, Frames
<1>2. n.current = Aim(m)
  BY <1>0, <1>1, NowIs, NextIs, TypeNow DEF Seek, super, locks, device, GoesWild, Target, Aim, DIR, SYSERR, DIRBLOCKNUM
<1>3. n.seg = m.seg /\ n.live = m.live /\ n.head = m.head /\ n.files = m.files /\ n.disk = m.disk /\ n.lock = m.lock
  BY NowIs, NextIs DEF Seek, super, locks, device, GoesWild
<1>4. FrameIs(n.f, m.f.call, "write", m.f.what, m.f.fd, m.f.block, m.f.cell, m.f.save)
  <2>1. ctx'[me] = [ctx[me] EXCEPT !.at = "write"]
    BY <1>0, <1>1, NowIs, TypeNow DEF Seek, Save, Goto, Return, User, Is, GoesWild
  <2>2. FrameIs(ctx'[me], ctx[me].call, "write", ctx[me].what, ctx[me].fd, ctx[me].block, ctx[me].cell, ctx[me].save)
    BY <2>1, <1>0 DEF Frames, FrameIs
  <2> QED
    BY <2>2, NowIs, NextIs
<1> QED
  BY <1>1, <1>2, <1>3, <1>4

(* The state after the lock of the directory is taken.                     *)
LEMMA DirLockStep ==
  ASSUME Single, TypeInv, ~wild, DirLock(me), NEW m, m = Now, NEW n, n = Now'
  PROVE  /\ m.f.at = "dirlock"
         /\ n.seg = m.seg /\ n.live = m.live /\ n.head = m.head /\ n.files = m.files /\ n.disk = m.disk /\ n.current = m.current /\ n.lock = m.lock
         /\ \/ m.f.call = "create" /\ FrameIs(n.f, m.f.call, "slot", m.f.what, m.f.fd, m.f.block, m.f.cell, m.f.save)
            \/ m.f.call = "delete" /\ FrameIs(n.f, m.f.call, "unlink", m.f.what, m.f.fd, m.f.block, m.f.cell, m.f.save)
            \/ m.f.call = "close" /\ FrameIs(n.f, m.f.call, "seek", "dir", m.f.fd, m.f.block, m.f.cell, m.f.save)
<1>0. /\ me \in Procs /\ ctx[me] \in Frames /\ PhaseOK(ctx[me]) /\ ctx[me].at = "dirlock" /\ m.f = ctx[me]
      /\ ctx \in [Procs -> Frames]
  BY OneProcess, TypeNow, NowIs DEF FrameOK, DirLock, At, Getting
<1>1. m.f.at = "dirlock"
  BY <1>0 DEF PhaseOK, Frames
<1>2. n.seg = m.seg /\ n.live = m.live /\ n.head = m.head /\ n.files = m.files /\ n.disk = m.disk /\ n.current = m.current /\ n.lock = m.lock
  BY NowIs, NextIs DEF DirLock, super, locks, device
<1>3. ASSUME m.f.call = "create" PROVE FrameIs(n.f, m.f.call, "slot", m.f.what, m.f.fd, m.f.block, m.f.cell, m.f.save)
  <2>1. ctx'[me] = [ctx[me] EXCEPT !.at = "slot"]
    BY <1>3, <1>0, <1>1, NowIs, TypeNow DEF DirLock, Save, Goto, Return, User, Is
  <2>2. FrameIs(ctx'[me], ctx[me].call, "slot", ctx[me].what, ctx[me].fd, ctx[me].block, ctx[me].cell, ctx[me].save)
    BY <2>1, <1>0 DEF Frames, FrameIs
  <2> QED
    BY <2>2, NowIs, NextIs
<1>4. ASSUME m.f.call = "delete" PROVE FrameIs(n.f, m.f.call, "unlink", m.f.what, m.f.fd, m.f.block, m.f.cell, m.f.save)
  <2>1. ctx'[me] = [ctx[me] EXCEPT !.at = "unlink"]
    BY <1>4, <1>0, <1>1, NowIs, TypeNow DEF DirLock, Save, Goto, Return, User, Is
  <2>2. FrameIs(ctx'[me], ctx[me].call, "unlink", ctx[me].what, ctx[me].fd, ctx[me].block, ctx[me].cell, ctx[me].save)
    BY <2>1, <1>0 DEF Frames, FrameIs
  <2> QED
    BY <2>2, NowIs, NextIs
<1>5. ASSUME m.f.call = "close" PROVE FrameIs(n.f, m.f.call, "seek", "dir", m.f.fd, m.f.block, m.f.cell, m.f.save)
  <2>1. ctx'[me] = [ctx[me] EXCEPT !.at = "seek", !.what = "dir"]
    BY <1>5, <1>0, <1>1, NowIs, TypeNow DEF DirLock, Save, Goto, Return, User, Is
  <2>2. FrameIs(ctx'[me], ctx[me].call, "seek", "dir", ctx[me].fd, ctx[me].block, ctx[me].cell, ctx[me].save)
    BY <2>1, <1>0 DEF Frames, FrameIs
  <2> QED
    BY <2>2, NowIs, NextIs
<1>6. (m.f.call = "create") \/ (m.f.call = "delete") \/ (m.f.call = "close")
  BY <1>0 DEF PhaseOK, Frames
<1> QED
  BY <1>1, <1>2, <1>3, <1>4, <1>5, <1>6

(* The state after the lock of the directory is given back and the call    *)
(* returns.                                                                *)
LEMMA DirDoneStep ==
  ASSUME Single, TypeInv, ~wild, DirDone(me), NEW m, m = Now, NEW n, n = Now'
  PROVE  /\ m.f.at = "dirdone"
         /\ n.seg = m.seg /\ n.live = m.live /\ n.head = m.head /\ n.files = m.files /\ n.disk = m.disk /\ n.current = m.current /\ n.lock = m.lock
         /\ FrameIs(n.f, "none", "user", "none", 0, NULL, NULL, NULL)
<1>0. /\ me \in Procs /\ ctx[me] \in Frames /\ PhaseOK(ctx[me]) /\ ctx[me].at = "dirdone" /\ m.f = ctx[me]
      /\ ctx \in [Procs -> Frames]
  BY OneProcess, TypeNow, NowIs DEF FrameOK, DirDone, At, Getting
<1>1. m.f.at = "dirdone"
  BY <1>0 DEF PhaseOK, Frames
<1>2. n.seg = m.seg /\ n.live = m.live /\ n.head = m.head /\ n.files = m.files /\ n.disk = m.disk /\ n.current = m.current /\ n.lock = m.lock
  BY NowIs, NextIs DEF DirDone, super, locks, device
<1>3. FrameIs(n.f, "none", "user", "none", 0, NULL, NULL, NULL)
  <2>1. ctx'[me] = [call |-> "none", at |-> "user", what |-> "none", fd |-> 0, block |-> NULL, cell |-> NULL, save |-> NULL]
    BY <1>0, <1>1, NowIs, TypeNow DEF DirDone, Save, Goto, Return, User, Is
  <2>2. FrameIs(ctx'[me], "none", "user", "none", 0, NULL, NULL, NULL)
    BY <2>1, <1>0 DEF Frames, FrameIs
  <2> QED
    BY <2>2, NowIs, NextIs
<1> QED
  BY <1>1, <1>2, <1>3

(* The state after the head of the list is read.                           *)
LEMMA ReadHeadStep ==
  ASSUME Single, TypeInv, ~wild, ReadHead(me), NEW m, m = Now, NEW n, n = Now'
  PROVE  /\ m.f.at = "head"
         /\ n.seg = m.seg /\ n.live = m.live /\ n.head = m.head /\ n.files = m.files /\ n.disk = m.disk /\ n.current = m.current /\ n.lock = m.lock
         /\ \/ (m.f.call = "create" /\ m.head = NULL) /\ FrameIs(n.f, m.f.call, "assign", m.f.what, m.f.fd, SYSERR, m.f.cell, m.f.save)
            \/ ~(m.f.call = "create" /\ m.head = NULL) /\ FrameIs(n.f, m.f.call, "freelock", m.f.what, m.f.fd, m.f.block, m.head, m.f.save)
<1>0. /\ me \in Procs /\ ctx[me] \in Frames /\ PhaseOK(ctx[me]) /\ ctx[me].at = "head" /\ m.f = ctx[me]
      /\ ctx \in [Procs -> Frames]
  BY OneProcess, TypeNow, NowIs DEF FrameOK, ReadHead, At, Getting
<1>1. m.f.at = "head"
  BY <1>0 DEF PhaseOK, Frames
<1>2. n.seg = m.seg /\ n.live = m.live /\ n.head = m.head /\ n.files = m.files /\ n.disk = m.disk /\ n.current = m.current /\ n.lock = m.lock
  BY NowIs, NextIs DEF ReadHead, super, locks, device
<1>3. ASSUME (m.f.call = "create" /\ m.head = NULL) PROVE FrameIs(n.f, m.f.call, "assign", m.f.what, m.f.fd, SYSERR, m.f.cell, m.f.save)
  <2>1. ctx'[me] = [ctx[me] EXCEPT !.at = "assign", !.block = SYSERR]
    BY <1>3, <1>0, <1>1, NowIs, TypeNow DEF ReadHead, Save, Goto, Return, User, Is
  <2>2. FrameIs(ctx'[me], ctx[me].call, "assign", ctx[me].what, ctx[me].fd, SYSERR, ctx[me].cell, ctx[me].save)
    BY <2>1, <1>0 DEF Frames, FrameIs
  <2> QED
    BY <2>2, NowIs, NextIs
<1>4. ASSUME ~(m.f.call = "create" /\ m.head = NULL) PROVE FrameIs(n.f, m.f.call, "freelock", m.f.what, m.f.fd, m.f.block, m.head, m.f.save)
  <2>1. ctx'[me] = [ctx[me] EXCEPT !.at = "freelock", !.cell = sb_freelst]
    BY <1>4, <1>0, <1>1, NowIs, TypeNow DEF ReadHead, Save, Goto, Return, User, Is
  <2>2. FrameIs(ctx'[me], ctx[me].call, "freelock", ctx[me].what, ctx[me].fd, ctx[me].block, sb_freelst, ctx[me].save)
    BY <2>1, <1>0 DEF Frames, FrameIs
  <2> QED
    BY <2>2, NowIs, NextIs
<1>5. ((m.f.call = "create" /\ m.head = NULL)) \/ (~(m.f.call = "create" /\ m.head = NULL))
  BY <1>0 DEF PhaseOK, Frames
<1> QED
  BY <1>1, <1>2, <1>3, <1>4, <1>5

(* The state after the lock of the list is taken.                          *)
LEMMA FreeLockStep ==
  ASSUME Single, TypeInv, ~wild, FreeLock(me), NEW m, m = Now, NEW n, n = Now'
  PROVE  /\ m.f.at = "freelock"
         /\ m.lock = "free" /\ n.lock = me
         /\ n.seg = m.seg /\ n.live = m.live /\ n.head = m.head /\ n.files = m.files /\ n.disk = m.disk /\ n.current = m.current
         /\ \/ m.f.call = "create" /\ FrameIs(n.f, m.f.call, "get", m.f.what, m.f.fd, m.f.block, m.f.cell, m.f.save)
            \/ m.f.call = "delete" /\ FrameIs(n.f, m.f.call, "put", m.f.what, m.f.fd, m.f.block, m.f.cell, m.f.save)
<1>0. /\ me \in Procs /\ ctx[me] \in Frames /\ PhaseOK(ctx[me]) /\ ctx[me].at = "freelock" /\ m.f = ctx[me]
      /\ ctx \in [Procs -> Frames]
  BY OneProcess, TypeNow, NowIs DEF FrameOK, FreeLock, At, Getting
<1>1. m.f.at = "freelock"
  BY <1>0 DEF PhaseOK, Frames
<1>2. m.lock = "free" /\ n.lock = me
  BY <1>0, <1>1, NowIs, NextIs, TypeNow DEF FreeLock, super, locks, device
<1>3. n.seg = m.seg /\ n.live = m.live /\ n.head = m.head /\ n.files = m.files /\ n.disk = m.disk /\ n.current = m.current
  BY NowIs, NextIs DEF FreeLock, super, locks, device
<1>4. ASSUME m.f.call = "create" PROVE FrameIs(n.f, m.f.call, "get", m.f.what, m.f.fd, m.f.block, m.f.cell, m.f.save)
  <2>1. ctx'[me] = [ctx[me] EXCEPT !.at = "get"]
    BY <1>4, <1>0, <1>1, NowIs, TypeNow DEF FreeLock, Save, Goto, Return, User, Is
  <2>2. FrameIs(ctx'[me], ctx[me].call, "get", ctx[me].what, ctx[me].fd, ctx[me].block, ctx[me].cell, ctx[me].save)
    BY <2>1, <1>0 DEF Frames, FrameIs
  <2> QED
    BY <2>2, NowIs, NextIs
<1>5. ASSUME m.f.call = "delete" PROVE FrameIs(n.f, m.f.call, "put", m.f.what, m.f.fd, m.f.block, m.f.cell, m.f.save)
  <2>1. ctx'[me] = [ctx[me] EXCEPT !.at = "put"]
    BY <1>5, <1>0, <1>1, NowIs, TypeNow DEF FreeLock, Save, Goto, Return, User, Is
  <2>2. FrameIs(ctx'[me], ctx[me].call, "put", ctx[me].what, ctx[me].fd, ctx[me].block, ctx[me].cell, ctx[me].save)
    BY <2>1, <1>0 DEF Frames, FrameIs
  <2> QED
    BY <2>2, NowIs, NextIs
<1>6. (m.f.call = "create") \/ (m.f.call = "delete")
  BY <1>0 DEF PhaseOK, Frames
<1> QED
  BY <1>1, <1>2, <1>3, <1>4, <1>5, <1>6

(* The state after fileCreate is called.                                   *)
LEMMA CreateStep ==
  ASSUME Single, TypeInv, ~wild, Create(me), NEW m, m = Now, NEW n, n = Now'
  PROVE  /\ m.f.at = "user" /\ m.f.call = "none"
         /\ n.seg = m.seg /\ n.live = m.live /\ n.head = m.head /\ n.files = m.files /\ n.disk = m.disk /\ n.current = m.current /\ n.lock = m.lock
         /\ FrameIs(n.f, "create", "dirlock", "none", 0, NULL, NULL, NULL)
<1>0. /\ me \in Procs /\ ctx[me] \in Frames /\ PhaseOK(ctx[me]) /\ ctx[me].at = "user" /\ m.f = ctx[me]
      /\ ctx \in [Procs -> Frames]
  BY OneProcess, TypeNow, NowIs DEF FrameOK, Create, At, Getting
<1>1. m.f.at = "user" /\ m.f.call = "none"
  BY <1>0 DEF PhaseOK, Frames
<1>2. n.seg = m.seg /\ n.live = m.live /\ n.head = m.head /\ n.files = m.files /\ n.disk = m.disk /\ n.current = m.current /\ n.lock = m.lock
  BY NowIs, NextIs DEF Create, super, locks, device
<1>3. FrameIs(n.f, "create", "dirlock", "none", 0, NULL, NULL, NULL)
  <2>1. ctx'[me] = [call |-> "create", at |-> "dirlock", what |-> "none", fd |-> 0, block |-> NULL, cell |-> NULL, save |-> NULL]
    BY <1>0, <1>1, NowIs, TypeNow, Zenon DEF Create, Save, Goto, Return, User, Is
  <2>2. FrameIs(ctx'[me], "create", "dirlock", "none", 0, NULL, NULL, NULL)
    BY <2>1, <1>0 DEF Frames, FrameIs
  <2> QED
    BY <2>2, NowIs, NextIs
<1> QED
  BY <1>1, <1>2, <1>3

(* The state after the slot gets the block.                                *)
LEMMA AssignStep ==
  ASSUME Single, TypeInv, ~wild, Assign(me), NEW m, m = Now, NEW n, n = Now'
  PROVE  /\ m.f.at = "assign" /\ m.f.call = "create"
         /\ (\A x \in Slots \ {m.f.fd} : n.files[x] = m.files[x]) /\ n.files[m.f.fd].state = m.files[m.f.fd].state /\ n.files[m.f.fd].block = m.f.block
         /\ n.seg = m.seg /\ n.live = m.live /\ n.head = m.head /\ n.disk = m.disk /\ n.current = m.current /\ n.lock = m.lock
         /\ FrameIs(n.f, "none", "user", "none", 0, NULL, NULL, NULL)
<1>0. /\ me \in Procs /\ ctx[me] \in Frames /\ PhaseOK(ctx[me]) /\ ctx[me].at = "assign" /\ m.f = ctx[me]
      /\ ctx \in [Procs -> Frames]
  BY OneProcess, TypeNow, NowIs DEF FrameOK, Assign, At, Getting
<1>1. m.f.at = "assign" /\ m.f.call = "create"
  BY <1>0 DEF PhaseOK, Frames
<1>2. (\A x \in Slots \ {m.f.fd} : n.files[x] = m.files[x]) /\ n.files[m.f.fd].state = m.files[m.f.fd].state /\ n.files[m.f.fd].block = m.f.block
  <2>1. filetab' = [filetab EXCEPT ![ctx[me].fd].block = ctx[me].block]
    BY <1>0, TypeNow DEF Assign
  <2>2. (\A x \in Slots \ {ctx[me].fd} : filetab'[x] = filetab[x]) /\ filetab'[ctx[me].fd].state = filetab[ctx[me].fd].state /\ filetab'[ctx[me].fd].block = ctx[me].block
    BY <2>1, <1>0, TypeNow DEF Frames, Files
  <2> QED
    BY <2>2, NowIs, NextIs
<1>3. n.seg = m.seg /\ n.live = m.live /\ n.head = m.head /\ n.disk = m.disk /\ n.current = m.current /\ n.lock = m.lock
  BY NowIs, NextIs DEF Assign, super, locks, device
<1>4. FrameIs(n.f, "none", "user", "none", 0, NULL, NULL, NULL)
  <2>1. ctx'[me] = [call |-> "none", at |-> "user", what |-> "none", fd |-> 0, block |-> NULL, cell |-> NULL, save |-> NULL]
    BY <1>0, <1>1, NowIs, TypeNow DEF Assign, Save, Goto, Return, User, Is
  <2>2. FrameIs(ctx'[me], "none", "user", "none", 0, NULL, NULL, NULL)
    BY <2>1, <1>0 DEF Frames, FrameIs
  <2> QED
    BY <2>2, NowIs, NextIs
<1> QED
  BY <1>1, <1>2, <1>3, <1>4

(* The state after the file is marked closed.                              *)
LEMMA ClosedStep ==
  ASSUME Single, TypeInv, ~wild, Closed(me), NEW m, m = Now, NEW n, n = Now'
  PROVE  /\ m.f.at = "closed" /\ m.f.call = "close"
         /\ (\A x \in Slots \ {m.f.fd} : n.files[x] = m.files[x]) /\ n.files[m.f.fd].state = m.files[m.f.fd].state \ {"dirty", "open"} /\ n.files[m.f.fd].block = m.files[m.f.fd].block
         /\ n.seg = m.seg /\ n.live = m.live /\ n.head = m.head /\ n.disk = m.disk /\ n.current = m.current /\ n.lock = m.lock
         /\ FrameIs(n.f, m.f.call, "dirlock", m.f.what, m.f.fd, m.f.block, m.f.cell, m.f.save)
<1>0. /\ me \in Procs /\ ctx[me] \in Frames /\ PhaseOK(ctx[me]) /\ ctx[me].at = "closed" /\ m.f = ctx[me]
      /\ ctx \in [Procs -> Frames]
  BY OneProcess, TypeNow, NowIs DEF FrameOK, Closed, At, Getting
<1>1. m.f.at = "closed" /\ m.f.call = "close"
  BY <1>0 DEF PhaseOK, Frames
<1>2. (\A x \in Slots \ {m.f.fd} : n.files[x] = m.files[x]) /\ n.files[m.f.fd].state = m.files[m.f.fd].state \ {"dirty", "open"} /\ n.files[m.f.fd].block = m.files[m.f.fd].block
  <2>1. filetab' = [filetab EXCEPT ![ctx[me].fd].state = @ \ {"dirty", "open"}]
    BY <1>0, TypeNow DEF Closed
  <2>2. (\A x \in Slots \ {ctx[me].fd} : filetab'[x] = filetab[x]) /\ filetab'[ctx[me].fd].state = filetab[ctx[me].fd].state \ {"dirty", "open"} /\ filetab'[ctx[me].fd].block = filetab[ctx[me].fd].block
    BY <2>1, <1>0, TypeNow DEF Frames, Files
  <2> QED
    BY <2>2, NowIs, NextIs
<1>3. n.seg = m.seg /\ n.live = m.live /\ n.head = m.head /\ n.disk = m.disk /\ n.current = m.current /\ n.lock = m.lock
  BY NowIs, NextIs DEF Closed, super, locks, device
<1>4. FrameIs(n.f, m.f.call, "dirlock", m.f.what, m.f.fd, m.f.block, m.f.cell, m.f.save)
  <2>1. ctx'[me] = [ctx[me] EXCEPT !.at = "dirlock"]
    BY <1>0, <1>1, NowIs, TypeNow DEF Closed, Save, Goto, Return, User, Is
  <2>2. FrameIs(ctx'[me], ctx[me].call, "dirlock", ctx[me].what, ctx[me].fd, ctx[me].block, ctx[me].cell, ctx[me].save)
    BY <2>1, <1>0 DEF Frames, FrameIs
  <2> QED
    BY <2>2, NowIs, NextIs
<1> QED
  BY <1>1, <1>2, <1>3, <1>4

(* The state after the slot is emptied.                                    *)
LEMMA UnlinkStep ==
  ASSUME Single, TypeInv, ~wild, ~wild', Unlink(me), NEW m, m = Now, NEW n, n = Now'
  PROVE  /\ m.f.at = "unlink" /\ m.f.call = "delete"
         /\ (\A x \in Slots \ {m.f.fd} : n.files[x] = m.files[x]) /\ n.files[m.f.fd].state = {} /\ n.files[m.f.fd].block = m.files[m.f.fd].block
         /\ n.seg = m.seg /\ n.live = m.live /\ n.head = m.head /\ n.disk = m.disk /\ n.current = m.current /\ n.lock = m.lock
         /\ FrameIs(n.f, m.f.call, "head", m.f.what, m.f.fd, m.files[m.f.fd].block, m.f.cell, m.f.save)
<1>0. /\ me \in Procs /\ ctx[me] \in Frames /\ PhaseOK(ctx[me]) /\ ctx[me].at = "unlink" /\ m.f = ctx[me]
      /\ ctx \in [Procs -> Frames]
  BY OneProcess, TypeNow, NowIs DEF FrameOK, Unlink, At, Getting
<1>1. m.f.at = "unlink" /\ m.f.call = "delete"
  BY <1>0 DEF PhaseOK, Frames
<1>2. (\A x \in Slots \ {m.f.fd} : n.files[x] = m.files[x]) /\ n.files[m.f.fd].state = {} /\ n.files[m.f.fd].block = m.files[m.f.fd].block
  <2>1. filetab' = [filetab EXCEPT ![ctx[me].fd].state = {}]
    BY <1>0, TypeNow DEF Unlink, GoesWild
  <2>2. (\A x \in Slots \ {ctx[me].fd} : filetab'[x] = filetab[x]) /\ filetab'[ctx[me].fd].state = {} /\ filetab'[ctx[me].fd].block = filetab[ctx[me].fd].block
    BY <2>1, <1>0, TypeNow DEF Frames, Files
  <2> QED
    BY <2>2, NowIs, NextIs
<1>3. n.seg = m.seg /\ n.live = m.live /\ n.head = m.head /\ n.disk = m.disk /\ n.current = m.current /\ n.lock = m.lock
  BY NowIs, NextIs DEF Unlink, super, locks, device, GoesWild
<1>4. FrameIs(n.f, m.f.call, "head", m.f.what, m.f.fd, m.files[m.f.fd].block, m.f.cell, m.f.save)
  <2>1. ctx'[me] = [ctx[me] EXCEPT !.at = "head", !.block = filetab[ctx[me].fd].block]
    BY <1>0, <1>1, NowIs, TypeNow, ZenonT(60) DEF Unlink, Save, Goto, Return, User, Is, GoesWild
  <2>2. FrameIs(ctx'[me], ctx[me].call, "head", ctx[me].what, ctx[me].fd, filetab[ctx[me].fd].block, ctx[me].cell, ctx[me].save)
    BY <2>1, <1>0 DEF Frames, FrameIs
  <2> QED
    BY <2>2, NowIs, NextIs
<1> QED
  BY <1>1, <1>2, <1>3, <1>4

(* The state after the only segment is freed.                              *)
LEMMA LastDoneStep ==
  ASSUME Single, TypeInv, ~wild, LastDone(me), NEW m, m = Now, NEW n, n = Now'
  PROVE  /\ m.f.at = "last" /\ m.f.call = "create"
         /\ n.live = m.live \ {m.f.cell}
         /\ n.lock = "free"
         /\ n.seg = m.seg /\ n.head = m.head /\ n.files = m.files /\ n.disk = m.disk /\ n.current = m.current
         /\ FrameIs(n.f, m.f.call, "assign", m.f.what, m.f.fd, m.f.block, m.f.cell, m.f.save)
<1>0. /\ me \in Procs /\ ctx[me] \in Frames /\ PhaseOK(ctx[me]) /\ ctx[me].at = "last" /\ m.f = ctx[me]
      /\ ctx \in [Procs -> Frames]
  BY OneProcess, TypeNow, NowIs DEF FrameOK, LastDone, At, Getting
<1>1. m.f.at = "last" /\ m.f.call = "create"
  BY <1>0 DEF PhaseOK, Frames
<1>2. n.live = m.live \ {m.f.cell}
  BY <1>0, <1>1, NowIs, NextIs, TypeNow DEF LastDone, super, locks, device
<1>3. n.lock = "free"
  BY <1>0, <1>1, NowIs, NextIs, TypeNow DEF LastDone, super, locks, device
<1>4. n.seg = m.seg /\ n.head = m.head /\ n.files = m.files /\ n.disk = m.disk /\ n.current = m.current
  BY NowIs, NextIs DEF LastDone, super, locks, device
<1>5. FrameIs(n.f, m.f.call, "assign", m.f.what, m.f.fd, m.f.block, m.f.cell, m.f.save)
  <2>1. ctx'[me] = [ctx[me] EXCEPT !.at = "assign"]
    BY <1>0, <1>1, NowIs, TypeNow DEF LastDone, Save, Goto, Return, User, Is
  <2>2. FrameIs(ctx'[me], ctx[me].call, "assign", ctx[me].what, ctx[me].fd, ctx[me].block, ctx[me].cell, ctx[me].save)
    BY <2>1, <1>0 DEF Frames, FrameIs
  <2> QED
    BY <2>2, NowIs, NextIs
<1> QED
  BY <1>1, <1>2, <1>3, <1>4, <1>5

(* The state after the block of the only segment is taken.                 *)
LEMMA GetLastStep ==
  ASSUME Single, TypeInv, ~wild, GetLast(me), NEW m, m = Now, NEW n, n = Now'
  PROVE  /\ m.f.at = "get" /\ m.f.call = "create"
         /\ m.f.cell \in m.live /\ m.seg[m.f.cell].count = 0 /\ m.seg[m.f.cell].next = NULL
         /\ n.head = NULL
         /\ n.seg = m.seg /\ n.live = m.live /\ n.files = m.files /\ n.disk = m.disk /\ n.current = m.current /\ n.lock = m.lock
         /\ FrameIs(n.f, m.f.call, "seek", "super", m.f.fd, m.seg[m.f.cell].num, m.f.cell, m.f.save)
<1>0. /\ me \in Procs /\ ctx[me] \in Frames /\ PhaseOK(ctx[me]) /\ ctx[me].at = "get" /\ m.f = ctx[me]
      /\ ctx \in [Procs -> Frames]
  BY OneProcess, TypeNow, NowIs DEF FrameOK, GetLast, At, Getting
<1>1. m.f.at = "get" /\ m.f.call = "create"
  BY <1>0 DEF PhaseOK, Frames
<1>2. m.f.cell \in m.live /\ m.seg[m.f.cell].count = 0 /\ m.seg[m.f.cell].next = NULL
  BY <1>0, <1>1, NowIs, TypeNow DEF GetLast, At, Getting
<1>3. n.head = NULL
  BY <1>0, <1>1, NowIs, NextIs, TypeNow DEF GetLast, super, locks, device
<1>4. n.seg = m.seg /\ n.live = m.live /\ n.files = m.files /\ n.disk = m.disk /\ n.current = m.current /\ n.lock = m.lock
  BY NowIs, NextIs DEF GetLast, super, locks, device
<1>5. FrameIs(n.f, m.f.call, "seek", "super", m.f.fd, m.seg[m.f.cell].num, m.f.cell, m.f.save)
  <2>1. ctx'[me] = [ctx[me] EXCEPT !.at = "seek", !.what = "super", !.block = seg[ctx[me].cell].num]
    BY <1>0, <1>1, NowIs, TypeNow, Zenon DEF GetLast, Save, Goto, Return, User, Is
  <2>2. FrameIs(ctx'[me], ctx[me].call, "seek", "super", ctx[me].fd, seg[ctx[me].cell].num, ctx[me].cell, ctx[me].save)
    BY <2>1, <1>0 DEF Frames, FrameIs
  <2> QED
    BY <2>2, NowIs, NextIs
<1> QED
  BY <1>1, <1>2, <1>3, <1>4, <1>5

(* The state after the lock of the list is given back.                     *)
LEMMA UnlinkedStep ==
  ASSUME Single, TypeInv, ~wild, Unlinked(me), NEW m, m = Now, NEW n, n = Now'
  PROVE  /\ m.f.at = "freed" /\ m.f.call = "delete"
         /\ n.lock = "free"
         /\ n.seg = m.seg /\ n.live = m.live /\ n.head = m.head /\ n.files = m.files /\ n.disk = m.disk /\ n.current = m.current
         /\ FrameIs(n.f, m.f.call, "seek", "dir", m.f.fd, m.f.block, m.f.cell, m.f.save)
<1>0. /\ me \in Procs /\ ctx[me] \in Frames /\ PhaseOK(ctx[me]) /\ ctx[me].at = "freed" /\ m.f = ctx[me]
      /\ ctx \in [Procs -> Frames]
  BY OneProcess, TypeNow, NowIs DEF FrameOK, Unlinked, At, Getting
<1>1. m.f.at = "freed" /\ m.f.call = "delete"
  BY <1>0 DEF PhaseOK, Frames
<1>2. n.lock = "free"
  BY <1>0, <1>1, NowIs, NextIs, TypeNow DEF Unlinked, super, locks, device
<1>3. n.seg = m.seg /\ n.live = m.live /\ n.head = m.head /\ n.files = m.files /\ n.disk = m.disk /\ n.current = m.current
  BY NowIs, NextIs DEF Unlinked, super, locks, device
<1>4. FrameIs(n.f, m.f.call, "seek", "dir", m.f.fd, m.f.block, m.f.cell, m.f.save)
  <2>1. ctx'[me] = [ctx[me] EXCEPT !.at = "seek", !.what = "dir"]
    BY <1>0, <1>1, NowIs, TypeNow DEF Unlinked, Save, Goto, Return, User, Is
  <2>2. FrameIs(ctx'[me], ctx[me].call, "seek", "dir", ctx[me].fd, ctx[me].block, ctx[me].cell, ctx[me].save)
    BY <2>1, <1>0 DEF Frames, FrameIs
  <2> QED
    BY <2>2, NowIs, NextIs
<1> QED
  BY <1>1, <1>2, <1>3, <1>4

(* The state after the call returns after a write that failed.             *)
LEMMA RefusedStep ==
  ASSUME Single, TypeInv, ~wild, Refused(me), NEW m, m = Now, NEW n, n = Now'
  PROVE  /\ m.f.at = "refused" /\ m.f.call = "delete"
         /\ n.lock = "free"
         /\ n.seg = m.seg /\ n.live = m.live /\ n.head = m.head /\ n.files = m.files /\ n.disk = m.disk /\ n.current = m.current
         /\ FrameIs(n.f, "none", "user", "none", 0, NULL, NULL, NULL)
<1>0. /\ me \in Procs /\ ctx[me] \in Frames /\ PhaseOK(ctx[me]) /\ ctx[me].at = "refused" /\ m.f = ctx[me]
      /\ ctx \in [Procs -> Frames]
  BY OneProcess, TypeNow, NowIs DEF FrameOK, Refused, At, Getting
<1>1. m.f.at = "refused" /\ m.f.call = "delete"
  BY <1>0 DEF PhaseOK, Frames
<1>2. n.lock = "free"
  BY <1>0, <1>1, NowIs, NextIs, TypeNow DEF Refused, super, locks, device
<1>3. n.seg = m.seg /\ n.live = m.live /\ n.head = m.head /\ n.files = m.files /\ n.disk = m.disk /\ n.current = m.current
  BY NowIs, NextIs DEF Refused, super, locks, device
<1>4. FrameIs(n.f, "none", "user", "none", 0, NULL, NULL, NULL)
  <2>1. ctx'[me] = [call |-> "none", at |-> "user", what |-> "none", fd |-> 0, block |-> NULL, cell |-> NULL, save |-> NULL]
    BY <1>0, <1>1, NowIs, TypeNow DEF Refused, Save, Goto, Return, User, Is
  <2>2. FrameIs(ctx'[me], "none", "user", "none", 0, NULL, NULL, NULL)
    BY <2>1, <1>0 DEF Frames, FrameIs
  <2> QED
    BY <2>2, NowIs, NextIs
<1> QED
  BY <1>1, <1>2, <1>3, <1>4

(* The state after the superblock is put back.                             *)
LEMMA RelinkStep ==
  ASSUME Single, TypeInv, ~wild, Relink(me), NEW m, m = Now, NEW n, n = Now'
  PROVE  /\ m.f.at = "relink" /\ m.f.call = "delete"
         /\ n.head = m.f.save
         /\ n.seg = m.seg /\ n.live = m.live /\ n.files = m.files /\ n.disk = m.disk /\ n.current = m.current /\ n.lock = m.lock
         /\ FrameIs(n.f, m.f.call, "seek", "back", m.f.fd, m.f.block, m.f.cell, m.f.save)
<1>0. /\ me \in Procs /\ ctx[me] \in Frames /\ PhaseOK(ctx[me]) /\ ctx[me].at = "relink" /\ m.f = ctx[me]
      /\ ctx \in [Procs -> Frames]
  BY OneProcess, TypeNow, NowIs DEF FrameOK, Relink, At, Getting
<1>1. m.f.at = "relink" /\ m.f.call = "delete"
  BY <1>0 DEF PhaseOK, Frames
<1>2. n.head = m.f.save
  BY <1>0, <1>1, NowIs, NextIs, TypeNow DEF Relink, super, locks, device
<1>3. n.seg = m.seg /\ n.live = m.live /\ n.files = m.files /\ n.disk = m.disk /\ n.current = m.current /\ n.lock = m.lock
  BY NowIs, NextIs DEF Relink, super, locks, device
<1>4. FrameIs(n.f, m.f.call, "seek", "back", m.f.fd, m.f.block, m.f.cell, m.f.save)
  <2>1. ctx'[me] = [ctx[me] EXCEPT !.at = "seek", !.what = "back"]
    BY <1>0, <1>1, NowIs, TypeNow DEF Relink, Save, Goto, Return, User, Is
  <2>2. FrameIs(ctx'[me], ctx[me].call, "seek", "back", ctx[me].fd, ctx[me].block, ctx[me].cell, ctx[me].save)
    BY <2>1, <1>0 DEF Frames, FrameIs
  <2> QED
    BY <2>2, NowIs, NextIs
<1> QED
  BY <1>1, <1>2, <1>3, <1>4

(* The state after the file is opened.                                     *)
LEMMA OpenStep ==
  ASSUME Single, TypeInv, ~wild, NEW fd \in Slots, Open(me, fd), NEW m, m = Now, NEW n, n = Now'
  PROVE  /\ m.f.at = "user" /\ m.f.call = "none"
         /\ m.files[fd].state # {}
         /\ (\A x \in Slots \ {fd} : n.files[x] = m.files[x]) /\ n.files[fd].state = m.files[fd].state \cup {"open"} /\ n.files[fd].block = m.files[fd].block
         /\ n.seg = m.seg /\ n.live = m.live /\ n.head = m.head /\ n.disk = m.disk /\ n.lock = m.lock
         /\ FrameIs(n.f, m.f.call, m.f.at, m.f.what, m.f.fd, m.f.block, m.f.cell, m.f.save)
<1>0. /\ me \in Procs /\ ctx[me] \in Frames /\ PhaseOK(ctx[me]) /\ ctx[me].at = "user" /\ m.f = ctx[me]
      /\ ctx \in [Procs -> Frames]
  BY OneProcess, TypeNow, NowIs DEF FrameOK, Open, At, Getting
<1>1. m.f.at = "user" /\ m.f.call = "none"
  BY <1>0 DEF PhaseOK, Frames
<1>2. m.files[fd].state # {}
  BY <1>0, <1>1, NowIs, TypeNow DEF Open, At, Getting, Is
<1>3. (\A x \in Slots \ {fd} : n.files[x] = m.files[x]) /\ n.files[fd].state = m.files[fd].state \cup {"open"} /\ n.files[fd].block = m.files[fd].block
  <2>1. filetab' = [filetab EXCEPT ![fd].state = @ \cup {"open"}]
    BY <1>0, TypeNow DEF Open, Is
  <2>2. (\A x \in Slots \ {fd} : filetab'[x] = filetab[x]) /\ filetab'[fd].state = filetab[fd].state \cup {"open"} /\ filetab'[fd].block = filetab[fd].block
    BY <2>1, <1>0, TypeNow DEF Frames, Files
  <2> QED
    BY <2>2, NowIs, NextIs
<1>4. n.seg = m.seg /\ n.live = m.live /\ n.head = m.head /\ n.disk = m.disk /\ n.lock = m.lock
  BY NowIs, NextIs DEF Open, super, locks, device
<1>5. FrameIs(n.f, m.f.call, m.f.at, m.f.what, m.f.fd, m.f.block, m.f.cell, m.f.save)
  <2>1. ctx'[me] = ctx[me]
    BY <1>0, <1>1, NowIs, TypeNow DEF Open, Save, Goto, Return, User, Is
  <2>2. FrameIs(ctx'[me], ctx[me].call, ctx[me].at, ctx[me].what, ctx[me].fd, ctx[me].block, ctx[me].cell, ctx[me].save)
    BY <2>1, <1>0 DEF Frames, FrameIs
  <2> QED
    BY <2>2, NowIs, NextIs
<1> QED
  BY <1>1, <1>2, <1>3, <1>4, <1>5

(* The state after the file is written in memory.                          *)
LEMMA PutCharStep ==
  ASSUME Single, TypeInv, ~wild, NEW fd \in Slots, PutChar(me, fd), NEW m, m = Now, NEW n, n = Now'
  PROVE  /\ m.f.at = "user" /\ m.f.call = "none"
         /\ m.files[fd].state # {}
         /\ (\A x \in Slots \ {fd} : n.files[x] = m.files[x]) /\ n.files[fd].state = m.files[fd].state \cup {"dirty"} /\ n.files[fd].block = m.files[fd].block
         /\ n.seg = m.seg /\ n.live = m.live /\ n.head = m.head /\ n.disk = m.disk /\ n.current = m.current /\ n.lock = m.lock
         /\ FrameIs(n.f, m.f.call, m.f.at, m.f.what, m.f.fd, m.f.block, m.f.cell, m.f.save)
<1>0. /\ me \in Procs /\ ctx[me] \in Frames /\ PhaseOK(ctx[me]) /\ ctx[me].at = "user" /\ m.f = ctx[me]
      /\ ctx \in [Procs -> Frames]
  BY OneProcess, TypeNow, NowIs DEF FrameOK, PutChar, At, Getting
<1>1. m.f.at = "user" /\ m.f.call = "none"
  BY <1>0 DEF PhaseOK, Frames
<1>2. m.files[fd].state # {}
  BY <1>0, <1>1, NowIs, TypeNow DEF PutChar, At, Getting, Is
<1>3. (\A x \in Slots \ {fd} : n.files[x] = m.files[x]) /\ n.files[fd].state = m.files[fd].state \cup {"dirty"} /\ n.files[fd].block = m.files[fd].block
  <2>1. filetab' = [filetab EXCEPT ![fd].state = @ \cup {"dirty"}]
    BY <1>0, TypeNow DEF PutChar, Is
  <2>2. (\A x \in Slots \ {fd} : filetab'[x] = filetab[x]) /\ filetab'[fd].state = filetab[fd].state \cup {"dirty"} /\ filetab'[fd].block = filetab[fd].block
    BY <2>1, <1>0, TypeNow DEF Frames, Files
  <2> QED
    BY <2>2, NowIs, NextIs
<1>4. n.seg = m.seg /\ n.live = m.live /\ n.head = m.head /\ n.disk = m.disk /\ n.current = m.current /\ n.lock = m.lock
  BY NowIs, NextIs DEF PutChar, super, locks, device
<1>5. FrameIs(n.f, m.f.call, m.f.at, m.f.what, m.f.fd, m.f.block, m.f.cell, m.f.save)
  <2>1. ctx'[me] = ctx[me]
    BY <1>0, <1>1, NowIs, TypeNow DEF PutChar, Save, Goto, Return, User, Is
  <2>2. FrameIs(ctx'[me], ctx[me].call, ctx[me].at, ctx[me].what, ctx[me].fd, ctx[me].block, ctx[me].cell, ctx[me].save)
    BY <2>1, <1>0 DEF Frames, FrameIs
  <2> QED
    BY <2>2, NowIs, NextIs
<1> QED
  BY <1>1, <1>2, <1>3, <1>4, <1>5

(* The state after fileClose is called.                                    *)
LEMMA CloseStep ==
  ASSUME Single, TypeInv, ~wild, NEW fd \in Slots, Close(me, fd), NEW m, m = Now, NEW n, n = Now'
  PROVE  /\ m.f.at = "user" /\ m.f.call = "none"
         /\ m.files[fd].state # {}
         /\ n.seg = m.seg /\ n.live = m.live /\ n.head = m.head /\ n.files = m.files /\ n.disk = m.disk /\ n.current = m.current /\ n.lock = m.lock
         /\ \/ "dirty" \in m.files[fd].state /\ FrameIs(n.f, "close", "seek", "data", fd, NULL, NULL, NULL)
            \/ "dirty" \notin m.files[fd].state /\ FrameIs(n.f, "close", "closed", "none", fd, NULL, NULL, NULL)
<1>0. /\ me \in Procs /\ ctx[me] \in Frames /\ PhaseOK(ctx[me]) /\ ctx[me].at = "user" /\ m.f = ctx[me]
      /\ ctx \in [Procs -> Frames]
  BY OneProcess, TypeNow, NowIs DEF FrameOK, Close, At, Getting
<1>1. m.f.at = "user" /\ m.f.call = "none"
  BY <1>0 DEF PhaseOK, Frames
<1>2. m.files[fd].state # {}
  BY <1>0, <1>1, NowIs, TypeNow DEF Close, At, Getting, Is
<1>3. n.seg = m.seg /\ n.live = m.live /\ n.head = m.head /\ n.files = m.files /\ n.disk = m.disk /\ n.current = m.current /\ n.lock = m.lock
  BY NowIs, NextIs DEF Close, super, locks, device
<1>4. ASSUME "dirty" \in m.files[fd].state PROVE FrameIs(n.f, "close", "seek", "data", fd, NULL, NULL, NULL)
  <2>1. ctx'[me] = [call |-> "close", at |-> "seek", what |-> "data", fd |-> fd, block |-> NULL, cell |-> NULL, save |-> NULL]
    BY <1>4, <1>0, <1>1, NowIs, TypeNow, Zenon DEF Close, Save, Goto, Return, User, Is
  <2>2. FrameIs(ctx'[me], "close", "seek", "data", fd, NULL, NULL, NULL)
    BY <2>1, <1>0 DEF Frames, FrameIs
  <2> QED
    BY <2>2, NowIs, NextIs
<1>5. ASSUME "dirty" \notin m.files[fd].state PROVE FrameIs(n.f, "close", "closed", "none", fd, NULL, NULL, NULL)
  <2>1. ctx'[me] = [call |-> "close", at |-> "closed", what |-> "none", fd |-> fd, block |-> NULL, cell |-> NULL, save |-> NULL]
    BY <1>5, <1>0, <1>1, NowIs, TypeNow, Zenon DEF Close, Save, Goto, Return, User, Is
  <2>2. FrameIs(ctx'[me], "close", "closed", "none", fd, NULL, NULL, NULL)
    BY <2>1, <1>0 DEF Frames, FrameIs
  <2> QED
    BY <2>2, NowIs, NextIs
<1>6. ("dirty" \in m.files[fd].state) \/ ("dirty" \notin m.files[fd].state)
  BY <1>0 DEF PhaseOK, Frames
<1> QED
  BY <1>1, <1>2, <1>3, <1>4, <1>5, <1>6

(* The state after fileDelete is called.                                   *)
LEMMA DeleteStep ==
  ASSUME Single, TypeInv, ~wild, NEW fd \in Slots, Delete(me, fd), NEW m, m = Now, NEW n, n = Now'
  PROVE  /\ m.f.at = "user" /\ m.f.call = "none"
         /\ m.files[fd].state # {}
         /\ n.seg = m.seg /\ n.live = m.live /\ n.head = m.head /\ n.files = m.files /\ n.disk = m.disk /\ n.current = m.current /\ n.lock = m.lock
         /\ FrameIs(n.f, "delete", "dirlock", "none", fd, NULL, NULL, NULL)
<1>0. /\ me \in Procs /\ ctx[me] \in Frames /\ PhaseOK(ctx[me]) /\ ctx[me].at = "user" /\ m.f = ctx[me]
      /\ ctx \in [Procs -> Frames]
  BY OneProcess, TypeNow, NowIs DEF FrameOK, Delete, At, Getting
<1>1. m.f.at = "user" /\ m.f.call = "none"
  BY <1>0 DEF PhaseOK, Frames
<1>2. m.files[fd].state # {}
  BY <1>0, <1>1, NowIs, TypeNow DEF Delete, At, Getting, Is
<1>3. n.seg = m.seg /\ n.live = m.live /\ n.head = m.head /\ n.files = m.files /\ n.disk = m.disk /\ n.current = m.current /\ n.lock = m.lock
  BY NowIs, NextIs DEF Delete, super, locks, device
<1>4. FrameIs(n.f, "delete", "dirlock", "none", fd, NULL, NULL, NULL)
  <2>1. ctx'[me] = [call |-> "delete", at |-> "dirlock", what |-> "none", fd |-> fd, block |-> NULL, cell |-> NULL, save |-> NULL]
    BY <1>0, <1>1, NowIs, TypeNow, Zenon DEF Delete, Save, Goto, Return, User, Is
  <2>2. FrameIs(ctx'[me], "delete", "dirlock", "none", fd, NULL, NULL, NULL)
    BY <2>1, <1>0 DEF Frames, FrameIs
  <2> QED
    BY <2>2, NowIs, NextIs
<1> QED
  BY <1>1, <1>2, <1>3, <1>4

(* The state after the structure is written.                               *)
LEMMA WriteStep ==
  ASSUME Single, TypeInv, ~wild, Write(me), NEW m, m = Now, NEW n, n = Now'
  PROVE  /\ m.f.at = "write"
         /\ \A b \in 0 .. DISKBLOCKTOTAL - 1 : b # m.current => n.disk[b] = m.disk[b]
         /\ n.seg = m.seg /\ n.live = m.live /\ n.head = m.head /\ n.files = m.files /\ n.current = m.current /\ n.lock = m.lock
         /\ \/ m.f.what = "data" /\ FrameIs(n.f, m.f.call, "closed", m.f.what, m.f.fd, m.f.block, m.f.cell, m.f.save)
            \/ m.f.what = "dir" /\ FrameIs(n.f, m.f.call, "dirdone", m.f.what, m.f.fd, m.f.block, m.f.cell, m.f.save)
            \/ m.f.what = "seg" /\ FrameIs(n.f, m.f.call, "unswizzle", m.f.what, m.f.fd, m.f.block, m.f.cell, m.f.save)
            \/ m.f.what = "back" /\ FrameIs(n.f, m.f.call, "freed", m.f.what, m.f.fd, m.f.block, m.f.cell, m.f.save)
            \/ (m.f.what = "super" /\ m.f.call = "create") /\ FrameIs(n.f, m.f.call, "last", m.f.what, m.f.fd, m.f.block, m.f.cell, m.f.save)
            \/ (m.f.what = "super" /\ m.f.call # "create") /\ FrameIs(n.f, m.f.call, "relink", m.f.what, m.f.fd, m.f.block, m.f.cell, m.f.save)
<1>0. /\ me \in Procs /\ ctx[me] \in Frames /\ PhaseOK(ctx[me]) /\ ctx[me].at = "write" /\ m.f = ctx[me]
      /\ ctx \in [Procs -> Frames]
  BY OneProcess, TypeNow, NowIs DEF FrameOK, Write, At, Getting
<1>1. m.f.at = "write"
  BY <1>0 DEF PhaseOK, Frames
<1>2. \A b \in 0 .. DISKBLOCKTOTAL - 1 : b # m.current => n.disk[b] = m.disk[b]
  <2>1. disk' = [disk EXCEPT ![current] = Written(me)]
    BY <1>0, TypeNow DEF Write, DiskOK
  <2>2. \A b \in 0 .. DISKBLOCKTOTAL - 1 : b # current => disk'[b] = disk[b]
    BY <2>1, <1>0, TypeNow DEF Frames, Files
  <2> QED
    BY <2>2, NowIs, NextIs
<1>3. n.seg = m.seg /\ n.live = m.live /\ n.head = m.head /\ n.files = m.files /\ n.current = m.current /\ n.lock = m.lock
  BY NowIs, NextIs DEF Write, super, locks, device
<1>4. ASSUME m.f.what = "data" PROVE FrameIs(n.f, m.f.call, "closed", m.f.what, m.f.fd, m.f.block, m.f.cell, m.f.save)
  <2>1. ctx'[me] = [ctx[me] EXCEPT !.at = "closed"]
    BY <1>4, <1>0, <1>1, NowIs, TypeNow DEF Write, Save, Goto, Return, User, Is
  <2>2. FrameIs(ctx'[me], ctx[me].call, "closed", ctx[me].what, ctx[me].fd, ctx[me].block, ctx[me].cell, ctx[me].save)
    BY <2>1, <1>0 DEF Frames, FrameIs
  <2> QED
    BY <2>2, NowIs, NextIs
<1>5. ASSUME m.f.what = "dir" PROVE FrameIs(n.f, m.f.call, "dirdone", m.f.what, m.f.fd, m.f.block, m.f.cell, m.f.save)
  <2>1. ctx'[me] = [ctx[me] EXCEPT !.at = "dirdone"]
    BY <1>5, <1>0, <1>1, NowIs, TypeNow DEF Write, Save, Goto, Return, User, Is
  <2>2. FrameIs(ctx'[me], ctx[me].call, "dirdone", ctx[me].what, ctx[me].fd, ctx[me].block, ctx[me].cell, ctx[me].save)
    BY <2>1, <1>0 DEF Frames, FrameIs
  <2> QED
    BY <2>2, NowIs, NextIs
<1>6. ASSUME m.f.what = "seg" PROVE FrameIs(n.f, m.f.call, "unswizzle", m.f.what, m.f.fd, m.f.block, m.f.cell, m.f.save)
  <2>1. ctx'[me] = [ctx[me] EXCEPT !.at = "unswizzle"]
    BY <1>6, <1>0, <1>1, NowIs, TypeNow DEF Write, Save, Goto, Return, User, Is
  <2>2. FrameIs(ctx'[me], ctx[me].call, "unswizzle", ctx[me].what, ctx[me].fd, ctx[me].block, ctx[me].cell, ctx[me].save)
    BY <2>1, <1>0 DEF Frames, FrameIs
  <2> QED
    BY <2>2, NowIs, NextIs
<1>7. ASSUME m.f.what = "back" PROVE FrameIs(n.f, m.f.call, "freed", m.f.what, m.f.fd, m.f.block, m.f.cell, m.f.save)
  <2>1. ctx'[me] = [ctx[me] EXCEPT !.at = "freed"]
    BY <1>7, <1>0, <1>1, NowIs, TypeNow DEF Write, Save, Goto, Return, User, Is
  <2>2. FrameIs(ctx'[me], ctx[me].call, "freed", ctx[me].what, ctx[me].fd, ctx[me].block, ctx[me].cell, ctx[me].save)
    BY <2>1, <1>0 DEF Frames, FrameIs
  <2> QED
    BY <2>2, NowIs, NextIs
<1>8. ASSUME (m.f.what = "super" /\ m.f.call = "create") PROVE FrameIs(n.f, m.f.call, "last", m.f.what, m.f.fd, m.f.block, m.f.cell, m.f.save)
  <2>1. ctx'[me] = [ctx[me] EXCEPT !.at = "last"]
    BY <1>8, <1>0, <1>1, NowIs, TypeNow DEF Write, Save, Goto, Return, User, Is
  <2>2. FrameIs(ctx'[me], ctx[me].call, "last", ctx[me].what, ctx[me].fd, ctx[me].block, ctx[me].cell, ctx[me].save)
    BY <2>1, <1>0 DEF Frames, FrameIs
  <2> QED
    BY <2>2, NowIs, NextIs
<1>9. ASSUME (m.f.what = "super" /\ m.f.call # "create") PROVE FrameIs(n.f, m.f.call, "relink", m.f.what, m.f.fd, m.f.block, m.f.cell, m.f.save)
  <2>1. ctx'[me] = [ctx[me] EXCEPT !.at = "relink"]
    BY <1>9, <1>0, <1>1, NowIs, TypeNow DEF Write, Save, Goto, Return, User, Is
  <2>2. FrameIs(ctx'[me], ctx[me].call, "relink", ctx[me].what, ctx[me].fd, ctx[me].block, ctx[me].cell, ctx[me].save)
    BY <2>1, <1>0 DEF Frames, FrameIs
  <2> QED
    BY <2>2, NowIs, NextIs
<1>10. (m.f.what = "data") \/ (m.f.what = "dir") \/ (m.f.what = "seg") \/ (m.f.what = "back") \/ ((m.f.what = "super" /\ m.f.call = "create")) \/ ((m.f.what = "super" /\ m.f.call # "create"))
  BY <1>0 DEF PhaseOK, Frames
<1> QED
  BY <1>1, <1>2, <1>3, <1>4, <1>5, <1>6, <1>7, <1>8, <1>9, <1>10

(* The state after a write has failed.                                     *)
LEMMA WriteFailsStep ==
  ASSUME Single, TypeInv, ~wild, WriteFails(me), NEW m, m = Now, NEW n, n = Now'
  PROVE  /\ m.f.at = "write"
         /\ n.seg = m.seg /\ n.live = m.live /\ n.head = m.head /\ n.files = m.files /\ n.disk = m.disk /\ n.current = m.current /\ n.lock = m.lock
         /\ \/ m.f.call = "create" /\ FrameIs(n.f, m.f.call, "assign", m.f.what, m.f.fd, SYSERR, m.f.cell, m.f.save)
            \/ (m.f.call = "close" /\ m.f.what = "data") /\ FrameIs(n.f, m.f.call, "closed", m.f.what, m.f.fd, m.f.block, m.f.cell, m.f.save)
            \/ (m.f.call = "close" /\ m.f.what = "dir") /\ FrameIs(n.f, m.f.call, "dirdone", m.f.what, m.f.fd, m.f.block, m.f.cell, m.f.save)
            \/ (m.f.call = "delete" /\ m.f.what = "dir") /\ FrameIs(n.f, m.f.call, "dirdone", m.f.what, m.f.fd, m.f.block, m.f.cell, m.f.save)
            \/ (m.f.call = "delete" /\ m.f.what # "dir") /\ FrameIs(n.f, m.f.call, "refused", m.f.what, m.f.fd, m.f.block, m.f.cell, m.f.save)
<1>0. /\ me \in Procs /\ ctx[me] \in Frames /\ PhaseOK(ctx[me]) /\ ctx[me].at = "write" /\ m.f = ctx[me]
      /\ ctx \in [Procs -> Frames]
  BY OneProcess, TypeNow, NowIs DEF FrameOK, WriteFails, At, Getting
<1>1. m.f.at = "write"
  BY <1>0 DEF PhaseOK, Frames
<1>2. n.seg = m.seg /\ n.live = m.live /\ n.head = m.head /\ n.files = m.files /\ n.disk = m.disk /\ n.current = m.current /\ n.lock = m.lock
  BY NowIs, NextIs DEF WriteFails, super, locks, device, PhaseOK
<1>3. ASSUME m.f.call = "create" PROVE FrameIs(n.f, m.f.call, "assign", m.f.what, m.f.fd, SYSERR, m.f.cell, m.f.save)
  <2>1. ctx'[me] = [ctx[me] EXCEPT !.at = "assign", !.block = SYSERR]
    BY <1>3, <1>0, <1>1, NowIs, TypeNow, Zenon DEF WriteFails, Save, Goto, Return, User, Is, PhaseOK
  <2>2. FrameIs(ctx'[me], ctx[me].call, "assign", ctx[me].what, ctx[me].fd, SYSERR, ctx[me].cell, ctx[me].save)
    BY <2>1, <1>0 DEF Frames, FrameIs
  <2> QED
    BY <2>2, NowIs, NextIs
<1>4. ASSUME (m.f.call = "close" /\ m.f.what = "data") PROVE FrameIs(n.f, m.f.call, "closed", m.f.what, m.f.fd, m.f.block, m.f.cell, m.f.save)
  <2>1. ctx'[me] = [ctx[me] EXCEPT !.at = "closed"]
    BY <1>4, <1>0, <1>1, NowIs, TypeNow DEF WriteFails, Save, Goto, Return, User, Is, PhaseOK
  <2>2. FrameIs(ctx'[me], ctx[me].call, "closed", ctx[me].what, ctx[me].fd, ctx[me].block, ctx[me].cell, ctx[me].save)
    BY <2>1, <1>0 DEF Frames, FrameIs
  <2> QED
    BY <2>2, NowIs, NextIs
<1>5. ASSUME (m.f.call = "close" /\ m.f.what = "dir") PROVE FrameIs(n.f, m.f.call, "dirdone", m.f.what, m.f.fd, m.f.block, m.f.cell, m.f.save)
  <2>1. ctx'[me] = [ctx[me] EXCEPT !.at = "dirdone"]
    BY <1>5, <1>0, <1>1, NowIs, TypeNow DEF WriteFails, Save, Goto, Return, User, Is, PhaseOK
  <2>2. FrameIs(ctx'[me], ctx[me].call, "dirdone", ctx[me].what, ctx[me].fd, ctx[me].block, ctx[me].cell, ctx[me].save)
    BY <2>1, <1>0 DEF Frames, FrameIs
  <2> QED
    BY <2>2, NowIs, NextIs
<1>6. ASSUME (m.f.call = "delete" /\ m.f.what = "dir") PROVE FrameIs(n.f, m.f.call, "dirdone", m.f.what, m.f.fd, m.f.block, m.f.cell, m.f.save)
  <2>1. ctx'[me] = [ctx[me] EXCEPT !.at = "dirdone"]
    BY <1>6, <1>0, <1>1, NowIs, TypeNow DEF WriteFails, Save, Goto, Return, User, Is, PhaseOK
  <2>2. FrameIs(ctx'[me], ctx[me].call, "dirdone", ctx[me].what, ctx[me].fd, ctx[me].block, ctx[me].cell, ctx[me].save)
    BY <2>1, <1>0 DEF Frames, FrameIs
  <2> QED
    BY <2>2, NowIs, NextIs
<1>7. ASSUME (m.f.call = "delete" /\ m.f.what # "dir") PROVE FrameIs(n.f, m.f.call, "refused", m.f.what, m.f.fd, m.f.block, m.f.cell, m.f.save)
  <2>1. ctx'[me] = [ctx[me] EXCEPT !.at = "refused"]
    BY <1>7, <1>0, <1>1, NowIs, TypeNow DEF WriteFails, Save, Goto, Return, User, Is, PhaseOK
  <2>2. FrameIs(ctx'[me], ctx[me].call, "refused", ctx[me].what, ctx[me].fd, ctx[me].block, ctx[me].cell, ctx[me].save)
    BY <2>1, <1>0 DEF Frames, FrameIs
  <2> QED
    BY <2>2, NowIs, NextIs
<1>8. (m.f.call = "create") \/ ((m.f.call = "close" /\ m.f.what = "data")) \/ ((m.f.call = "close" /\ m.f.what = "dir")) \/ ((m.f.call = "delete" /\ m.f.what = "dir")) \/ ((m.f.call = "delete" /\ m.f.what # "dir"))
  BY <1>0 DEF PhaseOK, Frames
<1> QED
  BY <1>1, <1>2, <1>3, <1>4, <1>5, <1>6, <1>7, <1>8

(* The state after the slot is taken, or there is none.                    *)
LEMMA SlotStep ==
  ASSUME Single, TypeInv, ~wild, Slot(me), NEW m, m = Now, NEW n, n = Now'
  PROVE  /\ m.f.at = "slot" /\ m.f.call = "create"
         /\ n.seg = m.seg /\ n.live = m.live /\ n.head = m.head /\ n.disk = m.disk /\ n.current = m.current
         /\ n.lock = m.lock
         /\ \/ n.files = m.files /\ FrameIs(n.f, "none", "user", "none", 0, NULL, NULL, NULL)
            \/ \E fd \in Slots :
                 /\ m.files[fd].state = {} /\ n.files[fd].state = {"used", "open"} /\ n.files[fd].block = m.files[fd].block
                 /\ \A x \in Slots \ {fd} : n.files[x] = m.files[x]
                 /\ FrameIs(n.f, "create", "head", m.f.what, fd, m.f.block, m.f.cell, m.f.save)
<1> DEFINE unused == {fd \in Slots : filetab[fd].state = {}}
<1>0. /\ me \in Procs /\ ctx[me] \in Frames /\ PhaseOK(ctx[me]) /\ ctx[me].at = "slot" /\ m.f = ctx[me]
      /\ ctx \in [Procs -> Frames]
  BY OneProcess, TypeNow, NowIs DEF FrameOK, Slot, At
<1>1. m.f.at = "slot" /\ m.f.call = "create"
  BY <1>0 DEF PhaseOK, Frames
<1>2. /\ n.seg = m.seg /\ n.live = m.live /\ n.head = m.head /\ n.disk = m.disk /\ n.current = m.current
      /\ n.lock = m.lock
  BY NowIs, NextIs DEF Slot, super, device
<1>3. CASE unused = {}
  <2>1. ctx'[me] = User /\ filetab' = filetab
    BY <1>0, <1>3 DEF Slot, Return
  <2> QED
    BY <2>1, <1>1, <1>2, NowIs, NextIs DEF User, FrameIs
<1>4. CASE unused # {}
  <2>1. PICK fd \in unused : fd = Min(unused)
    <3>1. unused \in SUBSET Nat
      BY Constants DEF Slots
    <3> QED
      BY <3>1, <1>4, MinIn, Zenon
  <2>2. filetab' = [filetab EXCEPT ![fd].state = {"used", "open"}]
        /\ ctx' = [ctx EXCEPT ![me].fd = fd, ![me].at = "head"]
    <3>1. /\ filetab' = [filetab EXCEPT ![Min(unused)].state = {"used", "open"}]
          /\ ctx' = [ctx EXCEPT ![me].fd = Min(unused), ![me].at = "head"]
      BY <1>4, Zenon DEF Slot
    <3> HIDE DEF unused
    <3> QED
      BY <3>1, <2>1
  <2>3. fd \in Slots /\ filetab[fd].state = {}
    BY <2>1
  <2>4. /\ filetab'[fd].state = {"used", "open"} /\ filetab'[fd].block = filetab[fd].block
        /\ \A x \in Slots \ {fd} : filetab'[x] = filetab[x]
    BY <2>2, <2>3, TypeNow DEF Files
  <2>5. ctx'[me] = [ctx[me] EXCEPT !.fd = fd, !.at = "head"]
    BY <2>2, <1>0
  <2>6. FrameIs(ctx'[me], ctx[me].call, "head", ctx[me].what, fd, ctx[me].block, ctx[me].cell, ctx[me].save)
    BY <2>5, <1>0 DEF FrameIs, Frames
  <2>7. FrameIs(n.f, "create", "head", m.f.what, fd, m.f.block, m.f.cell, m.f.save)
    BY <2>6, <1>1, NowIs, NextIs
  <2>8. /\ m.files[fd].state = {} /\ n.files[fd].state = {"used", "open"} /\ n.files[fd].block = m.files[fd].block
        /\ \A x \in Slots \ {fd} : n.files[x] = m.files[x]
    BY <2>3, <2>4, NowIs, NextIs
  <2> QED
    BY <2>3, <2>7, <2>8, <1>1, <1>2
<1> QED
  BY <1>3, <1>4

(* The state after the pointer is put back.                                *)
LEMMA UnswizzleStep ==
  ASSUME Single, TypeInv, ~wild, Unswizzle(me), NEW m, m = Now, NEW n, n = Now'
  PROVE  LET c == m.f.cell
         IN  /\ m.f.at = "unswizzle" /\ m.f.call = "create" /\ m.f.what = "seg" /\ c \in Cells
             /\ \A x \in Cells \ {c} : n.seg[x] = m.seg[x]
             /\ n.seg[c].num = m.seg[c].num /\ n.seg[c].count = m.seg[c].count /\ n.seg[c].free = m.seg[c].free
             /\ n.seg[c].next = m.f.save
             /\ n.live = m.live /\ n.head = m.head /\ n.files = m.files /\ n.disk = m.disk
             /\ n.current = m.current /\ n.lock = "free"
             /\ FrameIs(n.f, "create", "assign", "seg", m.f.fd, m.f.block, c, m.f.save)
<1> DEFINE c == ctx[me].cell
<1>0. /\ me \in Procs /\ ctx[me] \in Frames /\ FrameOK(ctx[me]) /\ PhaseOK(ctx[me]) /\ ctx[me].at = "unswizzle" /\ m.f = ctx[me]
      /\ ctx \in [Procs -> Frames]
  BY OneProcess, TypeNow, NowIs DEF FrameOK, Unswizzle, At
<1>1. ctx[me].call = "create" /\ ctx[me].what = "seg"
  BY <1>0 DEF PhaseOK, Frames
<1>2. c \in Cells /\ seg[c] \in Segments
  BY <1>0, <1>1, TypeNow DEF FrameOK, Swapped
<1>3. /\ \A x \in Cells \ {c} : seg'[x] = seg[x]
      /\ seg'[c].num = seg[c].num /\ seg'[c].count = seg[c].count /\ seg'[c].free = seg[c].free
      /\ seg'[c].next = ctx[me].save
  <2>1. seg' = [seg EXCEPT ![c].next = ctx[me].save]
    BY DEF Unswizzle
  <2> HIDE DEF c
  <2> QED
    BY <2>1, <1>2, TypeNow DEF Segments
<1>4. /\ n.live = m.live /\ n.head = m.head /\ n.files = m.files /\ n.disk = m.disk
      /\ n.current = m.current /\ n.lock = "free"
  BY NowIs, NextIs DEF Unswizzle, super, device
<1>5. FrameIs(ctx'[me], "create", "assign", "seg", ctx[me].fd, ctx[me].block, c, ctx[me].save)
  <2>1. ctx'[me] = [ctx[me] EXCEPT !.at = "assign"]
    BY <1>0 DEF Unswizzle, Goto
  <2> QED
    BY <2>1, <1>0, <1>1 DEF FrameIs, Frames
<1>6. m.seg = seg /\ n.seg = seg' /\ m.f = ctx[me] /\ n.f = ctx'[me]
  BY NowIs, NextIs
<1> QED
  BY <1>0, <1>1, <1>2, <1>3, <1>4, <1>5, <1>6

(* The state after the first segment takes the contents of the next one.   *)
LEMMA GetSegmentStep ==
  ASSUME Single, TypeInv, ~wild, GetSegment(me), NEW m, m = Now, NEW n, n = Now'
  PROVE  LET c == m.f.cell
             x == m.seg[c].next
             t == m.seg[x]
         IN  /\ m.f.at = "get" /\ m.f.call = "create" /\ c \in m.live /\ x \in m.live /\ m.seg[c].count = 0
             /\ \A y \in Cells \ {c} : n.seg[y] = m.seg[y]
             /\ n.seg[c].num = m.seg[c].num /\ n.seg[c].count = t.count /\ n.seg[c].next = NumberOf(m, t.next)
             /\ \A i \in Entries : n.seg[c].free[i] = IF i < t.count THEN t.free[i] ELSE m.seg[c].free[i]
             /\ n.live = m.live \ {x} /\ n.head = m.head /\ n.files = m.files /\ n.disk = m.disk
             /\ n.current = m.current /\ n.lock = m.lock
             /\ FrameIs(n.f, "create", "seek", "seg", m.f.fd, t.num, c, t.next)
<1> DEFINE c == ctx[me].cell
           s == seg[c]
           x == s.next
           t == seg[x]
           g == [i \in Entries |-> IF i < t.count THEN t.free[i] ELSE s.free[i]]
           u == [s EXCEPT !.count = t.count, !.next = Number(t.next), !.free = g]
<1>0. /\ me \in Procs /\ ctx[me] \in Frames /\ FrameOK(ctx[me]) /\ PhaseOK(ctx[me]) /\ ctx[me].at = "get" /\ m.f = ctx[me]
      /\ ctx \in [Procs -> Frames]
  BY OneProcess, TypeNow, NowIs, Zenon DEF FrameOK, GetSegment, Getting, At
<1>1. ctx[me].call = "create"
  BY <1>0 DEF PhaseOK, Frames
<1>2. c \in live /\ x \in live /\ s.count = 0 /\ live' = live \ {x}
  BY Zenon DEF GetSegment, Getting
<1>3. c \in Cells /\ x \in Cells /\ s \in Segments /\ t \in Segments
  BY <1>2, TypeNow
<1>4. seg' = [seg EXCEPT ![c] = u]
  <2>1. seg' = [seg EXCEPT ![c].count = t.count, ![c].next = Number(t.next),
                           ![c].free = [i \in Entries |-> IF i < t.count THEN t.free[i] ELSE @[i]]]
    BY Zenon DEF GetSegment
  <2> HIDE DEF t
  <2> QED
    BY <2>1, <1>3, TypeNow, Zenon DEF Segments
<1>5. u.num = s.num /\ u.count = t.count /\ u.next = Number(t.next) /\ u.free = g
  <2> HIDE DEF g, t, s
  <2> QED
    BY <1>3 DEF Segments
<1>6. (\A y \in Cells \ {c} : seg'[y] = seg[y]) /\ seg'[c] = u
  <2> HIDE DEF c, u
  <2> QED
    BY <1>3, <1>4, TypeNow
<1>7. FrameIs(ctx'[me], "create", "seek", "seg", ctx[me].fd, t.num, c, t.next)
  <2>1. ctx'[me] = [ctx[me] EXCEPT !.block = t.num, !.save = t.next, !.at = "seek", !.what = "seg"]
    BY <1>0, Zenon DEF GetSegment, Save
  <2> HIDE DEF t
  <2> QED
    BY <2>1, <1>0, <1>1 DEF FrameIs, Frames
<1>8. m.seg = seg /\ n.seg = seg' /\ m.f = ctx[me] /\ n.f = ctx'[me] /\ m.live = live /\ n.live = live'
  BY NowIs, NextIs
<1>9. /\ n.head = m.head /\ n.files = m.files /\ n.disk = m.disk
      /\ n.current = m.current /\ n.lock = m.lock
  BY NowIs, NextIs, Zenon DEF GetSegment, super, locks, device
<1>10. NumberOf(m, t.next) = Number(t.next)
  BY NowIs DEF NumberOf, Number
<1>11. c = m.f.cell /\ s = m.seg[m.f.cell] /\ x = m.seg[m.f.cell].next /\ t = m.seg[m.seg[m.f.cell].next]
  BY <1>8
<1>12. \A i \in Entries : n.seg[c].free[i] = IF i < t.count THEN t.free[i] ELSE m.seg[c].free[i]
  <2>1. n.seg[c].free = g
    <3> HIDE DEF u, g
    <3> QED
      BY <1>5, <1>6, <1>8
  <2>2. m.seg[c] = s
    BY <1>8
  <2> HIDE DEF c, s, t, x
  <2> QED
    BY <2>1, <2>2
<1>13. n.seg[c].num = m.seg[c].num /\ n.seg[c].count = t.count /\ n.seg[c].next = NumberOf(m, t.next)
  <2> HIDE DEF u
  <2> QED
    BY <1>5, <1>6, <1>8, <1>10, Zenon
<1>14. \A y \in Cells \ {c} : n.seg[y] = m.seg[y]
  BY <1>6, <1>8, Zenon
<1>15. FrameIs(n.f, "create", "seek", "seg", m.f.fd, t.num, c, t.next)
  BY <1>7, <1>8
<1>16. m.f.at = "get" /\ m.f.call = "create" /\ c \in m.live /\ x \in m.live /\ m.seg[c].count = 0 /\ n.live = m.live \ {x}
  BY <1>0, <1>1, <1>2, <1>8
<1> HIDE DEF c, x, t, s, u, g
<1> QED
  BY <1>9, <1>11, <1>12, <1>13, <1>14, <1>15, <1>16, Zenon

(* The state after the block becomes the first segment.                    *)
LEMMA PutFirstStep ==
  ASSUME Single, TypeInv, ~wild, PutFirst(me), NEW m, m = Now, NEW n, n = Now'
  PROVE  LET c == n.f.cell
             b == m.f.block
         IN  /\ m.f.at = "put" /\ m.f.call = "delete" /\ m.f.cell = NULL /\ c \in Cells \ m.live
             /\ \A x \in Cells \ {c} : n.seg[x] = m.seg[x]
             /\ n.seg[c] = Fresh(b)
             /\ n.live = m.live \cup {c} /\ n.head = b /\ n.files = m.files /\ n.disk = m.disk
             /\ n.current = m.current /\ n.lock = m.lock
             /\ FrameIs(n.f, "delete", "seek", "super", m.f.fd, b, c, c)
<1>0. /\ me \in Procs /\ ctx[me] \in Frames /\ FrameOK(ctx[me]) /\ PhaseOK(ctx[me]) /\ ctx[me].at = "put" /\ m.f = ctx[me]
      /\ ctx \in [Procs -> Frames]
  BY OneProcess, TypeNow, NowIs DEF FrameOK, PutFirst, At
<1>1. ctx[me].call = "delete" /\ ctx[me].cell = NULL
  BY <1>0 DEF PhaseOK, Frames, PutFirst
<1> DEFINE c == Unused
<1>2. c \in Cells \ live
  BY TypeNow, UnusedIn DEF PutFirst
<1>3. seg' = [seg EXCEPT ![c] = Fresh(ctx[me].block)] /\ live' = live \cup {c}
      /\ sb_freelst' = ctx[me].block
  BY DEF PutFirst
<1>4. ctx'[me] = [ctx[me] EXCEPT !.cell = c, !.save = c, !.at = "seek", !.what = "super"]
  BY <1>0 DEF PutFirst, Save
<1>9. n.files = m.files /\ n.disk = m.disk /\ n.current = m.current /\ n.lock = m.lock
  BY NowIs, NextIs DEF PutFirst, locks, device
<1>10. m.seg = seg /\ n.seg = seg' /\ m.f = ctx[me] /\ n.f = ctx'[me] /\ m.live = live /\ n.live = live' /\ n.head = sb_freelst'
  BY NowIs, NextIs
<1> HIDE DEF c
<1>5. (\A x \in Cells \ {c} : seg'[x] = seg[x]) /\ seg'[c] = Fresh(ctx[me].block)
  BY <1>2, <1>3, TypeNow
<1>6. FrameIs(ctx'[me], "delete", "seek", "super", ctx[me].fd, ctx[me].block, c, c)
  BY <1>4, <1>0, <1>1 DEF FrameIs, Frames
<1>7. n.f.cell = c
  BY <1>6, <1>10 DEF FrameIs
<1> QED
  BY <1>0, <1>1, <1>2, <1>3, <1>5, <1>6, <1>7, <1>9, <1>10

(* The state after the block becomes one more segment.                     *)
LEMMA PutSegmentStep ==
  ASSUME Single, TypeInv, ~wild, PutSegment(me), NEW m, m = Now, NEW n, n = Now'
  PROVE  LET l == n.f.cell
             b == m.f.block
         IN  /\ m.f.at = "put" /\ m.f.call = "delete" /\ l \in m.live /\ m.head \in m.live
             /\ \E c \in Cells \ m.live :
                  /\ n.seg[c] = Fresh(b)
                  /\ n.live = m.live \cup {c}
             /\ \A x \in m.live : n.seg[x].num = m.seg[x].num /\ n.seg[x].count = m.seg[x].count
                                  /\ n.seg[x].free = m.seg[x].free
             /\ n.files = m.files /\ n.disk = m.disk /\ n.current = m.current /\ n.lock = m.lock
             /\ FrameIs(n.f, "delete", "seek", "super", m.f.fd, b, l, m.head)
             /\ unsaved'
<1>0. /\ me \in Procs /\ ctx[me] \in Frames /\ FrameOK(ctx[me]) /\ PhaseOK(ctx[me]) /\ ctx[me].at = "put" /\ m.f = ctx[me]
      /\ ctx \in [Procs -> Frames]
  BY OneProcess, TypeNow, NowIs DEF FrameOK, PutSegment, At
<1>1. ctx[me].call = "delete" /\ ctx[me].cell # NULL /\ Whole(ctx[me].cell)
  BY <1>0 DEF PhaseOK, Frames, PutSegment
<1> DEFINE c == Unused
           l == LastOf(ctx[me].cell)
<1>2. c \in Cells \ live /\ l \in live /\ l \in Cells /\ sb_freelst \in live
  BY <1>1, TypeNow, UnusedIn, LastIs DEF PutSegment
<1>3. seg' = [seg EXCEPT ![c] = Fresh(ctx[me].block), ![l].next = c] /\ live' = live \cup {c} /\ unsaved'
  BY DEF PutSegment
<1>4. ctx'[me] = [ctx[me] EXCEPT !.cell = l, !.save = sb_freelst, !.at = "seek", !.what = "super"]
  BY <1>0 DEF PutSegment, Save
<1>9. n.files = m.files /\ n.disk = m.disk /\ n.current = m.current /\ n.lock = m.lock
  BY NowIs, NextIs DEF PutSegment, locks, device
<1>10. m.seg = seg /\ n.seg = seg' /\ m.f = ctx[me] /\ n.f = ctx'[me] /\ m.live = live /\ n.live = live' /\ m.head = sb_freelst
  BY NowIs, NextIs
<1> HIDE DEF c, l
<1>5. seg' = [seg EXCEPT ![c] = Fresh(ctx[me].block), ![l] = [seg[l] EXCEPT !.next = c]]
  BY <1>2, <1>3, TypeNow, Zenon
<1>11. /\ seg'[c] = Fresh(ctx[me].block) /\ seg'[l] = [seg[l] EXCEPT !.next = c]
       /\ \A x \in Cells : x # c /\ x # l => seg'[x] = seg[x]
  BY <1>2, <1>5, TypeNow
<1>12. ASSUME NEW x \in live
       PROVE  seg'[x].num = seg[x].num /\ seg'[x].count = seg[x].count /\ seg'[x].free = seg[x].free
  <2>1. x # c /\ x \in Cells /\ seg[x] \in Segments
    BY <1>2, TypeNow
  <2> QED
    BY <2>1, <1>11 DEF Segments
<1>6. FrameIs(ctx'[me], "delete", "seek", "super", ctx[me].fd, ctx[me].block, l, sb_freelst)
  BY <1>4, <1>0, <1>1 DEF FrameIs, Frames
<1>7. n.f.cell = l
  BY <1>6, <1>10 DEF FrameIs
<1>8. \E y \in Cells \ m.live : n.seg[y] = Fresh(m.f.block) /\ n.live = m.live \cup {y}
  BY <1>2, <1>3, <1>10, <1>11
<1>13. FrameIs(n.f, "delete", "seek", "super", m.f.fd, m.f.block, l, m.head)
  BY <1>6, <1>10
<1>14. \A x \in m.live : n.seg[x].num = m.seg[x].num /\ n.seg[x].count = m.seg[x].count
                        /\ n.seg[x].free = m.seg[x].free
  BY <1>10, <1>12
<1>15. m.f.at = "put" /\ m.f.call = "delete" /\ l \in m.live /\ m.head \in m.live /\ unsaved'
  BY <1>0, <1>1, <1>2, <1>3, <1>10
<1> QED
  BY <1>7, <1>8, <1>9, <1>13, <1>14, <1>15

(* The state after the block becomes the last entry of the last segment.   *)
LEMMA PutEntryStep ==
  ASSUME Single, TypeInv, ~wild, PutEntry(me), NEW m, m = Now, NEW n, n = Now'
  PROVE  LET l == n.f.cell
             s == m.seg[l]
         IN  /\ m.f.at = "put" /\ m.f.call = "delete" /\ l \in m.live /\ s.next = NULL /\ s.count < FREEBLOCKMAX
             /\ \A x \in Cells \ {l} : n.seg[x] = m.seg[x]
             /\ n.seg[l].num = s.num /\ n.seg[l].count = s.count + 1 /\ n.seg[l].next = NULL
             /\ n.seg[l].free[s.count] = m.f.block /\ \A i \in Entries \ {s.count} : n.seg[l].free[i] = s.free[i]
             /\ n.live = m.live /\ n.head = m.head /\ n.files = m.files /\ n.disk = m.disk
             /\ n.current = m.current /\ n.lock = m.lock
             /\ FrameIs(n.f, "delete", "seek", "back", m.f.fd, m.f.block, l, m.f.save)
<1>0. /\ me \in Procs /\ ctx[me] \in Frames /\ FrameOK(ctx[me]) /\ PhaseOK(ctx[me]) /\ ctx[me].at = "put" /\ m.f = ctx[me]
      /\ ctx \in [Procs -> Frames]
  BY OneProcess, TypeNow, NowIs DEF FrameOK, PutEntry, At
<1>1. ctx[me].call = "delete" /\ ctx[me].cell # NULL /\ Whole(ctx[me].cell)
  BY <1>0 DEF PhaseOK, Frames, PutEntry
<1> DEFINE l == LastOf(ctx[me].cell)
           s == seg[l]
           g == [s.free EXCEPT ![s.count] = ctx[me].block]
           t == [s EXCEPT !.free = g, !.count = s.count + 1]
<1>2. l \in live /\ l \in Cells /\ s \in Segments /\ s.next = NULL /\ s.count < FREEBLOCKMAX
  BY <1>1, TypeNow, LastIs DEF PutEntry
<1>3. seg' = [seg EXCEPT ![l] = t]
  <2>1. seg' = [seg EXCEPT ![l].free[seg[l].count] = ctx[me].block, ![l].count = @ + 1]
    BY DEF PutEntry
  <2> HIDE DEF l
  <2> QED
    BY <2>1, <1>2, TypeNow DEF Segments
<1>4. ctx'[me] = [ctx[me] EXCEPT !.cell = l, !.at = "seek", !.what = "back"]
  BY <1>0 DEF PutEntry, Save
<1>5. s.count \in Entries
  <2> HIDE DEF s
  <2> QED
    BY <1>2, Constants DEF Segments, Entries
<1>9. n.live = m.live /\ n.head = m.head /\ n.files = m.files /\ n.disk = m.disk /\ n.current = m.current /\ n.lock = m.lock
  BY NowIs, NextIs DEF PutEntry, super, locks, device
<1>10. m.seg = seg /\ n.seg = seg' /\ m.f = ctx[me] /\ n.f = ctx'[me] /\ m.live = live
  BY NowIs, NextIs
<1>6. /\ t.num = s.num /\ t.count = s.count + 1 /\ t.next = NULL
      /\ t.free[s.count] = ctx[me].block /\ \A i \in Entries \ {s.count} : t.free[i] = s.free[i]
  <2>1. g[s.count] = ctx[me].block /\ \A i \in Entries \ {s.count} : g[i] = s.free[i]
    <3> HIDE DEF s
    <3> QED
      BY <1>2, <1>5 DEF Segments
  <2> HIDE DEF g, s
  <2> QED
    BY <1>2, <2>1 DEF Segments
<1> HIDE DEF l, t
<1>7. (\A x \in Cells \ {l} : seg'[x] = seg[x]) /\ seg'[l] = t
  BY <1>2, <1>3, TypeNow
<1>8. FrameIs(ctx'[me], "delete", "seek", "back", ctx[me].fd, ctx[me].block, l, ctx[me].save)
  BY <1>4, <1>0, <1>1 DEF FrameIs, Frames
<1>11. n.f.cell = l
  BY <1>8, <1>10 DEF FrameIs
<1> QED
  BY <1>0, <1>1, <1>2, <1>6, <1>7, <1>8, <1>9, <1>10, <1>11

(* What a write leaves on the disk.                                        *)
LEMMA WriteContents ==
  ASSUME Single, TypeInv, ~wild, Write(me), NEW m, m = Now, NEW n, n = Now'
  PROVE  LET t == n.disk[m.current]
             s == m.seg[m.f.cell]
         IN  /\ m.f.what = "data"  => t.type = "data"
             /\ m.f.what = "dir"   => t.type = "dir" /\ t.files = m.files
             /\ m.f.what = "super" => t.type = "super" /\ t.freelst = m.head
             /\ m.f.what \in {"seg", "back"} => t.type = "seg" /\ t.seg = s
<1> DEFINE s == seg[ctx[me].cell]
<1>0. /\ me \in Procs /\ ctx[me] \in Frames /\ FrameOK(ctx[me]) /\ PhaseOK(ctx[me]) /\ ctx[me].at = "write"
  BY OneProcess, TypeNow DEF FrameOK, Write, At
<1>1. disk'[current] = Written(me)
  BY TypeNow DEF Write, DiskOK
<1>2. n.disk[m.current] = Written(me) /\ m.seg = seg /\ m.f = ctx[me] /\ m.files = filetab /\ m.head = sb_freelst
      /\ m.disk = disk /\ m.current = current
  BY <1>1, NowIs, NextIs
<1>3. /\ ctx[me].what = "data"  => Written(me).type = "data"
      /\ ctx[me].what = "dir"   => Written(me).type = "dir" /\ Written(me).files = filetab
      /\ ctx[me].what = "super" => Written(me).type = "super" /\ Written(me).freelst = sb_freelst
      /\ ctx[me].what \in {"seg", "back"} => Written(me).type = "seg" /\ Written(me).seg = s
  BY DEF Written, Data, Directory, Superblock, Segment
<1> HIDE DEF s
<1> QED
  BY <1>2, <1>3 DEF s

-----------------------------------------------------------------------------
(* No step puts a block in two places of memory: one lemma per action.     *)

(* The conjuncts of MemOK but the first.                                   *)
FilesUsed(m) == \A fd \in Slots : m.files[fd].state # {} => "used" \in m.files[fd].state
MemFrame(m) ==
  /\ m.f.call = "create" /\ m.f.at \in {"dirlock", "slot", "head", "freelock", "get"} => m.f.block = NULL
  /\ m.f.call = "delete" /\ m.f.at \in {"dirlock", "unlink"} => "used" \in m.files[m.f.fd].state
  /\ Emptying(m.f) \/ Emptied(m.f) => m.f.cell \in m.live /\ m.f.block = m.seg[m.f.cell].num

(* MemOK in parts, which most steps keep one by one.                       *)
LEMMA MemParts == ASSUME NEW m PROVE MemOK(m) <=> Once(InMemory(m), Cells) /\ FilesUsed(m) /\ MemFrame(m)
  BY DEF MemOK, FilesUsed, MemFrame

(* A step that puts no block in a place keeps Once.                        *)
LEMMA MemLess ==
  ASSUME NEW m, NEW n, Once(InMemory(m), Cells), n.live \subseteq m.live,
         \A c \in n.live : n.seg[c].num = m.seg[c].num /\ n.seg[c].count = m.seg[c].count /\ n.seg[c].free = m.seg[c].free,
         \A fd \in Slots : BlockOf(n, fd) \in Blocks => BlockOf(n, fd) = BlockOf(m, fd),
         Hand(n.f) \in Blocks => Hand(n.f) = Hand(m.f)
  PROVE  Once(InMemory(n), Cells)
<1>1. ASSUME NEW x \in Places(Cells), InMemory(n)[x] \in Blocks PROVE InMemory(n)[x] = InMemory(m)[x]
  <2>1. NULL \notin Blocks
    BY Unlike
  <2>2. ASSUME NEW c \in Cells, x = Own(c) PROVE InMemory(n)[x] = InMemory(m)[x]
    BY <1>1, <2>1, <2>2, MemAt
  <2>3. ASSUME NEW c \in Cells, NEW i \in Entries, x = Entry(c, i) PROVE InMemory(n)[x] = InMemory(m)[x]
    <3>1. InMemory(n)[Entry(c, i)] = IF c \in n.live /\ i < n.seg[c].count THEN n.seg[c].free[i] ELSE NULL
      BY MemAt
    <3>2. InMemory(m)[Entry(c, i)] = IF c \in m.live /\ i < m.seg[c].count THEN m.seg[c].free[i] ELSE NULL
      BY MemAt
    <3>3. c \in n.live /\ i < n.seg[c].count /\ c \in m.live
      BY <1>1, <2>1, <2>3, <3>1
    <3> QED
      BY <2>3, <3>1, <3>2, <3>3
  <2>4. ASSUME NEW fd \in Slots, x = File(fd) PROVE InMemory(n)[x] = InMemory(m)[x]
    BY <1>1, <2>4, MemAt
  <2>5. ASSUME x = HAND PROVE InMemory(n)[x] = InMemory(m)[x]
    BY <1>1, <2>5, MemAt
  <2> QED
    BY <2>2, <2>3, <2>4, <2>5, PlacesAre
<1> QED
  BY <1>1, OnceLess

(* The words that are no block.                                            *)
LEMMA NotBlocks == NULL \notin Blocks /\ SYSERR \notin Blocks /\ JUNK \notin Blocks /\ DIRBLOCKNUM \notin Blocks
                   /\ SUPERBLOCKNUM \notin Blocks /\ NULL # SYSERR
  BY Unlike DEF NULL, SYSERR


(* A seek moves no block.                                                  *)
LEMMA SeekMem ==
  ASSUME Single, TypeInv, ~wild, ~wild', Seek(me), NEW m, m = Now, NEW n, n = Now', MemOK(m)
  PROVE  MemOK(n)
<1>1. Once(InMemory(m), Cells) /\ FilesUsed(m) /\ MemFrame(m)
  BY MemParts
<1>2. m.f \in Frames /\ PhaseOK(m.f) /\ m.files \in [Slots -> Files]
  BY NowTyped DEF Typed, FrameOK
<1>3. Hand(n.f) \in Blocks => Hand(n.f) = Hand(m.f)
  BY <1>2, NotBlocks, SeekStep DEF Hand, Holding, Swapped, FrameIs, PhaseOK, Frames
<1>4. \A x \in Slots : BlockOf(n, x) \in Blocks => BlockOf(n, x) = BlockOf(m, x)
  BY <1>1, <1>2, NotBlocks, SeekStep DEF BlockOf, Making, FilesUsed, FrameIs, PhaseOK, Frames, Files
<1>5. Once(InMemory(n), Cells)
  BY <1>1, <1>3, <1>4, SeekStep, MemLess
<1>6. FilesUsed(n)
  BY <1>1, <1>2, SeekStep DEF FilesUsed, FrameIs, Frames, Files
<1>7. MemFrame(n)
  BY <1>1, <1>2, SeekStep DEF MemFrame, FilesUsed, Emptying, Emptied, FrameIs, PhaseOK, Frames, Files
<1> QED
  BY <1>5, <1>6, <1>7, MemParts

(* Taking the lock of the directory moves no block.                        *)
LEMMA DirLockMem ==
  ASSUME Single, TypeInv, ~wild, DirLock(me), NEW m, m = Now, NEW n, n = Now', MemOK(m)
  PROVE  MemOK(n)
<1>1. Once(InMemory(m), Cells) /\ FilesUsed(m) /\ MemFrame(m)
  BY MemParts
<1>2. m.f \in Frames /\ PhaseOK(m.f) /\ m.files \in [Slots -> Files]
  BY NowTyped DEF Typed, FrameOK
<1>3. Hand(n.f) \in Blocks => Hand(n.f) = Hand(m.f)
  BY <1>2, NotBlocks, DirLockStep DEF Hand, Holding, Swapped, FrameIs, PhaseOK, Frames
<1>4. \A x \in Slots : BlockOf(n, x) \in Blocks => BlockOf(n, x) = BlockOf(m, x)
  BY <1>1, <1>2, NotBlocks, DirLockStep DEF BlockOf, Making, FilesUsed, FrameIs, PhaseOK, Frames, Files
<1>5. Once(InMemory(n), Cells)
  BY <1>1, <1>3, <1>4, DirLockStep, MemLess
<1>6. FilesUsed(n)
  BY <1>1, <1>2, DirLockStep DEF FilesUsed, FrameIs, Frames, Files
<1>7. MemFrame(n)
  BY <1>1, <1>2, DirLockStep DEF MemFrame, FilesUsed, Emptying, Emptied, FrameIs, PhaseOK, Frames, Files
<1> QED
  BY <1>5, <1>6, <1>7, MemParts

(* The end of a call moves no block.                                       *)
LEMMA DirDoneMem ==
  ASSUME Single, TypeInv, ~wild, DirDone(me), NEW m, m = Now, NEW n, n = Now', MemOK(m)
  PROVE  MemOK(n)
<1>1. Once(InMemory(m), Cells) /\ FilesUsed(m) /\ MemFrame(m)
  BY MemParts
<1>2. m.f \in Frames /\ PhaseOK(m.f) /\ m.files \in [Slots -> Files]
  BY NowTyped DEF Typed, FrameOK
<1>3. Hand(n.f) \in Blocks => Hand(n.f) = Hand(m.f)
  BY <1>2, NotBlocks, DirDoneStep DEF Hand, Holding, Swapped, FrameIs, PhaseOK, Frames
<1>4. \A x \in Slots : BlockOf(n, x) \in Blocks => BlockOf(n, x) = BlockOf(m, x)
  BY <1>1, <1>2, NotBlocks, DirDoneStep DEF BlockOf, Making, FilesUsed, FrameIs, PhaseOK, Frames, Files
<1>5. Once(InMemory(n), Cells)
  BY <1>1, <1>3, <1>4, DirDoneStep, MemLess
<1>6. FilesUsed(n)
  BY <1>1, <1>2, DirDoneStep DEF FilesUsed, FrameIs, Frames, Files
<1>7. MemFrame(n)
  BY <1>1, <1>2, DirDoneStep DEF MemFrame, FilesUsed, Emptying, Emptied, FrameIs, PhaseOK, Frames, Files
<1> QED
  BY <1>5, <1>6, <1>7, MemParts

(* Reading the head moves no block.                                        *)
LEMMA ReadHeadMem ==
  ASSUME Single, TypeInv, ~wild, ReadHead(me), NEW m, m = Now, NEW n, n = Now', MemOK(m)
  PROVE  MemOK(n)
<1>1. Once(InMemory(m), Cells) /\ FilesUsed(m) /\ MemFrame(m)
  BY MemParts
<1>2. m.f \in Frames /\ PhaseOK(m.f) /\ m.files \in [Slots -> Files]
  BY NowTyped DEF Typed, FrameOK
<1>3. Hand(n.f) \in Blocks => Hand(n.f) = Hand(m.f)
  BY <1>2, NotBlocks, ReadHeadStep DEF Hand, Holding, Swapped, FrameIs, PhaseOK, Frames
<1>4. \A x \in Slots : BlockOf(n, x) \in Blocks => BlockOf(n, x) = BlockOf(m, x)
  BY <1>1, <1>2, NotBlocks, ReadHeadStep DEF BlockOf, Making, FilesUsed, FrameIs, PhaseOK, Frames, Files
<1>5. Once(InMemory(n), Cells)
  BY <1>1, <1>3, <1>4, ReadHeadStep, MemLess
<1>6. FilesUsed(n)
  BY <1>1, <1>2, ReadHeadStep DEF FilesUsed, FrameIs, Frames, Files
<1>7. MemFrame(n)
  BY <1>1, <1>2, ReadHeadStep DEF MemFrame, FilesUsed, Emptying, Emptied, FrameIs, PhaseOK, Frames, Files
<1> QED
  BY <1>5, <1>6, <1>7, MemParts

(* Taking the lock of the list moves no block.                             *)
LEMMA FreeLockMem ==
  ASSUME Single, TypeInv, ~wild, FreeLock(me), NEW m, m = Now, NEW n, n = Now', MemOK(m)
  PROVE  MemOK(n)
<1>1. Once(InMemory(m), Cells) /\ FilesUsed(m) /\ MemFrame(m)
  BY MemParts
<1>2. m.f \in Frames /\ PhaseOK(m.f) /\ m.files \in [Slots -> Files]
  BY NowTyped DEF Typed, FrameOK
<1>3. Hand(n.f) \in Blocks => Hand(n.f) = Hand(m.f)
  BY <1>2, NotBlocks, FreeLockStep DEF Hand, Holding, Swapped, FrameIs, PhaseOK, Frames
<1>4. \A x \in Slots : BlockOf(n, x) \in Blocks => BlockOf(n, x) = BlockOf(m, x)
  BY <1>1, <1>2, NotBlocks, FreeLockStep DEF BlockOf, Making, FilesUsed, FrameIs, PhaseOK, Frames, Files
<1>5. Once(InMemory(n), Cells)
  BY <1>1, <1>3, <1>4, FreeLockStep, MemLess
<1>6. FilesUsed(n)
  BY <1>1, <1>2, FreeLockStep DEF FilesUsed, FrameIs, Frames, Files
<1>7. MemFrame(n)
  BY <1>1, <1>2, FreeLockStep DEF MemFrame, FilesUsed, Emptying, Emptied, FrameIs, PhaseOK, Frames, Files
<1> QED
  BY <1>5, <1>6, <1>7, MemParts

(* The call of fileCreate moves no block.                                  *)
LEMMA CreateMem ==
  ASSUME Single, TypeInv, ~wild, Create(me), NEW m, m = Now, NEW n, n = Now', MemOK(m)
  PROVE  MemOK(n)
<1>1. Once(InMemory(m), Cells) /\ FilesUsed(m) /\ MemFrame(m)
  BY MemParts
<1>2. m.f \in Frames /\ PhaseOK(m.f) /\ m.files \in [Slots -> Files]
  BY NowTyped DEF Typed, FrameOK
<1>3. Hand(n.f) \in Blocks => Hand(n.f) = Hand(m.f)
  BY <1>2, NotBlocks, CreateStep DEF Hand, Holding, Swapped, FrameIs, PhaseOK, Frames
<1>4. \A x \in Slots : BlockOf(n, x) \in Blocks => BlockOf(n, x) = BlockOf(m, x)
  BY <1>1, <1>2, NotBlocks, CreateStep DEF BlockOf, Making, FilesUsed, FrameIs, PhaseOK, Frames, Files
<1>5. Once(InMemory(n), Cells)
  BY <1>1, <1>3, <1>4, CreateStep, MemLess
<1>6. FilesUsed(n)
  BY <1>1, <1>2, CreateStep DEF FilesUsed, FrameIs, Frames, Files
<1>7. MemFrame(n)
  BY <1>1, <1>2, CreateStep DEF MemFrame, FilesUsed, Emptying, Emptied, FrameIs, PhaseOK, Frames, Files
<1> QED
  BY <1>5, <1>6, <1>7, MemParts

(* The block of the only segment is still its own until it is freed.       *)
LEMMA GetLastMem ==
  ASSUME Single, TypeInv, ~wild, GetLast(me), NEW m, m = Now, NEW n, n = Now', MemOK(m)
  PROVE  MemOK(n)
<1>1. Once(InMemory(m), Cells) /\ FilesUsed(m) /\ MemFrame(m)
  BY MemParts
<1>2. m.f \in Frames /\ PhaseOK(m.f) /\ m.files \in [Slots -> Files]
  BY NowTyped DEF Typed, FrameOK
<1>3. Hand(n.f) \in Blocks => Hand(n.f) = Hand(m.f)
  BY <1>2, NotBlocks, GetLastStep DEF Hand, Holding, Swapped, FrameIs, PhaseOK, Frames
<1>4. \A x \in Slots : BlockOf(n, x) \in Blocks => BlockOf(n, x) = BlockOf(m, x)
  BY <1>1, <1>2, NotBlocks, GetLastStep DEF BlockOf, Making, FilesUsed, FrameIs, PhaseOK, Frames, Files
<1>5. Once(InMemory(n), Cells)
  BY <1>1, <1>3, <1>4, GetLastStep, MemLess
<1>6. FilesUsed(n)
  BY <1>1, <1>2, GetLastStep DEF FilesUsed, FrameIs, Frames, Files
<1>7. MemFrame(n)
  BY <1>1, <1>2, GetLastStep DEF MemFrame, FilesUsed, Emptying, Emptied, FrameIs, PhaseOK, Frames, Files
<1> QED
  BY <1>5, <1>6, <1>7, MemParts

(* Closing a file moves no block.                                          *)
LEMMA ClosedMem ==
  ASSUME Single, TypeInv, ~wild, Closed(me), NEW m, m = Now, NEW n, n = Now', MemOK(m)
  PROVE  MemOK(n)
<1>1. Once(InMemory(m), Cells) /\ FilesUsed(m) /\ MemFrame(m)
  BY MemParts
<1>2. m.f \in Frames /\ PhaseOK(m.f) /\ m.files \in [Slots -> Files]
  BY NowTyped DEF Typed, FrameOK
<1>3. Hand(n.f) \in Blocks => Hand(n.f) = Hand(m.f)
  BY <1>2, NotBlocks, ClosedStep DEF Hand, Holding, Swapped, FrameIs, PhaseOK, Frames
<1>4. \A x \in Slots : BlockOf(n, x) \in Blocks => BlockOf(n, x) = BlockOf(m, x)
  BY <1>1, <1>2, NotBlocks, ClosedStep DEF BlockOf, Making, FilesUsed, FrameIs, PhaseOK, Frames, Files
<1>5. Once(InMemory(n), Cells)
  BY <1>1, <1>3, <1>4, ClosedStep, MemLess
<1>6. FilesUsed(n)
  BY <1>1, <1>2, ClosedStep DEF FilesUsed, FrameIs, Frames, Files
<1>7. MemFrame(n)
  BY <1>1, <1>2, ClosedStep DEF MemFrame, FilesUsed, Emptying, Emptied, FrameIs, PhaseOK, Frames, Files
<1> QED
  BY <1>5, <1>6, <1>7, MemParts

(* Giving the lock of the list back moves no block.                        *)
LEMMA UnlinkedMem ==
  ASSUME Single, TypeInv, ~wild, Unlinked(me), NEW m, m = Now, NEW n, n = Now', MemOK(m)
  PROVE  MemOK(n)
<1>1. Once(InMemory(m), Cells) /\ FilesUsed(m) /\ MemFrame(m)
  BY MemParts
<1>2. m.f \in Frames /\ PhaseOK(m.f) /\ m.files \in [Slots -> Files]
  BY NowTyped DEF Typed, FrameOK
<1>3. Hand(n.f) \in Blocks => Hand(n.f) = Hand(m.f)
  BY <1>2, NotBlocks, UnlinkedStep DEF Hand, Holding, Swapped, FrameIs, PhaseOK, Frames
<1>4. \A x \in Slots : BlockOf(n, x) \in Blocks => BlockOf(n, x) = BlockOf(m, x)
  BY <1>1, <1>2, NotBlocks, UnlinkedStep DEF BlockOf, Making, FilesUsed, FrameIs, PhaseOK, Frames, Files
<1>5. Once(InMemory(n), Cells)
  BY <1>1, <1>3, <1>4, UnlinkedStep, MemLess
<1>6. FilesUsed(n)
  BY <1>1, <1>2, UnlinkedStep DEF FilesUsed, FrameIs, Frames, Files
<1>7. MemFrame(n)
  BY <1>1, <1>2, UnlinkedStep DEF MemFrame, FilesUsed, Emptying, Emptied, FrameIs, PhaseOK, Frames, Files
<1> QED
  BY <1>5, <1>6, <1>7, MemParts

(* The return after a failed write moves no block.                         *)
LEMMA RefusedMem ==
  ASSUME Single, TypeInv, ~wild, Refused(me), NEW m, m = Now, NEW n, n = Now', MemOK(m)
  PROVE  MemOK(n)
<1>1. Once(InMemory(m), Cells) /\ FilesUsed(m) /\ MemFrame(m)
  BY MemParts
<1>2. m.f \in Frames /\ PhaseOK(m.f) /\ m.files \in [Slots -> Files]
  BY NowTyped DEF Typed, FrameOK
<1>3. Hand(n.f) \in Blocks => Hand(n.f) = Hand(m.f)
  BY <1>2, NotBlocks, RefusedStep DEF Hand, Holding, Swapped, FrameIs, PhaseOK, Frames
<1>4. \A x \in Slots : BlockOf(n, x) \in Blocks => BlockOf(n, x) = BlockOf(m, x)
  BY <1>1, <1>2, NotBlocks, RefusedStep DEF BlockOf, Making, FilesUsed, FrameIs, PhaseOK, Frames, Files
<1>5. Once(InMemory(n), Cells)
  BY <1>1, <1>3, <1>4, RefusedStep, MemLess
<1>6. FilesUsed(n)
  BY <1>1, <1>2, RefusedStep DEF FilesUsed, FrameIs, Frames, Files
<1>7. MemFrame(n)
  BY <1>1, <1>2, RefusedStep DEF MemFrame, FilesUsed, Emptying, Emptied, FrameIs, PhaseOK, Frames, Files
<1> QED
  BY <1>5, <1>6, <1>7, MemParts

(* Putting back the superblock moves no block.                             *)
LEMMA RelinkMem ==
  ASSUME Single, TypeInv, ~wild, Relink(me), NEW m, m = Now, NEW n, n = Now', MemOK(m)
  PROVE  MemOK(n)
<1>1. Once(InMemory(m), Cells) /\ FilesUsed(m) /\ MemFrame(m)
  BY MemParts
<1>2. m.f \in Frames /\ PhaseOK(m.f) /\ m.files \in [Slots -> Files]
  BY NowTyped DEF Typed, FrameOK
<1>3. Hand(n.f) \in Blocks => Hand(n.f) = Hand(m.f)
  BY <1>2, NotBlocks, RelinkStep DEF Hand, Holding, Swapped, FrameIs, PhaseOK, Frames
<1>4. \A x \in Slots : BlockOf(n, x) \in Blocks => BlockOf(n, x) = BlockOf(m, x)
  BY <1>1, <1>2, NotBlocks, RelinkStep DEF BlockOf, Making, FilesUsed, FrameIs, PhaseOK, Frames, Files
<1>5. Once(InMemory(n), Cells)
  BY <1>1, <1>3, <1>4, RelinkStep, MemLess
<1>6. FilesUsed(n)
  BY <1>1, <1>2, RelinkStep DEF FilesUsed, FrameIs, Frames, Files
<1>7. MemFrame(n)
  BY <1>1, <1>2, RelinkStep DEF MemFrame, FilesUsed, Emptying, Emptied, FrameIs, PhaseOK, Frames, Files
<1> QED
  BY <1>5, <1>6, <1>7, MemParts

(* Opening a file moves no block.                                          *)
LEMMA OpenMem ==
  ASSUME Single, TypeInv, ~wild, NEW fd \in Slots, Open(me, fd), NEW m, m = Now, NEW n, n = Now', MemOK(m)
  PROVE  MemOK(n)
<1>1. Once(InMemory(m), Cells) /\ FilesUsed(m) /\ MemFrame(m)
  BY MemParts
<1>2. m.f \in Frames /\ PhaseOK(m.f) /\ m.files \in [Slots -> Files]
  BY NowTyped DEF Typed, FrameOK
<1>3. Hand(n.f) \in Blocks => Hand(n.f) = Hand(m.f)
  BY <1>2, NotBlocks, OpenStep DEF Hand, Holding, Swapped, FrameIs, PhaseOK, Frames
<1>4. \A x \in Slots : BlockOf(n, x) \in Blocks => BlockOf(n, x) = BlockOf(m, x)
  BY <1>1, <1>2, NotBlocks, OpenStep DEF BlockOf, Making, FilesUsed, FrameIs, PhaseOK, Frames, Files
<1>5. Once(InMemory(n), Cells)
  BY <1>1, <1>3, <1>4, OpenStep, MemLess
<1>6. FilesUsed(n)
  BY <1>1, <1>2, OpenStep DEF FilesUsed, FrameIs, Frames, Files
<1>7. MemFrame(n)
  BY <1>1, <1>2, OpenStep DEF MemFrame, FilesUsed, Emptying, Emptied, FrameIs, PhaseOK, Frames, Files
<1> QED
  BY <1>5, <1>6, <1>7, MemParts

(* Writing to a file moves no block.                                       *)
LEMMA PutCharMem ==
  ASSUME Single, TypeInv, ~wild, NEW fd \in Slots, PutChar(me, fd), NEW m, m = Now, NEW n, n = Now', MemOK(m)
  PROVE  MemOK(n)
<1>1. Once(InMemory(m), Cells) /\ FilesUsed(m) /\ MemFrame(m)
  BY MemParts
<1>2. m.f \in Frames /\ PhaseOK(m.f) /\ m.files \in [Slots -> Files]
  BY NowTyped DEF Typed, FrameOK
<1>3. Hand(n.f) \in Blocks => Hand(n.f) = Hand(m.f)
  BY <1>2, NotBlocks, PutCharStep DEF Hand, Holding, Swapped, FrameIs, PhaseOK, Frames
<1>4. \A x \in Slots : BlockOf(n, x) \in Blocks => BlockOf(n, x) = BlockOf(m, x)
  BY <1>1, <1>2, NotBlocks, PutCharStep DEF BlockOf, Making, FilesUsed, FrameIs, PhaseOK, Frames, Files
<1>5. Once(InMemory(n), Cells)
  BY <1>1, <1>3, <1>4, PutCharStep, MemLess
<1>6. FilesUsed(n)
  BY <1>1, <1>2, PutCharStep DEF FilesUsed, FrameIs, Frames, Files
<1>7. MemFrame(n)
  BY <1>1, <1>2, PutCharStep DEF MemFrame, FilesUsed, Emptying, Emptied, FrameIs, PhaseOK, Frames, Files
<1> QED
  BY <1>5, <1>6, <1>7, MemParts

(* The call of fileClose moves no block.                                   *)
LEMMA CloseMem ==
  ASSUME Single, TypeInv, ~wild, NEW fd \in Slots, Close(me, fd), NEW m, m = Now, NEW n, n = Now', MemOK(m)
  PROVE  MemOK(n)
<1>1. Once(InMemory(m), Cells) /\ FilesUsed(m) /\ MemFrame(m)
  BY MemParts
<1>2. m.f \in Frames /\ PhaseOK(m.f) /\ m.files \in [Slots -> Files]
  BY NowTyped DEF Typed, FrameOK
<1>3. Hand(n.f) \in Blocks => Hand(n.f) = Hand(m.f)
  BY <1>2, NotBlocks, CloseStep DEF Hand, Holding, Swapped, FrameIs, PhaseOK, Frames
<1>4. \A x \in Slots : BlockOf(n, x) \in Blocks => BlockOf(n, x) = BlockOf(m, x)
  BY <1>1, <1>2, NotBlocks, CloseStep DEF BlockOf, Making, FilesUsed, FrameIs, PhaseOK, Frames, Files
<1>5. Once(InMemory(n), Cells)
  BY <1>1, <1>3, <1>4, CloseStep, MemLess
<1>6. FilesUsed(n)
  BY <1>1, <1>2, CloseStep DEF FilesUsed, FrameIs, Frames, Files
<1>7. MemFrame(n)
  BY <1>1, <1>2, CloseStep DEF MemFrame, FilesUsed, Emptying, Emptied, FrameIs, PhaseOK, Frames, Files
<1> QED
  BY <1>5, <1>6, <1>7, MemParts

(* The call of fileDelete moves no block.                                  *)
LEMMA DeleteMem ==
  ASSUME Single, TypeInv, ~wild, NEW fd \in Slots, Delete(me, fd), NEW m, m = Now, NEW n, n = Now', MemOK(m)
  PROVE  MemOK(n)
<1>1. Once(InMemory(m), Cells) /\ FilesUsed(m) /\ MemFrame(m)
  BY MemParts
<1>2. m.f \in Frames /\ PhaseOK(m.f) /\ m.files \in [Slots -> Files]
  BY NowTyped DEF Typed, FrameOK
<1>3. Hand(n.f) \in Blocks => Hand(n.f) = Hand(m.f)
  BY <1>2, NotBlocks, DeleteStep DEF Hand, Holding, Swapped, FrameIs, PhaseOK, Frames
<1>4. \A x \in Slots : BlockOf(n, x) \in Blocks => BlockOf(n, x) = BlockOf(m, x)
  BY <1>1, <1>2, NotBlocks, DeleteStep DEF BlockOf, Making, FilesUsed, FrameIs, PhaseOK, Frames, Files
<1>5. Once(InMemory(n), Cells)
  BY <1>1, <1>3, <1>4, DeleteStep, MemLess
<1>6. FilesUsed(n)
  BY <1>1, <1>2, DeleteStep DEF FilesUsed, FrameIs, Frames, Files
<1>7. MemFrame(n)
  BY <1>1, <1>2, DeleteStep DEF MemFrame, FilesUsed, Emptying, Emptied, FrameIs, PhaseOK, Frames, Files
<1> QED
  BY <1>5, <1>6, <1>7, MemParts

(* A write changes no memory.                                              *)
LEMMA WriteMem ==
  ASSUME Single, TypeInv, ~wild, Write(me), NEW m, m = Now, NEW n, n = Now', MemOK(m)
  PROVE  MemOK(n)
<1>1. Once(InMemory(m), Cells) /\ FilesUsed(m) /\ MemFrame(m)
  BY MemParts
<1>2. m.f \in Frames /\ PhaseOK(m.f) /\ m.files \in [Slots -> Files]
  BY NowTyped DEF Typed, FrameOK
<1>3. Hand(n.f) \in Blocks => Hand(n.f) = Hand(m.f)
  BY <1>2, NotBlocks, WriteStep DEF Hand, Holding, Swapped, FrameIs, PhaseOK, Frames
<1>4. \A x \in Slots : BlockOf(n, x) \in Blocks => BlockOf(n, x) = BlockOf(m, x)
  BY <1>1, <1>2, NotBlocks, WriteStep DEF BlockOf, Making, FilesUsed, FrameIs, PhaseOK, Frames, Files
<1>5. Once(InMemory(n), Cells)
  BY <1>1, <1>3, <1>4, WriteStep, MemLess
<1>6. FilesUsed(n)
  BY <1>1, <1>2, WriteStep DEF FilesUsed, FrameIs, Frames, Files
<1>7. MemFrame(n)
  BY <1>1, <1>2, WriteStep DEF MemFrame, FilesUsed, Emptying, Emptied, FrameIs, PhaseOK, Frames, Files
<1> QED
  BY <1>5, <1>6, <1>7, MemParts

(* In fileCreate a write that fails loses the block, and leaves the lock   *)
(* behind.                                                                 *)
LEMMA WriteFailsMem ==
  ASSUME Single, TypeInv, ~wild, WriteFails(me), NEW m, m = Now, NEW n, n = Now', MemOK(m)
  PROVE  MemOK(n)
<1>1. Once(InMemory(m), Cells) /\ FilesUsed(m) /\ MemFrame(m)
  BY MemParts
<1>2. m.f \in Frames /\ PhaseOK(m.f) /\ m.files \in [Slots -> Files]
  BY NowTyped DEF Typed, FrameOK
<1>3. Hand(n.f) \in Blocks => Hand(n.f) = Hand(m.f)
  BY <1>2, NotBlocks, WriteFailsStep DEF Hand, Holding, Swapped, FrameIs, PhaseOK, Frames
<1>4. \A x \in Slots : BlockOf(n, x) \in Blocks => BlockOf(n, x) = BlockOf(m, x)
  BY <1>1, <1>2, NotBlocks, WriteFailsStep DEF BlockOf, Making, FilesUsed, FrameIs, PhaseOK, Frames, Files
<1>5. Once(InMemory(n), Cells)
  BY <1>1, <1>3, <1>4, WriteFailsStep, MemLess
<1>6. FilesUsed(n)
  BY <1>1, <1>2, WriteFailsStep DEF FilesUsed, FrameIs, Frames, Files
<1>7. MemFrame(n)
  BY <1>1, <1>2, WriteFailsStep DEF MemFrame, FilesUsed, Emptying, Emptied, FrameIs, PhaseOK, Frames, Files
<1> QED
  BY <1>5, <1>6, <1>7, MemParts

(* The slot that is taken has no block yet.                                *)
LEMMA SlotMem ==
  ASSUME Single, TypeInv, ~wild, Slot(me), NEW m, m = Now, NEW n, n = Now', MemOK(m)
  PROVE  MemOK(n)
<1>1. Once(InMemory(m), Cells) /\ FilesUsed(m) /\ MemFrame(m)
  BY MemParts
<1>2. m.f \in Frames /\ PhaseOK(m.f) /\ m.files \in [Slots -> Files]
  BY NowTyped DEF Typed, FrameOK
<1>3. Hand(n.f) \in Blocks => Hand(n.f) = Hand(m.f)
  BY <1>2, NotBlocks, SlotStep DEF Hand, Holding, Swapped, FrameIs, PhaseOK, Frames
<1>4. \A x \in Slots : BlockOf(n, x) \in Blocks => BlockOf(n, x) = BlockOf(m, x)
  BY <1>1, <1>2, NotBlocks, SlotStep DEF BlockOf, Making, FilesUsed, FrameIs, PhaseOK, Frames, Files
<1>5. Once(InMemory(n), Cells)
  BY <1>1, <1>3, <1>4, SlotStep, MemLess
<1>6. FilesUsed(n)
  BY <1>1, <1>2, SlotStep DEF FilesUsed, FrameIs, Frames, Files
<1>7. MemFrame(n)
  BY <1>1, <1>2, SlotStep DEF MemFrame, FilesUsed, Emptying, Emptied, FrameIs, PhaseOK, Frames, Files
<1> QED
  BY <1>5, <1>6, <1>7, MemParts

(* Putting back the pointer moves no block.                                *)
LEMMA UnswizzleMem ==
  ASSUME Single, TypeInv, ~wild, Unswizzle(me), NEW m, m = Now, NEW n, n = Now', MemOK(m)
  PROVE  MemOK(n)
<1>1. Once(InMemory(m), Cells) /\ FilesUsed(m) /\ MemFrame(m)
  BY MemParts
<1>2. m.f \in Frames /\ PhaseOK(m.f) /\ m.files \in [Slots -> Files]
  BY NowTyped DEF Typed, FrameOK
<1>3. Hand(n.f) \in Blocks => Hand(n.f) = Hand(m.f)
  BY <1>2, NotBlocks, UnswizzleStep DEF Hand, Holding, Swapped, FrameIs, PhaseOK, Frames
<1>4. \A x \in Slots : BlockOf(n, x) \in Blocks => BlockOf(n, x) = BlockOf(m, x)
  BY <1>1, <1>2, NotBlocks, UnswizzleStep DEF BlockOf, Making, FilesUsed, FrameIs, PhaseOK, Frames, Files
<1>5. Once(InMemory(n), Cells)
  <2>1. n.live = m.live /\ m.live \subseteq Cells
    BY NowTyped, UnswizzleStep DEF Typed
  <2>2. \A c \in Cells : n.seg[c].num = m.seg[c].num /\ n.seg[c].count = m.seg[c].count /\ n.seg[c].free = m.seg[c].free
    BY UnswizzleStep
  <2> QED
    BY <1>1, <1>3, <1>4, <2>1, <2>2, MemLess
<1>6. FilesUsed(n)
  BY <1>1, <1>2, UnswizzleStep DEF FilesUsed, FrameIs, Frames, Files
<1>7. MemFrame(n)
  BY <1>1, <1>2, UnswizzleStep DEF MemFrame, FilesUsed, Emptying, Emptied, FrameIs, PhaseOK, Frames, Files
<1> QED
  BY <1>5, <1>6, <1>7, MemParts

(* One block goes from the place b to the place a.                         *)
LEMMA MemMoved ==
  ASSUME NEW m, NEW n, Once(InMemory(m), Cells), NEW a \in Places(Cells), NEW b \in Places(Cells), a # b,
         InMemory(n)[a] \in Blocks => InMemory(n)[a] = InMemory(m)[b], InMemory(n)[b] \notin Blocks,
         \A c \in Cells : Own(c) # a /\ Own(c) # b /\ InMemory(n)[Own(c)] \in Blocks =>
           InMemory(n)[Own(c)] = InMemory(m)[Own(c)],
         \A c \in Cells, i \in Entries : Entry(c, i) # a /\ Entry(c, i) # b /\ InMemory(n)[Entry(c, i)] \in Blocks =>
           InMemory(n)[Entry(c, i)] = InMemory(m)[Entry(c, i)],
         \A fd \in Slots : File(fd) # a /\ File(fd) # b /\ InMemory(n)[File(fd)] \in Blocks =>
           InMemory(n)[File(fd)] = InMemory(m)[File(fd)],
         HAND \in {a, b}
  PROVE  Once(InMemory(n), Cells)
<1>1. ASSUME NEW x \in Places(Cells), x # a, x # b, InMemory(n)[x] \in Blocks PROVE InMemory(n)[x] = InMemory(m)[x]
  BY <1>1, PlacesAre
<1> QED
  BY <1>1, OnceOneMoved

(* The block goes from the hand to the file.                               *)
LEMMA AssignMem ==
  ASSUME Single, TypeInv, ~wild, Assign(me), NEW m, m = Now, NEW n, n = Now', MemOK(m)
  PROVE  MemOK(n)
<1>1. Once(InMemory(m), Cells) /\ FilesUsed(m) /\ MemFrame(m)
  BY MemParts
<1>2. m.f \in Frames /\ PhaseOK(m.f) /\ m.files \in [Slots -> Files] /\ m.f.fd \in Slots
  BY NowTyped DEF Typed, FrameOK, Frames
<1>3. Hand(m.f) = m.f.block /\ Hand(n.f) = NULL
  BY <1>2, AssignStep DEF Hand, Holding, Swapped, FrameIs
<1>4. BlockOf(n, m.f.fd) \in Blocks => BlockOf(n, m.f.fd) = m.f.block
  BY NotBlocks, AssignStep DEF BlockOf
<1>5. \A x \in Slots \ {m.f.fd} : BlockOf(n, x) \in Blocks => BlockOf(n, x) = BlockOf(m, x)
  BY <1>2, NotBlocks, AssignStep DEF BlockOf, Making, FrameIs
<1>6. Once(InMemory(n), Cells)
  <2> DEFINE a == File(m.f.fd)
             b == HAND
  <2>1. a \in Places(Cells) /\ b \in Places(Cells) /\ a # b
    BY <1>2, PlacesAre, PlacesDiffer, Zenon
  <2>2. (InMemory(n)[a] \in Blocks => InMemory(n)[a] = InMemory(m)[b]) /\ InMemory(n)[b] \notin Blocks
    BY <1>2, <1>3, <1>4, MemAt, NotBlocks
  <2>3. \A x \in Slots : File(x) # a /\ InMemory(n)[File(x)] \in Blocks => InMemory(n)[File(x)] = InMemory(m)[File(x)]
    BY <1>5, MemAt
  <2>4. n.seg = m.seg /\ n.live = m.live
    BY AssignStep
  <2>5. \A c \in Cells : InMemory(n)[Own(c)] = InMemory(m)[Own(c)]
    BY <2>4, MemAt
  <2>6. \A c \in Cells, i \in Entries : InMemory(n)[Entry(c, i)] = InMemory(m)[Entry(c, i)]
    BY <2>4, MemAt
  <2> HIDE DEF a
  <2> QED
    BY <1>1, <2>1, <2>2, <2>3, <2>5, <2>6, MemMoved
<1>7. FilesUsed(n)
  BY <1>1, <1>2, AssignStep DEF FilesUsed
<1>8. MemFrame(n)
  BY AssignStep DEF MemFrame, Emptying, Emptied, FrameIs
<1> QED
  BY <1>6, <1>7, <1>8, MemParts

(* The block goes from the file to the hand.                               *)
LEMMA UnlinkMem ==
  ASSUME Single, TypeInv, ~wild, ~wild', Unlink(me), NEW m, m = Now, NEW n, n = Now', MemOK(m)
  PROVE  MemOK(n)
<1>1. Once(InMemory(m), Cells) /\ FilesUsed(m) /\ MemFrame(m)
  BY MemParts
<1>2. m.f \in Frames /\ PhaseOK(m.f) /\ m.files \in [Slots -> Files] /\ m.f.fd \in Slots
  BY NowTyped DEF Typed, FrameOK, Frames
<1>3. Hand(n.f) = m.files[m.f.fd].block
  BY <1>2, UnlinkStep DEF Hand, Holding, Swapped, FrameIs
<1>4. BlockOf(n, m.f.fd) = NULL /\ BlockOf(m, m.f.fd) = m.files[m.f.fd].block
  BY <1>1, UnlinkStep DEF BlockOf, MemFrame, Making
<1>5. \A x \in Slots \ {m.f.fd} : BlockOf(n, x) \in Blocks => BlockOf(n, x) = BlockOf(m, x)
  BY <1>2, NotBlocks, UnlinkStep DEF BlockOf, Making, FrameIs
<1>6. Once(InMemory(n), Cells)
  <2> DEFINE b == File(m.f.fd)
             a == HAND
  <2>1. a \in Places(Cells) /\ b \in Places(Cells) /\ a # b
    BY <1>2, PlacesAre, PlacesDiffer
  <2>2. (InMemory(n)[a] \in Blocks => InMemory(n)[a] = InMemory(m)[b]) /\ InMemory(n)[b] \notin Blocks
    BY <1>2, <1>3, <1>4, MemAt, NotBlocks
  <2>3. \A x \in Slots : File(x) # b /\ InMemory(n)[File(x)] \in Blocks => InMemory(n)[File(x)] = InMemory(m)[File(x)]
    BY <1>5, MemAt
  <2>4. n.seg = m.seg /\ n.live = m.live
    BY UnlinkStep
  <2>5. \A c \in Cells : InMemory(n)[Own(c)] = InMemory(m)[Own(c)]
    BY <2>4, MemAt
  <2>6. \A c \in Cells, i \in Entries : InMemory(n)[Entry(c, i)] = InMemory(m)[Entry(c, i)]
    BY <2>4, MemAt
  <2> HIDE DEF b
  <2> QED
    BY <1>1, <2>1, <2>2, <2>3, <2>5, <2>6, MemMoved
<1>7. FilesUsed(n)
  BY <1>1, <1>2, UnlinkStep DEF FilesUsed
<1>8. MemFrame(n)
  BY UnlinkStep DEF MemFrame, Emptying, Emptied, FrameIs
<1> QED
  BY <1>6, <1>7, <1>8, MemParts

(* The block goes from the entry to the hand, and the entry is erased.     *)
LEMMA GetEntryMem ==
  ASSUME Single, TypeInv, ~wild, GetEntry(me), NEW m, m = Now, NEW n, n = Now', MemOK(m)
  PROVE  MemOK(n)
<1> DEFINE c == m.f.cell
           s == m.seg[c]
           k == s.count - 1
<1>1. Once(InMemory(m), Cells) /\ FilesUsed(m) /\ MemFrame(m)
  BY MemParts
<1>2. m.f \in Frames /\ c \in m.live /\ c \in Cells /\ s \in Segments /\ k \in Entries /\ m.live \subseteq Cells
      /\ m.seg \in [Cells -> Segments]
  <2>1. m.f \in Frames /\ c \in m.live /\ c \in Cells /\ s \in Segments /\ s.count > 0 /\ m.live \subseteq Cells
        /\ m.seg \in [Cells -> Segments]
    BY NowTyped, GetEntryStep DEF Typed
  <2> HIDE DEF s
  <2> QED
    BY <2>1, Constants DEF Segments, Entries
<1>3. Hand(n.f) \in Blocks => Hand(n.f) = s.free[k]
  BY NotBlocks, GetEntryStep DEF Hand, Holding, Swapped, FrameIs
<1>4. \A x \in Slots : BlockOf(n, x) = BlockOf(m, x)
  BY GetEntryStep DEF BlockOf, Making, FrameIs
<1>5. (\A x \in Cells \ {c} : n.seg[x] = m.seg[x]) /\ n.live = m.live /\ n.seg[c].num = s.num /\ n.seg[c].count = k
      /\ n.seg[c].free[k] = NULL /\ \A i \in Entries \ {k} : n.seg[c].free[i] = s.free[i]
  BY GetEntryStep
<1>6. Once(InMemory(n), Cells)
  <2> DEFINE a == HAND
             b == Entry(c, k)
  <2>1. a \in Places(Cells) /\ b \in Places(Cells) /\ a # b
    BY <1>2, PlacesAre, PlacesDiffer
  <2>2. InMemory(m)[b] = s.free[k] /\ InMemory(n)[b] = NULL
    <3>1. k < s.count /\ k \in Int
      BY <1>2 DEF Segments
    <3>2. m.seg[c] = s /\ k < s.count /\ ~(k < k)
      BY <3>1
    <3> HIDE DEF k, s, c
    <3>3. InMemory(m)[Entry(c, k)] = IF c \in m.live /\ k < m.seg[c].count THEN m.seg[c].free[k] ELSE NULL
      BY <1>2, MemAt
    <3>4. InMemory(n)[Entry(c, k)] = IF c \in n.live /\ k < n.seg[c].count THEN n.seg[c].free[k] ELSE NULL
      BY <1>2, MemAt
    <3> QED
      BY <1>2, <1>5, <3>2, <3>3, <3>4
  <2>3. (InMemory(n)[a] \in Blocks => InMemory(n)[a] = InMemory(m)[b]) /\ InMemory(n)[b] \notin Blocks
    BY <1>3, <2>2, MemAt, NotBlocks
  <2>4. \A x \in Slots : InMemory(n)[File(x)] = InMemory(m)[File(x)]
    BY <1>4, MemAt
  <2>5. ASSUME NEW x \in Cells PROVE InMemory(n)[Own(x)] = InMemory(m)[Own(x)]
    <3>1. n.seg[x].num = m.seg[x].num /\ n.live = m.live
      BY <1>5
    <3> QED
      BY <3>1, MemAt
  <2>6. ASSUME NEW x \in Cells, NEW i \in Entries, Entry(x, i) # b, InMemory(n)[Entry(x, i)] \in Blocks
        PROVE  InMemory(n)[Entry(x, i)] = InMemory(m)[Entry(x, i)]
    <3>1. x # c => InMemory(n)[Entry(x, i)] = InMemory(m)[Entry(x, i)]
      <4> SUFFICES ASSUME x # c PROVE InMemory(n)[Entry(x, i)] = InMemory(m)[Entry(x, i)]
        OBVIOUS
      <4>1. n.seg[x] = m.seg[x] /\ n.live = m.live
        BY <1>5
      <4>2. InMemory(n)[Entry(x, i)] = IF x \in n.live /\ i < n.seg[x].count THEN n.seg[x].free[i] ELSE NULL
        BY MemAt
      <4>3. InMemory(m)[Entry(x, i)] = IF x \in m.live /\ i < m.seg[x].count THEN m.seg[x].free[i] ELSE NULL
        BY MemAt
      <4> QED
        BY <4>1, <4>2, <4>3
    <3>2. CASE x = c
      <4>1. i # k
        BY <2>6, <3>2
      <4>2. InMemory(n)[Entry(x, i)] = IF i < k THEN s.free[i] ELSE NULL
        <5>1. InMemory(n)[Entry(x, i)] = IF x \in n.live /\ i < n.seg[x].count THEN n.seg[x].free[i] ELSE NULL
          BY MemAt
        <5> HIDE DEF k, s, c
        <5> QED
          BY <1>2, <1>5, <3>2, <4>1, <5>1
      <4>3. i < k => i < s.count
        BY <1>2 DEF Segments, Entries
      <4> QED
        BY <1>2, <2>6, <3>2, <4>2, <4>3, MemAt, NotBlocks, Zenon
    <3> QED
      BY <3>1, <3>2
  <2> HIDE DEF b
  <2> QED
    BY <1>1, <2>1, <2>3, <2>4, <2>5, <2>6, MemMoved
<1>7. FilesUsed(n)
  BY <1>1, GetEntryStep DEF FilesUsed
<1>8. MemFrame(n)
  BY GetEntryStep DEF MemFrame, Emptying, Emptied, FrameIs
<1> QED
  BY <1>6, <1>7, <1>8, MemParts

(* The block of the segment is in the hand, and the segment is gone.       *)
LEMMA LastDoneMem ==
  ASSUME Single, TypeInv, ~wild, LastDone(me), NEW m, m = Now, NEW n, n = Now', MemOK(m)
  PROVE  MemOK(n)
<1> DEFINE c == m.f.cell
<1>1. Once(InMemory(m), Cells) /\ FilesUsed(m) /\ MemFrame(m)
  BY MemParts
<1>2. c \in m.live /\ m.f.block = m.seg[c].num /\ m.live \subseteq Cells
  BY <1>1, NowTyped, LastDoneStep DEF MemFrame, Emptied, Typed
<1>3. Hand(n.f) = m.f.block
  BY LastDoneStep DEF Hand, Holding, Swapped, FrameIs
<1>4. \A x \in Slots : BlockOf(n, x) = BlockOf(m, x)
  BY LastDoneStep DEF BlockOf, Making, FrameIs
<1>5. n.seg = m.seg /\ n.live = m.live \ {c}
  BY LastDoneStep
<1>6. Once(InMemory(n), Cells)
  <2> DEFINE a == HAND
             b == Own(c)
  <2>1. a \in Places(Cells) /\ b \in Places(Cells) /\ a # b
    BY <1>2, PlacesAre, PlacesDiffer
  <2>2. InMemory(m)[b] = m.f.block /\ InMemory(n)[b] = NULL
    BY <1>2, <1>5, MemAt, Zenon
  <2>3. (InMemory(n)[a] \in Blocks => InMemory(n)[a] = InMemory(m)[b]) /\ InMemory(n)[b] \notin Blocks
    BY <1>3, <2>2, MemAt, NotBlocks
  <2>4. \A x \in Slots : InMemory(n)[File(x)] = InMemory(m)[File(x)]
    BY <1>4, MemAt
  <2>5. \A x \in Cells : Own(x) # b => InMemory(n)[Own(x)] = InMemory(m)[Own(x)]
    BY <1>5, MemAt
  <2>6. \A x \in Cells, i \in Entries : InMemory(n)[Entry(x, i)] \in Blocks => InMemory(n)[Entry(x, i)] = InMemory(m)[Entry(x, i)]
    BY <1>5, MemAt, NotBlocks
  <2> HIDE DEF b
  <2> QED
    BY <1>1, <2>1, <2>3, <2>4, <2>5, <2>6, MemMoved
<1>7. FilesUsed(n)
  BY <1>1, LastDoneStep DEF FilesUsed
<1>8. MemFrame(n)
  BY LastDoneStep DEF MemFrame, Emptying, Emptied, FrameIs
<1> QED
  BY <1>6, <1>7, <1>8, MemParts

(* A new segment has no entries.                                           *)
LEMMA FreshEmpty == ASSUME NEW b PROVE Fresh(b).num = b /\ Fresh(b).count = 0 /\ Fresh(b).next = NULL
  BY DEF Fresh, Blank

(* The block in hand becomes a segment.                                    *)
LEMMA MemPutNew ==
  ASSUME NEW m, NEW n, NEW c \in Cells \ m.live, m.live \subseteq Cells, Once(InMemory(m), Cells), n.seg[c] = Fresh(m.f.block),
         n.live = m.live \cup {c},
         \A x \in m.live : n.seg[x].num = m.seg[x].num /\ n.seg[x].count = m.seg[x].count /\ n.seg[x].free = m.seg[x].free,
         Hand(m.f) = m.f.block, Hand(n.f) = NULL, \A x \in Slots : BlockOf(n, x) = BlockOf(m, x)
  PROVE  Once(InMemory(n), Cells)
<1> DEFINE a == Own(c)
           b == HAND
<1>1. a \in Places(Cells) /\ b \in Places(Cells) /\ a # b
  BY PlacesAre, PlacesDiffer
<1>2. n.seg[c].num = m.f.block /\ n.seg[c].count = 0
  BY FreshEmpty
<1>3. InMemory(n)[a] = m.f.block
  BY <1>2, MemAt
<1>4. (InMemory(n)[a] \in Blocks => InMemory(n)[a] = InMemory(m)[b]) /\ InMemory(n)[b] \notin Blocks
  BY <1>3, MemAt, NotBlocks
<1>5. \A x \in Slots : InMemory(n)[File(x)] = InMemory(m)[File(x)]
  BY MemAt
<1>6. ASSUME NEW x \in Cells, Own(x) # a PROVE InMemory(n)[Own(x)] = InMemory(m)[Own(x)]
  <2>1. x # c
    BY <1>6
  <2>2. CASE x \in m.live
    BY <2>2, MemAt
  <2>3. CASE x \notin m.live
    BY <2>1, <2>3, MemAt
  <2> QED
    BY <2>2, <2>3
<1>7. ASSUME NEW x \in Cells, NEW i \in Entries, InMemory(n)[Entry(x, i)] \in Blocks
      PROVE  InMemory(n)[Entry(x, i)] = InMemory(m)[Entry(x, i)]
  <2>1. InMemory(n)[Entry(x, i)] = IF x \in n.live /\ i < n.seg[x].count THEN n.seg[x].free[i] ELSE NULL
    BY MemAt
  <2>2. InMemory(m)[Entry(x, i)] = IF x \in m.live /\ i < m.seg[x].count THEN m.seg[x].free[i] ELSE NULL
    BY MemAt
  <2>3. x \in n.live /\ i < n.seg[x].count
    BY <1>7, <2>1, NotBlocks
  <2>4. x # c
    BY <1>2, <2>3 DEF Entries
  <2>5. x \in m.live
    BY <2>3, <2>4
  <2> QED
    BY <2>1, <2>2, <2>3, <2>5
<1> HIDE DEF a
<1> QED
  BY <1>1, <1>4, <1>5, <1>6, <1>7, MemMoved

(* The block goes from the hand to the new segment.                        *)
LEMMA PutFirstMem ==
  ASSUME Single, TypeInv, ~wild, PutFirst(me), NEW m, m = Now, NEW n, n = Now', MemOK(m)
  PROVE  MemOK(n)
<1>1. Once(InMemory(m), Cells) /\ FilesUsed(m) /\ MemFrame(m)
  BY MemParts
<1>2. Hand(m.f) = m.f.block /\ Hand(n.f) = NULL
  BY PutFirstStep DEF Hand, Holding, Swapped, FrameIs
<1>3. \A x \in Slots : BlockOf(n, x) = BlockOf(m, x)
  BY PutFirstStep DEF BlockOf, Making, FrameIs
<1>4. m.live \subseteq Cells
  BY NowTyped DEF Typed
<1>5. \A x \in m.live : n.seg[x].num = m.seg[x].num /\ n.seg[x].count = m.seg[x].count /\ n.seg[x].free = m.seg[x].free
  BY <1>4, PutFirstStep
<1>6. Once(InMemory(n), Cells)
  BY <1>1, <1>2, <1>3, <1>4, <1>5, PutFirstStep, MemPutNew
<1>7. FilesUsed(n)
  BY <1>1, PutFirstStep DEF FilesUsed
<1>8. MemFrame(n)
  BY PutFirstStep DEF MemFrame, Emptying, Emptied, FrameIs
<1> QED
  BY <1>6, <1>7, <1>8, MemParts

(* The block goes from the hand to the new segment.                        *)
LEMMA PutSegmentMem ==
  ASSUME Single, TypeInv, ~wild, PutSegment(me), NEW m, m = Now, NEW n, n = Now', MemOK(m)
  PROVE  MemOK(n)
<1>1. Once(InMemory(m), Cells) /\ FilesUsed(m) /\ MemFrame(m)
  BY MemParts
<1>2. Hand(m.f) = m.f.block /\ Hand(n.f) = NULL
  BY PutSegmentStep DEF Hand, Holding, Swapped, FrameIs
<1>3. \A x \in Slots : BlockOf(n, x) = BlockOf(m, x)
  BY PutSegmentStep DEF BlockOf, Making, FrameIs
<1>4. m.live \subseteq Cells
  BY NowTyped DEF Typed
<1>5. PICK c \in Cells \ m.live : n.seg[c] = Fresh(m.f.block) /\ n.live = m.live \cup {c}
  BY PutSegmentStep
<1>6. Once(InMemory(n), Cells)
  BY <1>1, <1>2, <1>3, <1>4, <1>5, PutSegmentStep, MemPutNew
<1>7. FilesUsed(n)
  BY <1>1, PutSegmentStep DEF FilesUsed
<1>8. MemFrame(n)
  BY PutSegmentStep DEF MemFrame, Emptying, Emptied, FrameIs
<1> QED
  BY <1>6, <1>7, <1>8, MemParts

(* The block goes from the hand to the entry.                              *)
LEMMA PutEntryMem ==
  ASSUME Single, TypeInv, ~wild, PutEntry(me), NEW m, m = Now, NEW n, n = Now', MemOK(m)
  PROVE  MemOK(n)
<1> DEFINE c == n.f.cell
           s == m.seg[c]
           k == s.count
<1>1. Once(InMemory(m), Cells) /\ FilesUsed(m) /\ MemFrame(m)
  BY MemParts
<1>2. c \in m.live /\ c \in Cells /\ k \in Entries
  <2>1. c \in m.live /\ c \in Cells /\ s \in Segments /\ s.count < FREEBLOCKMAX
    BY NowTyped, PutEntryStep DEF Typed
  <2> HIDE DEF s
  <2> QED
    BY <2>1, Constants DEF Segments, Entries
<1>3. Hand(m.f) = m.f.block /\ Hand(n.f) = NULL
  BY PutEntryStep DEF Hand, Holding, Swapped, FrameIs
<1>4. \A x \in Slots : BlockOf(n, x) = BlockOf(m, x)
  BY PutEntryStep DEF BlockOf, Making, FrameIs
<1>5. (\A x \in Cells \ {c} : n.seg[x] = m.seg[x]) /\ n.live = m.live /\ n.seg[c].num = s.num /\ n.seg[c].count = k + 1
      /\ n.seg[c].free[k] = m.f.block /\ \A i \in Entries \ {k} : n.seg[c].free[i] = s.free[i]
  BY PutEntryStep
<1>9. m.seg[c] = s /\ s.count = k /\ k < k + 1 /\ k \in Int /\ \A i \in Entries : i # k /\ i < k + 1 => i < k
  BY <1>2 DEF Entries
<1> HIDE DEF c, s, k
<1>6. Once(InMemory(n), Cells)
  <2> DEFINE b == HAND
             a == Entry(c, k)
  <2>1. a \in Places(Cells) /\ b \in Places(Cells) /\ a # b
    BY <1>2, PlacesAre, PlacesDiffer
  <2>2. InMemory(n)[a] = m.f.block
    <3>1. InMemory(n)[Entry(c, k)] = IF c \in n.live /\ k < n.seg[c].count THEN n.seg[c].free[k] ELSE NULL
      BY <1>2, MemAt
    <3> QED
      BY <1>2, <1>5, <1>9, <3>1
  <2>3. (InMemory(n)[a] \in Blocks => InMemory(n)[a] = InMemory(m)[b]) /\ InMemory(n)[b] \notin Blocks
    BY <1>3, <2>2, MemAt, NotBlocks
  <2>4. \A x \in Slots : InMemory(n)[File(x)] = InMemory(m)[File(x)]
    BY <1>4, MemAt
  <2>5. ASSUME NEW x \in Cells PROVE InMemory(n)[Own(x)] = InMemory(m)[Own(x)]
    <3>1. n.seg[x].num = m.seg[x].num /\ n.live = m.live
      BY <1>5, <1>9
    <3> QED
      BY <3>1, MemAt
  <2>6. ASSUME NEW x \in Cells, NEW i \in Entries, Entry(x, i) # a, InMemory(n)[Entry(x, i)] \in Blocks
        PROVE  InMemory(n)[Entry(x, i)] = InMemory(m)[Entry(x, i)]
    <3>1. InMemory(n)[Entry(x, i)] = IF x \in n.live /\ i < n.seg[x].count THEN n.seg[x].free[i] ELSE NULL
      BY MemAt
    <3>2. InMemory(m)[Entry(x, i)] = IF x \in m.live /\ i < m.seg[x].count THEN m.seg[x].free[i] ELSE NULL
      BY MemAt
    <3>3. CASE x # c
      BY <1>5, <3>1, <3>2, <3>3
    <3>4. CASE x = c
      <4>1. i # k
        BY <2>6, <3>4
      <4>2. c \in n.live /\ i < k + 1
        BY <1>5, <2>6, <3>1, <3>4, NotBlocks
      <4>3. i < k
        BY <1>9, <4>1, <4>2
      <4> QED
        BY <1>2, <1>5, <1>9, <3>1, <3>2, <3>4, <4>1, <4>2, <4>3
    <3> QED
      BY <3>3, <3>4
  <2> HIDE DEF a
  <2> QED
    BY <1>1, <2>1, <2>3, <2>4, <2>5, <2>6, MemMoved
<1>7. FilesUsed(n)
  BY <1>1, PutEntryStep DEF FilesUsed
<1>8. MemFrame(n)
  BY PutEntryStep DEF MemFrame, Emptying, Emptied, FrameIs
<1> QED
  BY <1>6, <1>7, <1>8, MemParts

(* The own block of the next segment goes to the hand, its entries to the  *)
(* first segment.                                                          *)
LEMMA GetSegmentMem ==
  ASSUME Single, TypeInv, ~wild, GetSegment(me), NEW m, m = Now, NEW n, n = Now', MemOK(m)
  PROVE  MemOK(n)
<1> DEFINE c == m.f.cell
           x == m.seg[c].next
           t == m.seg[x]
           (* where what is in a place comes from                          *)
           mv == [y \in Places(Cells) |-> IF y = HAND THEN Own(x)
                                          ELSE IF y[1] = "entry" /\ y[2] = c THEN Entry(x, y[3]) ELSE y]
           h == InMemory(m)
           g == InMemory(n)
<1>1. Once(h, Cells) /\ FilesUsed(m) /\ MemFrame(m)
  BY MemParts
<1>2. c \in m.live /\ x \in m.live /\ m.live \subseteq Cells /\ c \in Cells /\ x \in Cells
  BY NowTyped, GetSegmentStep DEF Typed
<1>3. Hand(n.f) = t.num
  BY GetSegmentStep DEF Hand, Holding, Swapped, FrameIs
<1>4. \A y \in Slots : BlockOf(n, y) = BlockOf(m, y)
  BY GetSegmentStep DEF BlockOf, Making, FrameIs
<1>5. /\ \A y \in Cells \ {c} : n.seg[y] = m.seg[y]
      /\ n.seg[c].num = m.seg[c].num /\ n.seg[c].count = t.count
      /\ \A i \in Entries : i < t.count => n.seg[c].free[i] = t.free[i]
      /\ n.live = m.live \ {x}
  BY GetSegmentStep
<1>6. m.seg[x] = t
  OBVIOUS
<1>7. mv[HAND] = Own(x)
  BY PlacesAre
<1>8. ASSUME NEW y \in Cells PROVE mv[Own(y)] = Own(y)
  <2>1. Own(y) \in Places(Cells) /\ Own(y) # HAND
    BY PlacesAre, PlacesDiffer
  <2>2. Own(y)[1] = "own"
    BY DEF Own
  <2> QED
    BY <2>1, <2>2
<1>9. ASSUME NEW y \in Slots PROVE mv[File(y)] = File(y)
  <2>1. File(y) \in Places(Cells) /\ File(y) # HAND
    BY PlacesAre, PlacesDiffer, Zenon
  <2>2. File(y)[1] = "file"
    BY DEF File
  <2> QED
    BY <2>1, <2>2
<1>10. ASSUME NEW y \in Cells, NEW i \in Entries PROVE mv[Entry(y, i)] = IF y = c THEN Entry(x, i) ELSE Entry(y, i)
  <2>1. Entry(y, i) \in Places(Cells) /\ Entry(y, i) # HAND
    BY PlacesAre, PlacesDiffer
  <2>2. Entry(y, i)[1] = "entry" /\ Entry(y, i)[2] = y /\ Entry(y, i)[3] = i
    BY DEF Entry
  <2> HIDE DEF c, x
  <2> QED
    BY <2>1, <2>2
<1> HIDE DEF c, x, t, mv, h, g
<1>11. ASSUME NEW y \in Cells
       PROVE  g[Own(y)] \in Blocks => y # x /\ h[Own(y)] = g[Own(y)]
  <2>1. g[Own(y)] = (IF y \in n.live THEN n.seg[y].num ELSE NULL) /\ h[Own(y)] = (IF y \in m.live THEN m.seg[y].num ELSE NULL)
    BY MemAt DEF g, h
  <2>2. n.seg[y].num = m.seg[y].num
    BY <1>5
  <2> QED
    BY <1>5, <2>1, <2>2, NotBlocks
<1>12. ASSUME NEW y \in Cells, NEW i \in Entries
       PROVE  g[Entry(y, i)] \in Blocks => y # x /\ h[IF y = c THEN Entry(x, i) ELSE Entry(y, i)] = g[Entry(y, i)]
  <2> SUFFICES ASSUME g[Entry(y, i)] \in Blocks
               PROVE  y # x /\ h[IF y = c THEN Entry(x, i) ELSE Entry(y, i)] = g[Entry(y, i)]
    OBVIOUS
  <2>1. g[Entry(y, i)] = IF y \in n.live /\ i < n.seg[y].count THEN n.seg[y].free[i] ELSE NULL
    BY MemAt DEF g
  <2>2. \A z \in Cells : h[Entry(z, i)] = IF z \in m.live /\ i < m.seg[z].count THEN m.seg[z].free[i] ELSE NULL
    BY MemAt DEF h
  <2>3. y \in m.live /\ y # x /\ i < n.seg[y].count /\ g[Entry(y, i)] = n.seg[y].free[i]
    BY <2>1, <1>5, NotBlocks
  <2>4. CASE y = c
    <3>1. i < t.count /\ g[Entry(y, i)] = t.free[i]
      BY <1>5, <2>3, <2>4
    <3>2. h[Entry(x, i)] = t.free[i]
      BY <1>2, <1>6, <2>2, <3>1
    <3> QED
      BY <2>3, <2>4, <3>1, <3>2
  <2>5. CASE y # c
    <3>1. n.seg[y] = m.seg[y]
      BY <1>5, <2>5
    <3>2. h[Entry(y, i)] = m.seg[y].free[i]
      BY <2>2, <2>3, <3>1
    <3> QED
      BY <2>3, <2>5, <3>1, <3>2
  <2> QED
    BY <2>4, <2>5
<1>13. ASSUME NEW y \in Slots PROVE h[File(y)] = g[File(y)]
  BY <1>4, MemAt DEF g, h
<1>14. g[HAND] = h[Own(x)]
  BY <1>2, <1>3, <1>6, MemAt DEF g, h
<1>15. \A y \in Places(Cells) : g[y] \in Blocks => mv[y] \in Places(Cells) /\ h[mv[y]] = g[y]
  <2> SUFFICES ASSUME NEW y \in Places(Cells), g[y] \in Blocks PROVE mv[y] \in Places(Cells) /\ h[mv[y]] = g[y]
    OBVIOUS
  <2>1. ASSUME NEW z \in Cells, y = Own(z) PROVE mv[y] \in Places(Cells) /\ h[mv[y]] = g[y]
    BY <1>8, <1>11, <2>1, PlacesAre
  <2>2. ASSUME NEW z \in Cells, NEW i \in Entries, y = Entry(z, i) PROVE mv[y] \in Places(Cells) /\ h[mv[y]] = g[y]
    BY <1>2, <1>10, <1>12, <2>2, PlacesAre
  <2>3. ASSUME NEW z \in Slots, y = File(z) PROVE mv[y] \in Places(Cells) /\ h[mv[y]] = g[y]
    BY <1>9, <1>13, <2>3, PlacesAre
  <2>4. ASSUME y = HAND PROVE mv[y] \in Places(Cells) /\ h[mv[y]] = g[y]
    BY <1>2, <1>7, <1>14, <2>4, PlacesAre
  <2> QED
    BY <2>1, <2>2, <2>3, <2>4, PlacesAre
(* The cell c takes from x, which is not there any more.                   *)
<1>16. \A y, z \in Places(Cells) : g[y] \in Blocks /\ g[z] \in Blocks /\ mv[y] = mv[z] => y = z
  <2> DEFINE Kind(y) == \/ \E d \in Cells : d # x /\ y = Own(d) /\ mv[y] = Own(d)
                        \/ \E d \in Cells, i \in Entries : d # x /\ y = Entry(d, i)
                                                        /\ mv[y] = IF d = c THEN Entry(x, i) ELSE Entry(d, i)
                        \/ \E d \in Slots : y = File(d) /\ mv[y] = File(d)
                        \/ y = HAND /\ mv[y] = Own(x)
  <2>1. ASSUME NEW y \in Places(Cells), g[y] \in Blocks PROVE Kind(y)
    <3>1. ASSUME NEW z \in Cells, y = Own(z) PROVE Kind(y)
      BY <1>8, <1>11, <2>1, <3>1
    <3>2. ASSUME NEW z \in Cells, NEW i \in Entries, y = Entry(z, i) PROVE Kind(y)
      BY <1>10, <1>12, <2>1, <3>2
    <3>3. ASSUME NEW z \in Slots, y = File(z) PROVE Kind(y)
      BY <1>9, <3>3
    <3>4. ASSUME y = HAND PROVE Kind(y)
      BY <1>7, <3>4
    <3> QED
      BY <3>1, <3>2, <3>3, <3>4, PlacesAre
  <2>2. ASSUME NEW y, NEW z, Kind(y), Kind(z), mv[y] = mv[z] PROVE y = z
    <3>1. CASE \E d \in Cells : d # x /\ y = Own(d) /\ mv[y] = Own(d)
      BY <2>2, <3>1, PlacesDiffer
    <3>2. CASE \E d \in Cells, i \in Entries : d # x /\ y = Entry(d, i)
                                            /\ mv[y] = IF d = c THEN Entry(x, i) ELSE Entry(d, i)
      BY <2>2, <3>2, PlacesDiffer
    <3>3. CASE \E d \in Slots : y = File(d) /\ mv[y] = File(d)
      BY <2>2, <3>3, PlacesDiffer
    <3>4. CASE y = HAND /\ mv[y] = Own(x)
      BY <2>2, <3>4, PlacesDiffer
    <3> QED
      BY <2>2, <3>1, <3>2, <3>3, <3>4
  <2> HIDE DEF Kind
  <2> QED
    BY <2>1, <2>2
<1>17. Once(g, Cells)
  BY <1>1, <1>15, <1>16, OnceMoved
<1>18. FilesUsed(n)
  BY <1>1, GetSegmentStep DEF FilesUsed
<1>19. MemFrame(n)
  BY GetSegmentStep DEF MemFrame, Emptying, Emptied, FrameIs
<1> QED
  BY <1>17, <1>18, <1>19, MemParts DEF g

(* Whatever a process does, no block is in two places.                     *)
LEMMA MemStep ==
  ASSUME Single, TypeInv, ~wild, ~wild', Step(me), NEW m, m = Now, NEW n, n = Now', MemOK(m)
  PROVE  MemOK(n)
<1>1. ~Astray(me)
  BY DEF Astray, GoesWild
<1>2. ASSUME NEW fd \in Slots, Open(me, fd) \/ PutChar(me, fd) \/ Close(me, fd) \/ Delete(me, fd)
      PROVE  MemOK(n)
  BY <1>2, OpenMem, PutCharMem, CloseMem, DeleteMem
<1> QED
  BY <1>1, <1>2, SeekMem, WriteMem, WriteFailsMem, DirLockMem, DirDoneMem, ReadHeadMem, FreeLockMem, CreateMem,
     SlotMem, AssignMem, GetEntryMem, GetLastMem, LastDoneMem, GetSegmentMem, UnswizzleMem, ClosedMem,
     UnlinkMem, UnlinkedMem, RefusedMem, PutFirstMem, PutSegmentMem, RelinkMem, PutEntryMem DEF Step

-----------------------------------------------------------------------------
(* Memory and disk stay matched: one lemma per action.                     *)

(* The list of a disk goes the same way on another that has the same       *)
(* superblock and the same segments on it, and no new ones.                *)
LEMMA ListSame ==
  ASSUME NEW d, NEW e, e[SUPERBLOCKNUM].freelst = d[SUPERBLOCKNUM].freelst,
         \A b \in Blocks : OnList(d, b) => e[b] = d[b],
         \A b \in Blocks : e[b] = d[b] \/ (d[b].type = "seg" /\ OnList(d, b)) \/ e[b].type # "seg"
  PROVE  /\ \A i \in 0 .. DISKBLOCKTOTAL : Chain(e)[i] = Chain(d)[i]
         /\ \A b \in Blocks : OnList(e, b) <=> OnList(d, b)
<1>1. \A i \in 0 .. DISKBLOCKTOTAL : Chain(e)[i] = Chain(d)[i]
  <2> SUFFICES ASSUME \E i \in 0 .. DISKBLOCKTOTAL : Chain(e)[i] # Chain(d)[i] PROVE FALSE
    OBVIOUS
  <2> DEFINE Bad == {i \in 0 .. DISKBLOCKTOTAL : Chain(e)[i] # Chain(d)[i]}
  <2>1. Bad \in SUBSET Nat /\ Bad # {}
    BY Constants
  <2> HIDE DEF Bad
  <2>2. PICK i \in Bad : \A j \in Bad : i <= j
    BY <2>1, LeastNumber
  <2> USE DEF Bad
  <2>3. i # 0
    BY <2>2, ChainStep
  <2>4. i - 1 \in 0 .. DISKBLOCKTOTAL - 1 /\ i - 1 \in 0 .. DISKBLOCKTOTAL /\ (i - 1) + 1 = i /\ i - 1 \notin Bad
    BY <2>2, <2>3, Constants
  <2>5. Chain(e)[i - 1] = Chain(d)[i - 1]
    BY <2>4
  <2> DEFINE x == Chain(d)[i - 1]
  <2>6. NextOf(e, x) = NextOf(d, x)
    <3>1. CASE OnList(d, x)
      BY <3>1 DEF NextOf, OnList
    <3>2. CASE ~OnList(d, x)
      <4>1. ~(x \in Blocks /\ d[x].type = "seg")
        BY <2>4, <3>2 DEF OnList
      <4>2. ~(x \in Blocks /\ e[x].type = "seg")
        BY <4>1
      <4> QED
        BY <4>1, <4>2 DEF NextOf
    <3> QED
      BY <3>1, <3>2
  <2>7. Chain(e)[i] = NextOf(e, x) /\ Chain(d)[i] = NextOf(d, x)
    BY <2>4, <2>5, ChainStep
  <2> QED
    BY <2>2, <2>6, <2>7
<1>2. ASSUME NEW b \in Blocks PROVE OnList(e, b) <=> OnList(d, b)
  BY <1>1 DEF OnList
<1> QED
  BY <1>1, <1>2

(* A disk with the same list on it, and no new segment in it, is as sound. *)
LEMMA ListOKSame ==
  ASSUME NEW d, NEW e, NEW fb, ListOK(d, fb), e[SUPERBLOCKNUM].freelst = d[SUPERBLOCKNUM].freelst,
         \A b \in Blocks : OnList(d, b) => e[b] = d[b],
         \A b \in Blocks : e[b] = d[b] \/ (d[b].type = "seg" /\ OnList(d, b)) \/ e[b].type # "seg"
  PROVE  ListOK(e, fb)
<1>1. \A b \in Blocks : OnList(e, b) <=> OnList(d, b)
  BY ListSame
<1>2. \A b \in Blocks : OnList(e, b) => e[b].seg = d[b].seg
  BY <1>1
<1>3. ASSUME NEW x \in Places(Blocks), OnDisk(e, fb)[x] \in Blocks PROVE OnDisk(e, fb)[x] = OnDisk(d, fb)[x]
  <2>1. ASSUME NEW c \in Blocks, x = Own(c) PROVE OnDisk(e, fb)[x] = OnDisk(d, fb)[x]
    BY <1>1, <1>2, <2>1, DiskAt
  <2>2. ASSUME NEW c \in Blocks, NEW i \in Entries, x = Entry(c, i) PROVE OnDisk(e, fb)[x] = OnDisk(d, fb)[x]
    <3>1. OnDisk(e, fb)[Entry(c, i)] = IF OnList(e, c) /\ i < e[c].seg.count THEN e[c].seg.free[i] ELSE NULL
      BY DiskAt
    <3>2. OnDisk(d, fb)[Entry(c, i)] = IF OnList(d, c) /\ i < d[c].seg.count THEN d[c].seg.free[i] ELSE NULL
      BY DiskAt
    <3> QED
      BY <1>1, <1>2, <2>2, <3>1, <3>2
  <2>3. ASSUME NEW fd \in Slots, x = File(fd) PROVE OnDisk(e, fb)[x] = OnDisk(d, fb)[x]
    BY <2>3, DiskAt
  <2>4. ASSUME x = HAND PROVE OnDisk(e, fb)[x] = OnDisk(d, fb)[x]
    BY <2>4, DiskAt
  <2> QED
    BY <2>1, <2>2, <2>3, <2>4, PlacesAre
<1>4. Once(OnDisk(e, fb), Blocks)
  BY <1>3, OnceLess DEF ListOK
<1> QED
  BY <1>1, <1>2, <1>4 DEF ListOK

(* Fewer files.                                                            *)
LEMMA ListOKLess ==
  ASSUME NEW d, NEW fb, NEW gb, ListOK(d, fb), \A fd \in Slots : gb[fd] \in Blocks => gb[fd] = fb[fd]
  PROVE  ListOK(d, gb)
<1>1. ASSUME NEW x \in Places(Blocks), OnDisk(d, gb)[x] \in Blocks PROVE OnDisk(d, gb)[x] = OnDisk(d, fb)[x]
  <2>1. ASSUME NEW c \in Blocks, x = Own(c) PROVE OnDisk(d, gb)[x] = OnDisk(d, fb)[x]
    BY <2>1, DiskAt
  <2>2. ASSUME NEW c \in Blocks, NEW i \in Entries, x = Entry(c, i) PROVE OnDisk(d, gb)[x] = OnDisk(d, fb)[x]
    BY <2>2, DiskAt
  <2>3. ASSUME NEW fd \in Slots, x = File(fd) PROVE OnDisk(d, gb)[x] = OnDisk(d, fb)[x]
    BY <1>1, <2>3, DiskAt
  <2>4. ASSUME x = HAND PROVE OnDisk(d, gb)[x] = OnDisk(d, fb)[x]
    BY <2>4, DiskAt
  <2> QED
    BY <2>1, <2>2, <2>3, <2>4, PlacesAre
<1> QED
  BY <1>1, OnceLess DEF ListOK

(* When the list on the disk is made of the segments of memory, no block   *)
(* is in two places there either.                                          *)
ListThere(m) ==
  /\ m.disk[SUPERBLOCKNUM].freelst = NULL \/ \E c \in m.live : m.disk[SUPERBLOCKNUM].freelst = m.seg[c].num
  /\ \A c \in m.live : SegMatch(m, c) /\ RealNext(m, c) \in m.live \cup {NULL}

(* A segment on the list of the disk is one in memory.                     *)
LEMMA OnListThere ==
  ASSUME NEW m, ListThere(m), NEW b, OnList(m.disk, b)
  PROVE  \E c \in m.live : m.seg[c].num = b
<1> DEFINE There(x) == x = NULL \/ \E c \in m.live : x = m.seg[c].num
           ch == Chain(m.disk)
           Bad == {i \in 0 .. DISKBLOCKTOTAL : ~There(ch[i])}
<1>1. Bad = {}
  <2> SUFFICES ASSUME Bad # {} PROVE FALSE
    OBVIOUS
  <2>1. Bad \in SUBSET Nat
    BY Constants
  <2>2. PICK i \in Bad : \A j \in Bad : i <= j
    <3> HIDE DEF Bad
    <3> QED
      BY <2>1, LeastNumber
  <2>3. There(ch[0])
    BY ChainStep DEF ListThere
  <2>4. i # 0
    BY <2>2, <2>3
  <2>5. i - 1 \in 0 .. DISKBLOCKTOTAL - 1 /\ i - 1 \in 0 .. DISKBLOCKTOTAL /\ (i - 1) + 1 = i /\ i - 1 \notin Bad
    BY <2>2, <2>4, Constants
  <2>6. There(ch[i - 1]) /\ ch[i] = NextOf(m.disk, ch[i - 1])
    BY <2>5, ChainStep
  <2>7. CASE ch[i - 1] = NULL
    BY <2>2, <2>6, <2>7, NotBlocks DEF NextOf
  <2>8. ASSUME NEW c \in m.live, ch[i - 1] = m.seg[c].num PROVE There(ch[i])
    <3>1. ch[i] = NumberOf(m, RealNext(m, c)) /\ RealNext(m, c) \in m.live \cup {NULL}
      BY <2>6, <2>8, Zenon DEF ListThere, SegMatch, NextOf
    <3> QED
      BY <3>1 DEF NumberOf
  <2> QED
    BY <2>2, <2>6, <2>7, <2>8
<1>2. PICK i \in 0 .. DISKBLOCKTOTAL : ch[i] = b
  BY DEF OnList
<1> QED
  BY <1>1, <1>2, NotBlocks DEF OnList

(* If the list on the disk is what memory holds, it is sound.              *)
LEMMA ThereListOK ==
  ASSUME NEW m, m.live \subseteq Cells, m.seg \in [Cells -> Segments], DiskOK(m.disk), Once(InMemory(m), Cells), ListThere(m)
  PROVE  ListOK(m.disk, FilesIn(m))
<1> DEFINE d == m.disk
           fb == FilesIn(m)
           h == InMemory(m)
           g == OnDisk(d, fb)
           cell == [b \in Blocks |-> CHOOSE c \in m.live : m.seg[c].num = b]
           mv == [x \in Places(Blocks) |-> IF x[1] = "own" THEN Own(cell[x[2]])
                                           ELSE IF x[1] = "entry" THEN Entry(cell[x[2]], x[3]) ELSE x]
<1>1. ASSUME NEW b \in Blocks, OnList(d, b)
      PROVE  /\ cell[b] \in m.live /\ cell[b] \in Cells /\ m.seg[cell[b]].num = b /\ SegMatch(m, cell[b])
             /\ d[b].seg.num = b
  <2>1. PICK c \in m.live : m.seg[c].num = b
    BY <1>1, OnListThere
  <2>2. cell[b] = CHOOSE x \in m.live : m.seg[x].num = b
    BY <1>1
  <2>3. cell[b] \in m.live /\ m.seg[cell[b]].num = b
    <3> HIDE DEF cell
    <3> QED
      BY <2>1, <2>2
  <2> HIDE DEF cell
  <2>4. SegMatch(m, cell[b])
    BY <2>3 DEF ListThere
  <2> QED
    BY <2>3, <2>4 DEF SegMatch
<1> HIDE DEF cell
<1>2. ASSUME NEW b \in Blocks, OnList(d, b), NEW i \in Entries, d[b].seg.free[i] \in Blocks
      PROVE  i < d[b].seg.count /\ i < m.seg[cell[b]].count /\ m.seg[cell[b]].free[i] = d[b].seg.free[i]
  <2>1. cell[b] \in m.live /\ m.seg[cell[b]].num = b /\ SegMatch(m, cell[b])
    BY <1>1, <1>2
  <2>2. d[b].seg.count = m.seg[cell[b]].count /\ Covers(m.seg[cell[b]], d[b].seg, i)
    BY <2>1 DEF SegMatch
  <2> QED
    BY <1>2, <2>2 DEF Covers
<1>3. ASSUME NEW b \in Blocks, OnList(d, b), NEW i \in Entries, i >= d[b].seg.count PROVE d[b].seg.free[i] \notin Blocks
  <2>1. d[b].seg.count \in Int /\ i \in Int
    BY <1>1, <1>3 DEF DiskOK, Segments, Blocks, OnList, Entries
  <2> QED
    BY <1>2, <1>3, <2>1
<1>4. ASSUME NEW b \in Blocks PROVE mv[Own(b)] = Own(cell[b])
  <2>1. Own(b)[1] = "own" /\ Own(b)[2] = b
    BY DEF Own
  <2> QED
    BY <2>1, PlacesAre
<1>5. ASSUME NEW b \in Blocks, NEW i \in Entries PROVE mv[Entry(b, i)] = Entry(cell[b], i)
  <2>1. Entry(b, i)[1] = "entry" /\ Entry(b, i)[2] = b /\ Entry(b, i)[3] = i
    BY DEF Entry
  <2> QED
    BY <2>1, PlacesAre
<1>6. ASSUME NEW fd \in Slots PROVE mv[File(fd)] = File(fd)
  <2>1. File(fd)[1] = "file"
    BY DEF File
  <2> QED
    BY <2>1, PlacesAre
<1> HIDE DEF mv
<1>7. ASSUME NEW b \in Blocks, g[Own(b)] \in Blocks PROVE OnList(d, b) /\ h[Own(cell[b])] = g[Own(b)]
  <2>1. OnList(d, b) /\ g[Own(b)] = d[b].seg.num
    BY <1>7, DiskAt, NotBlocks
  <2> QED
    BY <1>1, <2>1, MemAt, Zenon
<1>8. ASSUME NEW b \in Blocks, NEW i \in Entries, g[Entry(b, i)] \in Blocks
      PROVE  OnList(d, b) /\ h[Entry(cell[b], i)] = g[Entry(b, i)]
  <2>1. OnList(d, b) /\ g[Entry(b, i)] = d[b].seg.free[i]
    BY <1>8, DiskAt, NotBlocks
  <2>2. cell[b] \in m.live /\ cell[b] \in Cells /\ i < m.seg[cell[b]].count /\ m.seg[cell[b]].free[i] = d[b].seg.free[i]
    BY <1>1, <1>2, <1>8, <2>1
  <2>3. h[Entry(cell[b], i)] = m.seg[cell[b]].free[i]
    BY <2>2, MemAt, Zenon
  <2> QED
    BY <2>1, <2>2, <2>3
<1>9. ASSUME NEW fd \in Slots PROVE h[File(fd)] = g[File(fd)]
  BY MemAt, DiskAt DEF FilesIn
<1>10. g[HAND] \notin Blocks
  BY DiskAt, NotBlocks
<1> DEFINE Kind(x) == \/ \E b \in Blocks : OnList(d, b) /\ x = Own(b) /\ mv[x] = Own(cell[b])
                      \/ \E b \in Blocks, i \in Entries : OnList(d, b) /\ x = Entry(b, i) /\ mv[x] = Entry(cell[b], i)
                      \/ \E fd \in Slots : x = File(fd) /\ mv[x] = File(fd)
<1>11. ASSUME NEW x \in Places(Blocks), g[x] \in Blocks PROVE mv[x] \in Places(Cells) /\ h[mv[x]] = g[x] /\ Kind(x)
  <2>1. ASSUME NEW b \in Blocks, x = Own(b) PROVE mv[x] \in Places(Cells) /\ h[mv[x]] = g[x] /\ Kind(x)
    <3>1. OnList(d, b) /\ h[Own(cell[b])] = g[Own(b)]
      BY <1>7, <1>11, <2>1
    <3>2. Own(cell[b]) \in Places(Cells)
      BY <1>1, <3>1, PlacesAre
    <3> QED
      BY <1>4, <2>1, <3>1, <3>2
  <2>2. ASSUME NEW b \in Blocks, NEW i \in Entries, x = Entry(b, i)
        PROVE  mv[x] \in Places(Cells) /\ h[mv[x]] = g[x] /\ Kind(x)
    <3>1. OnList(d, b) /\ h[Entry(cell[b], i)] = g[Entry(b, i)]
      BY <1>8, <1>11, <2>2
    <3>2. Entry(cell[b], i) \in Places(Cells)
      BY <1>1, <3>1, PlacesAre
    <3> QED
      BY <1>5, <2>2, <3>1, <3>2
  <2>3. ASSUME NEW fd \in Slots, x = File(fd) PROVE mv[x] \in Places(Cells) /\ h[mv[x]] = g[x] /\ Kind(x)
    <3>1. File(fd) \in Places(Cells)
      BY PlacesAre
    <3> QED
      BY <1>6, <1>9, <2>3, <3>1
  <2>4. x # HAND
    BY <1>10, <1>11
  <2> QED
    BY <2>1, <2>2, <2>3, <2>4, PlacesAre
<1>12. ASSUME NEW b \in Blocks, NEW c \in Blocks, OnList(d, b), OnList(d, c), cell[b] = cell[c] PROVE b = c
  BY <1>1, <1>12
<1>13. ASSUME NEW x, NEW y, Kind(x), Kind(y), mv[x] = mv[y] PROVE x = y
  <2>1. CASE \E b \in Blocks : OnList(d, b) /\ x = Own(b) /\ mv[x] = Own(cell[b])
    BY <1>12, <1>13, <2>1, PlacesDiffer
  <2>2. CASE \E b \in Blocks, i \in Entries : OnList(d, b) /\ x = Entry(b, i) /\ mv[x] = Entry(cell[b], i)
    BY <1>12, <1>13, <2>2, PlacesDiffer
  <2>3. CASE \E fd \in Slots : x = File(fd) /\ mv[x] = File(fd)
    BY <1>13, <2>3, PlacesDiffer
  <2> QED
    BY <1>13, <2>1, <2>2, <2>3
<1> HIDE DEF Kind, g, h
<1>14. Once(g, Blocks)
  <2>1. \A x \in Places(Blocks) : g[x] \in Blocks => mv[x] \in Places(Cells) /\ h[mv[x]] = g[x]
    BY <1>11
  <2>2. \A x, y \in Places(Blocks) : g[x] \in Blocks /\ g[y] \in Blocks /\ mv[x] = mv[y] => x = y
    BY <1>11, <1>13
  <2> QED
    BY <2>1, <2>2, OnceMoved DEF h
<1> QED
  BY <1>1, <1>3, <1>14 DEF ListOK, g

(* The same place in the list: nothing about the links changes.            *)
SamePhase(f, g) ==
  /\ Swapped(f) = Swapped(g) /\ Puts(f) = Puts(g) /\ Emptying(f) = Emptying(g) /\ Emptied(f) = Emptied(g)
  /\ Starting(f) = Starting(g) /\ Started(f) = Started(g) /\ Unwritten(f) = Unwritten(g)
  /\ Swapped(f) \/ Puts(f) \/ Emptying(f) \/ Emptied(f) => f.cell = g.cell /\ f.save = g.save
HeadRead(m) == m.f.call \in {"create", "delete"} /\ m.f.at \in {"freelock", "get", "put"} => m.f.cell = m.head

(* A segment that is the first one is being put; one that is not yet       *)
(* written has been swapped.                                               *)
LEMMA PhaseCases ==
  ASSUME NEW f
  PROVE  /\ Starting(f) \/ Started(f) => Puts(f)
         /\ Unwritten(f) => Swapped(f)
  BY DEF Starting, Started, Puts, Unwritten, Swapped

(* The links are the same if memory and the place in the list are.         *)
LEMMA SameLinks ==
  ASSUME NEW m, NEW n, n.seg = m.seg, n.live = m.live, n.head = m.head, SamePhase(m.f, n.f)
  PROVE  /\ \A c \in m.live : RealNext(n, c) = RealNext(m, c)
         /\ HeadOf(n) = HeadOf(m)
         /\ \A c : NumberOf(n, c) = NumberOf(m, c)
         /\ \A c : Pending(n.f, c) = Pending(m.f, c)
<1>1. \A c \in m.live : RealNext(n, c) = RealNext(m, c)
  BY DEF SamePhase, RealNext
<1>2. HeadOf(n) = HeadOf(m)
  BY PhaseCases DEF SamePhase, HeadOf
<1>3. \A c : NumberOf(n, c) = NumberOf(m, c)
  BY DEF NumberOf
<1>4. \A c : Pending(n.f, c) = Pending(m.f, c)
  BY PhaseCases DEF SamePhase, Pending
<1> QED
  BY <1>1, <1>2, <1>3, <1>4

(* A step that changes neither the list nor its blocks on the disk keeps   *)
(* them matched.                                                           *)
LEMMA QuietMatch ==
  ASSUME NEW m, NEW n, Match(m), n.seg = m.seg, n.live = m.live, n.head = m.head, SamePhase(m.f, n.f), HeadRead(n),
         n.disk[SUPERBLOCKNUM] = m.disk[SUPERBLOCKNUM],
         \A c \in m.live : m.seg[c].num \in Blocks => n.disk[m.seg[c].num] = m.disk[m.seg[c].num]
  PROVE  Match(n)
<1>1. /\ \A c \in m.live : RealNext(n, c) = RealNext(m, c)
      /\ HeadOf(n) = HeadOf(m)
      /\ \A c : NumberOf(n, c) = NumberOf(m, c)
      /\ \A c : Pending(n.f, c) = Pending(m.f, c)
  BY SameLinks
<1>2. ListLinks(n)
  BY <1>1 DEF Match, ListLinks
<1>3. FrameLinks(n)
  <2>1. Swapped(n.f) => n.f.cell \in n.live /\ n.seg[n.f.cell].next = NumberOf(n, n.f.save)
    BY <1>1 DEF Match, FrameLinks, SamePhase
  <2>2. Puts(n.f) => n.f.cell \in n.live /\ n.seg[n.f.cell].next = NULL
    BY DEF Match, FrameLinks, SamePhase
  <2>3. Emptying(n.f) \/ Emptied(n.f) => n.head = NULL
    BY DEF Match, FrameLinks, SamePhase
  <2>4. Starting(n.f) \/ Started(n.f) => n.f.save = n.f.cell
    BY PhaseCases DEF Match, FrameLinks, SamePhase
  <2>5. Starting(n.f) => n.head = n.seg[n.f.cell].num
    BY PhaseCases DEF Match, FrameLinks, SamePhase
  <2> QED
    BY <2>1, <2>2, <2>3, <2>4, <2>5 DEF FrameLinks, HeadRead
<1>4. SuperMatch(n)
  BY <1>1 DEF Match, SuperMatch, SamePhase
<1>5. ASSUME NEW c \in n.live, ~Pending(n.f, c) PROVE SegMatch(n, c)
  <2>1. SegMatch(m, c) /\ m.seg[c].num \in Blocks
    BY <1>1, <1>5 DEF Match, SegMatch
  <2>2. n.disk[n.seg[c].num] = m.disk[m.seg[c].num] /\ RealNext(n, c) = RealNext(m, c)
    BY <1>1, <2>1
  <2> QED
    BY <1>1, <2>1, <2>2, Zenon DEF SegMatch
<1> QED
  BY <1>2, <1>3, <1>4, <1>5 DEF Match

(* The parts of the invariant of the disk.                                 *)
SaneSegs(m) ==
  /\ \A c \in m.live : Sane(m.seg[c].num)
  /\ \A c \in m.live, i \in Entries :
       Plain(m.seg[c].free[i]) /\ (i >= m.seg[c].count => m.seg[c].free[i] \notin Blocks)
SaneDisk(m) == \A b \in Blocks : m.disk[b].type = "seg" => \A i \in Entries : Plain(m.disk[b].seg.free[i])
SaneFiles(m) == \A fd \in Slots : Sane(m.files[fd].block)
SaneFrame(m) ==
  /\ Holding(m.f) => Sane(m.f.block)
  /\ m.f.call = "close" => "used" \in m.files[m.f.fd].state
  /\ m.f.at = "write" => m.current = Aim(m)
  /\ ~(m.f.call = "delete" /\ m.f.at = "refused")
StuckOK(m) ==
  Stuck(m) => /\ m.f.at = "assign" => m.f.block = SYSERR
              /\ ~(m.f.call = "delete" /\ m.f.at \in {"seek", "write", "dirdone"})
(* The invariant of the disk is those parts and the match.                 *)
LEMMA DiskParts ==
  ASSUME NEW m
  PROVE  DiskInv(m) <=> /\ SaneSegs(m) /\ SaneDisk(m) /\ SaneFiles(m) /\ SaneFrame(m)
                        /\ DirOK(m) /\ (~Stuck(m) => Match(m)) /\ StuckOK(m)
                        /\ (m.f.call # "delete" => ListOK(m.disk, FilesIn(m)))
  BY DEF DiskInv, SaneOK, SaneSegs, SaneDisk, SaneFiles, SaneFrame, StuckOK

(* The block of a file.                                                    *)
LEMMA FilesInAre == ASSUME NEW m, NEW fd \in Slots PROVE FilesIn(m)[fd] = BlockOf(m, fd)
  BY DEF FilesIn

(* Where nothing waits to be written, what is on the disk is what is in    *)
(* memory.                                                                 *)
LEMMA MatchThere ==
  ASSUME NEW m, Match(m), \A c \in m.live : ~Pending(m.f, c)
  PROVE  ListThere(m)
<1>1. \A c \in m.live : SegMatch(m, c) /\ RealNext(m, c) \in m.live \cup {NULL}
  BY DEF Match, ListLinks
<1>2. m.disk[SUPERBLOCKNUM].freelst = NULL \/ \E c \in m.live : m.disk[SUPERBLOCKNUM].freelst = m.seg[c].num
  BY DEF Match, ListLinks, SuperMatch, NumberOf
<1> QED
  BY <1>1, <1>2 DEF ListThere


(* A seek goes where the structure belongs; otherwise it would have gone   *)
(* wild.                                                                   *)
LEMMA SeekDisk ==
  ASSUME Single, TypeInv, TypeInv', ~wild, ~wild', Seek(me), NEW m, m = Now, NEW n, n = Now',
         MemOK(m), MemOK(n), DiskInv(m), ~unsaved'
  PROVE  DiskInv(n)
<1>1. /\ SaneSegs(m) /\ SaneDisk(m) /\ SaneFiles(m) /\ SaneFrame(m) /\ DirOK(m) /\ (~Stuck(m) => Match(m))
      /\ StuckOK(m) /\ (m.f.call # "delete" => ListOK(m.disk, FilesIn(m)))
  BY DiskParts
<1>2. /\ m.f \in Frames /\ PhaseOK(m.f) /\ m.files \in [Slots -> Files] /\ m.lock \in {me, "free"} /\ m.f.fd \in Slots
      /\ (InList(m.f) => m.lock = me) /\ me # "free"
  BY NowTyped, OneProcess, Constants DEF Typed, FrameOK, Frames
<1>3. SaneSegs(n) /\ SaneDisk(n)
  BY <1>1, SeekStep DEF SaneSegs, SaneDisk
<1>4. SaneFiles(n)
  BY <1>1, <1>2, SeekStep DEF SaneFiles, SaneFrame, Holding
<1>5. SaneFrame(n)
  BY <1>1, <1>2, SeekStep DEF SaneFrame, SaneFiles, Sane, Holding, Swapped, Aim, FrameIs, PhaseOK, MemOK
<1>6. DirOK(n)
  BY <1>1, <1>2, SeekStep DEF DirOK, Deleting, Making, FrameIs, PhaseOK
<1>7. ~Stuck(n) => ~Stuck(m)
  BY <1>1, <1>2, SeekStep DEF Stuck, InList, FrameIs, PhaseOK
<1>8. ~Stuck(n) => SamePhase(m.f, n.f)
  BY <1>1, <1>2, SeekStep DEF SamePhase, Swapped, Puts, Emptying, Emptied, Starting, Started, Unwritten, FrameIs, PhaseOK, Stuck, InList
<1>9. ~Stuck(n) => Match(n)
  <2> SUFFICES ASSUME ~Stuck(n) PROVE Match(n)
    OBVIOUS
  <2>1. Match(m)
    BY <1>1, <1>7
  <2>2. HeadRead(m)
    BY <2>1 DEF Match, FrameLinks, HeadRead
  <2>3. HeadRead(n)
    BY <1>2, <2>2, SeekStep DEF HeadRead, FrameIs, PhaseOK
  <2>4. n.seg = m.seg /\ n.live = m.live /\ n.head = m.head /\ n.disk = m.disk
    BY SeekStep
  <2> QED
    BY <1>8, <2>1, <2>3, <2>4, QuietMatch
<1>10. StuckOK(n)
  BY <1>1, <1>2, SeekStep DEF StuckOK, Stuck, InList, FrameIs, PhaseOK
<1>11. n.f.call # "delete" => ListOK(n.disk, FilesIn(n))
  <2>1. n.f.call # "delete" => m.f.call # "delete"
    BY SeekStep DEF FrameIs
  <2>2. \A x \in Slots : BlockOf(n, x) \in Blocks => BlockOf(n, x) = BlockOf(m, x)
    BY <1>2, SeekStep, NotBlocks DEF BlockOf, Making, FrameIs, PhaseOK, Files
  <2>3. \A x \in Slots : FilesIn(n)[x] \in Blocks => FilesIn(n)[x] = FilesIn(m)[x]
    BY <2>2, FilesInAre
  <2>4. n.disk = m.disk
    BY SeekStep
  <2> QED
    BY <1>1, <2>1, <2>3, <2>4, ListOKLess
<1> QED
  BY <1>3, <1>4, <1>5, <1>6, <1>9, <1>10, <1>11, DiskParts

(* The lock of the directory changes nothing of the list.                  *)
LEMMA DirLockDisk ==
  ASSUME Single, TypeInv, TypeInv', ~wild, ~wild', DirLock(me), NEW m, m = Now, NEW n, n = Now',
         MemOK(m), MemOK(n), DiskInv(m), ~unsaved'
  PROVE  DiskInv(n)
<1>1. /\ SaneSegs(m) /\ SaneDisk(m) /\ SaneFiles(m) /\ SaneFrame(m) /\ DirOK(m) /\ (~Stuck(m) => Match(m))
      /\ StuckOK(m) /\ (m.f.call # "delete" => ListOK(m.disk, FilesIn(m)))
  BY DiskParts
<1>2. /\ m.f \in Frames /\ PhaseOK(m.f) /\ m.files \in [Slots -> Files] /\ m.lock \in {me, "free"} /\ m.f.fd \in Slots
      /\ (InList(m.f) => m.lock = me) /\ me # "free"
  BY NowTyped, OneProcess, Constants DEF Typed, FrameOK, Frames
<1>3. SaneSegs(n) /\ SaneDisk(n)
  BY <1>1, DirLockStep DEF SaneSegs, SaneDisk
<1>4. SaneFiles(n)
  BY <1>1, <1>2, DirLockStep DEF SaneFiles, SaneFrame, Holding
<1>5. SaneFrame(n)
  BY <1>1, <1>2, DirLockStep DEF SaneFrame, SaneFiles, Sane, Holding, Swapped, Aim, FrameIs, PhaseOK, MemOK
<1>6. DirOK(n)
  BY <1>1, <1>2, DirLockStep DEF DirOK, Deleting, Making, FrameIs, PhaseOK
<1>7. ~Stuck(n) => ~Stuck(m)
  BY <1>1, <1>2, DirLockStep DEF Stuck, InList, FrameIs, PhaseOK
<1>8. ~Stuck(n) => SamePhase(m.f, n.f)
  BY <1>1, <1>2, DirLockStep DEF SamePhase, Swapped, Puts, Emptying, Emptied, Starting, Started, Unwritten, FrameIs, PhaseOK, Stuck, InList
<1>9. ~Stuck(n) => Match(n)
  <2> SUFFICES ASSUME ~Stuck(n) PROVE Match(n)
    OBVIOUS
  <2>1. Match(m)
    BY <1>1, <1>7
  <2>2. HeadRead(m)
    BY <2>1 DEF Match, FrameLinks, HeadRead
  <2>3. HeadRead(n)
    BY <1>2, <2>2, DirLockStep DEF HeadRead, FrameIs, PhaseOK
  <2>4. n.seg = m.seg /\ n.live = m.live /\ n.head = m.head /\ n.disk = m.disk
    BY DirLockStep
  <2> QED
    BY <1>8, <2>1, <2>3, <2>4, QuietMatch
<1>10. StuckOK(n)
  BY <1>1, <1>2, DirLockStep DEF StuckOK, Stuck, InList, FrameIs, PhaseOK
<1>11. n.f.call # "delete" => ListOK(n.disk, FilesIn(n))
  <2>1. n.f.call # "delete" => m.f.call # "delete"
    BY DirLockStep DEF FrameIs
  <2>2. \A x \in Slots : BlockOf(n, x) \in Blocks => BlockOf(n, x) = BlockOf(m, x)
    BY <1>2, DirLockStep, NotBlocks DEF BlockOf, Making, FrameIs, PhaseOK, Files
  <2>3. \A x \in Slots : FilesIn(n)[x] \in Blocks => FilesIn(n)[x] = FilesIn(m)[x]
    BY <2>2, FilesInAre
  <2>4. n.disk = m.disk
    BY DirLockStep
  <2> QED
    BY <1>1, <2>1, <2>3, <2>4, ListOKLess
<1> QED
  BY <1>3, <1>4, <1>5, <1>6, <1>9, <1>10, <1>11, DiskParts

(* The directory has been written, so at the end of a fileDelete the list  *)
(* on the disk is sound again.                                             *)
LEMMA DirDoneDisk ==
  ASSUME Single, TypeInv, TypeInv', ~wild, ~wild', DirDone(me), NEW m, m = Now, NEW n, n = Now',
         MemOK(m), MemOK(n), DiskInv(m), ~unsaved'
  PROVE  DiskInv(n)
<1>1. /\ SaneSegs(m) /\ SaneDisk(m) /\ SaneFiles(m) /\ SaneFrame(m) /\ DirOK(m) /\ (~Stuck(m) => Match(m))
      /\ StuckOK(m) /\ (m.f.call # "delete" => ListOK(m.disk, FilesIn(m)))
  BY DiskParts
<1>2. /\ m.f \in Frames /\ PhaseOK(m.f) /\ m.files \in [Slots -> Files] /\ m.lock \in {me, "free"} /\ m.f.fd \in Slots
      /\ (InList(m.f) => m.lock = me) /\ me # "free"
  BY NowTyped, OneProcess, Constants DEF Typed, FrameOK, Frames
<1>3. SaneSegs(n) /\ SaneDisk(n)
  BY <1>1, DirDoneStep DEF SaneSegs, SaneDisk
<1>4. SaneFiles(n)
  BY <1>1, <1>2, DirDoneStep DEF SaneFiles, SaneFrame, Holding
<1>5. SaneFrame(n)
  BY <1>1, <1>2, DirDoneStep DEF SaneFrame, SaneFiles, Sane, Holding, Swapped, Aim, FrameIs, PhaseOK, MemOK
<1>6. DirOK(n)
  BY <1>1, <1>2, DirDoneStep DEF DirOK, Deleting, Making, FrameIs, PhaseOK
<1>7. ~Stuck(n) => ~Stuck(m)
  BY <1>1, <1>2, DirDoneStep DEF Stuck, InList, FrameIs, PhaseOK
<1>8. ~Stuck(n) => SamePhase(m.f, n.f)
  BY <1>1, <1>2, DirDoneStep DEF SamePhase, Swapped, Puts, Emptying, Emptied, Starting, Started, Unwritten, FrameIs, PhaseOK, Stuck, InList
<1>9. ~Stuck(n) => Match(n)
  <2> SUFFICES ASSUME ~Stuck(n) PROVE Match(n)
    OBVIOUS
  <2>1. Match(m)
    BY <1>1, <1>7
  <2>2. HeadRead(m)
    BY <2>1 DEF Match, FrameLinks, HeadRead
  <2>3. HeadRead(n)
    BY <1>2, <2>2, DirDoneStep DEF HeadRead, FrameIs, PhaseOK
  <2>4. n.seg = m.seg /\ n.live = m.live /\ n.head = m.head /\ n.disk = m.disk
    BY DirDoneStep
  <2> QED
    BY <1>8, <2>1, <2>3, <2>4, QuietMatch
<1>10. StuckOK(n)
  BY <1>1, <1>2, DirDoneStep DEF StuckOK, Stuck, InList, FrameIs, PhaseOK
<1>11. ListOK(n.disk, FilesIn(n))
  <2>1. CASE m.f.call # "delete"
    <3>1. \A x \in Slots : FilesIn(n)[x] = FilesIn(m)[x]
      BY <1>2, <2>1, DirDoneStep, FilesInAre DEF BlockOf, Making, FrameIs, PhaseOK
    <3> QED
      BY <1>1, <2>1, <3>1, DirDoneStep, ListOKLess
  <2>2. CASE m.f.call = "delete"
    <3>1. ~Stuck(m)
      BY <1>1, <2>2, DirDoneStep DEF StuckOK
    <3>2. ~Stuck(n)
      BY <3>1, <1>2, <2>2, DirDoneStep DEF Stuck, InList, FrameIs
    <3>3. ListThere(n)
      BY <1>9, <3>2, DirDoneStep, MatchThere DEF Pending, Unwritten, Puts, FrameIs
    <3>4. Typed(n) /\ Once(InMemory(n), Cells)
      BY NextTyped, MemParts
    <3> QED
      BY <3>3, <3>4, ThereListOK DEF Typed
  <2> QED
    BY <2>1, <2>2
<1> QED
  BY <1>3, <1>4, <1>5, <1>6, <1>9, <1>10, <1>11, DiskParts

(* The head that is read is that of the list.                              *)
LEMMA ReadHeadDisk ==
  ASSUME Single, TypeInv, TypeInv', ~wild, ~wild', ReadHead(me), NEW m, m = Now, NEW n, n = Now',
         MemOK(m), MemOK(n), DiskInv(m), ~unsaved'
  PROVE  DiskInv(n)
<1>1. /\ SaneSegs(m) /\ SaneDisk(m) /\ SaneFiles(m) /\ SaneFrame(m) /\ DirOK(m) /\ (~Stuck(m) => Match(m))
      /\ StuckOK(m) /\ (m.f.call # "delete" => ListOK(m.disk, FilesIn(m)))
  BY DiskParts
<1>2. /\ m.f \in Frames /\ PhaseOK(m.f) /\ m.files \in [Slots -> Files] /\ m.lock \in {me, "free"} /\ m.f.fd \in Slots
      /\ (InList(m.f) => m.lock = me) /\ me # "free"
  BY NowTyped, OneProcess, Constants DEF Typed, FrameOK, Frames
<1>3. SaneSegs(n) /\ SaneDisk(n)
  BY <1>1, ReadHeadStep DEF SaneSegs, SaneDisk
<1>4. SaneFiles(n)
  BY <1>1, <1>2, ReadHeadStep DEF SaneFiles, SaneFrame, Holding
<1>5. SaneFrame(n)
  BY <1>1, <1>2, ReadHeadStep DEF SaneFrame, SaneFiles, Sane, Holding, Swapped, Aim, FrameIs, PhaseOK, MemOK
<1>6. DirOK(n)
  BY <1>1, <1>2, ReadHeadStep DEF DirOK, Deleting, Making, FrameIs, PhaseOK
<1>7. ~Stuck(n) => ~Stuck(m)
  BY <1>1, <1>2, ReadHeadStep DEF Stuck, InList, FrameIs, PhaseOK
<1>8. ~Stuck(n) => SamePhase(m.f, n.f)
  BY <1>1, <1>2, ReadHeadStep DEF SamePhase, Swapped, Puts, Emptying, Emptied, Starting, Started, Unwritten, FrameIs, PhaseOK, Stuck, InList
<1>9. ~Stuck(n) => Match(n)
  <2> SUFFICES ASSUME ~Stuck(n) PROVE Match(n)
    OBVIOUS
  <2>1. Match(m)
    BY <1>1, <1>7
  <2>2. HeadRead(m)
    BY <2>1 DEF Match, FrameLinks, HeadRead
  <2>3. HeadRead(n)
    BY <1>2, <2>2, ReadHeadStep DEF HeadRead, FrameIs, PhaseOK
  <2>4. n.seg = m.seg /\ n.live = m.live /\ n.head = m.head /\ n.disk = m.disk
    BY ReadHeadStep
  <2> QED
    BY <1>8, <2>1, <2>3, <2>4, QuietMatch
<1>10. StuckOK(n)
  BY <1>1, <1>2, ReadHeadStep DEF StuckOK, Stuck, InList, FrameIs, PhaseOK
<1>11. n.f.call # "delete" => ListOK(n.disk, FilesIn(n))
  <2>1. n.f.call # "delete" => m.f.call # "delete"
    BY ReadHeadStep DEF FrameIs
  <2>2. \A x \in Slots : BlockOf(n, x) \in Blocks => BlockOf(n, x) = BlockOf(m, x)
    BY <1>2, ReadHeadStep, NotBlocks DEF BlockOf, Making, FrameIs, PhaseOK, Files
  <2>3. \A x \in Slots : FilesIn(n)[x] \in Blocks => FilesIn(n)[x] = FilesIn(m)[x]
    BY <2>2, FilesInAre
  <2>4. n.disk = m.disk
    BY ReadHeadStep
  <2> QED
    BY <1>1, <2>1, <2>3, <2>4, ListOKLess
<1> QED
  BY <1>3, <1>4, <1>5, <1>6, <1>9, <1>10, <1>11, DiskParts

(* With one process the head is still the one that was read.               *)
LEMMA FreeLockDisk ==
  ASSUME Single, TypeInv, TypeInv', ~wild, ~wild', FreeLock(me), NEW m, m = Now, NEW n, n = Now',
         MemOK(m), MemOK(n), DiskInv(m), ~unsaved'
  PROVE  DiskInv(n)
<1>1. /\ SaneSegs(m) /\ SaneDisk(m) /\ SaneFiles(m) /\ SaneFrame(m) /\ DirOK(m) /\ (~Stuck(m) => Match(m))
      /\ StuckOK(m) /\ (m.f.call # "delete" => ListOK(m.disk, FilesIn(m)))
  BY DiskParts
<1>2. /\ m.f \in Frames /\ PhaseOK(m.f) /\ m.files \in [Slots -> Files] /\ m.lock \in {me, "free"} /\ m.f.fd \in Slots
      /\ (InList(m.f) => m.lock = me) /\ me # "free"
  BY NowTyped, OneProcess, Constants DEF Typed, FrameOK, Frames
<1>3. SaneSegs(n) /\ SaneDisk(n)
  BY <1>1, FreeLockStep DEF SaneSegs, SaneDisk
<1>4. SaneFiles(n)
  BY <1>1, <1>2, FreeLockStep DEF SaneFiles, SaneFrame, Holding
<1>5. SaneFrame(n)
  BY <1>1, <1>2, FreeLockStep DEF SaneFrame, SaneFiles, Sane, Holding, Swapped, Aim, FrameIs, PhaseOK, MemOK
<1>6. DirOK(n)
  BY <1>1, <1>2, FreeLockStep DEF DirOK, Deleting, Making, FrameIs, PhaseOK
<1>7. ~Stuck(n) => ~Stuck(m)
  BY <1>1, <1>2, FreeLockStep DEF Stuck, InList, FrameIs, PhaseOK
<1>8. ~Stuck(n) => SamePhase(m.f, n.f)
  BY <1>1, <1>2, FreeLockStep DEF SamePhase, Swapped, Puts, Emptying, Emptied, Starting, Started, Unwritten, FrameIs, PhaseOK, Stuck, InList
<1>9. ~Stuck(n) => Match(n)
  <2> SUFFICES ASSUME ~Stuck(n) PROVE Match(n)
    OBVIOUS
  <2>1. Match(m)
    BY <1>1, <1>7
  <2>2. HeadRead(m)
    BY <2>1 DEF Match, FrameLinks, HeadRead
  <2>3. HeadRead(n)
    BY <1>2, <2>2, FreeLockStep DEF HeadRead, FrameIs, PhaseOK
  <2>4. n.seg = m.seg /\ n.live = m.live /\ n.head = m.head /\ n.disk = m.disk
    BY FreeLockStep
  <2> QED
    BY <1>8, <2>1, <2>3, <2>4, QuietMatch
<1>10. StuckOK(n)
  BY <1>1, <1>2, FreeLockStep DEF StuckOK, Stuck, InList, FrameIs, PhaseOK
<1>11. n.f.call # "delete" => ListOK(n.disk, FilesIn(n))
  <2>1. n.f.call # "delete" => m.f.call # "delete"
    BY FreeLockStep DEF FrameIs
  <2>2. \A x \in Slots : BlockOf(n, x) \in Blocks => BlockOf(n, x) = BlockOf(m, x)
    BY <1>2, FreeLockStep, NotBlocks DEF BlockOf, Making, FrameIs, PhaseOK, Files
  <2>3. \A x \in Slots : FilesIn(n)[x] \in Blocks => FilesIn(n)[x] = FilesIn(m)[x]
    BY <2>2, FilesInAre
  <2>4. n.disk = m.disk
    BY FreeLockStep
  <2> QED
    BY <1>1, <2>1, <2>3, <2>4, ListOKLess
<1> QED
  BY <1>3, <1>4, <1>5, <1>6, <1>9, <1>10, <1>11, DiskParts

(* The call of fileCreate changes nothing of the list.                     *)
LEMMA CreateDisk ==
  ASSUME Single, TypeInv, TypeInv', ~wild, ~wild', Create(me), NEW m, m = Now, NEW n, n = Now',
         MemOK(m), MemOK(n), DiskInv(m), ~unsaved'
  PROVE  DiskInv(n)
<1>1. /\ SaneSegs(m) /\ SaneDisk(m) /\ SaneFiles(m) /\ SaneFrame(m) /\ DirOK(m) /\ (~Stuck(m) => Match(m))
      /\ StuckOK(m) /\ (m.f.call # "delete" => ListOK(m.disk, FilesIn(m)))
  BY DiskParts
<1>2. /\ m.f \in Frames /\ PhaseOK(m.f) /\ m.files \in [Slots -> Files] /\ m.lock \in {me, "free"} /\ m.f.fd \in Slots
      /\ (InList(m.f) => m.lock = me) /\ me # "free"
  BY NowTyped, OneProcess, Constants DEF Typed, FrameOK, Frames
<1>3. SaneSegs(n) /\ SaneDisk(n)
  BY <1>1, CreateStep DEF SaneSegs, SaneDisk
<1>4. SaneFiles(n)
  BY <1>1, <1>2, CreateStep DEF SaneFiles, SaneFrame, Holding
<1>5. SaneFrame(n)
  BY <1>1, <1>2, CreateStep DEF SaneFrame, SaneFiles, Sane, Holding, Swapped, Aim, FrameIs, PhaseOK, MemOK
<1>6. DirOK(n)
  BY <1>1, <1>2, CreateStep DEF DirOK, Deleting, Making, FrameIs, PhaseOK
<1>7. ~Stuck(n) => ~Stuck(m)
  BY <1>1, <1>2, CreateStep DEF Stuck, InList, FrameIs, PhaseOK
<1>8. ~Stuck(n) => SamePhase(m.f, n.f)
  BY <1>1, <1>2, CreateStep DEF SamePhase, Swapped, Puts, Emptying, Emptied, Starting, Started, Unwritten, FrameIs, PhaseOK, Stuck, InList
<1>9. ~Stuck(n) => Match(n)
  <2> SUFFICES ASSUME ~Stuck(n) PROVE Match(n)
    OBVIOUS
  <2>1. Match(m)
    BY <1>1, <1>7
  <2>2. HeadRead(m)
    BY <2>1 DEF Match, FrameLinks, HeadRead
  <2>3. HeadRead(n)
    BY <1>2, <2>2, CreateStep DEF HeadRead, FrameIs, PhaseOK
  <2>4. n.seg = m.seg /\ n.live = m.live /\ n.head = m.head /\ n.disk = m.disk
    BY CreateStep
  <2> QED
    BY <1>8, <2>1, <2>3, <2>4, QuietMatch
<1>10. StuckOK(n)
  BY <1>1, <1>2, CreateStep DEF StuckOK, Stuck, InList, FrameIs, PhaseOK
<1>11. n.f.call # "delete" => ListOK(n.disk, FilesIn(n))
  <2>1. n.f.call # "delete" => m.f.call # "delete"
    BY CreateStep DEF FrameIs
  <2>2. \A x \in Slots : BlockOf(n, x) \in Blocks => BlockOf(n, x) = BlockOf(m, x)
    BY <1>2, CreateStep, NotBlocks DEF BlockOf, Making, FrameIs, PhaseOK, Files
  <2>3. \A x \in Slots : FilesIn(n)[x] \in Blocks => FilesIn(n)[x] = FilesIn(m)[x]
    BY <2>2, FilesInAre
  <2>4. n.disk = m.disk
    BY CreateStep
  <2> QED
    BY <1>1, <2>1, <2>3, <2>4, ListOKLess
<1> QED
  BY <1>3, <1>4, <1>5, <1>6, <1>9, <1>10, <1>11, DiskParts

(* The slot that is taken is not used on the disk.                         *)
LEMMA SlotDisk ==
  ASSUME Single, TypeInv, TypeInv', ~wild, ~wild', Slot(me), NEW m, m = Now, NEW n, n = Now',
         MemOK(m), MemOK(n), DiskInv(m), ~unsaved'
  PROVE  DiskInv(n)
<1>1. /\ SaneSegs(m) /\ SaneDisk(m) /\ SaneFiles(m) /\ SaneFrame(m) /\ DirOK(m) /\ (~Stuck(m) => Match(m))
      /\ StuckOK(m) /\ (m.f.call # "delete" => ListOK(m.disk, FilesIn(m)))
  BY DiskParts
<1>2. /\ m.f \in Frames /\ PhaseOK(m.f) /\ m.files \in [Slots -> Files] /\ m.lock \in {me, "free"} /\ m.f.fd \in Slots
      /\ (InList(m.f) => m.lock = me) /\ me # "free"
  BY NowTyped, OneProcess, Constants DEF Typed, FrameOK, Frames
<1>3. SaneSegs(n) /\ SaneDisk(n)
  BY <1>1, SlotStep DEF SaneSegs, SaneDisk
<1>4. SaneFiles(n)
  BY <1>1, <1>2, SlotStep DEF SaneFiles, SaneFrame, Holding
<1>5. SaneFrame(n)
  BY <1>1, <1>2, SlotStep DEF SaneFrame, SaneFiles, Sane, Holding, Swapped, Aim, FrameIs, PhaseOK, MemOK
<1>6. DirOK(n)
  BY <1>1, <1>2, SlotStep DEF DirOK, Deleting, Making, FrameIs, PhaseOK
<1>7. ~Stuck(n) => ~Stuck(m)
  BY <1>1, <1>2, SlotStep DEF Stuck, InList, FrameIs, PhaseOK
<1>8. ~Stuck(n) => SamePhase(m.f, n.f)
  BY <1>1, <1>2, SlotStep DEF SamePhase, Swapped, Puts, Emptying, Emptied, Starting, Started, Unwritten, FrameIs, PhaseOK, Stuck, InList
<1>9. ~Stuck(n) => Match(n)
  <2> SUFFICES ASSUME ~Stuck(n) PROVE Match(n)
    OBVIOUS
  <2>1. Match(m)
    BY <1>1, <1>7
  <2>2. HeadRead(m)
    BY <2>1 DEF Match, FrameLinks, HeadRead
  <2>3. HeadRead(n)
    BY <1>2, <2>2, SlotStep DEF HeadRead, FrameIs, PhaseOK
  <2>4. n.seg = m.seg /\ n.live = m.live /\ n.head = m.head /\ n.disk = m.disk
    BY SlotStep
  <2> QED
    BY <1>8, <2>1, <2>3, <2>4, QuietMatch
<1>10. StuckOK(n)
  BY <1>1, <1>2, SlotStep DEF StuckOK, Stuck, InList, FrameIs, PhaseOK
<1>11. n.f.call # "delete" => ListOK(n.disk, FilesIn(n))
  <2>1. n.f.call # "delete" => m.f.call # "delete"
    BY SlotStep DEF FrameIs
  <2>2. \A x \in Slots : BlockOf(n, x) \in Blocks => BlockOf(n, x) = BlockOf(m, x)
    BY <1>2, SlotStep, NotBlocks DEF BlockOf, Making, FrameIs, PhaseOK, Files
  <2>3. \A x \in Slots : FilesIn(n)[x] \in Blocks => FilesIn(n)[x] = FilesIn(m)[x]
    BY <2>2, FilesInAre
  <2>4. n.disk = m.disk
    BY SlotStep
  <2> QED
    BY <1>1, <2>1, <2>3, <2>4, ListOKLess
<1> QED
  BY <1>3, <1>4, <1>5, <1>6, <1>9, <1>10, <1>11, DiskParts

(* Closing a file changes nothing of the list.                             *)
LEMMA ClosedDisk ==
  ASSUME Single, TypeInv, TypeInv', ~wild, ~wild', Closed(me), NEW m, m = Now, NEW n, n = Now',
         MemOK(m), MemOK(n), DiskInv(m), ~unsaved'
  PROVE  DiskInv(n)
<1>1. /\ SaneSegs(m) /\ SaneDisk(m) /\ SaneFiles(m) /\ SaneFrame(m) /\ DirOK(m) /\ (~Stuck(m) => Match(m))
      /\ StuckOK(m) /\ (m.f.call # "delete" => ListOK(m.disk, FilesIn(m)))
  BY DiskParts
<1>2. /\ m.f \in Frames /\ PhaseOK(m.f) /\ m.files \in [Slots -> Files] /\ m.lock \in {me, "free"} /\ m.f.fd \in Slots
      /\ (InList(m.f) => m.lock = me) /\ me # "free"
  BY NowTyped, OneProcess, Constants DEF Typed, FrameOK, Frames
<1>3. SaneSegs(n) /\ SaneDisk(n)
  BY <1>1, ClosedStep DEF SaneSegs, SaneDisk
<1>4. SaneFiles(n)
  BY <1>1, <1>2, ClosedStep DEF SaneFiles, SaneFrame, Holding
<1>5. SaneFrame(n)
  BY <1>1, <1>2, ClosedStep DEF SaneFrame, SaneFiles, Sane, Holding, Swapped, Aim, FrameIs, PhaseOK, MemOK
<1>6. DirOK(n)
  <2>1. n.disk = m.disk /\ n.f.call = "close" /\ m.f.call = "close"
    BY ClosedStep DEF FrameIs
  <2>2. ASSUME NEW x \in Slots PROVE ("used" \in n.files[x].state <=> "used" \in m.files[x].state) /\ n.files[x].block = m.files[x].block
    <3>1. CASE x = m.f.fd
      BY <3>1, ClosedStep
    <3>2. CASE x # m.f.fd
      BY <3>2, ClosedStep
    <3> QED
      BY <3>1, <3>2
  <2> QED
    BY <1>1, <2>1, <2>2 DEF DirOK, Deleting, Making
<1>7. ~Stuck(n) => ~Stuck(m)
  BY <1>1, <1>2, ClosedStep DEF Stuck, InList, FrameIs, PhaseOK
<1>8. ~Stuck(n) => SamePhase(m.f, n.f)
  BY <1>1, <1>2, ClosedStep DEF SamePhase, Swapped, Puts, Emptying, Emptied, Starting, Started, Unwritten, FrameIs, PhaseOK, Stuck, InList
<1>9. ~Stuck(n) => Match(n)
  <2> SUFFICES ASSUME ~Stuck(n) PROVE Match(n)
    OBVIOUS
  <2>1. Match(m)
    BY <1>1, <1>7
  <2>2. HeadRead(m)
    BY <2>1 DEF Match, FrameLinks, HeadRead
  <2>3. HeadRead(n)
    BY <1>2, <2>2, ClosedStep DEF HeadRead, FrameIs, PhaseOK
  <2>4. n.seg = m.seg /\ n.live = m.live /\ n.head = m.head /\ n.disk = m.disk
    BY ClosedStep
  <2> QED
    BY <1>8, <2>1, <2>3, <2>4, QuietMatch
<1>10. StuckOK(n)
  BY <1>1, <1>2, ClosedStep DEF StuckOK, Stuck, InList, FrameIs, PhaseOK
<1>11. n.f.call # "delete" => ListOK(n.disk, FilesIn(n))
  <2>1. n.f.call # "delete" => m.f.call # "delete"
    BY ClosedStep DEF FrameIs
  <2>2. \A x \in Slots : BlockOf(n, x) \in Blocks => BlockOf(n, x) = BlockOf(m, x)
    BY <1>2, ClosedStep, NotBlocks DEF BlockOf, Making, FrameIs, PhaseOK, Files
  <2>3. \A x \in Slots : FilesIn(n)[x] \in Blocks => FilesIn(n)[x] = FilesIn(m)[x]
    BY <2>2, FilesInAre
  <2>4. n.disk = m.disk
    BY ClosedStep
  <2> QED
    BY <1>1, <2>1, <2>3, <2>4, ListOKLess
<1> QED
  BY <1>3, <1>4, <1>5, <1>6, <1>9, <1>10, <1>11, DiskParts

(* The file being deleted may still be on the disk.                        *)
LEMMA UnlinkDisk ==
  ASSUME Single, TypeInv, TypeInv', ~wild, ~wild', Unlink(me), NEW m, m = Now, NEW n, n = Now',
         MemOK(m), MemOK(n), DiskInv(m), ~unsaved'
  PROVE  DiskInv(n)
<1>1. /\ SaneSegs(m) /\ SaneDisk(m) /\ SaneFiles(m) /\ SaneFrame(m) /\ DirOK(m) /\ (~Stuck(m) => Match(m))
      /\ StuckOK(m) /\ (m.f.call # "delete" => ListOK(m.disk, FilesIn(m)))
  BY DiskParts
<1>2. /\ m.f \in Frames /\ PhaseOK(m.f) /\ m.files \in [Slots -> Files] /\ m.lock \in {me, "free"} /\ m.f.fd \in Slots
      /\ (InList(m.f) => m.lock = me) /\ me # "free"
  BY NowTyped, OneProcess, Constants DEF Typed, FrameOK, Frames
<1>3. SaneSegs(n) /\ SaneDisk(n)
  BY <1>1, UnlinkStep DEF SaneSegs, SaneDisk
<1>4. SaneFiles(n)
  BY <1>1, <1>2, UnlinkStep DEF SaneFiles, SaneFrame, Holding
<1>5. SaneFrame(n)
  BY <1>1, <1>2, UnlinkStep DEF SaneFrame, SaneFiles, Sane, Holding, Swapped, Aim, FrameIs, PhaseOK, MemOK
<1>6. DirOK(n)
  BY <1>1, <1>2, UnlinkStep DEF DirOK, Deleting, Making, FrameIs, PhaseOK
<1>7. ~Stuck(n) => ~Stuck(m)
  BY <1>1, <1>2, UnlinkStep DEF Stuck, InList, FrameIs, PhaseOK
<1>8. ~Stuck(n) => SamePhase(m.f, n.f)
  BY <1>1, <1>2, UnlinkStep DEF SamePhase, Swapped, Puts, Emptying, Emptied, Starting, Started, Unwritten, FrameIs, PhaseOK, Stuck, InList
<1>9. ~Stuck(n) => Match(n)
  <2> SUFFICES ASSUME ~Stuck(n) PROVE Match(n)
    OBVIOUS
  <2>1. Match(m)
    BY <1>1, <1>7
  <2>2. HeadRead(m)
    BY <2>1 DEF Match, FrameLinks, HeadRead
  <2>3. HeadRead(n)
    BY <1>2, <2>2, UnlinkStep DEF HeadRead, FrameIs, PhaseOK
  <2>4. n.seg = m.seg /\ n.live = m.live /\ n.head = m.head /\ n.disk = m.disk
    BY UnlinkStep
  <2> QED
    BY <1>8, <2>1, <2>3, <2>4, QuietMatch
<1>10. StuckOK(n)
  BY <1>1, <1>2, UnlinkStep DEF StuckOK, Stuck, InList, FrameIs, PhaseOK
<1>11. n.f.call # "delete" => ListOK(n.disk, FilesIn(n))
  <2>1. n.f.call # "delete" => m.f.call # "delete"
    BY UnlinkStep DEF FrameIs
  <2>2. \A x \in Slots : BlockOf(n, x) \in Blocks => BlockOf(n, x) = BlockOf(m, x)
    BY <1>2, UnlinkStep, NotBlocks DEF BlockOf, Making, FrameIs, PhaseOK, Files
  <2>3. \A x \in Slots : FilesIn(n)[x] \in Blocks => FilesIn(n)[x] = FilesIn(m)[x]
    BY <2>2, FilesInAre
  <2>4. n.disk = m.disk
    BY UnlinkStep
  <2> QED
    BY <1>1, <2>1, <2>3, <2>4, ListOKLess
<1> QED
  BY <1>3, <1>4, <1>5, <1>6, <1>9, <1>10, <1>11, DiskParts

(* The list is written, the directory is next.                             *)
LEMMA UnlinkedDisk ==
  ASSUME Single, TypeInv, TypeInv', ~wild, ~wild', Unlinked(me), NEW m, m = Now, NEW n, n = Now',
         MemOK(m), MemOK(n), DiskInv(m), ~unsaved'
  PROVE  DiskInv(n)
<1>1. /\ SaneSegs(m) /\ SaneDisk(m) /\ SaneFiles(m) /\ SaneFrame(m) /\ DirOK(m) /\ (~Stuck(m) => Match(m))
      /\ StuckOK(m) /\ (m.f.call # "delete" => ListOK(m.disk, FilesIn(m)))
  BY DiskParts
<1>2. /\ m.f \in Frames /\ PhaseOK(m.f) /\ m.files \in [Slots -> Files] /\ m.lock \in {me, "free"} /\ m.f.fd \in Slots
      /\ (InList(m.f) => m.lock = me) /\ me # "free"
  BY NowTyped, OneProcess, Constants DEF Typed, FrameOK, Frames
<1>3. SaneSegs(n) /\ SaneDisk(n)
  BY <1>1, UnlinkedStep DEF SaneSegs, SaneDisk
<1>4. SaneFiles(n)
  BY <1>1, <1>2, UnlinkedStep DEF SaneFiles, SaneFrame, Holding
<1>5. SaneFrame(n)
  BY <1>1, <1>2, UnlinkedStep DEF SaneFrame, SaneFiles, Sane, Holding, Swapped, Aim, FrameIs, PhaseOK, MemOK
<1>6. DirOK(n)
  BY <1>1, <1>2, UnlinkedStep DEF DirOK, Deleting, Making, FrameIs, PhaseOK
<1>7. ~Stuck(n) => ~Stuck(m)
  BY <1>1, <1>2, UnlinkedStep DEF Stuck, InList, FrameIs, PhaseOK
<1>8. ~Stuck(n) => SamePhase(m.f, n.f)
  BY <1>1, <1>2, UnlinkedStep DEF SamePhase, Swapped, Puts, Emptying, Emptied, Starting, Started, Unwritten, FrameIs, PhaseOK, Stuck, InList
<1>9. ~Stuck(n) => Match(n)
  <2> SUFFICES ASSUME ~Stuck(n) PROVE Match(n)
    OBVIOUS
  <2>1. Match(m)
    BY <1>1, <1>7
  <2>2. HeadRead(m)
    BY <2>1 DEF Match, FrameLinks, HeadRead
  <2>3. HeadRead(n)
    BY <1>2, <2>2, UnlinkedStep DEF HeadRead, FrameIs, PhaseOK
  <2>4. n.seg = m.seg /\ n.live = m.live /\ n.head = m.head /\ n.disk = m.disk
    BY UnlinkedStep
  <2> QED
    BY <1>8, <2>1, <2>3, <2>4, QuietMatch
<1>10. StuckOK(n)
  BY <1>1, <1>2, UnlinkedStep DEF StuckOK, Stuck, InList, FrameIs, PhaseOK
<1>11. n.f.call # "delete" => ListOK(n.disk, FilesIn(n))
  <2>1. n.f.call # "delete" => m.f.call # "delete"
    BY UnlinkedStep DEF FrameIs
  <2>2. \A x \in Slots : BlockOf(n, x) \in Blocks => BlockOf(n, x) = BlockOf(m, x)
    BY <1>2, UnlinkedStep, NotBlocks DEF BlockOf, Making, FrameIs, PhaseOK, Files
  <2>3. \A x \in Slots : FilesIn(n)[x] \in Blocks => FilesIn(n)[x] = FilesIn(m)[x]
    BY <2>2, FilesInAre
  <2>4. n.disk = m.disk
    BY UnlinkedStep
  <2> QED
    BY <1>1, <2>1, <2>3, <2>4, ListOKLess
<1> QED
  BY <1>3, <1>4, <1>5, <1>6, <1>9, <1>10, <1>11, DiskParts

(* Opening a file changes nothing of the list.                             *)
LEMMA OpenDisk ==
  ASSUME Single, TypeInv, TypeInv', ~wild, ~wild', NEW fd \in Slots, Open(me, fd), NEW m, m = Now, NEW n, n = Now',
         MemOK(m), MemOK(n), DiskInv(m), ~unsaved'
  PROVE  DiskInv(n)
<1>1. /\ SaneSegs(m) /\ SaneDisk(m) /\ SaneFiles(m) /\ SaneFrame(m) /\ DirOK(m) /\ (~Stuck(m) => Match(m))
      /\ StuckOK(m) /\ (m.f.call # "delete" => ListOK(m.disk, FilesIn(m)))
  BY DiskParts
<1>2. /\ m.f \in Frames /\ PhaseOK(m.f) /\ m.files \in [Slots -> Files] /\ m.lock \in {me, "free"} /\ m.f.fd \in Slots
      /\ (InList(m.f) => m.lock = me) /\ me # "free"
  BY NowTyped, OneProcess, Constants DEF Typed, FrameOK, Frames
<1>3. SaneSegs(n) /\ SaneDisk(n)
  BY <1>1, OpenStep DEF SaneSegs, SaneDisk
<1>4. SaneFiles(n)
  BY <1>1, <1>2, OpenStep DEF SaneFiles, SaneFrame, Holding
<1>5. SaneFrame(n)
  BY <1>1, <1>2, OpenStep DEF SaneFrame, SaneFiles, Sane, Holding, Swapped, Aim, FrameIs, PhaseOK, MemOK
<1>6. DirOK(n)
  BY <1>1, <1>2, OpenStep DEF DirOK, Deleting, Making, FrameIs, PhaseOK
<1>7. ~Stuck(n) => ~Stuck(m)
  BY <1>1, <1>2, OpenStep DEF Stuck, InList, FrameIs, PhaseOK
<1>8. ~Stuck(n) => SamePhase(m.f, n.f)
  BY <1>1, <1>2, OpenStep DEF SamePhase, Swapped, Puts, Emptying, Emptied, Starting, Started, Unwritten, FrameIs, PhaseOK, Stuck, InList
<1>9. ~Stuck(n) => Match(n)
  <2> SUFFICES ASSUME ~Stuck(n) PROVE Match(n)
    OBVIOUS
  <2>1. Match(m)
    BY <1>1, <1>7
  <2>2. HeadRead(m)
    BY <2>1 DEF Match, FrameLinks, HeadRead
  <2>3. HeadRead(n)
    BY <1>2, <2>2, OpenStep DEF HeadRead, FrameIs, PhaseOK
  <2>4. n.seg = m.seg /\ n.live = m.live /\ n.head = m.head /\ n.disk = m.disk
    BY OpenStep
  <2> QED
    BY <1>8, <2>1, <2>3, <2>4, QuietMatch
<1>10. StuckOK(n)
  BY <1>1, <1>2, OpenStep DEF StuckOK, Stuck, InList, FrameIs, PhaseOK
<1>11. n.f.call # "delete" => ListOK(n.disk, FilesIn(n))
  <2>1. n.f.call # "delete" => m.f.call # "delete"
    BY OpenStep DEF FrameIs
  <2>2. \A x \in Slots : BlockOf(n, x) \in Blocks => BlockOf(n, x) = BlockOf(m, x)
    BY <1>2, OpenStep, NotBlocks DEF BlockOf, Making, FrameIs, PhaseOK, Files
  <2>3. \A x \in Slots : FilesIn(n)[x] \in Blocks => FilesIn(n)[x] = FilesIn(m)[x]
    BY <2>2, FilesInAre
  <2>4. n.disk = m.disk
    BY OpenStep
  <2> QED
    BY <1>1, <2>1, <2>3, <2>4, ListOKLess
<1> QED
  BY <1>3, <1>4, <1>5, <1>6, <1>9, <1>10, <1>11, DiskParts

(* Writing to a file changes nothing of the list.                          *)
LEMMA PutCharDisk ==
  ASSUME Single, TypeInv, TypeInv', ~wild, ~wild', NEW fd \in Slots, PutChar(me, fd), NEW m, m = Now, NEW n, n = Now',
         MemOK(m), MemOK(n), DiskInv(m), ~unsaved'
  PROVE  DiskInv(n)
<1>1. /\ SaneSegs(m) /\ SaneDisk(m) /\ SaneFiles(m) /\ SaneFrame(m) /\ DirOK(m) /\ (~Stuck(m) => Match(m))
      /\ StuckOK(m) /\ (m.f.call # "delete" => ListOK(m.disk, FilesIn(m)))
  BY DiskParts
<1>2. /\ m.f \in Frames /\ PhaseOK(m.f) /\ m.files \in [Slots -> Files] /\ m.lock \in {me, "free"} /\ m.f.fd \in Slots
      /\ (InList(m.f) => m.lock = me) /\ me # "free"
  BY NowTyped, OneProcess, Constants DEF Typed, FrameOK, Frames
<1>3. SaneSegs(n) /\ SaneDisk(n)
  BY <1>1, PutCharStep DEF SaneSegs, SaneDisk
<1>4. SaneFiles(n)
  BY <1>1, <1>2, PutCharStep DEF SaneFiles, SaneFrame, Holding
<1>5. SaneFrame(n)
  BY <1>1, <1>2, PutCharStep DEF SaneFrame, SaneFiles, Sane, Holding, Swapped, Aim, FrameIs, PhaseOK, MemOK
<1>6. DirOK(n)
  BY <1>1, <1>2, PutCharStep DEF DirOK, Deleting, Making, FrameIs, PhaseOK
<1>7. ~Stuck(n) => ~Stuck(m)
  BY <1>1, <1>2, PutCharStep DEF Stuck, InList, FrameIs, PhaseOK
<1>8. ~Stuck(n) => SamePhase(m.f, n.f)
  BY <1>1, <1>2, PutCharStep DEF SamePhase, Swapped, Puts, Emptying, Emptied, Starting, Started, Unwritten, FrameIs, PhaseOK, Stuck, InList
<1>9. ~Stuck(n) => Match(n)
  <2> SUFFICES ASSUME ~Stuck(n) PROVE Match(n)
    OBVIOUS
  <2>1. Match(m)
    BY <1>1, <1>7
  <2>2. HeadRead(m)
    BY <2>1 DEF Match, FrameLinks, HeadRead
  <2>3. HeadRead(n)
    BY <1>2, <2>2, PutCharStep DEF HeadRead, FrameIs, PhaseOK
  <2>4. n.seg = m.seg /\ n.live = m.live /\ n.head = m.head /\ n.disk = m.disk
    BY PutCharStep
  <2> QED
    BY <1>8, <2>1, <2>3, <2>4, QuietMatch
<1>10. StuckOK(n)
  BY <1>1, <1>2, PutCharStep DEF StuckOK, Stuck, InList, FrameIs, PhaseOK
<1>11. n.f.call # "delete" => ListOK(n.disk, FilesIn(n))
  <2>1. n.f.call # "delete" => m.f.call # "delete"
    BY PutCharStep DEF FrameIs
  <2>2. \A x \in Slots : BlockOf(n, x) \in Blocks => BlockOf(n, x) = BlockOf(m, x)
    BY <1>2, PutCharStep, NotBlocks DEF BlockOf, Making, FrameIs, PhaseOK, Files
  <2>3. \A x \in Slots : FilesIn(n)[x] \in Blocks => FilesIn(n)[x] = FilesIn(m)[x]
    BY <2>2, FilesInAre
  <2>4. n.disk = m.disk
    BY PutCharStep
  <2> QED
    BY <1>1, <2>1, <2>3, <2>4, ListOKLess
<1> QED
  BY <1>3, <1>4, <1>5, <1>6, <1>9, <1>10, <1>11, DiskParts

(* The call of fileClose changes nothing of the list.                      *)
LEMMA CloseDisk ==
  ASSUME Single, TypeInv, TypeInv', ~wild, ~wild', NEW fd \in Slots, Close(me, fd), NEW m, m = Now, NEW n, n = Now',
         MemOK(m), MemOK(n), DiskInv(m), ~unsaved'
  PROVE  DiskInv(n)
<1>1. /\ SaneSegs(m) /\ SaneDisk(m) /\ SaneFiles(m) /\ SaneFrame(m) /\ DirOK(m) /\ (~Stuck(m) => Match(m))
      /\ StuckOK(m) /\ (m.f.call # "delete" => ListOK(m.disk, FilesIn(m)))
  BY DiskParts
<1>2. /\ m.f \in Frames /\ PhaseOK(m.f) /\ m.files \in [Slots -> Files] /\ m.lock \in {me, "free"} /\ m.f.fd \in Slots
      /\ (InList(m.f) => m.lock = me) /\ me # "free"
  BY NowTyped, OneProcess, Constants DEF Typed, FrameOK, Frames
<1>3. SaneSegs(n) /\ SaneDisk(n)
  BY <1>1, CloseStep DEF SaneSegs, SaneDisk
<1>4. SaneFiles(n)
  BY <1>1, <1>2, CloseStep DEF SaneFiles, SaneFrame, Holding
<1>5. SaneFrame(n)
  BY <1>1, <1>2, CloseStep DEF SaneFrame, SaneFiles, Sane, Holding, Swapped, Aim, FrameIs, PhaseOK, MemOK
<1>6. DirOK(n)
  BY <1>1, <1>2, CloseStep DEF DirOK, Deleting, Making, FrameIs, PhaseOK
<1>7. ~Stuck(n) => ~Stuck(m)
  BY <1>1, <1>2, CloseStep DEF Stuck, InList, FrameIs, PhaseOK
<1>8. ~Stuck(n) => SamePhase(m.f, n.f)
  BY <1>1, <1>2, CloseStep DEF SamePhase, Swapped, Puts, Emptying, Emptied, Starting, Started, Unwritten, FrameIs, PhaseOK, Stuck, InList
<1>9. ~Stuck(n) => Match(n)
  <2> SUFFICES ASSUME ~Stuck(n) PROVE Match(n)
    OBVIOUS
  <2>1. Match(m)
    BY <1>1, <1>7
  <2>2. HeadRead(m)
    BY <2>1 DEF Match, FrameLinks, HeadRead
  <2>3. HeadRead(n)
    BY <1>2, <2>2, CloseStep DEF HeadRead, FrameIs, PhaseOK
  <2>4. n.seg = m.seg /\ n.live = m.live /\ n.head = m.head /\ n.disk = m.disk
    BY CloseStep
  <2> QED
    BY <1>8, <2>1, <2>3, <2>4, QuietMatch
<1>10. StuckOK(n)
  BY <1>1, <1>2, CloseStep DEF StuckOK, Stuck, InList, FrameIs, PhaseOK
<1>11. n.f.call # "delete" => ListOK(n.disk, FilesIn(n))
  <2>1. n.f.call # "delete" => m.f.call # "delete"
    BY CloseStep DEF FrameIs
  <2>2. \A x \in Slots : BlockOf(n, x) \in Blocks => BlockOf(n, x) = BlockOf(m, x)
    BY <1>2, CloseStep, NotBlocks DEF BlockOf, Making, FrameIs, PhaseOK, Files
  <2>3. \A x \in Slots : FilesIn(n)[x] \in Blocks => FilesIn(n)[x] = FilesIn(m)[x]
    BY <2>2, FilesInAre
  <2>4. n.disk = m.disk
    BY CloseStep
  <2> QED
    BY <1>1, <2>1, <2>3, <2>4, ListOKLess
<1> QED
  BY <1>3, <1>4, <1>5, <1>6, <1>9, <1>10, <1>11, DiskParts

(* The call of fileDelete changes nothing of the list.                     *)
LEMMA DeleteDisk ==
  ASSUME Single, TypeInv, TypeInv', ~wild, ~wild', NEW fd \in Slots, Delete(me, fd), NEW m, m = Now, NEW n, n = Now',
         MemOK(m), MemOK(n), DiskInv(m), ~unsaved'
  PROVE  DiskInv(n)
<1>1. /\ SaneSegs(m) /\ SaneDisk(m) /\ SaneFiles(m) /\ SaneFrame(m) /\ DirOK(m) /\ (~Stuck(m) => Match(m))
      /\ StuckOK(m) /\ (m.f.call # "delete" => ListOK(m.disk, FilesIn(m)))
  BY DiskParts
<1>2. /\ m.f \in Frames /\ PhaseOK(m.f) /\ m.files \in [Slots -> Files] /\ m.lock \in {me, "free"} /\ m.f.fd \in Slots
      /\ (InList(m.f) => m.lock = me) /\ me # "free"
  BY NowTyped, OneProcess, Constants DEF Typed, FrameOK, Frames
<1>3. SaneSegs(n) /\ SaneDisk(n)
  BY <1>1, DeleteStep DEF SaneSegs, SaneDisk
<1>4. SaneFiles(n)
  BY <1>1, <1>2, DeleteStep DEF SaneFiles, SaneFrame, Holding
<1>5. SaneFrame(n)
  BY <1>1, <1>2, DeleteStep DEF SaneFrame, SaneFiles, Sane, Holding, Swapped, Aim, FrameIs, PhaseOK, MemOK
<1>6. DirOK(n)
  BY <1>1, <1>2, DeleteStep DEF DirOK, Deleting, Making, FrameIs, PhaseOK
<1>7. ~Stuck(n) => ~Stuck(m)
  BY <1>1, <1>2, DeleteStep DEF Stuck, InList, FrameIs, PhaseOK
<1>8. ~Stuck(n) => SamePhase(m.f, n.f)
  BY <1>1, <1>2, DeleteStep DEF SamePhase, Swapped, Puts, Emptying, Emptied, Starting, Started, Unwritten, FrameIs, PhaseOK, Stuck, InList
<1>9. ~Stuck(n) => Match(n)
  <2> SUFFICES ASSUME ~Stuck(n) PROVE Match(n)
    OBVIOUS
  <2>1. Match(m)
    BY <1>1, <1>7
  <2>2. HeadRead(m)
    BY <2>1 DEF Match, FrameLinks, HeadRead
  <2>3. HeadRead(n)
    BY <1>2, <2>2, DeleteStep DEF HeadRead, FrameIs, PhaseOK
  <2>4. n.seg = m.seg /\ n.live = m.live /\ n.head = m.head /\ n.disk = m.disk
    BY DeleteStep
  <2> QED
    BY <1>8, <2>1, <2>3, <2>4, QuietMatch
<1>10. StuckOK(n)
  BY <1>1, <1>2, DeleteStep DEF StuckOK, Stuck, InList, FrameIs, PhaseOK
<1>11. n.f.call # "delete" => ListOK(n.disk, FilesIn(n))
  <2>1. n.f.call # "delete" => m.f.call # "delete"
    BY DeleteStep DEF FrameIs
  <2>2. \A x \in Slots : BlockOf(n, x) \in Blocks => BlockOf(n, x) = BlockOf(m, x)
    BY <1>2, DeleteStep, NotBlocks DEF BlockOf, Making, FrameIs, PhaseOK, Files
  <2>3. \A x \in Slots : FilesIn(n)[x] \in Blocks => FilesIn(n)[x] = FilesIn(m)[x]
    BY <2>2, FilesInAre
  <2>4. n.disk = m.disk
    BY DeleteStep
  <2> QED
    BY <1>1, <2>1, <2>3, <2>4, ListOKLess
<1> QED
  BY <1>3, <1>4, <1>5, <1>6, <1>9, <1>10, <1>11, DiskParts

(* Nothing is on the disk that was not; the lock is left behind and nobody *)
(* will use the list.                                                      *)
LEMMA WriteFailsDisk ==
  ASSUME Single, TypeInv, TypeInv', ~wild, ~wild', WriteFails(me), NEW m, m = Now, NEW n, n = Now',
         MemOK(m), MemOK(n), DiskInv(m), ~unsaved'
  PROVE  DiskInv(n)
<1>1. /\ SaneSegs(m) /\ SaneDisk(m) /\ SaneFiles(m) /\ SaneFrame(m) /\ DirOK(m) /\ (~Stuck(m) => Match(m))
      /\ StuckOK(m) /\ (m.f.call # "delete" => ListOK(m.disk, FilesIn(m)))
  BY DiskParts
<1>2. /\ m.f \in Frames /\ PhaseOK(m.f) /\ m.files \in [Slots -> Files] /\ m.lock \in {me, "free"} /\ m.f.fd \in Slots
      /\ (InList(m.f) => m.lock = me) /\ me # "free"
  BY NowTyped, OneProcess, Constants DEF Typed, FrameOK, Frames
<1>3. SaneSegs(n) /\ SaneDisk(n)
  BY <1>1, WriteFailsStep DEF SaneSegs, SaneDisk
<1>4. SaneFiles(n)
  BY <1>1, <1>2, WriteFailsStep DEF SaneFiles, SaneFrame, Holding
<1>0. m.f.call # "delete"
  BY <1>2, NowIs, TypeNow, Zenon DEF WriteFails
<1>5. SaneFrame(n)
  BY <1>0, <1>1, <1>2, WriteFailsStep DEF SaneFrame, SaneFiles, Sane, Holding, Swapped, Aim, FrameIs, PhaseOK, MemOK
<1>6. DirOK(n)
  BY <1>0, <1>1, <1>2, WriteFailsStep DEF DirOK, Deleting, Making, FrameIs, PhaseOK
<1>7. ~Stuck(n) => ~Stuck(m)
  BY <1>0, <1>1, <1>2, WriteFailsStep DEF Stuck, InList, FrameIs, PhaseOK
<1>8. ~Stuck(n) => SamePhase(m.f, n.f)
  BY <1>0, <1>1, <1>2, WriteFailsStep DEF SamePhase, Swapped, Puts, Emptying, Emptied, Starting, Started, Unwritten, FrameIs, PhaseOK, Stuck, InList
<1>9. ~Stuck(n) => Match(n)
  <2> SUFFICES ASSUME ~Stuck(n) PROVE Match(n)
    OBVIOUS
  <2>1. Match(m)
    BY <1>1, <1>7
  <2>2. HeadRead(m)
    BY <2>1 DEF Match, FrameLinks, HeadRead
  <2>3. HeadRead(n)
    BY <1>0, <1>2, <2>2, WriteFailsStep DEF HeadRead, FrameIs, PhaseOK
  <2>4. n.seg = m.seg /\ n.live = m.live /\ n.head = m.head /\ n.disk = m.disk
    BY WriteFailsStep
  <2> QED
    BY <1>8, <2>1, <2>3, <2>4, QuietMatch
<1>10. StuckOK(n)
  BY <1>0, <1>1, <1>2, WriteFailsStep DEF StuckOK, Stuck, InList, FrameIs, PhaseOK
<1>11. n.f.call # "delete" => ListOK(n.disk, FilesIn(n))
  <2>1. n.f.call # "delete" => m.f.call # "delete"
    BY WriteFailsStep DEF FrameIs
  <2>2. \A x \in Slots : BlockOf(n, x) \in Blocks => BlockOf(n, x) = BlockOf(m, x)
    BY <1>0, <1>2, WriteFailsStep, NotBlocks DEF BlockOf, Making, FrameIs, PhaseOK, Files
  <2>3. \A x \in Slots : FilesIn(n)[x] \in Blocks => FilesIn(n)[x] = FilesIn(m)[x]
    BY <2>2, FilesInAre
  <2>4. n.disk = m.disk
    BY WriteFailsStep
  <2> QED
    BY <1>1, <2>1, <2>3, <2>4, ListOKLess
<1> QED
  BY <1>3, <1>4, <1>5, <1>6, <1>9, <1>10, <1>11, DiskParts

(* The file on the disk has not been written, so it is not used there.     *)
LEMMA AssignDisk ==
  ASSUME Single, TypeInv, TypeInv', ~wild, ~wild', Assign(me), NEW m, m = Now, NEW n, n = Now',
         MemOK(m), MemOK(n), DiskInv(m), ~unsaved'
  PROVE  DiskInv(n)
<1>1. /\ SaneSegs(m) /\ SaneDisk(m) /\ SaneFiles(m) /\ SaneFrame(m) /\ DirOK(m) /\ (~Stuck(m) => Match(m))
      /\ StuckOK(m) /\ (m.f.call # "delete" => ListOK(m.disk, FilesIn(m)))
  BY DiskParts
<1>2. /\ m.f \in Frames /\ PhaseOK(m.f) /\ m.files \in [Slots -> Files] /\ m.lock \in {me, "free"} /\ m.f.fd \in Slots
      /\ (InList(m.f) => m.lock = me) /\ me # "free"
  BY NowTyped, OneProcess, Constants DEF Typed, FrameOK, Frames
<1>3. SaneSegs(n) /\ SaneDisk(n)
  BY <1>1, AssignStep DEF SaneSegs, SaneDisk
<1>4. SaneFiles(n)
  BY <1>1, <1>2, AssignStep DEF SaneFiles, SaneFrame, Holding
<1>5. SaneFrame(n)
  BY <1>1, <1>2, AssignStep DEF SaneFrame, SaneFiles, Sane, Holding, Swapped, Aim, FrameIs, PhaseOK, MemOK
<1>6. DirOK(n)
  BY <1>1, <1>2, AssignStep DEF DirOK, Deleting, Making, FrameIs, PhaseOK
<1>7. ~Stuck(n) => ~Stuck(m)
  BY <1>1, <1>2, AssignStep DEF Stuck, InList, FrameIs, PhaseOK
<1>8. ~Stuck(n) => SamePhase(m.f, n.f)
  BY <1>1, <1>2, AssignStep DEF SamePhase, Swapped, Puts, Emptying, Emptied, Starting, Started, Unwritten, FrameIs, PhaseOK, Stuck, InList
<1>9. ~Stuck(n) => Match(n)
  <2> SUFFICES ASSUME ~Stuck(n) PROVE Match(n)
    OBVIOUS
  <2>1. Match(m)
    BY <1>1, <1>7
  <2>2. HeadRead(m)
    BY <2>1 DEF Match, FrameLinks, HeadRead
  <2>3. HeadRead(n)
    BY <1>2, <2>2, AssignStep DEF HeadRead, FrameIs, PhaseOK
  <2>4. n.seg = m.seg /\ n.live = m.live /\ n.head = m.head /\ n.disk = m.disk
    BY AssignStep
  <2> QED
    BY <1>8, <2>1, <2>3, <2>4, QuietMatch
<1>10. StuckOK(n)
  BY <1>1, <1>2, AssignStep DEF StuckOK, Stuck, InList, FrameIs, PhaseOK
<1>11. ListOK(n.disk, FilesIn(n))
  <2>1. CASE Stuck(m)
    <3>1. m.f.block = SYSERR
      BY <1>1, <2>1, AssignStep DEF StuckOK
    <3>2. \A x \in Slots : BlockOf(n, x) \in Blocks => BlockOf(n, x) = BlockOf(m, x)
      BY <1>2, <3>1, AssignStep, NotBlocks DEF BlockOf, Making, FrameIs
    <3>3. \A x \in Slots : FilesIn(n)[x] \in Blocks => FilesIn(n)[x] = FilesIn(m)[x]
      BY <3>2, FilesInAre
    <3> QED
      BY <1>1, <3>3, AssignStep, ListOKLess
  <2>2. CASE ~Stuck(m)
    <3>2. ~Stuck(n)
      BY <1>2, <2>2, AssignStep DEF Stuck, InList, FrameIs
    <3>3. ListThere(n)
      BY <1>9, <3>2, AssignStep, MatchThere DEF Pending, Unwritten, Puts, FrameIs
    <3>4. Typed(n) /\ Once(InMemory(n), Cells)
      BY NextTyped, MemParts
    <3> QED
      BY <3>3, <3>4, ThereListOK DEF Typed
  <2> QED
    BY <2>1, <2>2
<1> QED
  BY <1>3, <1>4, <1>5, <1>6, <1>9, <1>10, <1>11, DiskParts

(* A failed write in fileDelete leaves something unsaved, so there is no   *)
(* such return.                                                            *)
LEMMA RefusedDisk ==
  ASSUME Single, TypeInv, ~wild, Refused(me), NEW m, m = Now, NEW n, n = Now', DiskInv(m)
  PROVE  FALSE
<1>1. m.f.at = "refused" /\ m.f.call = "delete" /\ SaneFrame(m)
  BY RefusedStep, DiskParts
<1> QED
  BY <1>1 DEF SaneFrame

(* The same links and numbers.                                             *)
LEMMA LinksKept ==
  ASSUME NEW m, NEW n, ListLinks(m), n.live = m.live, HeadOf(n) = HeadOf(m),
         \A x \in m.live : RealNext(n, x) = RealNext(m, x) /\ n.seg[x].num = m.seg[x].num
  PROVE  /\ ListLinks(n)
         /\ \A x \in m.live \cup {NULL} : NumberOf(n, x) = NumberOf(m, x)
         /\ NumberOf(n, HeadOf(n)) = NumberOf(m, HeadOf(m))
         /\ \A x \in m.live : NumberOf(n, RealNext(n, x)) = NumberOf(m, RealNext(m, x))
<1>1. ListLinks(n)
  BY DEF ListLinks
<1>2. \A x \in m.live \cup {NULL} : NumberOf(n, x) = NumberOf(m, x)
  BY DEF NumberOf
<1> QED
  BY <1>1, <1>2 DEF ListLinks

(* A segment with the same words, the same block and the same next one     *)
(* still matches.                                                          *)
LEMMA SegKept ==
  ASSUME NEW m, NEW n, NEW x, SegMatch(m, x), n.seg[x].num = m.seg[x].num, n.seg[x].count = m.seg[x].count,
         n.seg[x].free = m.seg[x].free, n.disk[m.seg[x].num] = m.disk[m.seg[x].num],
         NumberOf(n, RealNext(n, x)) = NumberOf(m, RealNext(m, x))
  PROVE  SegMatch(n, x)
  BY Zenon DEF SegMatch, Covers

(* fileCreate before and after it has a hand in the list.                  *)
LEMMA NoPhase ==
  ASSUME NEW f, f.call = "create", f.at \in {"get", "assign"}
  PROVE  ~Swapped(f) /\ ~Puts(f) /\ ~Emptying(f) /\ ~Emptied(f) /\ ~Starting(f) /\ ~Started(f) /\ ~Unwritten(f)
  BY DEF Swapped, Puts, Emptying, Emptied, Starting, Started, Unwritten

(* fileCreate while it writes a segment.                                   *)
LEMMA SwapPhase ==
  ASSUME NEW f, f.call = "create", f.what = "seg", f.at \in {"seek", "write", "unswizzle"}
  PROVE  Swapped(f) /\ ~Puts(f) /\ ~Emptying(f) /\ ~Emptied(f) /\ ~Starting(f) /\ ~Started(f)
         /\ (Unwritten(f) <=> f.at # "unswizzle")
  BY DEF Swapped, Puts, Emptying, Emptied, Starting, Started, Unwritten

(* fileCreate while it writes the superblock.                              *)
LEMMA SuperPhase ==
  ASSUME NEW f, f.call = "create", f.what = "super", f.at \in {"seek", "write", "last"}
  PROVE  ~Swapped(f) /\ ~Puts(f) /\ (Emptying(f) <=> f.at # "last") /\ (Emptied(f) <=> f.at = "last")
         /\ ~Starting(f) /\ ~Started(f) /\ ~Unwritten(f)
  BY DEF Swapped, Puts, Emptying, Emptied, Starting, Started, Unwritten


(* The segment is the one waiting to be written, with the number of the    *)
(* next.                                                                   *)
LEMMA GetEntryDisk ==
  ASSUME Single, TypeInv, TypeInv', ~wild, ~wild', GetEntry(me), NEW m, m = Now, NEW n, n = Now',
         MemOK(m), MemOK(n), DiskInv(m), ~unsaved'
  PROVE  DiskInv(n)
<1>1. /\ SaneSegs(m) /\ SaneDisk(m) /\ SaneFiles(m) /\ SaneFrame(m) /\ DirOK(m) /\ (~Stuck(m) => Match(m))
      /\ StuckOK(m) /\ (m.f.call # "delete" => ListOK(m.disk, FilesIn(m)))
  BY DiskParts
<1>2. /\ m.f \in Frames /\ PhaseOK(m.f) /\ FrameOK(m.f) /\ m.files \in [Slots -> Files] /\ m.lock \in {me, "free"} /\ m.f.fd \in Slots
      /\ (InList(m.f) => m.lock = me) /\ me # "free" /\ m.live \subseteq Cells /\ m.seg \in [Cells -> Segments]
  BY NowTyped, OneProcess, Constants DEF Typed, FrameOK, Frames
<1>3. InList(m.f) /\ ~Stuck(m) /\ Match(m)
  BY <1>1, <1>2, GetEntryStep DEF InList, Stuck
<1>4. ListLinks(m) /\ FrameLinks(m) /\ SuperMatch(m) /\ \A x \in m.live : ~Pending(m.f, x) => SegMatch(m, x)
  BY <1>3 DEF Match
<1> DEFINE c == m.f.cell
           s == m.seg[c]
           k == s.count - 1
<1>5. /\ c \in m.live /\ n.live = m.live /\ \A x \in Cells \ {c} : n.seg[x] = m.seg[x]
      /\ n.seg[c].num = s.num /\ n.seg[c].count = k /\ n.seg[c].next = NumberOf(m, s.next)
      /\ n.seg[c].free[k] = NULL /\ \A i \in Entries \ {k} : n.seg[c].free[i] = s.free[i]
      /\ n.disk = m.disk /\ n.head = m.head
  BY GetEntryStep
<1>6. s \in Segments /\ m.seg[c] = s /\ k = s.count - 1 /\ k \in Entries
  <2>1. s \in Segments /\ s.count > 0
    BY <1>2, GetEntryStep
  <2> HIDE DEF s
  <2> QED
    BY <2>1, Constants DEF Segments, Entries, s
<1>7. /\ ~Swapped(m.f) /\ ~Puts(m.f) /\ ~Emptying(m.f) /\ ~Emptied(m.f) /\ ~Starting(m.f) /\ ~Started(m.f) /\ ~Unwritten(m.f)
      /\ Swapped(n.f) /\ ~Puts(n.f) /\ ~Emptying(n.f) /\ ~Emptied(n.f) /\ ~Starting(n.f) /\ ~Started(n.f)
      /\ n.f.cell = c /\ n.f.save = s.next /\ Unwritten(n.f) /\ n.f.at = "seek" /\ n.f.call = "create"
  BY GetEntryStep, NoPhase, SwapPhase DEF FrameIs
<1>8. n.f.block = IF s.free[k] = NULL THEN SYSERR ELSE s.free[k]
  BY GetEntryStep DEF FrameIs
<1> HIDE DEF c, s, k
<1>9. SaneSegs(n)
  <2>1. ASSUME NEW x \in n.live
        PROVE  /\ Sane(n.seg[x].num)
               /\ \A i \in Entries : Plain(n.seg[x].free[i]) /\ (i >= n.seg[x].count => n.seg[x].free[i] \notin Blocks)
    <3>1. CASE x # c
      BY <1>1, <1>2, <1>5, <3>1 DEF SaneSegs
    <3>2. CASE x = c
      <4>1. Sane(s.num) /\ \A i \in Entries : Plain(s.free[i]) /\ (i >= s.count => s.free[i] \notin Blocks)
        BY <1>1, <1>5, <1>6 DEF SaneSegs
      <4>2. \A i \in Entries : i >= k /\ i # k => i >= s.count
        BY <1>6 DEF Segments, Entries
      <4>3. Plain(NULL) /\ NULL \notin Blocks
        BY NotBlocks DEF Plain
      <4> QED
        BY <1>5, <3>2, <4>1, <4>2, <4>3
    <3> QED
      BY <3>1, <3>2
  <2> QED
    BY <2>1 DEF SaneSegs
<1>10. SaneFrame(n)
  <2>1. Plain(s.free[k])
    BY <1>1, <1>5, <1>6 DEF SaneSegs
  <2>2. Sane(n.f.block)
    BY <1>8, <2>1 DEF Plain, Sane
  <2> QED
    BY <1>7, <2>2 DEF SaneFrame
<1>11. Match(n)
  <2>1. \A x \in m.live : RealNext(n, x) = RealNext(m, x) /\ n.seg[x].num = m.seg[x].num
    BY <1>2, <1>5, <1>6, <1>7 DEF RealNext
  <2>2. HeadOf(n) = HeadOf(m)
    BY <1>5, <1>7 DEF HeadOf
  <2>3. /\ ListLinks(n)
        /\ \A x \in m.live \cup {NULL} : NumberOf(n, x) = NumberOf(m, x)
        /\ NumberOf(n, HeadOf(n)) = NumberOf(m, HeadOf(m))
        /\ \A x \in m.live : NumberOf(n, RealNext(n, x)) = NumberOf(m, RealNext(m, x))
    BY <1>4, <1>5, <2>1, <2>2, LinksKept
  <2>4. s.next \in m.live \cup {NULL}
    BY <1>4, <1>5, <1>6, <1>7 DEF ListLinks, RealNext
  <2>5. FrameLinks(n)
    BY <1>5, <1>7, <2>3, <2>4 DEF FrameLinks
  <2>6. SuperMatch(n)
    BY <1>4, <1>5, <1>7, <2>3 DEF SuperMatch
  <2>7. ASSUME NEW x \in n.live, ~Pending(n.f, x) PROVE SegMatch(n, x)
    <3>1. x # c /\ x \in m.live /\ ~Pending(m.f, x)
      BY <1>5, <1>7, <2>7 DEF Pending
    <3>2. n.seg[x] = m.seg[x] /\ SegMatch(m, x)
      BY <1>2, <1>4, <1>5, <3>1
    <3> QED
      BY <1>5, <2>3, <3>1, <3>2, SegKept
  <2> QED
    BY <1>7, <2>3, <2>5, <2>6, <2>7 DEF Match
<1>20. SaneDisk(n) /\ SaneFiles(n)
  BY <1>1, GetEntryStep DEF SaneDisk, SaneFiles
<1>21. DirOK(n)
  BY <1>1, <1>2, GetEntryStep DEF DirOK, Deleting, Making, FrameIs
<1>22. StuckOK(n)
  BY <1>1, <1>2, GetEntryStep DEF StuckOK, Stuck, InList, FrameIs
<1>23. ListOK(n.disk, FilesIn(n))
  <2>1. \A x \in Slots : FilesIn(n)[x] = FilesIn(m)[x]
    BY <1>2, GetEntryStep, FilesInAre DEF BlockOf, Making, FrameIs
  <2> QED
    BY <1>1, <2>1, GetEntryStep, ListOKLess
<1> QED
  BY <1>9, <1>10, <1>11, <1>20, <1>21, <1>22, <1>23, DiskParts

(* The next segment is gone from the list, and the first one is waiting to *)
(* be written.                                                             *)
LEMMA GetSegmentDisk ==
  ASSUME Single, TypeInv, TypeInv', ~wild, ~wild', GetSegment(me), NEW m, m = Now, NEW n, n = Now',
         MemOK(m), MemOK(n), DiskInv(m), ~unsaved'
  PROVE  DiskInv(n)
<1>1. /\ SaneSegs(m) /\ SaneDisk(m) /\ SaneFiles(m) /\ SaneFrame(m) /\ DirOK(m) /\ (~Stuck(m) => Match(m))
      /\ StuckOK(m) /\ (m.f.call # "delete" => ListOK(m.disk, FilesIn(m)))
  BY DiskParts
<1>2. /\ m.f \in Frames /\ PhaseOK(m.f) /\ FrameOK(m.f) /\ m.files \in [Slots -> Files] /\ m.lock \in {me, "free"} /\ m.f.fd \in Slots
      /\ (InList(m.f) => m.lock = me) /\ me # "free" /\ m.live \subseteq Cells /\ m.seg \in [Cells -> Segments]
  BY NowTyped, OneProcess, Constants DEF Typed, FrameOK, Frames
<1>3. InList(m.f) /\ ~Stuck(m) /\ Match(m)
  BY <1>1, <1>2, GetSegmentStep DEF InList, Stuck
<1>4. ListLinks(m) /\ FrameLinks(m) /\ SuperMatch(m) /\ \A x \in m.live : ~Pending(m.f, x) => SegMatch(m, x)
  BY <1>3 DEF Match
<1> DEFINE c == m.f.cell
           y == m.seg[c].next
           t == m.seg[y]
<1>5. /\ c \in m.live /\ y \in m.live /\ n.live = m.live \ {y} /\ \A x \in Cells \ {c} : n.seg[x] = m.seg[x]
      /\ n.seg[c].num = m.seg[c].num /\ n.seg[c].count = t.count /\ n.seg[c].next = NumberOf(m, t.next)
      /\ \A i \in Entries : n.seg[c].free[i] = IF i < t.count THEN t.free[i] ELSE m.seg[c].free[i]
      /\ n.disk = m.disk /\ n.head = m.head /\ m.seg[c].count = 0
  BY GetSegmentStep
<1>6. m.seg[y] = t /\ t \in Segments /\ m.seg[c].next = y
  BY <1>2, <1>5, Zenon
<1>7. /\ ~Swapped(m.f) /\ ~Puts(m.f) /\ ~Emptying(m.f) /\ ~Emptied(m.f) /\ ~Starting(m.f) /\ ~Started(m.f) /\ ~Unwritten(m.f)
      /\ Swapped(n.f) /\ ~Puts(n.f) /\ ~Emptying(n.f) /\ ~Emptied(n.f) /\ ~Starting(n.f) /\ ~Started(n.f)
      /\ n.f.cell = c /\ n.f.save = t.next /\ Unwritten(n.f) /\ n.f.at = "seek" /\ n.f.call = "create"
  BY GetSegmentStep, NoPhase, SwapPhase DEF FrameIs
<1>8. n.f.block = t.num
  BY GetSegmentStep DEF FrameIs
<1>30. c = m.head /\ m.f.cell = c
  BY <1>4, GetSegmentStep DEF FrameLinks
<1> HIDE DEF c, y, t
<1>9. SaneSegs(n)
  <2>1. ASSUME NEW x \in n.live
        PROVE  /\ Sane(n.seg[x].num)
               /\ \A i \in Entries : Plain(n.seg[x].free[i]) /\ (i >= n.seg[x].count => n.seg[x].free[i] \notin Blocks)
    <3>0. x \in m.live
      BY <1>5
    <3>1. CASE x # c
      BY <1>1, <1>2, <1>5, <3>0, <3>1 DEF SaneSegs
    <3>2. CASE x = c
      <4>1. Sane(m.seg[c].num) /\ \A i \in Entries : Plain(m.seg[c].free[i]) /\ (i >= 0 => m.seg[c].free[i] \notin Blocks)
        BY <1>1, <1>5 DEF SaneSegs
      <4>2. \A i \in Entries : Plain(t.free[i]) /\ i >= 0 /\ (i >= t.count => ~(i < t.count))
        BY <1>1, <1>5, <1>6 DEF SaneSegs, Segments, Entries
      <4> QED
        BY <1>5, <3>2, <4>1, <4>2
    <3> QED
      BY <3>1, <3>2
  <2> QED
    BY <2>1 DEF SaneSegs
<1>10. SaneFrame(n)
  <2>1. Sane(t.num)
    BY <1>1, <1>5, <1>6 DEF SaneSegs
  <2> QED
    BY <1>7, <1>8, <2>1 DEF SaneFrame
<1>11. Match(n)
  <2>1. /\ \A x \in m.live : RealNext(m, x) = m.seg[x].next /\ RealNext(m, x) \in m.live \cup {NULL}
        /\ HeadOf(m) = c /\ HeadOf(n) = c
    BY <1>4, <1>5, <1>7, <1>30 DEF RealNext, HeadOf, ListLinks
  <2>2. y # NULL /\ y # c
    <3>1. y # NULL
      BY <1>2, <1>5, Unlike
    <3> QED
      BY <1>4, <1>5, <1>6, <2>1, <3>1 DEF ListLinks
  <2>3. t.next \in n.live \cup {NULL} /\ t.next # c
    <3>1. t.next = RealNext(m, y) /\ t.next \in m.live \cup {NULL}
      BY <1>5, <1>6, <2>1
    <3>2. t.next # y
      BY <1>4, <1>5, <1>6, <2>1, <2>2, <3>1 DEF ListLinks
    <3>3. t.next # c
      <4>1. c # NULL
        BY <1>2, <1>5, Unlike
      <4> QED
        BY <1>4, <1>5, <2>1, <3>1, <4>1 DEF ListLinks
    <3> QED
      BY <1>5, <3>1, <3>2, <3>3
  <2>4. RealNext(n, c) = t.next /\ \A x \in n.live : x # c => RealNext(n, x) = m.seg[x].next
    BY <1>2, <1>5, <1>7 DEF RealNext
  <2>5. ASSUME NEW x \in n.live, x # c PROVE RealNext(n, x) \in n.live \cup {NULL} /\ RealNext(n, x) = RealNext(m, x)
    <3>1. x \in m.live /\ RealNext(n, x) = RealNext(m, x) /\ RealNext(m, x) \in m.live \cup {NULL}
      BY <1>5, <2>1, <2>4, <2>5
    <3>2. RealNext(m, x) # y
      BY <1>4, <1>5, <1>6, <2>1, <2>2, <2>5, <3>1 DEF ListLinks
    <3> QED
      BY <1>5, <3>1, <3>2
  <2>6. ListLinks(n)
    <3>1. HeadOf(n) \in n.live \cup {NULL}
      BY <1>5, <2>1, <2>2
    <3>2. \A x \in n.live : RealNext(n, x) \in n.live \cup {NULL}
      BY <2>3, <2>4, <2>5
    <3>3. \A x \in n.live : RealNext(n, x) # NULL => RealNext(n, x) # HeadOf(n)
      <4> SUFFICES ASSUME NEW x \in n.live, RealNext(n, x) # NULL PROVE RealNext(n, x) # c
        BY <2>1
      <4>1. CASE x = c
        BY <2>3, <2>4, <4>1
      <4>2. CASE x # c
        BY <1>4, <1>5, <2>1, <2>5, <4>2 DEF ListLinks
      <4> QED
        BY <4>1, <4>2
    <3>4. ASSUME NEW x \in n.live, NEW z \in n.live, RealNext(n, x) = RealNext(n, z), RealNext(n, x) # NULL PROVE x = z
      <4>1. ASSUME NEW w \in n.live, w # c PROVE RealNext(n, w) # t.next \/ t.next = NULL
        <5>1. w \in m.live /\ w # y /\ RealNext(n, w) = RealNext(m, w) /\ t.next = RealNext(m, y)
          BY <1>5, <1>6, <2>1, <2>5, <4>1
        <5> QED
          BY <1>4, <1>5, <5>1 DEF ListLinks
      <4>2. CASE x = c
        BY <2>4, <3>4, <4>1, <4>2
      <4>3. CASE z = c
        BY <2>4, <3>4, <4>1, <4>3
      <4>4. CASE x # c /\ z # c
        BY <1>4, <1>5, <2>5, <3>4, <4>4 DEF ListLinks
      <4> QED
        BY <4>2, <4>3, <4>4
    <3> QED
      BY <3>1, <3>2, <3>3, <3>4 DEF ListLinks
  <2>7. \A x \in m.live \cup {NULL} : NumberOf(n, x) = NumberOf(m, x)
    BY <1>2, <1>5 DEF NumberOf
  <2>8. FrameLinks(n)
    BY <1>5, <1>7, <2>2, <2>3, <2>7 DEF FrameLinks
  <2>9. SuperMatch(n)
    BY <1>4, <1>5, <1>7, <2>1, <2>7 DEF SuperMatch
  <2>10. ASSUME NEW x \in n.live, ~Pending(n.f, x) PROVE SegMatch(n, x)
    <3>1. x # c /\ x \in m.live /\ ~Pending(m.f, x)
      BY <1>5, <1>7, <2>10 DEF Pending
    <3>2. n.seg[x] = m.seg[x] /\ SegMatch(m, x)
      BY <1>2, <1>4, <1>5, <3>1
    <3>3. NumberOf(n, RealNext(n, x)) = NumberOf(m, RealNext(m, x))
      BY <2>1, <2>5, <2>7, <3>1
    <3> QED
      BY <1>5, <3>2, <3>3, SegKept
  <2> QED
    BY <1>7, <2>6, <2>8, <2>9, <2>10 DEF Match
<1>20. SaneDisk(n) /\ SaneFiles(n)
  BY <1>1, GetSegmentStep DEF SaneDisk, SaneFiles
<1>21. DirOK(n)
  BY <1>1, <1>2, GetSegmentStep DEF DirOK, Deleting, Making, FrameIs
<1>22. StuckOK(n)
  BY <1>1, <1>2, GetSegmentStep DEF StuckOK, Stuck, InList, FrameIs
<1>23. ListOK(n.disk, FilesIn(n))
  <2>1. \A x \in Slots : FilesIn(n)[x] = FilesIn(m)[x]
    BY <1>2, GetSegmentStep, FilesInAre DEF BlockOf, Making, FrameIs
  <2> QED
    BY <1>1, <2>1, GetSegmentStep, ListOKLess
<1> QED
  BY <1>9, <1>10, <1>11, <1>20, <1>21, <1>22, <1>23, DiskParts

(* The superblock is waiting to be written.                                *)
LEMMA GetLastDisk ==
  ASSUME Single, TypeInv, TypeInv', ~wild, ~wild', GetLast(me), NEW m, m = Now, NEW n, n = Now',
         MemOK(m), MemOK(n), DiskInv(m), ~unsaved'
  PROVE  DiskInv(n)
<1>1. /\ SaneSegs(m) /\ SaneDisk(m) /\ SaneFiles(m) /\ SaneFrame(m) /\ DirOK(m) /\ (~Stuck(m) => Match(m))
      /\ StuckOK(m) /\ (m.f.call # "delete" => ListOK(m.disk, FilesIn(m)))
  BY DiskParts
<1>2. /\ m.f \in Frames /\ PhaseOK(m.f) /\ FrameOK(m.f) /\ m.files \in [Slots -> Files] /\ m.lock \in {me, "free"} /\ m.f.fd \in Slots
      /\ (InList(m.f) => m.lock = me) /\ me # "free" /\ m.live \subseteq Cells /\ m.seg \in [Cells -> Segments]
  BY NowTyped, OneProcess, Constants DEF Typed, FrameOK, Frames
<1>3. InList(m.f) /\ ~Stuck(m) /\ Match(m)
  BY <1>1, <1>2, GetLastStep DEF InList, Stuck
<1>4. ListLinks(m) /\ FrameLinks(m) /\ SuperMatch(m) /\ \A x \in m.live : ~Pending(m.f, x) => SegMatch(m, x)
  BY <1>3 DEF Match
<1> DEFINE c == m.f.cell
<1>5. /\ c \in m.live /\ n.live = m.live /\ n.seg = m.seg /\ n.disk = m.disk /\ n.head = NULL
  BY GetLastStep
<1>6. c = m.head
  BY <1>4, GetLastStep DEF FrameLinks
<1>7. /\ ~Swapped(m.f) /\ ~Puts(m.f) /\ ~Emptying(m.f) /\ ~Emptied(m.f) /\ ~Starting(m.f) /\ ~Started(m.f) /\ ~Unwritten(m.f)
      /\ ~Swapped(n.f) /\ ~Puts(n.f) /\ Emptying(n.f) /\ ~Emptied(n.f) /\ ~Starting(n.f) /\ ~Started(n.f) /\ ~Unwritten(n.f)
      /\ n.f.cell = c /\ n.f.at = "seek" /\ n.f.call = "create"
  BY GetLastStep, NoPhase, SuperPhase DEF FrameIs
<1>9. SaneSegs(n)
  BY <1>1, <1>5 DEF SaneSegs
<1>10. SaneFrame(n)
  BY <1>7 DEF SaneFrame, Holding
<1>11. Match(n)
  <2>1. \A x \in m.live : RealNext(n, x) = RealNext(m, x) /\ n.seg[x].num = m.seg[x].num
    BY <1>5, <1>7 DEF RealNext
  <2>2. HeadOf(n) = HeadOf(m)
    BY <1>5, <1>6, <1>7 DEF HeadOf
  <2>3. /\ ListLinks(n)
        /\ NumberOf(n, HeadOf(n)) = NumberOf(m, HeadOf(m))
        /\ \A x \in m.live : NumberOf(n, RealNext(n, x)) = NumberOf(m, RealNext(m, x))
    BY <1>4, <1>5, <2>1, <2>2, LinksKept
  <2>5. FrameLinks(n)
    BY <1>5, <1>7 DEF FrameLinks
  <2>6. SuperMatch(n)
    BY <1>4, <1>5, <1>7, <2>3 DEF SuperMatch
  <2>7. ASSUME NEW x \in n.live PROVE SegMatch(n, x)
    <3>1. SegMatch(m, x)
      BY <1>4, <1>5, <1>7 DEF Pending
    <3> QED
      BY <1>5, <2>3, <3>1, SegKept
  <2> QED
    BY <1>7, <2>3, <2>5, <2>6, <2>7 DEF Match
<1>20. SaneDisk(n) /\ SaneFiles(n)
  BY <1>1, GetLastStep DEF SaneDisk, SaneFiles
<1>21. DirOK(n)
  BY <1>1, <1>2, GetLastStep DEF DirOK, Deleting, Making, FrameIs
<1>22. StuckOK(n)
  BY <1>1, <1>2, GetLastStep DEF StuckOK, Stuck, InList, FrameIs
<1>23. ListOK(n.disk, FilesIn(n))
  <2>1. \A x \in Slots : FilesIn(n)[x] = FilesIn(m)[x]
    BY <1>2, GetLastStep, FilesInAre DEF BlockOf, Making, FrameIs
  <2> QED
    BY <1>1, <2>1, GetLastStep, ListOKLess
<1> QED
  BY <1>9, <1>10, <1>11, <1>20, <1>21, <1>22, <1>23, DiskParts

(* The list is empty in memory and on the disk.                            *)
LEMMA LastDoneDisk ==
  ASSUME Single, TypeInv, TypeInv', ~wild, ~wild', LastDone(me), NEW m, m = Now, NEW n, n = Now',
         MemOK(m), MemOK(n), DiskInv(m), ~unsaved'
  PROVE  DiskInv(n)
<1>1. /\ SaneSegs(m) /\ SaneDisk(m) /\ SaneFiles(m) /\ SaneFrame(m) /\ DirOK(m) /\ (~Stuck(m) => Match(m))
      /\ StuckOK(m) /\ (m.f.call # "delete" => ListOK(m.disk, FilesIn(m)))
  BY DiskParts
<1>2. /\ m.f \in Frames /\ PhaseOK(m.f) /\ FrameOK(m.f) /\ m.files \in [Slots -> Files] /\ m.lock \in {me, "free"} /\ m.f.fd \in Slots
      /\ (InList(m.f) => m.lock = me) /\ me # "free" /\ m.live \subseteq Cells /\ m.seg \in [Cells -> Segments]
  BY NowTyped, OneProcess, Constants DEF Typed, FrameOK, Frames
<1>3. InList(m.f) /\ ~Stuck(m) /\ Match(m)
  BY <1>1, <1>2, LastDoneStep DEF InList, Stuck
<1>4. ListLinks(m) /\ FrameLinks(m) /\ SuperMatch(m) /\ \A x \in m.live : ~Pending(m.f, x) => SegMatch(m, x)
  BY <1>3 DEF Match
<1> DEFINE c == m.f.cell
<1>5. /\ n.live = m.live \ {c} /\ n.seg = m.seg /\ n.disk = m.disk /\ n.head = m.head
  BY LastDoneStep
<1>6. m.f.at = "last" /\ m.f.what = "super" /\ m.f.call = "create"
  BY <1>2, LastDoneStep DEF PhaseOK
<1>7. /\ ~Swapped(m.f) /\ ~Puts(m.f) /\ ~Emptying(m.f) /\ Emptied(m.f) /\ ~Starting(m.f) /\ ~Started(m.f) /\ ~Unwritten(m.f)
      /\ ~Swapped(n.f) /\ ~Puts(n.f) /\ ~Emptying(n.f) /\ ~Emptied(n.f) /\ ~Starting(n.f) /\ ~Started(n.f) /\ ~Unwritten(n.f)
      /\ n.f.block = m.f.block /\ n.f.at = "assign" /\ n.f.call = "create"
  BY <1>6, LastDoneStep, NoPhase, SuperPhase DEF FrameIs
<1>8. m.head = NULL /\ c \in m.live /\ m.f.block = m.seg[c].num
  BY <1>4, <1>7 DEF FrameLinks, MemOK
<1>9. SaneSegs(n)
  BY <1>1, <1>5 DEF SaneSegs
<1>10. SaneFrame(n)
  <2>1. Sane(m.f.block)
    BY <1>1, <1>8 DEF SaneSegs
  <2> QED
    BY <1>7, <2>1 DEF SaneFrame
<1>11. Match(n)
  <2>1. \A x \in m.live : RealNext(n, x) = RealNext(m, x)
    BY <1>5, <1>7 DEF RealNext
  <2>2. HeadOf(n) = NULL /\ HeadOf(m) = c
    BY <1>5, <1>7, <1>8 DEF HeadOf
  <2>3. ASSUME NEW x \in n.live PROVE RealNext(n, x) \in n.live \cup {NULL}
    <3>1. x \in m.live /\ RealNext(m, x) \in m.live \cup {NULL} /\ (RealNext(m, x) # NULL => RealNext(m, x) # c)
      BY <1>4, <1>5, <2>2 DEF ListLinks
    <3> QED
      BY <1>5, <2>1, <3>1
  <2>4. ListLinks(n)
    BY <1>4, <1>5, <2>1, <2>2, <2>3 DEF ListLinks
  <2>5. FrameLinks(n)
    BY <1>7 DEF FrameLinks
  <2>6. SuperMatch(n)
    BY <1>4, <1>5, <1>7, <2>2 DEF SuperMatch, NumberOf
  <2>7. ASSUME NEW x \in n.live PROVE SegMatch(n, x)
    <3>1. SegMatch(m, x) /\ x \in m.live
      BY <1>4, <1>5, <1>7 DEF Pending
    <3>2. NumberOf(n, RealNext(n, x)) = NumberOf(m, RealNext(m, x))
      BY <1>5, <2>1, <3>1 DEF NumberOf
    <3> QED
      BY <1>5, <3>1, <3>2, SegKept
  <2> QED
    BY <1>7, <2>4, <2>5, <2>6, <2>7 DEF Match
<1>20. SaneDisk(n) /\ SaneFiles(n)
  BY <1>1, LastDoneStep DEF SaneDisk, SaneFiles
<1>21. DirOK(n)
  BY <1>1, <1>2, LastDoneStep DEF DirOK, Deleting, Making, FrameIs
<1>22. StuckOK(n)
  BY <1>1, <1>2, LastDoneStep DEF StuckOK, Stuck, InList, FrameIs
<1>23. ListOK(n.disk, FilesIn(n))
  <2>1. \A x \in Slots : FilesIn(n)[x] = FilesIn(m)[x]
    BY <1>2, LastDoneStep, FilesInAre DEF BlockOf, Making, FrameIs
  <2> QED
    BY <1>1, <2>1, LastDoneStep, ListOKLess
<1> QED
  BY <1>9, <1>10, <1>11, <1>20, <1>21, <1>22, <1>23, DiskParts

(* The segment has been written, and its link is a pointer again.          *)
LEMMA UnswizzleDisk ==
  ASSUME Single, TypeInv, TypeInv', ~wild, ~wild', Unswizzle(me), NEW m, m = Now, NEW n, n = Now',
         MemOK(m), MemOK(n), DiskInv(m), ~unsaved'
  PROVE  DiskInv(n)
<1>1. /\ SaneSegs(m) /\ SaneDisk(m) /\ SaneFiles(m) /\ SaneFrame(m) /\ DirOK(m) /\ (~Stuck(m) => Match(m))
      /\ StuckOK(m) /\ (m.f.call # "delete" => ListOK(m.disk, FilesIn(m)))
  BY DiskParts
<1>2. /\ m.f \in Frames /\ PhaseOK(m.f) /\ FrameOK(m.f) /\ m.files \in [Slots -> Files] /\ m.lock \in {me, "free"} /\ m.f.fd \in Slots
      /\ (InList(m.f) => m.lock = me) /\ me # "free" /\ m.live \subseteq Cells /\ m.seg \in [Cells -> Segments]
  BY NowTyped, OneProcess, Constants DEF Typed, FrameOK, Frames
<1>3. InList(m.f) /\ ~Stuck(m) /\ Match(m)
  BY <1>1, <1>2, UnswizzleStep DEF InList, Stuck
<1>4. ListLinks(m) /\ FrameLinks(m) /\ SuperMatch(m) /\ \A x \in m.live : ~Pending(m.f, x) => SegMatch(m, x)
  BY <1>3 DEF Match
<1> DEFINE c == m.f.cell
<1>5. /\ n.live = m.live /\ n.disk = m.disk /\ n.head = m.head /\ \A x \in Cells \ {c} : n.seg[x] = m.seg[x]
      /\ n.seg[c].num = m.seg[c].num /\ n.seg[c].count = m.seg[c].count /\ n.seg[c].free = m.seg[c].free
      /\ n.seg[c].next = m.f.save
  BY UnswizzleStep
<1>7. /\ Swapped(m.f) /\ ~Puts(m.f) /\ ~Emptying(m.f) /\ ~Emptied(m.f) /\ ~Starting(m.f) /\ ~Started(m.f) /\ ~Unwritten(m.f)
      /\ ~Swapped(n.f) /\ ~Puts(n.f) /\ ~Emptying(n.f) /\ ~Emptied(n.f) /\ ~Starting(n.f) /\ ~Started(n.f) /\ ~Unwritten(n.f)
      /\ n.f.block = m.f.block /\ n.f.at = "assign" /\ n.f.call = "create" /\ m.f.cell = c
  BY UnswizzleStep, NoPhase, SwapPhase DEF FrameIs
<1> HIDE DEF c
<1>8. \A x \in m.live : n.seg[x].num = m.seg[x].num /\ n.seg[x].count = m.seg[x].count /\ n.seg[x].free = m.seg[x].free
  BY <1>2, <1>5
<1>9. SaneSegs(n)
  BY <1>1, <1>5, <1>8 DEF SaneSegs
<1>10. SaneFrame(n)
  BY <1>1, <1>7 DEF SaneFrame, Holding
<1>11. Match(n)
  <2>1. \A x \in m.live : RealNext(n, x) = RealNext(m, x)
    BY <1>2, <1>5, <1>7 DEF RealNext
  <2>2. HeadOf(n) = HeadOf(m)
    BY <1>5, <1>7 DEF HeadOf
  <2>3. /\ ListLinks(n)
        /\ NumberOf(n, HeadOf(n)) = NumberOf(m, HeadOf(m))
        /\ \A x \in m.live : NumberOf(n, RealNext(n, x)) = NumberOf(m, RealNext(m, x))
    BY <1>4, <1>5, <1>8, <2>1, <2>2, LinksKept
  <2>5. FrameLinks(n)
    BY <1>7 DEF FrameLinks
  <2>6. SuperMatch(n)
    BY <1>4, <1>5, <1>7, <2>3 DEF SuperMatch
  <2>7. ASSUME NEW x \in n.live PROVE SegMatch(n, x)
    <3>1. SegMatch(m, x) /\ x \in m.live
      BY <1>4, <1>5, <1>7 DEF Pending
    <3> QED
      BY <1>5, <1>8, <2>3, <3>1, SegKept
  <2> QED
    BY <1>7, <2>3, <2>5, <2>6, <2>7 DEF Match
<1>20. SaneDisk(n) /\ SaneFiles(n)
  BY <1>1, UnswizzleStep DEF SaneDisk, SaneFiles
<1>21. DirOK(n)
  BY <1>1, <1>2, UnswizzleStep DEF DirOK, Deleting, Making, FrameIs
<1>22. StuckOK(n)
  BY <1>1, <1>2, UnswizzleStep DEF StuckOK, Stuck, InList, FrameIs
<1>23. ListOK(n.disk, FilesIn(n))
  <2>1. \A x \in Slots : FilesIn(n)[x] = FilesIn(m)[x]
    BY <1>2, UnswizzleStep, FilesInAre DEF BlockOf, Making, FrameIs
  <2> QED
    BY <1>1, <2>1, UnswizzleStep, ListOKLess
<1> QED
  BY <1>9, <1>10, <1>11, <1>20, <1>21, <1>22, <1>23, DiskParts

(* fileDelete before it puts its block.                                    *)
LEMMA PutPhase ==
  ASSUME NEW f, f.call = "delete", f.at = "put"
  PROVE  ~Swapped(f) /\ ~Puts(f) /\ ~Emptying(f) /\ ~Emptied(f) /\ ~Starting(f) /\ ~Started(f) /\ ~Unwritten(f)
  BY DEF Swapped, Puts, Emptying, Emptied, Starting, Started, Unwritten

(* fileDelete while it writes a superblock or a segment.                   *)
LEMMA StartPhase ==
  ASSUME NEW f, f.call = "delete", f.what \in {"super", "back"}, f.at \in {"seek", "write"}
  PROVE  /\ ~Swapped(f) /\ Puts(f) /\ ~Emptying(f) /\ ~Emptied(f) /\ (Starting(f) <=> f.what = "super")
         /\ ~Started(f) /\ ~Unwritten(f)
  BY DEF Swapped, Puts, Emptying, Emptied, Starting, Started, Unwritten

(* fileDelete after the superblock is written.                             *)
LEMMA RelinkPhase ==
  ASSUME NEW f, f.call = "delete", f.at = "relink"
  PROVE  ~Swapped(f) /\ Puts(f) /\ ~Emptying(f) /\ ~Emptied(f) /\ ~Starting(f) /\ Started(f) /\ ~Unwritten(f)
  BY DEF Swapped, Puts, Emptying, Emptied, Starting, Started, Unwritten

(* fileDelete after the segment is written.                                *)
LEMMA FreedPhase ==
  ASSUME NEW f, f.call = "delete", f.at = "freed"
  PROVE  ~Swapped(f) /\ ~Puts(f) /\ ~Emptying(f) /\ ~Emptied(f) /\ ~Starting(f) /\ ~Started(f) /\ ~Unwritten(f)
  BY DEF Swapped, Puts, Emptying, Emptied, Starting, Started, Unwritten

(* The block and the superblock are waiting to be written.                 *)
LEMMA PutFirstDisk ==
  ASSUME Single, TypeInv, TypeInv', ~wild, ~wild', PutFirst(me), NEW m, m = Now, NEW n, n = Now',
         MemOK(m), MemOK(n), DiskInv(m), ~unsaved'
  PROVE  DiskInv(n)
<1>1. /\ SaneSegs(m) /\ SaneDisk(m) /\ SaneFiles(m) /\ SaneFrame(m) /\ DirOK(m) /\ (~Stuck(m) => Match(m))
      /\ StuckOK(m) /\ (m.f.call # "delete" => ListOK(m.disk, FilesIn(m)))
  BY DiskParts
<1>2. /\ m.f \in Frames /\ PhaseOK(m.f) /\ FrameOK(m.f) /\ m.files \in [Slots -> Files] /\ m.lock \in {me, "free"} /\ m.f.fd \in Slots
      /\ (InList(m.f) => m.lock = me) /\ me # "free" /\ m.live \subseteq Cells /\ m.seg \in [Cells -> Segments]
  BY NowTyped, OneProcess, Constants DEF Typed, FrameOK, Frames
<1>3. InList(m.f) /\ ~Stuck(m) /\ Match(m)
  BY <1>1, <1>2, PutFirstStep DEF InList, Stuck
<1>4. ListLinks(m) /\ FrameLinks(m) /\ SuperMatch(m) /\ \A x \in m.live : ~Pending(m.f, x) => SegMatch(m, x)
  BY <1>3 DEF Match
<1> DEFINE c == n.f.cell
           b == m.f.block
<1>5. /\ c \in Cells \ m.live /\ n.live = m.live \cup {c} /\ \A x \in Cells \ {c} : n.seg[x] = m.seg[x]
      /\ n.seg[c] = Fresh(b) /\ n.disk = m.disk /\ n.head = b
  BY PutFirstStep
<1>6. /\ n.seg[c].num = b /\ n.seg[c].count = 0 /\ n.seg[c].next = NULL /\ \A i \in Entries : n.seg[c].free[i] = JUNK
  <2>1. Fresh(b).num = b /\ Fresh(b).count = 0 /\ Fresh(b).next = NULL /\ \A i \in Entries : Fresh(b).free[i] = JUNK
    BY DEF Fresh, Blank
  <2> HIDE DEF b, c
  <2> QED
    BY <1>5, <2>1
<1>7. /\ ~Swapped(m.f) /\ ~Puts(m.f) /\ ~Emptying(m.f) /\ ~Emptied(m.f) /\ ~Starting(m.f) /\ ~Started(m.f) /\ ~Unwritten(m.f)
      /\ ~Swapped(n.f) /\ Puts(n.f) /\ ~Emptying(n.f) /\ ~Emptied(n.f) /\ Starting(n.f) /\ ~Started(n.f) /\ ~Unwritten(n.f)
      /\ n.f.save = c /\ n.f.cell = c /\ n.f.at = "seek" /\ n.f.call = "delete" /\ n.f.what = "super"
      /\ m.f.at = "put" /\ m.f.call = "delete"
  BY PutFirstStep, PutPhase, StartPhase DEF FrameIs
<1>8. m.head = NULL /\ Sane(b)
  BY <1>1, <1>4, PutFirstStep DEF FrameLinks, SaneFrame, Holding
<1> HIDE DEF c, b
<1>30. c # NULL /\ NULL \notin m.live /\ JUNK \notin Blocks
  BY <1>2, <1>5, Unlike
<1>9. SaneSegs(n)
  <2>1. ASSUME NEW x \in n.live
        PROVE  /\ Sane(n.seg[x].num)
               /\ \A i \in Entries : Plain(n.seg[x].free[i]) /\ (i >= n.seg[x].count => n.seg[x].free[i] \notin Blocks)
    <3>1. CASE x # c
      BY <1>1, <1>2, <1>5, <3>1 DEF SaneSegs
    <3>2. CASE x = c
      BY <1>6, <1>8, <1>30, <3>2 DEF Plain
    <3> QED
      BY <3>1, <3>2
  <2> QED
    BY <2>1 DEF SaneSegs
<1>10. SaneFrame(n)
  BY <1>7 DEF SaneFrame, Holding
<1>11. Match(n)
  <2>1. /\ \A x \in m.live : RealNext(m, x) = m.seg[x].next /\ RealNext(m, x) \in m.live \cup {NULL}
        /\ HeadOf(m) = NULL /\ HeadOf(n) = c
    BY <1>4, <1>7, <1>8 DEF RealNext, HeadOf, ListLinks
  <2>2. RealNext(n, c) = NULL /\ \A x \in m.live : RealNext(n, x) = RealNext(m, x) /\ n.seg[x] = m.seg[x] /\ x # c
    BY <1>2, <1>5, <1>6, <1>7, <2>1 DEF RealNext
  <2>3. ListLinks(n)
    <3>1. \A x \in n.live : RealNext(n, x) \in m.live \cup {NULL}
      BY <1>5, <2>1, <2>2
    <3>2. \A x \in n.live : RealNext(n, x) # NULL => RealNext(n, x) # HeadOf(n) /\ x \in m.live
      BY <1>5, <2>1, <2>2, <3>1
    <3>3. \A x, y \in n.live : RealNext(n, x) = RealNext(n, y) /\ RealNext(n, x) # NULL => x = y
      BY <1>4, <2>2, <3>2 DEF ListLinks
    <3> QED
      BY <1>5, <2>1, <3>1, <3>2, <3>3 DEF ListLinks
  <2>4. \A x \in m.live \cup {NULL} : NumberOf(n, x) = NumberOf(m, x)
    BY <2>2 DEF NumberOf
  <2>5. FrameLinks(n)
    BY <1>5, <1>6, <1>7 DEF FrameLinks
  <2>6. SuperMatch(n)
    BY <1>4, <1>5, <1>7, <2>1 DEF SuperMatch, NumberOf
  <2>7. ASSUME NEW x \in n.live, ~Pending(n.f, x) PROVE SegMatch(n, x)
    <3>1. x # c /\ x \in m.live /\ ~Pending(m.f, x)
      BY <1>5, <1>7, <2>7 DEF Pending
    <3>2. n.seg[x] = m.seg[x] /\ SegMatch(m, x)
      BY <1>2, <1>4, <1>5, <3>1
    <3>3. NumberOf(n, RealNext(n, x)) = NumberOf(m, RealNext(m, x))
      BY <2>1, <2>2, <2>4, <3>1
    <3> QED
      BY <1>5, <3>2, <3>3, SegKept
  <2> QED
    BY <1>7, <2>3, <2>5, <2>6, <2>7 DEF Match
<1>20. SaneDisk(n) /\ SaneFiles(n)
  BY <1>1, PutFirstStep DEF SaneDisk, SaneFiles
<1>21. DirOK(n)
  BY <1>1, <1>2, PutFirstStep DEF DirOK, Deleting, Making, FrameIs
<1>22. StuckOK(n)
  BY <1>1, <1>2, PutFirstStep DEF StuckOK, Stuck, InList, FrameIs
<1>23. n.f.call = "delete"
  BY PutFirstStep DEF FrameIs
<1> QED
  BY <1>9, <1>10, <1>11, <1>20, <1>21, <1>22, <1>23, DiskParts

(* A new segment that is not the first leaves something unsaved.           *)
LEMMA PutSegmentDisk ==
  ASSUME Single, TypeInv, ~wild, PutSegment(me), ~unsaved'
  PROVE  FALSE
  BY DEF PutSegment

(* The superblock is as it was, and the segment is waiting to be written.  *)
LEMMA RelinkDisk ==
  ASSUME Single, TypeInv, TypeInv', ~wild, ~wild', Relink(me), NEW m, m = Now, NEW n, n = Now',
         MemOK(m), MemOK(n), DiskInv(m), ~unsaved'
  PROVE  DiskInv(n)
<1>1. /\ SaneSegs(m) /\ SaneDisk(m) /\ SaneFiles(m) /\ SaneFrame(m) /\ DirOK(m) /\ (~Stuck(m) => Match(m))
      /\ StuckOK(m) /\ (m.f.call # "delete" => ListOK(m.disk, FilesIn(m)))
  BY DiskParts
<1>2. /\ m.f \in Frames /\ PhaseOK(m.f) /\ FrameOK(m.f) /\ m.files \in [Slots -> Files] /\ m.lock \in {me, "free"} /\ m.f.fd \in Slots
      /\ (InList(m.f) => m.lock = me) /\ me # "free" /\ m.live \subseteq Cells /\ m.seg \in [Cells -> Segments]
  BY NowTyped, OneProcess, Constants DEF Typed, FrameOK, Frames
<1>3. InList(m.f) /\ ~Stuck(m) /\ Match(m)
  BY <1>1, <1>2, RelinkStep DEF InList, Stuck
<1>4. ListLinks(m) /\ FrameLinks(m) /\ SuperMatch(m) /\ \A x \in m.live : ~Pending(m.f, x) => SegMatch(m, x)
  BY <1>3 DEF Match
<1> DEFINE c == m.f.cell
<1>5. /\ n.live = m.live /\ n.seg = m.seg /\ n.disk = m.disk /\ n.head = m.f.save
  BY RelinkStep
<1>7. /\ ~Swapped(m.f) /\ Puts(m.f) /\ ~Emptying(m.f) /\ ~Emptied(m.f) /\ ~Starting(m.f) /\ Started(m.f) /\ ~Unwritten(m.f)
      /\ ~Swapped(n.f) /\ Puts(n.f) /\ ~Emptying(n.f) /\ ~Emptied(n.f) /\ ~Starting(n.f) /\ ~Started(n.f) /\ ~Unwritten(n.f)
      /\ n.f.cell = c /\ n.f.at = "seek" /\ n.f.call = "delete"
  BY RelinkStep, RelinkPhase, StartPhase DEF FrameIs
<1> HIDE DEF c
<1>9. SaneSegs(n)
  BY <1>1, <1>5 DEF SaneSegs
<1>10. SaneFrame(n)
  BY <1>7 DEF SaneFrame, Holding
<1>11. Match(n)
  <2>1. \A x \in m.live : RealNext(n, x) = RealNext(m, x)
    BY <1>5, <1>7 DEF RealNext
  <2>2. HeadOf(n) = HeadOf(m)
    BY <1>5, <1>7 DEF HeadOf
  <2>3. /\ ListLinks(n)
        /\ NumberOf(n, HeadOf(n)) = NumberOf(m, HeadOf(m))
        /\ \A x \in m.live : NumberOf(n, RealNext(n, x)) = NumberOf(m, RealNext(m, x))
    BY <1>4, <1>5, <2>1, <2>2, LinksKept
  <2>5. FrameLinks(n)
    BY <1>4, <1>5, <1>7 DEF FrameLinks, c
  <2>6. SuperMatch(n)
    BY <1>4, <1>5, <1>7, <2>3 DEF SuperMatch
  <2>7. ASSUME NEW x \in n.live, ~Pending(n.f, x) PROVE SegMatch(n, x)
    <3>1. SegMatch(m, x) /\ x \in m.live
      BY <1>4, <1>5, <1>7, <2>7 DEF Pending, c
    <3> QED
      BY <1>5, <2>3, <3>1, SegKept
  <2> QED
    BY <1>7, <2>3, <2>5, <2>6, <2>7 DEF Match
<1>20. SaneDisk(n) /\ SaneFiles(n)
  BY <1>1, RelinkStep DEF SaneDisk, SaneFiles
<1>21. DirOK(n)
  BY <1>1, <1>2, RelinkStep DEF DirOK, Deleting, Making, FrameIs
<1>22. StuckOK(n)
  BY <1>1, <1>2, RelinkStep DEF StuckOK, Stuck, InList, FrameIs
<1>23. n.f.call = "delete"
  BY RelinkStep DEF FrameIs
<1> QED
  BY <1>9, <1>10, <1>11, <1>20, <1>21, <1>22, <1>23, DiskParts

(* The last segment is waiting to be written.                              *)
LEMMA PutEntryDisk ==
  ASSUME Single, TypeInv, TypeInv', ~wild, ~wild', PutEntry(me), NEW m, m = Now, NEW n, n = Now',
         MemOK(m), MemOK(n), DiskInv(m), ~unsaved'
  PROVE  DiskInv(n)
<1>1. /\ SaneSegs(m) /\ SaneDisk(m) /\ SaneFiles(m) /\ SaneFrame(m) /\ DirOK(m) /\ (~Stuck(m) => Match(m))
      /\ StuckOK(m) /\ (m.f.call # "delete" => ListOK(m.disk, FilesIn(m)))
  BY DiskParts
<1>2. /\ m.f \in Frames /\ PhaseOK(m.f) /\ FrameOK(m.f) /\ m.files \in [Slots -> Files] /\ m.lock \in {me, "free"} /\ m.f.fd \in Slots
      /\ (InList(m.f) => m.lock = me) /\ me # "free" /\ m.live \subseteq Cells /\ m.seg \in [Cells -> Segments]
  BY NowTyped, OneProcess, Constants DEF Typed, FrameOK, Frames
<1>3. InList(m.f) /\ ~Stuck(m) /\ Match(m)
  BY <1>1, <1>2, PutEntryStep DEF InList, Stuck
<1>4. ListLinks(m) /\ FrameLinks(m) /\ SuperMatch(m) /\ \A x \in m.live : ~Pending(m.f, x) => SegMatch(m, x)
  BY <1>3 DEF Match
<1> DEFINE l == n.f.cell
           s == m.seg[l]
           k == s.count
           b == m.f.block
<1>5. /\ l \in m.live /\ n.live = m.live /\ \A x \in Cells \ {l} : n.seg[x] = m.seg[x]
      /\ n.seg[l].num = s.num /\ n.seg[l].count = k + 1 /\ n.seg[l].next = NULL /\ s.next = NULL
      /\ n.seg[l].free[k] = b /\ \A i \in Entries \ {k} : n.seg[l].free[i] = s.free[i]
      /\ n.disk = m.disk /\ n.head = m.head
  BY PutEntryStep
<1>6. s \in Segments /\ m.seg[l] = s /\ k = s.count /\ k \in Entries
  <2>1. s \in Segments /\ s.count < FREEBLOCKMAX
    BY <1>2, PutEntryStep
  <2> HIDE DEF s
  <2> QED
    BY <2>1, Constants DEF Segments, Entries, s
<1>7. /\ ~Swapped(m.f) /\ ~Puts(m.f) /\ ~Emptying(m.f) /\ ~Emptied(m.f) /\ ~Starting(m.f) /\ ~Started(m.f) /\ ~Unwritten(m.f)
      /\ ~Swapped(n.f) /\ Puts(n.f) /\ ~Emptying(n.f) /\ ~Emptied(n.f) /\ ~Starting(n.f) /\ ~Started(n.f) /\ ~Unwritten(n.f)
      /\ n.f.cell = l /\ n.f.at = "seek" /\ n.f.call = "delete"
  BY PutEntryStep, PutPhase, StartPhase DEF FrameIs
<1>8. Sane(b)
  BY <1>1, PutEntryStep DEF SaneFrame, Holding
<1> HIDE DEF l, s, k, b
<1>9. SaneSegs(n)
  <2>1. ASSUME NEW x \in n.live
        PROVE  /\ Sane(n.seg[x].num)
               /\ \A i \in Entries : Plain(n.seg[x].free[i]) /\ (i >= n.seg[x].count => n.seg[x].free[i] \notin Blocks)
    <3>1. CASE x # l
      BY <1>1, <1>2, <1>5, <3>1 DEF SaneSegs
    <3>2. CASE x = l
      <4>1. Sane(s.num) /\ \A i \in Entries : Plain(s.free[i]) /\ (i >= s.count => s.free[i] \notin Blocks)
        BY <1>1, <1>5, <1>6 DEF SaneSegs
      <4>2. \A i \in Entries : i >= k + 1 => i >= s.count /\ i # k
        BY <1>6 DEF Segments, Entries
      <4>3. Plain(b)
        BY <1>8 DEF Plain, Sane
      <4> QED
        BY <1>5, <3>2, <4>1, <4>2, <4>3
    <3> QED
      BY <3>1, <3>2
  <2> QED
    BY <2>1 DEF SaneSegs
<1>10. SaneFrame(n)
  BY <1>7 DEF SaneFrame, Holding
<1>11. Match(n)
  <2>1. \A x \in m.live : RealNext(n, x) = RealNext(m, x) /\ n.seg[x].num = m.seg[x].num
    BY <1>2, <1>5, <1>6, <1>7 DEF RealNext
  <2>2. HeadOf(n) = HeadOf(m)
    BY <1>5, <1>7 DEF HeadOf
  <2>3. /\ ListLinks(n)
        /\ NumberOf(n, HeadOf(n)) = NumberOf(m, HeadOf(m))
        /\ \A x \in m.live : NumberOf(n, RealNext(n, x)) = NumberOf(m, RealNext(m, x))
    BY <1>4, <1>5, <2>1, <2>2, LinksKept
  <2>5. FrameLinks(n)
    BY <1>5, <1>7 DEF FrameLinks
  <2>6. SuperMatch(n)
    BY <1>4, <1>5, <1>7, <2>3 DEF SuperMatch
  <2>7. ASSUME NEW x \in n.live, ~Pending(n.f, x) PROVE SegMatch(n, x)
    <3>1. x # l /\ x \in m.live /\ ~Pending(m.f, x)
      BY <1>5, <1>7, <2>7 DEF Pending
    <3>2. n.seg[x] = m.seg[x] /\ SegMatch(m, x)
      BY <1>2, <1>4, <1>5, <3>1
    <3> QED
      BY <1>5, <2>3, <3>1, <3>2, SegKept
  <2> QED
    BY <1>7, <2>3, <2>5, <2>6, <2>7 DEF Match
<1>20. SaneDisk(n) /\ SaneFiles(n)
  BY <1>1, PutEntryStep DEF SaneDisk, SaneFiles
<1>21. DirOK(n)
  BY <1>1, <1>2, PutEntryStep DEF DirOK, Deleting, Making, FrameIs
<1>22. StuckOK(n)
  BY <1>1, <1>2, PutEntryStep DEF StuckOK, Stuck, InList, FrameIs
<1>23. n.f.call = "delete"
  BY PutEntryStep DEF FrameIs
<1> QED
  BY <1>9, <1>10, <1>11, <1>20, <1>21, <1>22, <1>23, DiskParts

(* The superblock, the directory and the free blocks are blocks of the     *)
(* disk.                                                                   *)
LEMMA InDisk ==
  /\ SUPERBLOCKNUM \in 0 .. DISKBLOCKTOTAL - 1 /\ DIRBLOCKNUM \in 0 .. DISKBLOCKTOTAL - 1
  /\ Blocks \subseteq 0 .. DISKBLOCKTOTAL - 1 /\ SUPERBLOCKNUM # DIRBLOCKNUM
  /\ \A b \in 0 .. DISKBLOCKTOTAL - 1 : Sane(b) => b \in Blocks
  BY Constants DEF SUPERBLOCKNUM, DIRBLOCKNUM, Blocks, Sane, SYSERR, JUNK

(* A write goes where it was meant to, and changes that block only.        *)
LEMMA WriteKeeps ==
  ASSUME Single, TypeInv, ~wild, Write(me), NEW m, m = Now, NEW n, n = Now', DiskInv(m)
  PROVE  /\ SaneSegs(n) /\ SaneFiles(n) /\ SaneFrame(n)
         /\ \A x \in Slots : FilesIn(n)[x] = FilesIn(m)[x]
         /\ m.f.at = "write" /\ m.current \in 0 .. DISKBLOCKTOTAL - 1 /\ m.current = Aim(m)
         /\ \A b \in 0 .. DISKBLOCKTOTAL - 1 : b # m.current => n.disk[b] = m.disk[b]
         /\ SaneDisk(n) \/ m.f.what \in {"seg", "back"}
<1>1. SaneSegs(m) /\ SaneDisk(m) /\ SaneFiles(m) /\ SaneFrame(m)
  BY DiskParts
<1>2. m.f \in Frames /\ PhaseOK(m.f) /\ m.current \in 0 .. DISKBLOCKTOTAL - 1
  BY NowTyped DEF Typed, FrameOK
<1>3. SaneSegs(n) /\ SaneFiles(n)
  BY <1>1, WriteStep DEF SaneSegs, SaneFiles
<1>4. SaneFrame(n)
  BY <1>1, <1>2, WriteStep DEF SaneFrame, Holding, Swapped, FrameIs, PhaseOK
<1>5. \A x \in Slots : FilesIn(n)[x] = FilesIn(m)[x]
  BY <1>2, WriteStep, FilesInAre DEF BlockOf, Making, FrameIs, PhaseOK
<1>6. m.f.at = "write" /\ m.current = Aim(m)
  BY <1>1, WriteStep DEF SaneFrame
<1>7. \A b \in 0 .. DISKBLOCKTOTAL - 1 : b # m.current => n.disk[b] = m.disk[b]
  BY WriteStep
<1>8. SaneDisk(n) \/ m.f.what \in {"seg", "back"}
  <2> SUFFICES ASSUME m.f.what \notin {"seg", "back"} PROVE SaneDisk(n)
    OBVIOUS
  <2>1. m.f.what \in {"data", "dir", "super"}
    BY WriteStep
  <2>2. n.disk[m.current].type # "seg"
    BY <2>1, WriteContents
  <2> QED
    BY <1>1, <1>7, <2>2, InDisk DEF SaneDisk
<1> QED
  BY <1>2, <1>3, <1>4, <1>5, <1>6, <1>7, <1>8

(* A write of data: the block of a file is no block of the list.           *)
LEMMA WriteDataDisk ==
  ASSUME Single, TypeInv, TypeInv', ~wild, ~wild', Write(me), NEW m, m = Now, NEW n, n = Now',
         MemOK(m), MemOK(n), DiskInv(m), m.f.what = "data"
  PROVE  DiskInv(n)
<1>1. /\ SaneSegs(m) /\ SaneDisk(m) /\ SaneFiles(m) /\ SaneFrame(m) /\ DirOK(m) /\ (~Stuck(m) => Match(m))
      /\ StuckOK(m) /\ (m.f.call # "delete" => ListOK(m.disk, FilesIn(m)))
  BY DiskParts
<1>2. /\ m.f \in Frames /\ PhaseOK(m.f) /\ FrameOK(m.f) /\ m.files \in [Slots -> Files] /\ m.lock \in {me, "free"} /\ m.f.fd \in Slots
      /\ (InList(m.f) => m.lock = me) /\ me # "free" /\ m.live \subseteq Cells /\ m.seg \in [Cells -> Segments]
  BY NowTyped, OneProcess, Constants DEF Typed, FrameOK, Frames
<1>3. /\ SaneSegs(n) /\ SaneFiles(n) /\ SaneFrame(n)
      /\ \A x \in Slots : FilesIn(n)[x] = FilesIn(m)[x]
      /\ m.f.at = "write" /\ m.current \in 0 .. DISKBLOCKTOTAL - 1 /\ m.current = Aim(m)
      /\ \A b \in 0 .. DISKBLOCKTOTAL - 1 : b # m.current => n.disk[b] = m.disk[b]
      /\ SaneDisk(n) \/ m.f.what \in {"seg", "back"}
  BY WriteKeeps
<1>4. n.seg = m.seg /\ n.live = m.live /\ n.head = m.head /\ n.files = m.files /\ n.lock = m.lock
  BY WriteStep
<1>5. m.f.call = "close" /\ n.f.call = "close" /\ FrameIs(n.f, m.f.call, "closed", m.f.what, m.f.fd, m.f.block, m.f.cell, m.f.save)
  BY <1>2, <1>3, WriteStep DEF PhaseOK, FrameIs, Frames
<1> DEFINE b == m.current
<1>6. b = m.files[m.f.fd].block /\ b \in Blocks
  BY <1>1, <1>2, <1>3, InDisk DEF Aim, SaneFiles
<1>7. n.disk[b].type = "data"
  BY WriteContents
<1>8. BlockOf(m, m.f.fd) = b
  BY <1>1, <1>5, <1>6 DEF SaneFrame, BlockOf, Making
<1> HIDE DEF b
<1>9. \A c \in m.live : m.seg[c].num # b
  <2> SUFFICES ASSUME NEW c \in m.live, m.seg[c].num = b PROVE FALSE
    OBVIOUS
  <2>1. InMemory(m)[Own(c)] = b /\ InMemory(m)[File(m.f.fd)] = b
    BY <1>2, <1>8, MemAt, Zenon
  <2> QED
    BY <1>2, <1>6, <2>1, PlacesAre, PlacesDiffer DEF MemOK, Once
<1>10. ~OnList(m.disk, b)
  <2> SUFFICES ASSUME OnList(m.disk, b) PROVE FALSE
    OBVIOUS
  <2>0. ListOK(m.disk, FilesIn(m))
    BY <1>1, <1>5
  <2>1. m.disk[b].seg.num = b /\ Once(OnDisk(m.disk, FilesIn(m)), Blocks)
    BY <1>6, <2>0 DEF ListOK
  <2>2. OnDisk(m.disk, FilesIn(m))[Own(b)] = b /\ OnDisk(m.disk, FilesIn(m))[File(m.f.fd)] = b
    <3>1. OnDisk(m.disk, FilesIn(m))[Own(b)] = b
      BY <1>6, <2>1, DiskAt
    <3>2. OnDisk(m.disk, FilesIn(m))[File(m.f.fd)] = FilesIn(m)[m.f.fd]
      BY <1>2, DiskAt
    <3>3. FilesIn(m)[m.f.fd] = b
      BY <1>2, <1>8, FilesInAre
    <3> QED
      BY <3>1, <3>2, <3>3
  <2> QED
    <3>1. Own(b) \in Places(Blocks) /\ File(m.f.fd) \in Places(Blocks) /\ Own(b) # File(m.f.fd)
      BY <1>2, <1>6, PlacesAre, PlacesDiffer, Zenon
    <3> QED
      BY <1>6, <2>1, <2>2, <3>1 DEF Once
<1>11. n.disk[SUPERBLOCKNUM] = m.disk[SUPERBLOCKNUM] /\ n.disk[DIRBLOCKNUM] = m.disk[DIRBLOCKNUM]
  BY <1>3, <1>6, InDisk, NotBlocks DEF b
<1>12. DirOK(n)
  BY <1>1, <1>3, <1>4, <1>5, <1>11 DEF DirOK, Deleting, Making
<1>13. ~Stuck(n) => ~Stuck(m)
  BY <1>4, <1>5 DEF Stuck, InList
<1>14. StuckOK(n)
  BY <1>5 DEF StuckOK, FrameIs
<1>15. ListOK(n.disk, FilesIn(n))
  <2>1. ListOK(m.disk, FilesIn(m))
    BY <1>1, <1>5
  <2>2. \A c \in Blocks : c # b => n.disk[c] = m.disk[c]
    BY <1>3, InDisk DEF b
  <2>3. ListOK(n.disk, FilesIn(m))
    BY <1>7, <1>10, <1>11, <2>1, <2>2, ListOKSame
  <2> QED
    BY <1>3, <2>3, ListOKLess
<1>16. ~Stuck(n) => Match(n)
  <2> SUFFICES ASSUME ~Stuck(n) PROVE Match(n)
    OBVIOUS
  <2>1. Match(m)
    BY <1>1, <1>13
  <2>2. SamePhase(m.f, n.f)
    BY <1>5 DEF SamePhase, Swapped, Puts, Emptying, Emptied, Starting, Started, Unwritten
  <2>3. HeadRead(n)
    BY <1>5 DEF HeadRead
  <2>4. \A c \in m.live : m.seg[c].num \in Blocks => n.disk[m.seg[c].num] = m.disk[m.seg[c].num]
    BY <1>3, <1>9, InDisk, Zenon DEF b
  <2> QED
    BY <1>4, <1>11, <2>1, <2>2, <2>3, <2>4, QuietMatch
<1> QED
  BY <1>3, <1>12, <1>14, <1>15, <1>16, DiskParts

(* A write of the directory: the files on the disk are those in memory.    *)
LEMMA WriteDirDisk ==
  ASSUME Single, TypeInv, TypeInv', ~wild, ~wild', Write(me), NEW m, m = Now, NEW n, n = Now',
         MemOK(m), MemOK(n), DiskInv(m), m.f.what = "dir"
  PROVE  DiskInv(n)
<1>1. /\ SaneSegs(m) /\ SaneDisk(m) /\ SaneFiles(m) /\ SaneFrame(m) /\ DirOK(m) /\ (~Stuck(m) => Match(m))
      /\ StuckOK(m) /\ (m.f.call # "delete" => ListOK(m.disk, FilesIn(m)))
  BY DiskParts
<1>2. /\ m.f \in Frames /\ PhaseOK(m.f) /\ FrameOK(m.f) /\ m.files \in [Slots -> Files] /\ m.lock \in {me, "free"} /\ m.f.fd \in Slots
      /\ (InList(m.f) => m.lock = me) /\ me # "free" /\ m.live \subseteq Cells /\ m.seg \in [Cells -> Segments]
  BY NowTyped, OneProcess, Constants DEF Typed, FrameOK, Frames
<1>3. /\ SaneSegs(n) /\ SaneFiles(n) /\ SaneFrame(n)
      /\ \A x \in Slots : FilesIn(n)[x] = FilesIn(m)[x]
      /\ m.f.at = "write" /\ m.current \in 0 .. DISKBLOCKTOTAL - 1 /\ m.current = Aim(m)
      /\ \A b \in 0 .. DISKBLOCKTOTAL - 1 : b # m.current => n.disk[b] = m.disk[b]
      /\ SaneDisk(n) \/ m.f.what \in {"seg", "back"}
  BY WriteKeeps
<1>4. n.seg = m.seg /\ n.live = m.live /\ n.head = m.head /\ n.files = m.files /\ n.lock = m.lock
  BY WriteStep
<1>5. FrameIs(n.f, m.f.call, "dirdone", m.f.what, m.f.fd, m.f.block, m.f.cell, m.f.save) /\ m.f.call \in {"close", "delete"}
  BY <1>2, <1>3, WriteStep DEF PhaseOK, FrameIs, Frames
<1>6. m.current = DIRBLOCKNUM
  BY <1>3 DEF Aim
<1>7. n.disk[DIRBLOCKNUM].type = "dir" /\ n.disk[DIRBLOCKNUM].files = m.files
  BY <1>6, WriteContents
<1>11. n.disk[SUPERBLOCKNUM] = m.disk[SUPERBLOCKNUM] /\ \A c \in Blocks : n.disk[c] = m.disk[c]
  BY <1>3, <1>6, InDisk, NotBlocks, Zenon
<1>12. DirOK(n)
  BY <1>1, <1>4, <1>5, <1>7 DEF DirOK, Deleting, Making, FrameIs, SaneFiles
<1>13. ~Stuck(n) => ~Stuck(m)
  BY <1>3, <1>4, <1>5 DEF Stuck, InList, FrameIs
<1>17. Stuck(n) => Stuck(m)
  BY <1>3, <1>4, <1>5 DEF Stuck, InList, FrameIs
<1>14. StuckOK(n)
  BY <1>1, <1>3, <1>5, <1>17 DEF StuckOK, FrameIs
<1>15. n.f.call # "delete" => ListOK(n.disk, FilesIn(n))
  <2> SUFFICES ASSUME n.f.call # "delete" PROVE ListOK(n.disk, FilesIn(n))
    OBVIOUS
  <2>1. ListOK(m.disk, FilesIn(m))
    BY <1>1, <1>5 DEF FrameIs
  <2>3. ListOK(n.disk, FilesIn(m))
    BY <1>11, <2>1, ListOKSame
  <2> QED
    BY <1>3, <2>3, ListOKLess
<1>16. ~Stuck(n) => Match(n)
  <2> SUFFICES ASSUME ~Stuck(n) PROVE Match(n)
    OBVIOUS
  <2>1. Match(m)
    BY <1>1, <1>13
  <2>2. SamePhase(m.f, n.f)
    BY <1>3, <1>5 DEF SamePhase, Swapped, Puts, Emptying, Emptied, Starting, Started, Unwritten, FrameIs
  <2>3. HeadRead(n)
    BY <1>5 DEF HeadRead, FrameIs
  <2>4. \A c \in m.live : m.seg[c].num \in Blocks => n.disk[m.seg[c].num] = m.disk[m.seg[c].num]
    BY <1>11
  <2> QED
    BY <1>4, <1>11, <2>1, <2>2, <2>3, <2>4, QuietMatch
<1> QED
  BY <1>3, <1>12, <1>14, <1>15, <1>16, DiskParts

(* Of the live segments only the one at c has its block.                   *)
LEMMA OtherBlocks ==
  ASSUME NEW m, MemOK(m), m.live \subseteq Cells, NEW c \in m.live, m.seg[c].num \in Blocks
  PROVE  \A x \in m.live : x # c => m.seg[x].num # m.seg[c].num
<1>1. \A x \in m.live : InMemory(m)[Own(x)] = m.seg[x].num
  BY MemAt
<1> QED
  BY <1>1, PlacesAre, PlacesDiffer DEF MemOK, Once

(* A write of a whole segment, after which it matches.                     *)
LEMMA WriteSegDisk ==
  ASSUME Single, TypeInv, TypeInv', ~wild, ~wild', Write(me), NEW m, m = Now, NEW n, n = Now',
         MemOK(m), MemOK(n), DiskInv(m), m.f.what = "seg"
  PROVE  DiskInv(n)
<1>1. /\ SaneSegs(m) /\ SaneDisk(m) /\ SaneFiles(m) /\ SaneFrame(m) /\ DirOK(m) /\ (~Stuck(m) => Match(m))
      /\ StuckOK(m) /\ (m.f.call # "delete" => ListOK(m.disk, FilesIn(m)))
  BY DiskParts
<1>2. /\ m.f \in Frames /\ PhaseOK(m.f) /\ FrameOK(m.f) /\ m.files \in [Slots -> Files] /\ m.lock \in {me, "free"} /\ m.f.fd \in Slots
      /\ (InList(m.f) => m.lock = me) /\ me # "free" /\ m.live \subseteq Cells /\ m.seg \in [Cells -> Segments]
  BY NowTyped, OneProcess, Constants DEF Typed, FrameOK, Frames
<1>3. /\ SaneSegs(n) /\ SaneFiles(n) /\ SaneFrame(n)
      /\ \A x \in Slots : FilesIn(n)[x] = FilesIn(m)[x]
      /\ m.f.at = "write" /\ m.current \in 0 .. DISKBLOCKTOTAL - 1 /\ m.current = Aim(m)
      /\ \A b \in 0 .. DISKBLOCKTOTAL - 1 : b # m.current => n.disk[b] = m.disk[b]
      /\ SaneDisk(n) \/ m.f.what \in {"seg", "back"}
  BY WriteKeeps
<1>4. n.seg = m.seg /\ n.live = m.live /\ n.head = m.head /\ n.files = m.files /\ n.lock = m.lock
  BY WriteStep
<1>5. /\ FrameIs(n.f, m.f.call, "unswizzle", m.f.what, m.f.fd, m.f.block, m.f.cell, m.f.save)
      /\ m.f.call = "create" /\ m.f.what = "seg"
  BY <1>2, <1>3, WriteStep DEF PhaseOK, FrameIs, Frames
<1>6. InList(m.f) /\ ~Stuck(m) /\ Match(m)
  BY <1>1, <1>2, <1>3, <1>5 DEF InList, Stuck
<1>7. ListLinks(m) /\ FrameLinks(m) /\ SuperMatch(m) /\ \A x \in m.live : ~Pending(m.f, x) => SegMatch(m, x)
  BY <1>6 DEF Match
<1> DEFINE c == m.f.cell
           s == m.seg[c]
           t == n.disk[m.seg[c].num].seg
<1>10. /\ Swapped(m.f) /\ ~Puts(m.f) /\ ~Emptying(m.f) /\ ~Emptied(m.f) /\ ~Starting(m.f) /\ ~Started(m.f) /\ Unwritten(m.f)
       /\ Swapped(n.f) /\ ~Puts(n.f) /\ ~Emptying(n.f) /\ ~Emptied(n.f) /\ ~Starting(n.f) /\ ~Started(n.f) /\ ~Unwritten(n.f)
       /\ n.f.cell = c /\ n.f.save = m.f.save
  BY <1>3, <1>5, SwapPhase DEF FrameIs
<1>8. c \in m.live /\ m.seg[c] = s
  BY <1>7, <1>10 DEF FrameLinks
<1> HIDE DEF c, s
<1>9. s.num \in Blocks /\ m.current = s.num /\ s \in Segments
  BY <1>1, <1>2, <1>3, <1>5, <1>8, InDisk DEF Aim, SaneSegs, c
<1>11. n.disk[SUPERBLOCKNUM] = m.disk[SUPERBLOCKNUM] /\ n.disk[DIRBLOCKNUM] = m.disk[DIRBLOCKNUM]
  BY <1>3, <1>9, InDisk, NotBlocks
<1>12. DirOK(n)
  BY <1>1, <1>3, <1>4, <1>5, <1>11 DEF DirOK, Deleting, Making, FrameIs
<1>13. ~Stuck(n)
  BY <1>4, <1>5, <1>6 DEF Stuck, InList, FrameIs
<1>14. StuckOK(n)
  BY <1>13 DEF StuckOK
<1>22. \A i \in Entries : Plain(s.free[i]) /\ (s.free[i] \in Blocks => i < s.count)
  BY <1>1, <1>8, <1>9 DEF SaneSegs, Entries, Segments
<1>20. n.disk[s.num].type = "seg" /\ t = s
  BY <1>8, <1>9, WriteContents DEF s, c
<1>21. \A i \in Entries : t.free[i] = s.free[i]
  BY <1>20
<1> HIDE DEF t
<1>24. n.disk[s.num].seg = t
  BY <1>8 DEF t
<1>23. SaneDisk(n)
  <2>1. ASSUME NEW b \in Blocks, n.disk[b].type = "seg", NEW i \in Entries PROVE Plain(n.disk[b].seg.free[i])
    <3>1. CASE b = s.num
      BY <1>24, <1>20, <1>21, <1>22, <3>1
    <3>2. CASE b # s.num
      BY <1>1, <1>3, <1>9, <2>1, <3>2, InDisk DEF SaneDisk
    <3> QED
      BY <3>1, <3>2
  <2> QED
    BY <2>1 DEF SaneDisk
<1>16. Match(n)
  <2>1. \A x \in m.live : RealNext(n, x) = RealNext(m, x)
    BY <1>4, <1>5, <1>10 DEF RealNext, FrameIs
  <2>2. HeadOf(n) = HeadOf(m)
    BY <1>4, <1>5, <1>10 DEF HeadOf, FrameIs
  <2>3. /\ ListLinks(n)
        /\ \A x \in m.live \cup {NULL} : NumberOf(n, x) = NumberOf(m, x)
        /\ NumberOf(n, HeadOf(n)) = NumberOf(m, HeadOf(m))
        /\ \A x \in m.live : NumberOf(n, RealNext(n, x)) = NumberOf(m, RealNext(m, x))
    BY <1>4, <1>7, <2>1, <2>2, LinksKept
  <2>5. FrameLinks(n)
    BY <1>4, <1>5, <1>7, <1>10 DEF FrameLinks, NumberOf, FrameIs
  <2>6. SuperMatch(n)
    BY <1>7, <1>10, <1>11, <2>3 DEF SuperMatch
  <2>7. ASSUME NEW x \in n.live, x # c PROVE SegMatch(n, x)
    <3>1. SegMatch(m, x) /\ x \in m.live
      BY <1>4, <1>7, <2>7 DEF Pending, c
    <3>2. m.seg[x].num # s.num /\ m.seg[x].num \in Blocks
      BY <1>2, <1>8, <1>9, <2>7, <3>1, OtherBlocks DEF SegMatch
    <3>3. n.disk[m.seg[x].num] = m.disk[m.seg[x].num]
      BY <1>3, <1>9, <3>2, InDisk, Zenon
    <3> QED
      BY <1>4, <2>3, <3>1, <3>3, SegKept
  <2>8. SegMatch(n, c)
    <3>1. s.next = NumberOf(m, RealNext(m, c)) /\ n.seg[c] = s
      BY <1>4, <1>7, <1>8, <1>10 DEF FrameLinks, RealNext, NumberOf, c
    <3>2. \A i \in Entries : Covers(s, t, i)
      BY <1>21, <1>22 DEF Covers
    <3> QED
      BY <1>8, <1>9, <1>20, <1>24, <2>3, <3>1, <3>2 DEF SegMatch
  <2> QED
    BY <1>10, <2>3, <2>5, <2>6, <2>7, <2>8 DEF Match
<1>17. ListOK(n.disk, FilesIn(n))
  <2>1. ListThere(n)
    BY <1>10, <1>16, MatchThere DEF Pending
  <2>2. Typed(n) /\ Once(InMemory(n), Cells)
    BY NextTyped, MemParts
  <2> QED
    BY <2>1, <2>2, ThereListOK DEF Typed
<1> QED
  BY <1>3, <1>12, <1>14, <1>16, <1>17, <1>23, DiskParts

(* The last segment is written back, with the block that was put in it.    *)
LEMMA WriteBackDisk ==
  ASSUME Single, TypeInv, TypeInv', ~wild, ~wild', Write(me), NEW m, m = Now, NEW n, n = Now',
         MemOK(m), MemOK(n), DiskInv(m), m.f.what = "back"
  PROVE  DiskInv(n)
<1>1. /\ SaneSegs(m) /\ SaneDisk(m) /\ SaneFiles(m) /\ SaneFrame(m) /\ DirOK(m) /\ (~Stuck(m) => Match(m))
      /\ StuckOK(m) /\ (m.f.call # "delete" => ListOK(m.disk, FilesIn(m)))
  BY DiskParts
<1>2. /\ m.f \in Frames /\ PhaseOK(m.f) /\ FrameOK(m.f) /\ m.files \in [Slots -> Files] /\ m.lock \in {me, "free"} /\ m.f.fd \in Slots
      /\ (InList(m.f) => m.lock = me) /\ me # "free" /\ m.live \subseteq Cells /\ m.seg \in [Cells -> Segments]
  BY NowTyped, OneProcess, Constants DEF Typed, FrameOK, Frames
<1>3. /\ SaneSegs(n) /\ SaneFiles(n) /\ SaneFrame(n)
      /\ \A x \in Slots : FilesIn(n)[x] = FilesIn(m)[x]
      /\ m.f.at = "write" /\ m.current \in 0 .. DISKBLOCKTOTAL - 1 /\ m.current = Aim(m)
      /\ \A b \in 0 .. DISKBLOCKTOTAL - 1 : b # m.current => n.disk[b] = m.disk[b]
      /\ SaneDisk(n) \/ m.f.what \in {"seg", "back"}
  BY WriteKeeps
<1>4. n.seg = m.seg /\ n.live = m.live /\ n.head = m.head /\ n.files = m.files /\ n.lock = m.lock
  BY WriteStep
<1>5. /\ FrameIs(n.f, m.f.call, "freed", m.f.what, m.f.fd, m.f.block, m.f.cell, m.f.save)
      /\ m.f.call = "delete" /\ m.f.what = "back"
  BY <1>2, <1>3, WriteStep DEF PhaseOK, FrameIs, Frames
<1>6. InList(m.f) /\ ~Stuck(m) /\ Match(m)
  BY <1>1, <1>2, <1>3, <1>5 DEF InList, Stuck
<1>7. ListLinks(m) /\ FrameLinks(m) /\ SuperMatch(m) /\ \A x \in m.live : ~Pending(m.f, x) => SegMatch(m, x)
  BY <1>6 DEF Match
<1> DEFINE c == m.f.cell
           s == m.seg[c]
           t == n.disk[m.seg[c].num].seg
<1>10. /\ ~Swapped(m.f) /\ Puts(m.f) /\ ~Emptying(m.f) /\ ~Emptied(m.f) /\ ~Starting(m.f) /\ ~Started(m.f) /\ ~Unwritten(m.f)
       /\ ~Swapped(n.f) /\ ~Puts(n.f) /\ ~Emptying(n.f) /\ ~Emptied(n.f) /\ ~Starting(n.f) /\ ~Started(n.f) /\ ~Unwritten(n.f)
       /\ n.f.cell = c /\ n.f.save = m.f.save
  BY <1>3, <1>5, StartPhase, FreedPhase DEF FrameIs
<1>8. c \in m.live /\ m.seg[c] = s
  BY <1>7, <1>10 DEF FrameLinks
<1>25. m.f.cell = c
  OBVIOUS
<1> HIDE DEF c, s
<1>9. s.num \in Blocks /\ m.current = s.num /\ s \in Segments
  BY <1>1, <1>2, <1>3, <1>5, <1>8, InDisk DEF Aim, SaneSegs, c
<1>11. n.disk[SUPERBLOCKNUM] = m.disk[SUPERBLOCKNUM] /\ n.disk[DIRBLOCKNUM] = m.disk[DIRBLOCKNUM]
  BY <1>3, <1>9, InDisk, NotBlocks
<1>12. DirOK(n)
  BY <1>1, <1>3, <1>4, <1>5, <1>11 DEF DirOK, Deleting, Making, FrameIs
<1>13. ~Stuck(n)
  BY <1>4, <1>5, <1>6 DEF Stuck, InList, FrameIs
<1>14. StuckOK(n)
  BY <1>13 DEF StuckOK
<1>22. \A i \in Entries : Plain(s.free[i]) /\ (s.free[i] \in Blocks => i < s.count)
  BY <1>1, <1>8, <1>9 DEF SaneSegs, Entries, Segments
<1>20. n.disk[s.num].type = "seg" /\ t = s
  BY <1>8, <1>9, <1>25, WriteContents DEF s, c
<1>21. \A i \in Entries : t.free[i] = s.free[i]
  BY <1>20
<1> HIDE DEF t
<1>24. n.disk[s.num].seg = t
  BY <1>8 DEF t
<1>23. SaneDisk(n)
  <2>1. ASSUME NEW b \in Blocks, n.disk[b].type = "seg", NEW i \in Entries PROVE Plain(n.disk[b].seg.free[i])
    <3>1. CASE b = s.num
      BY <1>24, <1>20, <1>21, <1>22, <3>1
    <3>2. CASE b # s.num
      BY <1>1, <1>3, <1>9, <2>1, <3>2, InDisk DEF SaneDisk
    <3> QED
      BY <3>1, <3>2
  <2> QED
    BY <2>1 DEF SaneDisk
<1>16. Match(n)
  <2>1. \A x \in m.live : RealNext(n, x) = RealNext(m, x)
    BY <1>4, <1>5, <1>10 DEF RealNext, FrameIs
  <2>2. HeadOf(n) = HeadOf(m)
    BY <1>4, <1>5, <1>10 DEF HeadOf, FrameIs
  <2>3. /\ ListLinks(n)
        /\ \A x \in m.live \cup {NULL} : NumberOf(n, x) = NumberOf(m, x)
        /\ NumberOf(n, HeadOf(n)) = NumberOf(m, HeadOf(m))
        /\ \A x \in m.live : NumberOf(n, RealNext(n, x)) = NumberOf(m, RealNext(m, x))
    BY <1>4, <1>7, <2>1, <2>2, LinksKept
  <2>5. FrameLinks(n)
    BY <1>4, <1>5, <1>7, <1>10 DEF FrameLinks, NumberOf, FrameIs
  <2>6. SuperMatch(n)
    BY <1>7, <1>10, <1>11, <2>3 DEF SuperMatch
  <2>7. ASSUME NEW x \in n.live, x # c PROVE SegMatch(n, x)
    <3>1. SegMatch(m, x) /\ x \in m.live
      BY <1>4, <1>7, <2>7 DEF Pending, c
    <3>2. m.seg[x].num # s.num /\ m.seg[x].num \in Blocks
      BY <1>2, <1>8, <1>9, <2>7, <3>1, OtherBlocks DEF SegMatch
    <3>3. n.disk[m.seg[x].num] = m.disk[m.seg[x].num]
      BY <1>3, <1>9, <3>2, InDisk, Zenon
    <3> QED
      BY <1>4, <2>3, <3>1, <3>3, SegKept
  <2>8. SegMatch(n, c)
    <3>1. s.next = NumberOf(m, RealNext(m, c)) /\ n.seg[c] = s
      BY <1>4, <1>7, <1>8, <1>10 DEF FrameLinks, RealNext, NumberOf, c
    <3>2. \A i \in Entries : Covers(s, t, i)
      BY <1>21, <1>22 DEF Covers
    <3> QED
      BY <1>8, <1>9, <1>20, <1>24, <2>3, <3>1, <3>2 DEF SegMatch
  <2> QED
    BY <1>10, <2>3, <2>5, <2>6, <2>7, <2>8 DEF Match
<1> QED
  BY <1>3, <1>5, <1>12, <1>14, <1>16, <1>23, DiskParts DEF FrameIs

(* A write of the superblock in fileCreate: the list on the disk is empty. *)
LEMMA WriteSuperDisk ==
  ASSUME Single, TypeInv, TypeInv', ~wild, ~wild', Write(me), NEW m, m = Now, NEW n, n = Now',
         MemOK(m), MemOK(n), DiskInv(m), m.f.what = "super", m.f.call = "create"
  PROVE  DiskInv(n)
<1>1. /\ SaneSegs(m) /\ SaneDisk(m) /\ SaneFiles(m) /\ SaneFrame(m) /\ DirOK(m) /\ (~Stuck(m) => Match(m))
      /\ StuckOK(m) /\ (m.f.call # "delete" => ListOK(m.disk, FilesIn(m)))
  BY DiskParts
<1>2. /\ m.f \in Frames /\ PhaseOK(m.f) /\ FrameOK(m.f) /\ m.files \in [Slots -> Files] /\ m.lock \in {me, "free"} /\ m.f.fd \in Slots
      /\ (InList(m.f) => m.lock = me) /\ me # "free" /\ m.live \subseteq Cells /\ m.seg \in [Cells -> Segments]
  BY NowTyped, OneProcess, Constants DEF Typed, FrameOK, Frames
<1>3. /\ SaneSegs(n) /\ SaneFiles(n) /\ SaneFrame(n)
      /\ \A x \in Slots : FilesIn(n)[x] = FilesIn(m)[x]
      /\ m.f.at = "write" /\ m.current \in 0 .. DISKBLOCKTOTAL - 1 /\ m.current = Aim(m)
      /\ \A b \in 0 .. DISKBLOCKTOTAL - 1 : b # m.current => n.disk[b] = m.disk[b]
      /\ SaneDisk(n) \/ m.f.what \in {"seg", "back"}
  BY WriteKeeps
<1>4. n.seg = m.seg /\ n.live = m.live /\ n.head = m.head /\ n.files = m.files /\ n.lock = m.lock
  BY WriteStep
<1>5. /\ FrameIs(n.f, m.f.call, "last", m.f.what, m.f.fd, m.f.block, m.f.cell, m.f.save)
      /\ m.f.call = "create" /\ m.f.what = "super"
  BY <1>2, <1>3, WriteStep DEF PhaseOK, FrameIs, Frames
<1>6. InList(m.f) /\ ~Stuck(m) /\ Match(m)
  BY <1>1, <1>2, <1>3, <1>5 DEF InList, Stuck
<1>7. ListLinks(m) /\ FrameLinks(m) /\ SuperMatch(m) /\ \A x \in m.live : ~Pending(m.f, x) => SegMatch(m, x)
  BY <1>6 DEF Match
<1>10. /\ ~Swapped(m.f) /\ ~Puts(m.f) /\ Emptying(m.f) /\ ~Emptied(m.f) /\ ~Starting(m.f) /\ ~Started(m.f) /\ ~Unwritten(m.f)
       /\ ~Swapped(n.f) /\ ~Puts(n.f) /\ ~Emptying(n.f) /\ Emptied(n.f) /\ ~Starting(n.f) /\ ~Started(n.f) /\ ~Unwritten(n.f)
       /\ n.f.cell = m.f.cell
  BY <1>3, <1>5, SuperPhase DEF FrameIs
<1>9. m.current = SUPERBLOCKNUM
  BY <1>3, <1>5 DEF Aim
<1>20. n.disk[SUPERBLOCKNUM].type = "super" /\ n.disk[SUPERBLOCKNUM].freelst = m.head
  BY <1>5, <1>9, WriteContents
<1>11. n.disk[DIRBLOCKNUM] = m.disk[DIRBLOCKNUM] /\ \A b \in Blocks : n.disk[b] = m.disk[b]
  BY <1>3, <1>9, InDisk, NotBlocks
<1>12. DirOK(n)
  BY <1>1, <1>3, <1>4, <1>5, <1>11 DEF DirOK, Deleting, Making, FrameIs
<1>13. ~Stuck(n)
  BY <1>4, <1>5, <1>6 DEF Stuck, InList, FrameIs
<1>14. StuckOK(n)
  BY <1>13 DEF StuckOK
<1>23. SaneDisk(n)
  BY <1>3, <1>5
<1>16. Match(n)
  <2>1. \A x \in m.live : RealNext(n, x) = RealNext(m, x)
    BY <1>4, <1>10 DEF RealNext
  <2>2. HeadOf(n) = HeadOf(m)
    BY <1>4, <1>10 DEF HeadOf
  <2>3. /\ ListLinks(n)
        /\ NumberOf(n, HeadOf(n)) = NumberOf(m, HeadOf(m))
        /\ \A x \in m.live : NumberOf(n, RealNext(n, x)) = NumberOf(m, RealNext(m, x))
    BY <1>4, <1>7, <2>1, <2>2, LinksKept
  <2>5. FrameLinks(n)
    BY <1>4, <1>5, <1>7, <1>10 DEF FrameLinks, FrameIs
  <2>6. SuperMatch(n)
    BY <1>7, <1>10, <1>20 DEF SuperMatch, FrameLinks
  <2>7. ASSUME NEW x \in n.live, ~Pending(n.f, x) PROVE SegMatch(n, x)
    <3>1. SegMatch(m, x) /\ x \in m.live
      BY <1>4, <1>7, <1>10, <2>7 DEF Pending
    <3>2. n.disk[m.seg[x].num] = m.disk[m.seg[x].num]
      BY <1>11, <3>1 DEF SegMatch
    <3> QED
      BY <1>4, <2>3, <3>1, <3>2, SegKept
  <2> QED
    BY <1>10, <2>3, <2>5, <2>6, <2>7 DEF Match
<1>17. ListOK(n.disk, FilesIn(n))
  <2>1. ListThere(n)
    BY <1>10, <1>16, MatchThere DEF Pending
  <2>2. Typed(n) /\ Once(InMemory(n), Cells)
    BY NextTyped, MemParts
  <2> QED
    BY <2>1, <2>2, ThereListOK DEF Typed
<1> QED
  BY <1>3, <1>12, <1>14, <1>16, <1>17, <1>23, DiskParts

(* A write of the superblock in fileDelete, before its first segment is    *)
(* there.                                                                  *)
LEMMA WriteStartDisk ==
  ASSUME Single, TypeInv, TypeInv', ~wild, ~wild', Write(me), NEW m, m = Now, NEW n, n = Now',
         MemOK(m), MemOK(n), DiskInv(m), m.f.what = "super", m.f.call # "create"
  PROVE  DiskInv(n)
<1>1. /\ SaneSegs(m) /\ SaneDisk(m) /\ SaneFiles(m) /\ SaneFrame(m) /\ DirOK(m) /\ (~Stuck(m) => Match(m))
      /\ StuckOK(m) /\ (m.f.call # "delete" => ListOK(m.disk, FilesIn(m)))
  BY DiskParts
<1>2. /\ m.f \in Frames /\ PhaseOK(m.f) /\ FrameOK(m.f) /\ m.files \in [Slots -> Files] /\ m.lock \in {me, "free"} /\ m.f.fd \in Slots
      /\ (InList(m.f) => m.lock = me) /\ me # "free" /\ m.live \subseteq Cells /\ m.seg \in [Cells -> Segments]
  BY NowTyped, OneProcess, Constants DEF Typed, FrameOK, Frames
<1>3. /\ SaneSegs(n) /\ SaneFiles(n) /\ SaneFrame(n)
      /\ \A x \in Slots : FilesIn(n)[x] = FilesIn(m)[x]
      /\ m.f.at = "write" /\ m.current \in 0 .. DISKBLOCKTOTAL - 1 /\ m.current = Aim(m)
      /\ \A b \in 0 .. DISKBLOCKTOTAL - 1 : b # m.current => n.disk[b] = m.disk[b]
      /\ SaneDisk(n) \/ m.f.what \in {"seg", "back"}
  BY WriteKeeps
<1>4. n.seg = m.seg /\ n.live = m.live /\ n.head = m.head /\ n.files = m.files /\ n.lock = m.lock
  BY WriteStep
<1>5. /\ FrameIs(n.f, m.f.call, "relink", m.f.what, m.f.fd, m.f.block, m.f.cell, m.f.save)
      /\ m.f.call = "delete" /\ m.f.what = "super"
  BY <1>2, <1>3, WriteStep DEF PhaseOK, FrameIs, Frames
<1>6. InList(m.f) /\ ~Stuck(m) /\ Match(m)
  BY <1>1, <1>2, <1>3, <1>5 DEF InList, Stuck
<1>7. ListLinks(m) /\ FrameLinks(m) /\ SuperMatch(m) /\ \A x \in m.live : ~Pending(m.f, x) => SegMatch(m, x)
  BY <1>6 DEF Match
<1>10. /\ ~Swapped(m.f) /\ Puts(m.f) /\ ~Emptying(m.f) /\ ~Emptied(m.f) /\ Starting(m.f) /\ ~Started(m.f) /\ ~Unwritten(m.f)
       /\ ~Swapped(n.f) /\ Puts(n.f) /\ ~Emptying(n.f) /\ ~Emptied(n.f) /\ ~Starting(n.f) /\ Started(n.f) /\ ~Unwritten(n.f)
       /\ n.f.cell = m.f.cell /\ n.f.save = m.f.save
  BY <1>3, <1>5, StartPhase, RelinkPhase DEF FrameIs
<1>8. m.f.cell \in m.live /\ m.head = m.seg[m.f.cell].num /\ m.f.save = m.f.cell /\ m.f.cell # NULL
  BY <1>2, <1>6, <1>7, <1>10, Unlike DEF FrameLinks, Match
<1>9. m.current = SUPERBLOCKNUM
  BY <1>3, <1>5 DEF Aim
<1>20. n.disk[SUPERBLOCKNUM].type = "super" /\ n.disk[SUPERBLOCKNUM].freelst = m.head
  BY <1>5, <1>9, WriteContents
<1>11. n.disk[DIRBLOCKNUM] = m.disk[DIRBLOCKNUM] /\ \A b \in Blocks : n.disk[b] = m.disk[b]
  BY <1>3, <1>9, InDisk, NotBlocks, Zenon
<1>12. DirOK(n)
  BY <1>1, <1>3, <1>4, <1>5, <1>11 DEF DirOK, Deleting, Making, FrameIs
<1>13. ~Stuck(n)
  BY <1>4, <1>5, <1>6 DEF Stuck, InList, FrameIs
<1>14. StuckOK(n)
  BY <1>13 DEF StuckOK
<1>23. SaneDisk(n)
  BY <1>3, <1>5
<1>16. Match(n)
  <2>1. \A x \in m.live : RealNext(n, x) = RealNext(m, x)
    BY <1>4, <1>10 DEF RealNext
  <2>2. HeadOf(n) = HeadOf(m)
    BY <1>4, <1>10 DEF HeadOf
  <2>3. /\ ListLinks(n)
        /\ NumberOf(n, HeadOf(n)) = NumberOf(m, HeadOf(m))
        /\ \A x \in m.live : NumberOf(n, RealNext(n, x)) = NumberOf(m, RealNext(m, x))
    BY <1>4, <1>7, <2>1, <2>2, LinksKept
  <2>5. FrameLinks(n)
    BY <1>4, <1>5, <1>7, <1>10 DEF FrameLinks, FrameIs
  <2>6. SuperMatch(n)
    BY <1>4, <1>8, <1>10, <1>20 DEF SuperMatch, HeadOf, NumberOf
  <2>7. ASSUME NEW x \in n.live, ~Pending(n.f, x) PROVE SegMatch(n, x)
    <3>1. SegMatch(m, x) /\ x \in m.live
      BY <1>4, <1>7, <1>10, <2>7 DEF Pending
    <3>2. n.disk[m.seg[x].num] = m.disk[m.seg[x].num]
      BY <1>11, <3>1 DEF SegMatch
    <3> QED
      BY <1>4, <2>3, <3>1, <3>2, SegKept
  <2> QED
    BY <1>10, <2>3, <2>5, <2>6, <2>7 DEF Match
<1> QED
  BY <1>3, <1>5, <1>12, <1>14, <1>16, <1>23, DiskParts DEF FrameIs

(* Every step of the process that leaves nothing unsaved keeps memory and  *)
(* disk matched.                                                           *)
LEMMA DiskStep ==
  ASSUME Single, TypeInv, TypeInv', ~wild, ~wild', Step(me), NEW m, m = Now, NEW n, n = Now',
         MemOK(m), MemOK(n), DiskInv(m), ~unsaved'
  PROVE  DiskInv(n)
<1>1. ~Astray(me)
  BY DEF Astray, GoesWild
<1>2. ASSUME NEW fd \in Slots, Open(me, fd) \/ PutChar(me, fd) \/ Close(me, fd) \/ Delete(me, fd)
      PROVE  DiskInv(n)
  BY <1>2, OpenDisk, PutCharDisk, CloseDisk, DeleteDisk
<1>3. Write(me) => DiskInv(n)
  <2> SUFFICES ASSUME Write(me) PROVE DiskInv(n)
    OBVIOUS
  <2>1. m.f.what \in {"data", "dir", "super", "seg", "back"}
    BY WriteStep
  <2> QED
    BY <2>1, WriteDataDisk, WriteDirDisk, WriteSuperDisk, WriteStartDisk, WriteSegDisk, WriteBackDisk
<1> QED
  BY <1>1, <1>2, <1>3, SeekDisk, WriteFailsDisk, DirLockDisk, DirDoneDisk, ReadHeadDisk, FreeLockDisk, CreateDisk,
     SlotDisk, AssignDisk, GetEntryDisk, GetLastDisk, LastDoneDisk, GetSegmentDisk, UnswizzleDisk, ClosedDisk,
     UnlinkDisk, UnlinkedDisk, RefusedDisk, PutFirstDisk, PutSegmentDisk, RelinkDisk, PutEntryDisk DEF Step

-----------------------------------------------------------------------------
(* A restart from a sound disk, and the formatted one.                     *)

(* The blocks of the files that a restart finds.                           *)
Kept(d) == [fd \in Slots |-> IF "used" \in d[DIRBLOCKNUM].files[fd].state THEN d[DIRBLOCKNUM].files[fd].block ELSE NULL]

(* A disk that a restart may begin with, and memory as it then is.         *)
Sound(d) ==
  /\ DiskOK(d) /\ Readable(d) /\ ListOK(d, Kept(d))
  /\ \A fd \in Slots : Sane(d[DIRBLOCKNUM].files[fd].block)
  /\ \A b \in Blocks : d[b].type = "seg" => \A i \in Entries : Plain(d[b].seg.free[i])
Restarted(n) ==
  /\ n.seg = SegmentsOf(n.disk) /\ n.live = CellsOf(n.disk)
  /\ n.head = IF n.live = {} THEN NULL ELSE Cell(0)
  /\ n.files = FilesOf(n.disk) /\ n.lock = "free" /\ n.f = User

(* A restart leaves the process in no call.                                *)
LEMMA UserPhase ==
  /\ ~Swapped(User) /\ ~Puts(User) /\ ~Emptying(User) /\ ~Emptied(User) /\ ~Starting(User) /\ ~Started(User)
  /\ ~Unwritten(User) /\ ~Holding(User) /\ User.call = "none" /\ User.at = "user"
  BY DEF User, Swapped, Puts, Emptying, Emptied, Starting, Started, Unwritten, Holding

(* The cell at the i-th block of the list.                                 *)
LEMMA CellAt ==
  ASSUME NEW n, Sound(n.disk), Restarted(n), NEW i \in 0 .. DISKBLOCKTOTAL, Chain(n.disk)[i] # NULL
  PROVE  LET b == Chain(n.disk)[i]
             s == n.disk[b].seg
             t == n.seg[Cell(i)]
         IN  /\ Cell(i) \in n.live /\ b \in Blocks /\ OnList(n.disk, b) /\ n.disk[b].type = "seg"
             /\ s.num = b /\ s \in Segments
             /\ t.num = b /\ t.count = s.count /\ t.free = s.free
             /\ i + 1 \in 0 .. DISKBLOCKTOTAL /\ Chain(n.disk)[i + 1] = s.next
             /\ t.next = IF s.next = NULL THEN NULL ELSE Cell(i + 1)
<1> DEFINE b == Chain(n.disk)[i]
<1>1. /\ i < DISKBLOCKTOTAL
      /\ b \in Blocks /\ n.disk[b].type = "seg" /\ n.disk[b].seg \in Segments
      /\ Chain(n.disk)[i + 1] = n.disk[b].seg.next
      /\ n.seg[Cell(i)].num = n.disk[b].seg.num /\ n.seg[Cell(i)].count = n.disk[b].seg.count
      /\ n.seg[Cell(i)].free = n.disk[b].seg.free
      /\ n.seg[Cell(i)].next = IF n.disk[b].seg.next = NULL THEN NULL ELSE Cell(i + 1)
  BY SegmentAt DEF Sound, Restarted
<1>2. Cell(i) \in n.live
  BY CellsOfIs DEF Restarted
<1>3. OnList(n.disk, b)
  BY <1>1 DEF OnList
<1>4. n.disk[b].seg.num = b
  BY <1>1, <1>3 DEF Sound, ListOK
<1>5. i + 1 \in 0 .. DISKBLOCKTOTAL
  BY <1>1, Constants
<1> QED
  BY <1>1, <1>2, <1>3, <1>4, <1>5

(* Each live cell is that of a block of the list.                          *)
LEMMA CellIs ==
  ASSUME NEW n, Restarted(n), NEW c \in n.live
  PROVE  \E i \in 0 .. DISKBLOCKTOTAL : c = Cell(i) /\ Chain(n.disk)[i] # NULL /\ -3 - c = i
<1>1. PICK i \in 0 .. DISKBLOCKTOTAL : c = Cell(i)
  BY CellsOfIs DEF Restarted
<1>2. Chain(n.disk)[i] # NULL
  BY <1>1, CellsOfIs DEF Restarted
<1> QED
  BY <1>1, <1>2, CellNumbers

(* The files after a restart are those of the directory on the disk.       *)
LEMMA RestartFiles ==
  ASSUME NEW n, Sound(n.disk), Restarted(n), NEW fd \in Slots
  PROVE  /\ "used" \in n.files[fd].state <=> "used" \in n.disk[DIRBLOCKNUM].files[fd].state
         /\ n.files[fd].state # {} => "used" \in n.files[fd].state
         /\ n.files[fd].block = n.disk[DIRBLOCKNUM].files[fd].block
         /\ BlockOf(n, fd) = Kept(n.disk)[fd]
<1>1. n.disk[DIRBLOCKNUM].files \in [Slots -> Files]
  BY InDisk DEF Sound, DiskOK, Readable
<1>2. n.files[fd] = [n.disk[DIRBLOCKNUM].files[fd] EXCEPT !.state = @ \cap {"used"}]
  BY DEF Restarted, FilesOf
<1>3. n.files[fd].state = n.disk[DIRBLOCKNUM].files[fd].state \cap {"used"} /\ n.files[fd].block = n.disk[DIRBLOCKNUM].files[fd].block
  BY <1>1, <1>2 DEF Files
<1>4. ~Making(n.f, fd)
  BY UserPhase DEF Restarted, Making
<1> QED
  BY <1>3, <1>4 DEF BlockOf, Kept

(* After a restart from a sound disk no block is in two places of memory.  *)
LEMMA RestartMem ==
  ASSUME NEW n, Sound(n.disk), Restarted(n)
  PROVE  MemOK(n)
<1> DEFINE d == n.disk
           ch == Chain(d)
           fb == Kept(d)
           h == OnDisk(d, fb)
           g == InMemory(n)
           at == [c \in Cells |-> ch[-3 - c]]
           mv == [x \in Places(Cells) |-> IF x[1] = "own" THEN Own(at[x[2]])
                                          ELSE IF x[1] = "entry" THEN Entry(at[x[2]], x[3]) ELSE x]
<1>1. ASSUME NEW c \in n.live
      PROVE  /\ c \in Cells /\ at[c] \in Blocks /\ OnList(d, at[c]) /\ d[at[c]].seg.num = at[c] /\ n.seg[c].num = at[c]
             /\ n.seg[c].count = d[at[c]].seg.count /\ n.seg[c].free = d[at[c]].seg.free
             /\ \E i \in 0 .. DISKBLOCKTOTAL : c = Cell(i) /\ ch[i] # NULL /\ at[c] = ch[i]
  <2>1. PICK i \in 0 .. DISKBLOCKTOTAL : c = Cell(i) /\ ch[i] # NULL /\ -3 - c = i
    BY CellIs
  <2>2. c \in Cells
    BY <2>1, CellNumbers
  <2>3. at[c] = ch[i]
    BY <2>1, <2>2
  <2> HIDE DEF at, ch
  <2> QED
    BY <2>1, <2>2, <2>3, CellAt DEF ch
<1>2. ASSUME NEW c \in n.live, NEW e \in n.live, at[c] = at[e] PROVE c = e
  <2>1. PICK i \in 0 .. DISKBLOCKTOTAL : c = Cell(i) /\ ch[i] # NULL /\ at[c] = ch[i]
    BY <1>1, Zenon
  <2>2. PICK j \in 0 .. DISKBLOCKTOTAL : e = Cell(j) /\ ch[j] # NULL /\ at[e] = ch[j]
    BY <1>1, Zenon
  <2>3. ch[i] = ch[j]
    BY <1>2, <2>1, <2>2
  <2>4. DOMAIN ch = 0 .. DISKBLOCKTOTAL /\ ch[DISKBLOCKTOTAL] = NULL
    BY ChainStep DEF Sound, Readable
  <2>5. i = j
    BY <2>1, <2>3, <2>4, ChainOnce
  <2> QED
    BY <2>1, <2>2, <2>5
<1> HIDE DEF at
<1>4. ASSUME NEW b \in Cells PROVE mv[Own(b)] = Own(at[b])
  <2>1. Own(b)[1] = "own" /\ Own(b)[2] = b
    BY DEF Own
  <2> QED
    BY <2>1, PlacesAre
<1>5. ASSUME NEW b \in Cells, NEW i \in Entries PROVE mv[Entry(b, i)] = Entry(at[b], i)
  <2>1. Entry(b, i)[1] = "entry" /\ Entry(b, i)[2] = b /\ Entry(b, i)[3] = i
    BY DEF Entry
  <2> QED
    BY <2>1, PlacesAre
<1>6. ASSUME NEW fd \in Slots PROVE mv[File(fd)] = File(fd)
  <2>1. File(fd)[1] = "file"
    BY DEF File
  <2> QED
    BY <2>1, PlacesAre
<1> HIDE DEF mv
<1>7. ASSUME NEW c \in Cells, g[Own(c)] \in Blocks PROVE c \in n.live /\ h[Own(at[c])] = g[Own(c)]
  <2>1. c \in n.live /\ g[Own(c)] = n.seg[c].num
    BY <1>7, MemAt, NotBlocks
  <2> QED
    BY <1>1, <2>1, DiskAt
<1>8. ASSUME NEW c \in Cells, NEW i \in Entries, g[Entry(c, i)] \in Blocks
      PROVE  c \in n.live /\ h[Entry(at[c], i)] = g[Entry(c, i)]
  <2>1. c \in n.live /\ i < n.seg[c].count /\ g[Entry(c, i)] = n.seg[c].free[i]
    BY <1>8, MemAt, NotBlocks
  <2>2. at[c] \in Blocks /\ OnList(d, at[c]) /\ i < d[at[c]].seg.count /\ d[at[c]].seg.free[i] = n.seg[c].free[i]
    BY <1>1, <2>1
  <2>3. h[Entry(at[c], i)] = d[at[c]].seg.free[i]
    BY <2>2, DiskAt
  <2> QED
    BY <2>1, <2>2, <2>3
<1>9. ASSUME NEW fd \in Slots PROVE h[File(fd)] = g[File(fd)]
  BY MemAt, DiskAt, RestartFiles
<1>10. g[HAND] \notin Blocks
  BY MemAt, NotBlocks, UserPhase DEF Hand, Restarted
<1> DEFINE Kind(x) == \/ \E b \in n.live : x = Own(b) /\ mv[x] = Own(at[b])
                      \/ \E b \in n.live, i \in Entries : x = Entry(b, i) /\ mv[x] = Entry(at[b], i)
                      \/ \E fd \in Slots : x = File(fd) /\ mv[x] = File(fd)
<1>11. ASSUME NEW x \in Places(Cells), g[x] \in Blocks PROVE mv[x] \in Places(Blocks) /\ h[mv[x]] = g[x] /\ Kind(x)
  <2>1. ASSUME NEW b \in Cells, x = Own(b) PROVE mv[x] \in Places(Blocks) /\ h[mv[x]] = g[x] /\ Kind(x)
    <3>1. b \in n.live /\ h[Own(at[b])] = g[Own(b)]
      BY <1>7, <1>11, <2>1
    <3>2. Own(at[b]) \in Places(Blocks)
      BY <1>1, <3>1, PlacesAre
    <3> QED
      BY <1>4, <2>1, <3>1, <3>2
  <2>2. ASSUME NEW b \in Cells, NEW i \in Entries, x = Entry(b, i)
        PROVE  mv[x] \in Places(Blocks) /\ h[mv[x]] = g[x] /\ Kind(x)
    <3>1. b \in n.live /\ h[Entry(at[b], i)] = g[Entry(b, i)]
      BY <1>8, <1>11, <2>2
    <3>2. Entry(at[b], i) \in Places(Blocks)
      BY <1>1, <3>1, PlacesAre
    <3> QED
      BY <1>5, <2>2, <3>1, <3>2
  <2>3. ASSUME NEW fd \in Slots, x = File(fd) PROVE mv[x] \in Places(Blocks) /\ h[mv[x]] = g[x] /\ Kind(x)
    <3>1. File(fd) \in Places(Blocks)
      BY PlacesAre
    <3> QED
      BY <1>6, <1>9, <2>3, <3>1
  <2>4. x # HAND
    BY <1>10, <1>11
  <2> QED
    BY <2>1, <2>2, <2>3, <2>4, PlacesAre
<1>13. ASSUME NEW x, NEW y, Kind(x), Kind(y), mv[x] = mv[y] PROVE x = y
  <2>1. CASE \E b \in n.live : x = Own(b) /\ mv[x] = Own(at[b])
    BY <1>2, <1>13, <2>1, PlacesDiffer
  <2>2. CASE \E b \in n.live, i \in Entries : x = Entry(b, i) /\ mv[x] = Entry(at[b], i)
    BY <1>2, <1>13, <2>2, PlacesDiffer
  <2>3. CASE \E fd \in Slots : x = File(fd) /\ mv[x] = File(fd)
    BY <1>13, <2>3, PlacesDiffer
  <2> QED
    BY <1>13, <2>1, <2>2, <2>3
<1>14. Once(h, Blocks)
  BY DEF Sound, ListOK
<1> HIDE DEF Kind, g, h
<1>15. Once(g, Cells)
  <2>1. \A x \in Places(Cells) : g[x] \in Blocks => mv[x] \in Places(Blocks) /\ h[mv[x]] = g[x]
    BY <1>11
  <2>2. \A x, y \in Places(Cells) : g[x] \in Blocks /\ g[y] \in Blocks /\ mv[x] = mv[y] => x = y
    BY <1>11, <1>13
  <2> QED
    BY <1>14, <2>1, <2>2, OnceMoved
<1>16. FilesUsed(n)
  BY RestartFiles DEF FilesUsed
<1>17. MemFrame(n)
  BY UserPhase DEF MemFrame, Restarted
<1> QED
  BY <1>15, <1>16, <1>17, MemParts DEF g

(* And what is in memory is what is on the disk.                           *)
LEMMA RestartMatch ==
  ASSUME NEW n, Sound(n.disk), Restarted(n)
  PROVE  Match(n)
<1> DEFINE d == n.disk
           ch == Chain(d)
<1>1. ~Swapped(n.f) /\ ~Puts(n.f) /\ ~Emptying(n.f) /\ ~Emptied(n.f) /\ ~Starting(n.f) /\ ~Started(n.f) /\ ~Unwritten(n.f)
      /\ n.f.call = "none"
  BY UserPhase DEF Restarted
<1>2. 0 \in 0 .. DISKBLOCKTOTAL /\ ch[0] = d[SUPERBLOCKNUM].freelst
  BY ChainStep, Constants
<1>3. HeadOf(n) = n.head /\ (\A c \in n.live : RealNext(n, c) = n.seg[c].next)
  BY <1>1 DEF HeadOf, RealNext
<1>4. /\ ch[0] = NULL => n.live = {} /\ n.head = NULL
      /\ ch[0] # NULL => n.head = Cell(0) /\ Cell(0) \in n.live /\ n.seg[Cell(0)].num = ch[0]
  <2>1. CASE ch[0] = NULL
    <3>1. \A j \in 0 .. DISKBLOCKTOTAL : ch[j] = NULL
      BY <1>2, <2>1, ChainEnds
    <3>2. n.live = {}
      BY <3>1, CellIs
    <3> QED
      BY <2>1, <3>2 DEF Restarted
  <2>2. CASE ch[0] # NULL
    <3>1. Cell(0) \in n.live /\ n.seg[Cell(0)].num = ch[0]
      BY <1>2, <2>2, CellAt
    <3> QED
      BY <2>2, <3>1 DEF Restarted
  <2> QED
    BY <2>1, <2>2
<1> DEFINE At2(c, i) == i \in 0 .. DISKBLOCKTOTAL /\ c = Cell(i) /\ ch[i] # NULL
<1>5. ASSUME NEW c \in n.live PROVE \E i : At2(c, i)
  BY CellIs
<1>6. ASSUME NEW c, NEW i, At2(c, i)
      PROVE  /\ c \in n.live /\ n.seg[c].num = ch[i] /\ ch[i] \in Blocks /\ OnList(d, ch[i]) /\ d[ch[i]].type = "seg"
             /\ d[ch[i]].seg.num = ch[i] /\ d[ch[i]].seg \in Segments
             /\ n.seg[c].count = d[ch[i]].seg.count /\ n.seg[c].free = d[ch[i]].seg.free
             /\ d[ch[i]].seg.next = NULL => n.seg[c].next = NULL
             /\ d[ch[i]].seg.next # NULL => n.seg[c].next = Cell(i + 1) /\ At2(Cell(i + 1), i + 1)
             /\ d[ch[i]].seg.next = ch[i + 1]
  <2>1. i \in 0 .. DISKBLOCKTOTAL /\ c = Cell(i) /\ ch[i] # NULL
    BY <1>6
  <2> HIDE DEF ch
  <2> QED
    BY <2>1, CellAt DEF ch
<1> HIDE DEF At2
<1>7. ListLinks(n)
  <2>1. HeadOf(n) \in n.live \cup {NULL}
    BY <1>3, <1>4
  <2>2. \A x \in n.live : RealNext(n, x) \in n.live \cup {NULL}
    BY <1>3, <1>5, <1>6
  <2>3. ASSUME NEW x \in n.live, RealNext(n, x) # NULL PROVE RealNext(n, x) # HeadOf(n)
    <3>1. PICK i : At2(x, i)
      BY <1>5
    <3>2. RealNext(n, x) = Cell(i + 1) /\ i \in 0 .. DISKBLOCKTOTAL
      BY <1>3, <1>6, <2>3, <3>1 DEF At2
    <3>3. n.head \in {NULL, Cell(0)} /\ Cell(i + 1) # Cell(0)
      BY <1>4, <3>2, Constants DEF Cell
    <3> QED
      BY <1>3, <2>3, <3>2, <3>3
  <2>4. ASSUME NEW x \in n.live, NEW y \in n.live, RealNext(n, x) = RealNext(n, y), RealNext(n, x) # NULL PROVE x = y
    <3>1. PICK i : At2(x, i)
      BY <1>5
    <3>2. PICK j : At2(y, j)
      BY <1>5
    <3>3. Cell(i + 1) = Cell(j + 1) /\ i \in 0 .. DISKBLOCKTOTAL /\ j \in 0 .. DISKBLOCKTOTAL /\ x = Cell(i) /\ y = Cell(j)
      BY <1>3, <1>6, <2>4, <3>1, <3>2 DEF At2
    <3>4. i = j
      BY <3>3, Constants DEF Cell
    <3> QED
      BY <3>3, <3>4
  <2> QED
    BY <2>1, <2>2, <2>3, <2>4 DEF ListLinks
<1>8. FrameLinks(n)
  BY <1>1 DEF FrameLinks
<1>9. SuperMatch(n)
  <2>1. NumberOf(n, n.head) = ch[0]
    <3>1. CASE ch[0] = NULL
      BY <1>4, <3>1 DEF NumberOf
    <3>2. CASE ch[0] # NULL
      <4>1. Cell(0) # NULL
        BY <1>2, CellNumbers, Unlike
      <4> QED
        BY <1>4, <3>2, <4>1 DEF NumberOf
    <3> QED
      BY <3>1, <3>2
  <2>2. d[SUPERBLOCKNUM].type = "super"
    BY DEF Sound, Readable
  <2> QED
    BY <1>1, <1>2, <1>3, <2>1, <2>2 DEF SuperMatch
<1>10. ASSUME NEW c \in n.live PROVE SegMatch(n, c)
  <2>1. PICK i : At2(c, i)
    BY <1>5
  <2> DEFINE b == ch[i]
             s == d[b].seg
  <2>2. n.seg[c].num = b /\ b \in Blocks /\ d[b].type = "seg" /\ s.num = b /\ s.count = n.seg[c].count /\ n.seg[c].free = s.free
        /\ OnList(d, b) /\ s.count \in Int
    BY <1>6, <2>1 DEF Segments
  <2>3. s.next = NumberOf(n, n.seg[c].next)
    <3>1. CASE s.next = NULL
      BY <1>6, <2>1, <3>1 DEF NumberOf
    <3>2. CASE s.next # NULL
      <4>1. n.seg[c].next = Cell(i + 1) /\ At2(Cell(i + 1), i + 1) /\ s.next = ch[i + 1]
        BY <1>6, <2>1, <3>2
      <4>2. n.seg[Cell(i + 1)].num = ch[i + 1]
        BY <1>6, <4>1
      <4>3. Cell(i + 1) # NULL
        BY <4>1, CellNumbers, Unlike DEF At2
      <4> QED
        BY <4>1, <4>2, <4>3 DEF NumberOf
    <3> QED
      BY <3>1, <3>2
  <2>4. \A i2 \in Entries : s.free[i2] \in Blocks => i2 < s.count
    BY <2>2 DEF Sound, ListOK, Entries
  <2> HIDE DEF b, s
  <2>5. d[n.seg[c].num].seg = s /\ d[n.seg[c].num].type = "seg"
    BY <2>2 DEF s
  <2>6. \A i2 \in Entries : Covers(n.seg[c], s, i2)
    BY <2>2, <2>4 DEF Covers
  <2> QED
    BY <1>3, <2>2, <2>3, <2>5, <2>6 DEF SegMatch
<1> QED
  BY <1>1, <1>7, <1>8, <1>9, <1>10 DEF Match

(* So the invariant of the disk holds again.                               *)
LEMMA RestartDisk ==
  ASSUME Single, NEW n, Sound(n.disk), Restarted(n)
  PROVE  DiskInv(n)
<1> DEFINE d == n.disk
<1>1. Match(n)
  BY RestartMatch
<1>2. SaneSegs(n)
  <2>1. ASSUME NEW c \in n.live
        PROVE  /\ Sane(n.seg[c].num)
               /\ \A i \in Entries : Plain(n.seg[c].free[i]) /\ (i >= n.seg[c].count => n.seg[c].free[i] \notin Blocks)
    <3>1. PICK i \in 0 .. DISKBLOCKTOTAL : c = Cell(i) /\ Chain(d)[i] # NULL
      BY CellIs
    <3> DEFINE b == Chain(d)[i]
    <3>2. b \in Blocks /\ OnList(d, b) /\ d[b].type = "seg" /\ n.seg[c].num = b /\ n.seg[c].count = d[b].seg.count
          /\ n.seg[c].free = d[b].seg.free
      BY <3>1, CellAt
    <3> HIDE DEF b
    <3>3. \A j \in Entries : Plain(d[b].seg.free[j]) /\ (j >= d[b].seg.count => d[b].seg.free[j] \notin Blocks)
      BY <3>2 DEF Sound, ListOK
    <3> QED
      BY <3>2, <3>3 DEF Sane
  <2> QED
    BY <2>1 DEF SaneSegs
<1>3. SaneDisk(n)
  BY DEF Sound, SaneDisk
<1>4. SaneFiles(n)
  BY RestartFiles DEF Sound, SaneFiles
<1>5. SaneFrame(n)
  BY UserPhase DEF Restarted, SaneFrame
<1>6. DirOK(n)
  BY RestartFiles, UserPhase DEF Sound, Readable, DirOK, Restarted, Making
<1>7. ~Stuck(n)
  BY OneProcess, Constants DEF Stuck, Restarted
<1>8. ListOK(n.disk, FilesIn(n))
  <2>1. \A fd \in Slots : FilesIn(n)[fd] = Kept(d)[fd]
    BY RestartFiles, FilesInAre
  <2> QED
    BY <2>1, ListOKLess DEF Sound
<1> QED
  BY <1>1, <1>2, <1>3, <1>4, <1>5, <1>6, <1>7, <1>8, DiskParts DEF StuckOK

(* The segments of a formatted disk lie apart: a number is a head and an   *)
(* offset in one way.                                                      *)
LEMMA HeadsApart ==
  ASSUME NEW a \in Heads, NEW b \in Heads, NEW i \in 0 .. FREEBLOCKMAX, NEW j \in 0 .. FREEBLOCKMAX, a + i = b + j
  PROVE  a = b /\ i = j
<1> DEFINE F == FREEBLOCKMAX + 1
<1>1. PICK k \in 0 .. DISKBLOCKTOTAL : a = 2 + k * F
  BY DEF Heads
<1>2. PICK l \in 0 .. DISKBLOCKTOTAL : b = 2 + l * F
  BY DEF Heads
<1>3. F \in Nat /\ F > 0 /\ i \in Nat /\ j \in Nat /\ i < F /\ j < F /\ k \in Nat /\ l \in Nat
  BY Constants
<1> HIDE DEF F
<1>4. k * F \in Nat /\ l * F \in Nat
  BY <1>3
<1>5. ~(k < l)
  <2> SUFFICES ASSUME k < l PROVE FALSE
    OBVIOUS
  <2>1. l * F = k * F + (l - k) * F /\ l - k \in Nat /\ l - k >= 1
    BY <1>3
  <2>2. (l - k) * F >= F
    BY <1>3, <2>1
  <2>3. (l - k) * F \in Nat
    BY <1>3, <2>1
  <2> DEFINE x == k * F
             y == (l - k) * F
             z == l * F
  <2>4. x \in Nat /\ y \in Nat /\ z = x + y /\ y >= F /\ 2 + x + i = 2 + z + j
    BY <1>1, <1>2, <1>4, <2>1, <2>2, <2>3
  <2> HIDE DEF x, y, z
  <2> QED
    BY <1>3, <2>4
<1>6. ~(l < k)
  <2> SUFFICES ASSUME l < k PROVE FALSE
    OBVIOUS
  <2>1. k * F = l * F + (k - l) * F /\ k - l \in Nat /\ k - l >= 1
    BY <1>3
  <2>2. (k - l) * F >= F
    BY <1>3, <2>1
  <2>3. (k - l) * F \in Nat
    BY <1>3, <2>1
  <2> DEFINE x == l * F
             y == (k - l) * F
             z == k * F
  <2>4. x \in Nat /\ y \in Nat /\ z = x + y /\ y >= F /\ 2 + z + i = 2 + x + j
    BY <1>1, <1>2, <1>4, <2>1, <2>2, <2>3
  <2> HIDE DEF x, y, z
  <2> QED
    BY <1>3, <2>4
<1>7. k = l
  BY <1>3, <1>5, <1>6
<1>8. a = b
  BY <1>1, <1>2, <1>7
<1>9. a \in Nat
  BY <1>1, <1>4
<1> QED
  BY <1>3, <1>8, <1>9

(* What sbInit leaves on the disk is sound.                                *)
LEMMA FormattedSound == Sound(FormattedDisk)
<1> DEFINE d == FormattedDisk
           g == OnDisk(d, Kept(d))
<1>1. DiskOK(d) /\ Readable(d)
  BY FormattedOK, FormattedReadable
<1>2. \A fd \in Slots : d[DIRBLOCKNUM].files[fd].state = {} /\ d[DIRBLOCKNUM].files[fd].block = JUNK
  BY FormattedIs
<1>3. \A fd \in Slots : Kept(d)[fd] = NULL
  BY <1>2 DEF Kept
<1>4. ASSUME NEW b \in Blocks, d[b].type = "seg"
      PROVE  /\ b \in Heads /\ d[b].seg = Formatted(b)
  BY <1>4, FormattedIs
<1>5. ASSUME NEW b \in Heads, NEW i \in Entries
      PROVE  /\ Formatted(b).num = b
             /\ i < Formatted(b).count => Formatted(b).free[i] = b + (i + 1)
             /\ i >= Formatted(b).count => Formatted(b).free[i] = JUNK
             /\ Plain(Formatted(b).free[i])
  <2> DEFINE s == Formatted(b)
  <2>1. /\ b \in Blocks /\ s.num = b /\ s.count \in 0 .. FREEBLOCKMAX
        /\ s.free[i] = IF b + i + 1 < DISKBLOCKTOTAL THEN b + i + 1 ELSE JUNK
        /\ i < s.count <=> b + i + 1 < DISKBLOCKTOTAL
    BY FormattedAt
  <2> HIDE DEF s
  <2>2. b \in Nat /\ b > 1 /\ i \in Nat
    BY <2>1, Unlike DEF Entries
  <2>5. b + i + 1 = b + (i + 1) /\ (b + i + 1 < DISKBLOCKTOTAL => b + i + 1 \in Blocks)
    BY <2>2, Constants DEF Blocks
  <2>6. s.count \in Int /\ i \in Int /\ (i >= s.count => ~(i < s.count))
    BY <2>1, <2>2
  <2>3. i < s.count => s.free[i] = b + (i + 1) /\ s.free[i] \in Blocks
    <3> SUFFICES ASSUME i < s.count PROVE s.free[i] = b + (i + 1) /\ s.free[i] \in Blocks
      OBVIOUS
    <3>1. b + i + 1 < DISKBLOCKTOTAL
      BY <2>1
    <3> QED
      BY <2>1, <2>5, <3>1
  <2>4. i >= s.count => s.free[i] = JUNK
    BY <2>1, <2>2
  <2> QED
    BY <2>1, <2>3, <2>4, <2>6 DEF Plain, s
<1>6. \A b \in Blocks : d[b].type = "seg" => \A i \in Entries : Plain(d[b].seg.free[i])
  BY <1>4, <1>5
<1>7. \A b \in Blocks : OnList(d, b) =>
        d[b].seg.num = b /\ \A i \in Entries : i >= d[b].seg.count => d[b].seg.free[i] \notin Blocks
  <2> SUFFICES ASSUME NEW b \in Blocks, OnList(d, b)
               PROVE d[b].seg.num = b /\ \A i \in Entries : i >= d[b].seg.count => d[b].seg.free[i] \notin Blocks
    OBVIOUS
  <2>1. b \in Heads /\ d[b].seg = Formatted(b)
    BY <1>4 DEF OnList
  <2>2. Formatted(b).num = b
    BY <2>1, FormattedAt
  <2> QED
    BY <1>5, <2>1, <2>2, NotBlocks
<1>8. ASSUME NEW b \in Blocks, g[Own(b)] \in Blocks PROVE b \in Heads /\ g[Own(b)] = b + 0
  <2>1. OnList(d, b) /\ g[Own(b)] = d[b].seg.num
    BY <1>8, DiskAt, NotBlocks
  <2> QED
    BY <1>4, <1>7, <2>1, Unlike DEF OnList
<1>9. ASSUME NEW b \in Blocks, NEW i \in Entries, g[Entry(b, i)] \in Blocks
      PROVE  b \in Heads /\ g[Entry(b, i)] = b + (i + 1)
  <2>1. OnList(d, b) /\ i < d[b].seg.count /\ g[Entry(b, i)] = d[b].seg.free[i]
    BY <1>9, DiskAt, NotBlocks
  <2> QED
    BY <1>4, <1>5, <2>1 DEF OnList
<1>10. \A fd \in Slots : g[File(fd)] \notin Blocks
  BY <1>3, DiskAt, NotBlocks
<1>11. g[HAND] \notin Blocks
  BY DiskAt, NotBlocks
<1>12. 0 \in 0 .. FREEBLOCKMAX /\ \A i \in Entries : i + 1 \in 0 .. FREEBLOCKMAX /\ i + 1 # 0 /\ i \in Int
  BY Constants DEF Entries
<1> HIDE DEF g
<1>13. Once(g, Blocks)
  <2> SUFFICES ASSUME NEW x \in Places(Blocks), NEW y \in Places(Blocks), g[x] = g[y], g[x] \in Blocks PROVE x = y
    BY DEF Once
  <2> DEFINE Kind(z) == \/ \E b \in Heads : z = Own(b) /\ g[z] = b + 0
                        \/ \E b \in Heads, i \in Entries : z = Entry(b, i) /\ g[z] = b + (i + 1)
  <2>1. ASSUME NEW z \in Places(Blocks), g[z] \in Blocks PROVE Kind(z)
    <3>1. z # HAND /\ \A fd \in Slots : z # File(fd)
      BY <1>10, <1>11, <2>1
    <3>2. ASSUME NEW b \in Blocks, z = Own(b) PROVE Kind(z)
      BY <1>8, <2>1, <3>2
    <3>3. ASSUME NEW b \in Blocks, NEW i \in Entries, z = Entry(b, i) PROVE Kind(z)
      BY <1>9, <2>1, <3>3
    <3> QED
      BY <3>1, <3>2, <3>3, PlacesAre
  <2>2. Kind(x) /\ Kind(y)
    BY <2>1
  <2>3. CASE \E b \in Heads : x = Own(b) /\ g[x] = b + 0
    <3>1. PICK b \in Heads : x = Own(b) /\ g[x] = b + 0
      BY <2>3
    <3>2. ASSUME NEW c \in Heads, y = Own(c), g[y] = c + 0 PROVE x = y
      BY <1>12, <3>1, <3>2, HeadsApart
    <3>3. ASSUME NEW c \in Heads, NEW i \in Entries, y = Entry(c, i), g[y] = c + (i + 1) PROVE x = y
      BY <1>12, <3>1, <3>3, HeadsApart
    <3> QED
      BY <2>2, <3>2, <3>3
  <2>4. CASE \E b \in Heads, i \in Entries : x = Entry(b, i) /\ g[x] = b + (i + 1)
    <3>1. PICK b \in Heads, i \in Entries : x = Entry(b, i) /\ g[x] = b + (i + 1)
      BY <2>4
    <3>2. ASSUME NEW c \in Heads, y = Own(c), g[y] = c + 0 PROVE x = y
      BY <1>12, <3>1, <3>2, HeadsApart
    <3>3. ASSUME NEW c \in Heads, NEW j \in Entries, y = Entry(c, j), g[y] = c + (j + 1) PROVE x = y
      <4>1. b = c /\ i + 1 = j + 1
        BY <1>12, <3>1, <3>3, HeadsApart
      <4>2. i = j
        BY <1>12, <4>1
      <4> QED
        BY <3>1, <3>3, <4>1, <4>2
    <3> QED
      BY <2>2, <3>2, <3>3
  <2> QED
    BY <2>2, <2>3, <2>4
<1> QED
  BY <1>1, <1>2, <1>6, <1>7, <1>13 DEF Sound, ListOK, g, Sane

(* sbInit and sbOpen establish the invariant.                              *)
LEMMA InvInit == ASSUME Single, Init PROVE Inv
<1>0. crashes \in Nat
  BY DEF Init
<1> DEFINE m == Now
<1>1. /\ m.seg = seg /\ m.live = live /\ m.head = sb_freelst /\ m.files = filetab /\ m.disk = disk
      /\ m.lock = sb_freelock /\ m.f = ctx[me]
  BY NowIs
<1>2. Sound(m.disk)
  BY <1>1, FormattedSound DEF Init
<1>3. live # {}
  <2>1. 0 \in 0 .. DISKBLOCKTOTAL /\ Chain(FormattedDisk)[0] = 2
    <3>1. Chain(FormattedDisk)[0] = FormattedDisk[SUPERBLOCKNUM].freelst
      BY ChainStep
    <3> QED
      BY <3>1, FormattedIs, Constants
  <2>2. Cell(0) \in CellsOf(FormattedDisk)
    BY <2>1, CellsOfIs DEF NULL
  <2> QED
    BY <2>2 DEF Init
<1>4. Restarted(m)
  BY <1>1, <1>3, OneProcess DEF Restarted, Init
<1> HIDE DEF m
<1>5. MemOK(m) /\ DiskInv(m)
  BY <1>2, <1>4, RestartMem, RestartDisk
<1> QED
  BY <1>0, <1>5 DEF Inv, m

(* After a crash outside of fileDelete the disk is sound.                  *)
LEMMA InvCrash ==
  ASSUME Single, "delete" \notin CrashIn, TypeInv, Inv, Crash
  PROVE  Inv'
<1> SUFFICES ASSUME ~wild', ~unsaved' PROVE MemOK(Now)' /\ DiskInv(Now)'
  <2>1. crashes' \in Nat /\ crashes' # 0
    BY DEF Crash, Inv
  <2> QED
    BY <2>1 DEF Inv
<1>0. PICK m : m = Now
  OBVIOUS
<1>1. PICK n : n = Now'
  OBVIOUS
<1>2. DiskInv(m) /\ ~wild /\ Readable(disk)
  BY <1>0 DEF Inv, Crash
<1>3. /\ m.seg = seg /\ m.live = live /\ m.head = sb_freelst /\ m.files = filetab /\ m.disk = disk
      /\ m.lock = sb_freelock /\ m.f = ctx[me]
  BY <1>0, NowIs
<1>4. /\ n.seg = seg' /\ n.live = live' /\ n.head = sb_freelst' /\ n.files = filetab' /\ n.disk = disk'
      /\ n.lock = sb_freelock' /\ n.f = ctx'[me]
  BY <1>1, NextIs
<1>5. Restarted(n) /\ n.disk = m.disk
  BY <1>2, <1>3, <1>4, OneProcess DEF Restarted, Crash
<1>6. m.f.call # "delete"
  <2>1. ctx[me].call \in CrashIn \cup {"none"}
    BY OneProcess DEF Crash
  <2> QED
    BY <1>3, <2>1
<1>7. ListOK(m.disk, FilesIn(m)) /\ DirOK(m) /\ SaneDisk(m)
  BY <1>2, <1>6, DiskParts
<1>8. ASSUME NEW fd \in Slots, Kept(m.disk)[fd] \in Blocks PROVE Kept(m.disk)[fd] = FilesIn(m)[fd]
  <2>1. "used" \in m.disk[DIRBLOCKNUM].files[fd].state /\ Kept(m.disk)[fd] = m.disk[DIRBLOCKNUM].files[fd].block
    BY <1>8, NotBlocks DEF Kept
  <2>2. BlockOf(m, fd) = m.disk[DIRBLOCKNUM].files[fd].block
    BY <1>6, <1>7, <2>1 DEF DirOK, Deleting, BlockOf
  <2> QED
    BY <2>1, <2>2, FilesInAre
<1>9. ListOK(m.disk, Kept(m.disk))
  BY <1>7, <1>8, ListOKLess
<1>10. DiskOK(disk)
  BY TypeNow
<1>11. Sound(n.disk)
  BY <1>2, <1>3, <1>5, <1>7, <1>9, <1>10 DEF Sound, DirOK, SaneDisk
<1>12. MemOK(n) /\ DiskInv(n)
  BY <1>5, <1>11, RestartMem, RestartDisk
<1> QED
  BY <1>1, <1>12

(* A step is taken only before anything wild happened; what is not saved   *)
(* stays so.                                                               *)
LEMMA StepKeeps ==
  ASSUME TypeInv, NEW p \in Procs, Step(p)
  PROVE  ~wild /\ crashes' = crashes /\ (unsaved => unsaved')
<1>1. ~wild
  <2>1. wild => \A s \in Steps : ~At(p, s)
    BY DEF At
  <2> QED
    BY <2>1, Zenon DEF Step, Seek, Write, WriteFails, DirLock, DirDone, ReadHead, FreeLock, Create, Slot, Assign,
                GetEntry, GetLast, LastDone, GetSegment, Getting, Unswizzle, Closed, Unlink, Unlinked, Refused,
                PutFirst, PutSegment, Relink, PutEntry, Astray, Open, PutChar, Close, Delete, Steps
<1>2. crashes' = crashes
  BY Zenon DEF Step, Seek, Write, WriteFails, DirLock, DirDone, ReadHead, FreeLock, Create, Slot, Assign,
         GetEntry, GetLast, LastDone, GetSegment, Getting, Unswizzle, Closed, Unlink, Unlinked, Refused,
         PutFirst, PutSegment, Relink, PutEntry, Astray, Open, PutChar, Close, Delete, faults, GoesWild
<1>3. unsaved => unsaved'
  BY Zenon DEF Step, Seek, Write, WriteFails, DirLock, DirDone, ReadHead, FreeLock, Create, Slot, Assign,
         GetEntry, GetLast, LastDone, GetSegment, Getting, Unswizzle, Closed, Unlink, Unlinked, Refused,
         PutFirst, PutSegment, Relink, PutEntry, Astray, Open, PutChar, Close, Delete, faults, GoesWild
<1> QED
  BY <1>1, <1>2, <1>3

(* Every step of a process keeps it.                                       *)
LEMMA InvStep ==
  ASSUME Single, TypeInv, TypeInv', Inv, NEW p \in Procs, Step(p)
  PROVE  Inv'
<1>1. Step(me)
  BY OneProcess
<1>2. ~wild /\ crashes' = crashes /\ (unsaved => unsaved')
  BY StepKeeps
<1> SUFFICES ASSUME ~wild'
             PROVE  /\ (crashes = 0 \/ ~unsaved') => MemOK(Now)'
                    /\ ~unsaved' => DiskInv(Now)'
  BY <1>2 DEF Inv
<1>3. PICK m : m = Now
  OBVIOUS
<1>4. PICK n : n = Now'
  OBVIOUS
<1>5. /\ crashes = 0 \/ ~unsaved => MemOK(m)
      /\ ~unsaved => DiskInv(m)
  BY <1>2, <1>3 DEF Inv
<1>6. (crashes = 0 \/ ~unsaved') => MemOK(n)
  BY <1>1, <1>2, <1>3, <1>4, <1>5, MemStep
<1>7. ~unsaved' => DiskInv(n)
  BY <1>1, <1>2, <1>3, <1>4, <1>5, <1>6, DiskStep
<1> QED
  BY <1>4, <1>6, <1>7

(* So does a step that changes nothing.                                    *)
LEMMA InvStutter ==
  ASSUME Inv, UNCHANGED vars
  PROVE  Inv'
  BY DEF Inv, Now, vars, super, locks, device, faults

(* For all sizes of disk, segments and directory and all failing writes,   *)
(* with one process (as the shell is, the only caller) and no crash in the *)
(* middle of fileDelete: memory and the list on the disk match, with block *)
(* numbers for the pointers, but for what the call in progress is about to *)
(* write.                                                                  *)
THEOREM FileSystemInv ==
  ASSUME Single, "delete" \notin CrashIn
  PROVE  Spec => []Inv
<1>1. Init => Inv
  BY InvInit
<1>2. TypeInv /\ TypeInv' /\ Inv /\ [Next]_vars => Inv'
  BY InvCrash, InvStep, InvStutter DEF Next, Stopped
<1> QED
  BY <1>1, <1>2, FileSystemTypeInv, PTL DEF Spec

-----------------------------------------------------------------------------
(* The properties.                                                         *)

(* Counting places: a set whose members are all the same one.              *)
LEMMA OneAtMost ==
  ASSUME NEW S, \A x, y \in S : x = y
  PROVE  Cardinality(S) = IF S = {} THEN 0 ELSE 1
<1>1. CASE S = {}
  BY <1>1, FS_EmptySet
<1>2. CASE S # {}
  <2>1. PICK x \in S : TRUE
    BY <1>2
  <2>2. S = {x}
    BY <2>1
  <2> QED
    BY <1>2, <2>2, FS_Singleton
<1> QED
  BY <1>1, <1>2

(* The four counts together.                                               *)
AtMostOne(A, B, C, D) == Cardinality(A) + Cardinality(B) + Cardinality(C) + Cardinality(D) <= 1

(* Of four sets that all go to one place at most one has a member, and no  *)
(* set has two.                                                            *)
LEMMA CountOnce ==
  ASSUME NEW P, NEW h, NEW b, \A x, y \in P : h[x] = b /\ h[y] = b => x = y,
         NEW A, NEW B, NEW C, NEW D, HAND \in P,
         \A x \in A : Own(x) \in P /\ h[Own(x)] = b,
         \A x \in B : Entry(x[1], x[2]) \in P /\ h[Entry(x[1], x[2])] = b,
         \A x, y \in B : x[1] = y[1] /\ x[2] = y[2] => x = y,
         \A x \in C : File(x) \in P /\ h[File(x)] = b,
         D # {} => h[HAND] = b, \A x, y \in D : x = y
  PROVE  AtMostOne(A, B, C, D)
<1>1. \A x, y \in A : x = y
  BY PlacesDiffer
<1>2. \A x, y \in B : x = y
  BY PlacesDiffer
<1>3. \A x, y \in C : x = y
  BY PlacesDiffer
<1>4. /\ A = {} \/ (B = {} /\ C = {} /\ D = {})
      /\ B = {} \/ (A = {} /\ C = {} /\ D = {})
      /\ C = {} \/ (A = {} /\ B = {} /\ D = {})
  <2>1. ~\E x \in A, y \in B : TRUE
    BY PlacesDiffer
  <2>2. ~\E x \in A, y \in C : TRUE
    BY PlacesDiffer
  <2>3. ~\E x \in B, y \in C : TRUE
    BY PlacesDiffer
  <2>4. D # {} => ~\E x \in A : TRUE
    BY PlacesDiffer
  <2>5. D # {} => ~\E x \in B : TRUE
    BY PlacesDiffer
  <2>6. D # {} => ~\E x \in C : TRUE
    BY PlacesDiffer
  <2> QED
    BY <2>1, <2>2, <2>3, <2>4, <2>5, <2>6
<1>5. /\ Cardinality(A) = IF A = {} THEN 0 ELSE 1
      /\ Cardinality(B) = IF B = {} THEN 0 ELSE 1
      /\ Cardinality(C) = IF C = {} THEN 0 ELSE 1
      /\ Cardinality(D) = IF D = {} THEN 0 ELSE 1
  BY <1>1, <1>2, <1>3, OneAtMost
<1> HIDE DEF Cardinality
<1> QED
  BY <1>4, <1>5 DEF AtMostOne

(* The invariant keeps every block in one place of memory ...              *)
LEMMA OnceIn ==
  ASSUME Single, TypeInv, Inv
  PROVE  BlocksOnce
<1> SUFFICES ASSUME ~wild, sb_freelock = "free", crashes = 0 \/ ~unsaved, NEW b \in Blocks
             PROVE LET list  == {Walk(sb_freelst)[i] : i \in 0 .. DISKBLOCKTOTAL} \cap live
                       slots == {fd \in Slots : \A p \in Procs : ctx[p].call = "create" => ctx[p].fd # fd}
                       hands == {p \in Procs : ctx[p].block = b /\ ctx[p].at \in {"head", "freelock", "assign"}}
                   IN  InSegments(b, list, LAMBDA c : seg[c]) + InFiles(b, slots, filetab) + Cardinality(hands) <= 1
  BY Zenon DEF BlocksOnce
<1> DEFINE list  == {Walk(sb_freelst)[i] : i \in 0 .. DISKBLOCKTOTAL} \cap live
           slots == {fd \in Slots : \A p \in Procs : ctx[p].call = "create" => ctx[p].fd # fd}
           A == {c \in list : seg[c].num = b}
           B == {x \in list \X Entries : x[2] < seg[x[1]].count /\ seg[x[1]].free[x[2]] = b}
           C == {fd \in slots : "used" \in filetab[fd].state /\ filetab[fd].block = b}
           D == {p \in Procs : ctx[p].block = b /\ ctx[p].at \in {"head", "freelock", "assign"}}
<1>0. PICK m : m = Now
  OBVIOUS
<1>1. MemOK(m) /\ m.seg = seg /\ m.live = live /\ m.files = filetab /\ m.f = ctx[me] /\ Typed(m)
  BY <1>0, NowIs, NowTyped DEF Inv
<1> DEFINE h == InMemory(m)
           P == Places(Cells)
<1>2. \A x, y \in P : h[x] = b /\ h[y] = b => x = y
  BY <1>1 DEF MemOK, Once
<1>3. \A c \in list : c \in Cells /\ c \in m.live
  BY <1>1, TypeNow
<1> HIDE DEF list
<1>4. \A x \in A : Own(x) \in P /\ h[Own(x)] = b
  BY <1>1, <1>3, MemAt, PlacesAre
<1>5. \A x \in B : Entry(x[1], x[2]) \in P /\ h[Entry(x[1], x[2])] = b
  <2> SUFFICES ASSUME NEW x \in B PROVE Entry(x[1], x[2]) \in P /\ h[Entry(x[1], x[2])] = b
    OBVIOUS
  <2>1. x[1] \in Cells /\ x[1] \in m.live /\ x[2] \in Entries /\ x[2] < m.seg[x[1]].count /\ m.seg[x[1]].free[x[2]] = b
    BY <1>1, <1>3
  <2> HIDE DEF B
  <2>2. h[Entry(x[1], x[2])] = m.seg[x[1]].free[x[2]]
    BY <2>1, MemAt, Zenon
  <2> QED
    BY <2>1, <2>2, PlacesAre
<1>6. \A x, y \in B : x[1] = y[1] /\ x[2] = y[2] => x = y
  OBVIOUS
<1>7. \A x \in C : File(x) \in P /\ h[File(x)] = b
  <2> SUFFICES ASSUME NEW x \in C PROVE File(x) \in P /\ h[File(x)] = b
    OBVIOUS
  <2>1. x \in Slots /\ "used" \in m.files[x].state /\ m.files[x].block = b /\ ~Making(m.f, x)
    BY <1>1, OneProcess DEF Making
  <2> HIDE DEF C
  <2> QED
    BY <2>1, MemAt, PlacesAre DEF BlockOf
<1>8. D # {} => h[HAND] = b
  <2> SUFFICES ASSUME NEW p \in D PROVE h[HAND] = b
    OBVIOUS
  <2>1. m.f.block = b /\ m.f.at \in {"head", "freelock", "assign"}
    BY <1>1, OneProcess
  <2> HIDE DEF D
  <2>2. PhaseOK(m.f) /\ m.f \in Frames
    BY <1>1 DEF Typed, FrameOK
  <2>3. Holding(m.f)
    <3>1. m.f.call = "create" /\ m.f.at \in {"head", "freelock"} => m.f.block = NULL
      BY <1>1 DEF MemOK
    <3> QED
      BY <2>1, <2>2, <3>1, NotBlocks DEF PhaseOK, Frames, Holding
  <2> QED
    BY <2>1, <2>3, MemAt DEF Hand
<1>9. \A x, y \in D : x = y
  BY OneProcess
<1>10. HAND \in P
  BY PlacesAre
<1> HIDE DEF A, B, C, D, P, h, slots
<1>11. AtMostOne(A, B, C, D)
  BY <1>2, <1>4, <1>5, <1>6, <1>7, <1>8, <1>9, <1>10, CountOnce, ZenonT(60)
<1>12. InSegments(b, list, LAMBDA c : seg[c]) = Cardinality(A) + Cardinality(B)
  BY DEF InSegments, A, B
<1>13. InFiles(b, slots, filetab) = Cardinality(C)
  BY DEF InFiles, C
<1> QED
  BY <1>11, <1>12, <1>13 DEF AtMostOne, D, list, slots

(* ... and in one place of the disk.                                       *)
LEMMA SoundIn ==
  ASSUME Single, TypeInv, Inv
  PROVE  DiskConsistent
<1> SUFFICES ASSUME ~unsaved, ~wild, Readable(disk), \A p \in Procs : ctx[p].call # "delete", NEW b \in Blocks
             PROVE LET chain == {Chain(disk)[i] : i \in 0 .. DISKBLOCKTOTAL} \ {NULL}
                   IN  InSegments(b, chain, LAMBDA n : disk[n].seg) + InFiles(b, Slots, disk[DIRBLOCKNUM].files) <= 1
  BY Zenon DEF DiskConsistent, DiskSound
<1> DEFINE chain == {Chain(disk)[i] : i \in 0 .. DISKBLOCKTOTAL} \ {NULL}
           files == disk[DIRBLOCKNUM].files
           A == {c \in chain : disk[c].seg.num = b}
           B == {x \in chain \X Entries : x[2] < disk[x[1]].seg.count /\ disk[x[1]].seg.free[x[2]] = b}
           C == {fd \in Slots : "used" \in files[fd].state /\ files[fd].block = b}
<1>0. PICK m : m = Now
  OBVIOUS
<1>1. DiskInv(m) /\ m.disk = disk /\ m.f = ctx[me]
  BY <1>0, NowIs DEF Inv
<1>2. m.f.call # "delete" /\ ListOK(disk, FilesIn(m)) /\ DirOK(m)
  BY <1>1, OneProcess DEF DiskInv
<1> DEFINE h == OnDisk(disk, FilesIn(m))
           P == Places(Blocks)
<1>3. \A x, y \in P : h[x] = b /\ h[y] = b => x = y
  BY <1>2 DEF ListOK, Once
<1>4. \A c \in chain : c \in Blocks /\ OnList(disk, c)
  <2>1. \A i \in 0 .. DISKBLOCKTOTAL : Chain(disk)[i] # NULL => Chain(disk)[i] \in Blocks /\ disk[Chain(disk)[i]].type = "seg"
    BY ChainStep, Zenon DEF Readable
  <2> QED
    BY <2>1 DEF OnList
<1> HIDE DEF chain
<1>5. \A x \in A : Own(x) \in P /\ h[Own(x)] = b
  BY <1>4, DiskAt, PlacesAre
<1>6. \A x \in B : Entry(x[1], x[2]) \in P /\ h[Entry(x[1], x[2])] = b
  <2> SUFFICES ASSUME NEW x \in B PROVE Entry(x[1], x[2]) \in P /\ h[Entry(x[1], x[2])] = b
    OBVIOUS
  <2>1. x[1] \in Blocks /\ OnList(disk, x[1]) /\ x[2] \in Entries /\ x[2] < disk[x[1]].seg.count /\ disk[x[1]].seg.free[x[2]] = b
    BY <1>4
  <2> HIDE DEF B
  <2>2. h[Entry(x[1], x[2])] = disk[x[1]].seg.free[x[2]]
    BY <2>1, DiskAt
  <2> QED
    BY <2>1, <2>2, PlacesAre
<1>7. \A x, y \in B : x[1] = y[1] /\ x[2] = y[2] => x = y
  OBVIOUS
<1>8. \A x \in C : File(x) \in P /\ h[File(x)] = b
  <2> SUFFICES ASSUME NEW x \in C PROVE File(x) \in P /\ h[File(x)] = b
    OBVIOUS
  <2>1. BlockOf(m, x) = b /\ x \in Slots
    BY <1>1, <1>2 DEF DirOK, Deleting, BlockOf
  <2> HIDE DEF C
  <2> QED
    BY <2>1, DiskAt, PlacesAre, FilesInAre
<1>9. HAND \in P
  BY PlacesAre
<1> DEFINE D == {}
<1>10. (D # {} => h[HAND] = b) /\ (\A x, y \in D : x = y)
  OBVIOUS
<1> HIDE DEF A, B, C, D, P, h
<1>11. AtMostOne(A, B, C, D)
  BY <1>3, <1>5, <1>6, <1>7, <1>8, <1>9, <1>10, CountOnce, ZenonT(60)
<1>12. InSegments(b, chain, LAMBDA n : disk[n].seg) = Cardinality(A) + Cardinality(B)
  BY DEF InSegments, A, B
<1>13. InFiles(b, Slots, files) = Cardinality(C)
  BY DEF InFiles, C
<1>14. Cardinality(D) = 0 /\ Cardinality(A) + Cardinality(B) + Cardinality(C) \in Int
  <2>1. (\A x, y \in A : x = y) /\ (\A x, y \in B : x = y) /\ (\A x, y \in C : x = y)
    BY <1>3, <1>5, <1>6, <1>7, <1>8, PlacesDiffer
  <2>2. Cardinality(A) \in Nat /\ Cardinality(B) \in Nat /\ Cardinality(C) \in Nat
    BY <2>1, OneAtMost
  <2> QED
    BY <2>2, FS_EmptySet DEF D
<1> QED
  BY <1>11, <1>12, <1>13, <1>14 DEF AtMostOne, chain

(* For all sizes, all failing writes and all crashes outside of            *)
(* fileDelete, with one process: while nobody holds the lock of the free   *)
(* list a block is in it once, or in one file, or in the hands of a call.  *)
THEOREM FileSystemBlocksOnce ==
  ASSUME Single, "delete" \notin CrashIn
  PROVE  Spec => []BlocksOnce
<1>1. TypeInv /\ Inv => BlocksOnce
  BY OnceIn
<1> QED
  BY <1>1, FileSystemTypeInv, FileSystemInv, PTL

(* For all sizes, all failing writes and all crashes outside of            *)
(* fileDelete, with one process: a disk that sbOpen can read has no block  *)
(* free and in a file, nor twice free, nor in two files, unless            *)
(* sbFreeBlock is known to have left something unsaved.                    *)
THEOREM FileSystemDiskConsistent ==
  ASSUME Single, "delete" \notin CrashIn
  PROVE  Spec => []DiskConsistent
<1>1. TypeInv /\ Inv => DiskConsistent
  BY SoundIn
<1> QED
  BY <1>1, FileSystemTypeInv, FileSystemInv, PTL
===============================================================================
