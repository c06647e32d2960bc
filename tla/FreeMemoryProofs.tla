--------------------------- MODULE FreeMemoryProofs ---------------------------
(***************************************************************************)
(* Theorems about FreeMemory, for every number of cores, every size of the *)
(* regions, every request and every word a program writes: the variables   *)
(* keep their types; and as long as no call has followed the NULL at the   *)
(* end of a list or started from an old head, no unit of the heap is lost  *)
(* or given out twice, the lists are sorted and fully coalesced, their     *)
(* heads keep their sizes, and no block of malloc's is refused.            *)
(*                                                                         *)
(* The calls walk along a list.  Walk is a recursive function, and what it *)
(* meets is found by induction over the set of numbers for which a formula *)
(* holds (SetInduction, from the library's WFMin).  The other proofs       *)
(* reason about the cells of a list as a set, Chain and Part below, and    *)
(* not about walks.                                                        *)
(***************************************************************************)
EXTENDS FreeMemory, WellFoundedInduction, FiniteSetTheorems, TLAPS

Units == NCORES * BOUND   \* in the heap

(* What the assumption on the constants says: the heap is not empty and    *)
(* has fewer units than there are addresses.                               *)
LEMMA HeapFacts ==
  /\ NCORES \in Nat /\ NCORES > 0 /\ BOUND \in Nat /\ BOUND > 0
  /\ WORD \in Nat /\ WORD > 0
  /\ Units \in Nat /\ Units < WORD /\ BOUND <= Units
  /\ Addrs = 1 .. Units
<1>1. /\ NCORES \in Nat /\ NCORES > 0 /\ BOUND \in Nat /\ BOUND > 0
      /\ Units < WORD /\ Addrs = 1 .. Units
  BY FreeMemoryAssumption DEF Addrs, Units
<1>2. WORD \in Nat /\ WORD > 0
  BY DEF WORD
<1>3. Units \in Nat /\ BOUND <= Units
  BY <1>1 DEF Units
<1> QED
  BY <1>1, <1>2, <1>3

(* Arithmetic on addresses wraps around at WORD only.                      *)
LEMMA ModSmall ==
  ASSUME NEW n \in Nat, n < WORD
  PROVE  n % WORD = n
BY HeapFacts

(* What it gives is a word.                                                *)
LEMMA ModRange ==
  ASSUME NEW n \in Int
  PROVE  n % WORD \in 0 .. WORD - 1
BY HeapFacts

(* The regions of the cores are disjoint parts of the heap.                *)
LEMMA Regions ==
  ASSUME NEW c \in Cores
  PROVE  /\ base(c) \in Addrs /\ base(c) + BOUND - 1 \in Addrs
         /\ Region(c) \subseteq Addrs
         /\ \A d \in Cores : d > c => base(c) + BOUND <= base(d)
         /\ \A d \in Cores : d # c => Region(c) \cap Region(d) = {}
<1>1. ASSUME NEW i \in Nat, NEW j \in Nat, i < j PROVE i * BOUND + BOUND <= j * BOUND
  <2>1. (j - i - 1) * BOUND \in Nat
    BY <1>1, HeapFacts
  <2>2. (j - i - 1) * BOUND = j * BOUND - i * BOUND - BOUND
    BY <1>1, HeapFacts
  <2>3. i * BOUND \in Nat /\ j * BOUND \in Nat
    BY HeapFacts
  <2> QED
    BY <2>1, <2>2, <2>3, HeapFacts
<1>2. c \in Nat /\ c < NCORES /\ c * BOUND \in Nat
  BY HeapFacts DEF Cores
<1>3. c * BOUND + BOUND <= Units
  BY <1>1, <1>2, HeapFacts DEF Units
<1>4. ASSUME NEW d \in Cores, NEW e \in Cores, d < e PROVE base(d) + BOUND <= base(e)
  <2>1. d * BOUND + BOUND <= e * BOUND
    BY <1>1, <1>4, HeapFacts DEF Cores
  <2>2. d * BOUND \in Nat /\ e * BOUND \in Nat
    BY HeapFacts DEF Cores
  <2> QED
    BY <2>1, <2>2, HeapFacts DEF base
<1>5. \A d \in Cores : base(d) \in Nat
  BY HeapFacts DEF base, Cores
<1>6. base(c) \in Addrs /\ base(c) + BOUND - 1 \in Addrs /\ Region(c) \subseteq Addrs
  BY <1>2, <1>3, HeapFacts DEF base, Region
<1>7. ASSUME NEW d \in Cores, d # c PROVE Region(c) \cap Region(d) = {}
  <2>1. d < c \/ c < d
    BY <1>7, HeapFacts DEF Cores
  <2> QED
    BY <1>4, <1>5, <2>1, HeapFacts DEF Region
<1> QED
  BY <1>4, <1>6, <1>7

(* The list heads are cells of their own, one for each core.               *)
LEMMA Heads ==
  ASSUME NEW c \in Cores
  PROVE  /\ Head(c) \in Cells /\ Head(c) \notin Addrs /\ Head(c) < 0 /\ Head(c) \in Int
         /\ \A d \in Cores : Head(d) = Head(c) => d = c
BY HeapFacts DEF Head, Cells, Cores

(* NULL is not an address of the heap.                                     *)
LEMMA NullCell == NULL \notin Addrs /\ NULL = 0 /\ Addrs \subseteq Cells
BY HeapFacts DEF Cells, NULL
-----------------------------------------------------------------------------
(* Induction, for sets of numbers. *)

(* The order of the natural numbers is well founded.                       *)
LEMMA NaturalsWellFounded == IsWellFoundedOn({ss \in Nat \X Nat : ss[1] < ss[2]}, Nat)
BY NatLessThanWellFounded DEF OpToRel

(* So a set of them that is not empty has a least element,                 *)
LEMMA LeastNumber ==
  ASSUME NEW S \in SUBSET Nat, S # {}
  PROVE  \E x \in S : \A y \in S : x <= y
<1> DEFINE R == {ss \in Nat \X Nat : ss[1] < ss[2]}
<1>1. IsWellFoundedOn(R, Nat)
  BY NaturalsWellFounded
<1>2. \A x, y \in Nat : x < y => <<x, y>> \in R
  OBVIOUS
<1> HIDE DEF R
<1>3. PICK x \in S : \A y \in S : ~(<<y, x>> \in R)
  BY <1>1, WFMin
<1>4. ASSUME NEW y \in S PROVE x <= y
  <2>1. x \in Nat /\ y \in Nat
    OBVIOUS
  <2>2. ~(y < x)
    BY <1>2, <1>3, <2>1
  <2> QED
    BY <2>1, <2>2
<1> QED
  BY <1>4

(* a set that has 0 and, with n, n + 1 has them all,                       *)
LEMMA SetInduction ==
  ASSUME NEW S, 0 \in S, \A n \in Nat : n \in S => n + 1 \in S
  PROVE  \A n \in Nat : n \in S
<1> DEFINE T == {n \in Nat : n \notin S}
<1> SUFFICES ASSUME T # {} PROVE FALSE
  OBVIOUS
<1>1. PICK x \in T : \A y \in T : x <= y
  BY LeastNumber
<1>2. x # 0 /\ x \in Nat
  OBVIOUS
<1>3. x - 1 \in Nat /\ x - 1 + 1 = x /\ ~(x <= x - 1)
  BY <1>2
<1>4. x - 1 \in T
  BY <1>3
<1> QED
  BY <1>1, <1>3, <1>4

(* and Min is what its name says.                                          *)
LEMMA LeastIsMin ==
  ASSUME NEW S \in SUBSET Nat, S # {}
  PROVE  Min(S) \in S /\ \A y \in S : Min(S) <= y
BY LeastNumber DEF Min

-----------------------------------------------------------------------------
(* Walks and chains: what a walk along a free list meets. *)

(* Walk, and the free blocks it meets, in any memory.                      *)
WalkIn(nx, start) ==
  LET walk[i \in 0 .. NCORES * BOUND] ==
        IF i = 0 THEN start ELSE IF walk[i - 1] = NULL THEN NULL ELSE nx[walk[i - 1]]
  IN  walk
NodesIn(nx, c) == {WalkIn(nx, nx[Head(c)])[i] : i \in 0 .. NCORES * BOUND} \ {NULL}

Links == [Cells -> Addrs \cup {NULL}]

(* A walk goes from cell to cell, and it is a function of the number of    *)
(* steps: its definition by recursion has a solution.                      *)
LEMMA WalkSteps ==
  ASSUME NEW nx \in Links, NEW start \in Addrs \cup {NULL}
  PROVE  /\ WalkIn(nx, start) \in [0 .. Units -> Addrs \cup {NULL}]
         /\ WalkIn(nx, start)[0] = start
         /\ \A i \in 1 .. Units :
              WalkIn(nx, start)[i] = IF WalkIn(nx, start)[i - 1] = NULL THEN NULL
                                     ELSE nx[WalkIn(nx, start)[i - 1]]
<1> DEFINE Cell == Addrs \cup {NULL}
           After(a) == IF a = NULL THEN NULL ELSE nx[a]
           Walks(n, w) == w[0] = start /\ \A i \in 1 .. n : w[i] = After(w[i - 1])
           S == {n \in Nat : \E w \in [0 .. n -> Cell] : Walks(n, w)}
<1>1. start \in Cell /\ \A a \in Cell : After(a) \in Cell
  BY NullCell DEF Links
<1> HIDE DEF Cell, After
<1>2. 0 \in S
  <2>1. [i \in 0 .. 0 |-> start] \in [0 .. 0 -> Cell]
    BY <1>1
  <2>2. Walks(0, [i \in 0 .. 0 |-> start])
    OBVIOUS
  <2> QED
    BY <2>1, <2>2
<1>3. ASSUME NEW n \in Nat, n \in S PROVE n + 1 \in S
  <2> PICK w \in [0 .. n -> Cell] : Walks(n, w)
    BY <1>3
  <2> DEFINE v == [i \in 0 .. n + 1 |-> IF i <= n THEN w[i] ELSE After(w[n])]
  <2>1. w[n] \in Cell
    OBVIOUS
  <2>2. v \in [0 .. n + 1 -> Cell]
    BY <1>1, <2>1
  <2>3. v[0] = start
    OBVIOUS
  <2>4. ASSUME NEW i \in 1 .. n + 1 PROVE v[i] = After(v[i - 1])
    <3>1. CASE i <= n
      <4>1. i \in 1 .. n /\ i - 1 \in 0 .. n /\ i \in 0 .. n + 1 /\ i - 1 \in 0 .. n + 1
        BY <3>1
      <4> QED
        BY <3>1, <4>1
    <3>2. CASE i = n + 1
      BY <3>2
    <3> QED
      BY <3>1, <3>2
  <2>5. Walks(n + 1, v)
    BY <2>3, <2>4
  <2> HIDE DEF v, Walks
  <2> QED
    BY <2>2, <2>5
<1>4. Units \in S
  <2> HIDE DEF S
  <2> QED
    BY <1>2, <1>3, SetInduction, HeapFacts
<1>5. PICK w \in [0 .. Units -> Cell] : Walks(Units, w)
  BY <1>4
<1> DEFINE Rec(u) == u = [i \in 0 .. Units |-> IF i = 0 THEN start
                                               ELSE IF u[i - 1] = NULL THEN NULL ELSE nx[u[i - 1]]]
<1>6. Rec(w)
  BY <1>5, HeapFacts DEF After
<1>7. WalkIn(nx, start) = CHOOSE u : Rec(u)
  BY DEF WalkIn, Units
<1>8. Rec(WalkIn(nx, start))
  <2> HIDE DEF Rec
  <2> QED
    BY <1>6, <1>7
<1> DEFINE u == WalkIn(nx, start)
<1>9. /\ u[0] = start
      /\ \A i \in 1 .. Units : u[i] = After(u[i - 1])
  <2> HIDE DEF u
  <2>1. u = [i \in 0 .. Units |-> IF i = 0 THEN start
                                  ELSE IF u[i - 1] = NULL THEN NULL ELSE nx[u[i - 1]]]
    BY <1>8 DEF u
  <2>2. 0 \in 0 .. Units /\ \A i \in 1 .. Units : i \in 0 .. Units /\ i # 0
    BY HeapFacts
  <2>3. u[0] = start
    BY <2>1, <2>2
  <2>4. ASSUME NEW i \in 1 .. Units PROVE u[i] = After(u[i - 1])
    BY <2>1, <2>2 DEF After
  <2> QED
    BY <2>3, <2>4
<1>10. \A i \in Nat : i \in 0 .. Units => u[i] \in Cell
  <2> DEFINE I == {i \in Nat : i \in 0 .. Units => u[i] \in Cell}
  <2> HIDE DEF u
  <2>1. 0 \in I
    BY <1>1, <1>9
  <2>2. ASSUME NEW i \in Nat, i \in I PROVE i + 1 \in I
    <3>1. i + 1 \in 0 .. Units => i \in 0 .. Units /\ i + 1 \in 1 .. Units /\ i + 1 - 1 = i
      BY HeapFacts
    <3> QED
      BY <1>1, <1>9, <2>2, <3>1
  <2> HIDE DEF I
  <2>3. \A i \in Nat : i \in I
    BY <2>1, <2>2, SetInduction
  <2> QED
    BY <2>3 DEF I
<1>11. u \in [0 .. Units -> Cell]
  <2> HIDE DEF u
  <2>1. u = [i \in 0 .. Units |-> u[i]]
    BY <1>8 DEF u
  <2> QED
    BY <1>10, <2>1, HeapFacts
<1> QED
  BY <1>9, <1>11 DEF After, Cell

(* The list of core c has the cells A, in ascending order.                 *)
Chain(nx, c, A) ==
  /\ A \subseteq Region(c)
  /\ \A x \in A \cup {Head(c)} :
       \/ nx[x] = NULL /\ \A z \in A : z <= x
       \/ nx[x] \in A /\ x < nx[x] /\ \A z \in A : z <= x \/ nx[x] <= z

(* A walk along a chain goes from each cell to the next, and meets all.    *)
LEMMA ChainWalk ==
  ASSUME NEW nx \in Links, NEW c \in Cores, NEW A, Chain(nx, c, A)
  PROVE  LET w == WalkIn(nx, nx[Head(c)])
         IN  /\ \A i \in 0 .. Units : w[i] \in A \cup {NULL}
             /\ \A i \in 1 .. Units : w[i] # NULL => w[i - 1] \in A /\ w[i] = nx[w[i - 1]]
             /\ w[0] = nx[Head(c)]
             /\ NodesIn(nx, c) = A
<1> DEFINE w == WalkIn(nx, nx[Head(c)])
<1>1. /\ w \in [0 .. Units -> Addrs \cup {NULL}]
      /\ w[0] = nx[Head(c)]
      /\ \A i \in 1 .. Units : w[i] = IF w[i - 1] = NULL THEN NULL ELSE nx[w[i - 1]]
  <2>1. nx[Head(c)] \in Addrs \cup {NULL}
    BY Heads, NullCell DEF Links
  <2> HIDE DEF w
  <2> QED
    BY <2>1, WalkSteps DEF w
<1>2. NodesIn(nx, c) = {w[i] : i \in 0 .. Units} \ {NULL}
  BY DEF NodesIn, Units
<1> HIDE DEF w
<1>3. /\ Units \in Nat /\ BOUND \in Nat /\ BOUND <= Units /\ BOUND > 0
      /\ A \subseteq Addrs /\ A \subseteq Int
      /\ Head(c) < 0 /\ Head(c) \in Int /\ NULL \notin A /\ base(c) \in Int
      /\ \A z \in A : z \in Int /\ z > 0 /\ base(c) <= z /\ z < base(c) + BOUND
  BY HeapFacts, Regions, Heads, NullCell DEF Chain, Region
<1>4. \A i \in Nat : i \in 0 .. Units => w[i] \in A \cup {NULL}
  <2> DEFINE I == {i \in Nat : i \in 0 .. Units => w[i] \in A \cup {NULL}}
  <2>1. 0 \in I
    BY <1>1 DEF Chain
  <2>2. ASSUME NEW i \in Nat, i \in I PROVE i + 1 \in I
    <3>1. i + 1 \in 0 .. Units => i \in 0 .. Units /\ i + 1 \in 1 .. Units /\ i + 1 - 1 = i
      BY <1>3
    <3> QED
      BY <1>1, <2>2, <3>1 DEF Chain
  <2> HIDE DEF I
  <2>3. \A i \in Nat : i \in I
    BY <2>1, <2>2, SetInduction
  <2> QED
    BY <2>3 DEF I
<1>5. \A i \in 0 .. Units : w[i] \in A \cup {NULL}
  BY <1>3, <1>4
<1>6. ASSUME NEW i \in 1 .. Units, w[i] # NULL
      PROVE  w[i - 1] \in A /\ w[i] = nx[w[i - 1]]
  <2>1. i - 1 \in 0 .. Units
    BY <1>3
  <2> QED
    BY <1>1, <1>5, <1>6, <2>1
<1>7. ASSUME NEW z \in A PROVE \E j \in 0 .. Units : w[j] = z
  <2> DEFINE Met(i) == \E j \in 0 .. i : w[j] = z
             Below(i) == w[i] \in A /\ w[i] < z /\ base(c) + i <= w[i]
             I == {i \in Nat : i \in 0 .. Units => Met(i) \/ Below(i)}
  <2>1. 0 \in I
    <3>1. ~(z <= Head(c))
      BY <1>3
    <3>2. w[0] \in A /\ w[0] <= z
      BY <1>1, <3>1 DEF Chain
    <3>3. w[0] \in Int /\ z \in Int /\ base(c) \in Int /\ base(c) <= w[0]
      <4>1. \A y \in A : y \in Int /\ base(c) <= y
        BY <1>3
      <4> QED
        BY <1>3, <3>2, <4>1
    <3>4. w[0] = z \/ Below(0)
      BY <3>2, <3>3
    <3> QED
      BY <3>4
  <2>2. ASSUME NEW i \in Nat, i \in I PROVE i + 1 \in I
    <3> SUFFICES ASSUME i + 1 \in 0 .. Units PROVE Met(i + 1) \/ Below(i + 1)
      OBVIOUS
    <3>1. i \in 0 .. Units /\ i + 1 \in 1 .. Units /\ i + 1 - 1 = i
      BY <1>3
    <3>2. CASE Met(i)
      BY <3>2
    <3>3. CASE Below(i)
      <4>1. w[i] \in A /\ w[i] < z /\ base(c) + i <= w[i] /\ w[i] \in Int /\ z \in Int
        BY <1>3, <3>3
      <4>2. w[i + 1] = nx[w[i]]
        <5>1. w[i + 1] = IF w[i] = NULL THEN NULL ELSE nx[w[i]]
          BY <1>1, <3>1
        <5> QED
          BY <1>3, <4>1, <5>1
      <4>3. w[i + 1] \in A /\ w[i] < w[i + 1] /\ w[i + 1] <= z
        <5>1. ~(z <= w[i])
          BY <4>1
        <5> QED
          BY <4>1, <4>2, <5>1 DEF Chain
      <4>4. w[i + 1] \in Int /\ base(c) + (i + 1) <= w[i + 1]
        <5>1. w[i + 1] \in Int /\ base(c) \in Int
          BY <1>3, <4>3
        <5> QED
          BY <4>1, <4>3, <5>1
      <4>5. CASE w[i + 1] = z
        <5>1. i + 1 \in 0 .. i + 1
          OBVIOUS
        <5> QED
          BY <4>5, <5>1
      <4>6. CASE w[i + 1] # z
        BY <1>3, <4>3, <4>4, <4>6
      <4> QED
        BY <4>5, <4>6
    <3> QED
      BY <2>2, <3>1, <3>2, <3>3
  <2> HIDE DEF I
  <2>3. Units \in I
    BY <1>3, <2>1, <2>2, SetInduction
  <2>4. Met(Units) \/ Below(Units)
    BY <1>3, <2>3 DEF I
  <2>5. ~Below(Units)
    <3> SUFFICES ASSUME w[Units] \in A, base(c) + Units <= w[Units] PROVE FALSE
      OBVIOUS
    <3>1. w[Units] \in Int /\ w[Units] < base(c) + BOUND
      BY <1>3
    <3> QED
      BY <1>3, <3>1
  <2> QED
    BY <2>4, <2>5
<1>8. NodesIn(nx, c) = A
  <2>1. \A z \in NodesIn(nx, c) : z \in A
    BY <1>2, <1>5
  <2>2. \A z \in A : z \in NodesIn(nx, c)
    BY <1>2, <1>3, <1>7
  <2> QED
    BY <2>1, <2>2
<1> QED
  BY <1>1, <1>5, <1>6, <1>8 DEF w

(* Where a walk stops, and the cell before.                                *)
LEMMA Stop ==
  ASSUME NEW nx \in Links, NEW start \in Addrs \cup {NULL}, NEW S,
         S # {}, \A i \in S : i \in 0 .. Units /\ WalkIn(nx, start)[i] # NULL
  PROVE  LET w == WalkIn(nx, start)
             i == Min(S)
         IN  /\ i \in S /\ i \in 0 .. Units /\ w[i] \in Addrs
             /\ \A j \in S : i <= j
             /\ i = 0 => w[i] = start
             /\ i # 0 => w[i - 1] \in Addrs /\ w[i] = nx[w[i - 1]] /\ i - 1 \notin S
<1> DEFINE w == WalkIn(nx, start)
           i == Min(S)
<1>1. S \in SUBSET Nat
  BY HeapFacts
<1>2. i \in S /\ \A j \in S : i <= j
  BY <1>1, LeastIsMin
<1>3. /\ w \in [0 .. Units -> Addrs \cup {NULL}]
      /\ w[0] = start
      /\ \A j \in 1 .. Units : w[j] = IF w[j - 1] = NULL THEN NULL ELSE nx[w[j - 1]]
  BY WalkSteps
<1> HIDE DEF w, i
<1>4. i \in 0 .. Units /\ w[i] \in Addrs
  BY <1>2, <1>3 DEF w
<1>5. ASSUME i # 0
      PROVE  w[i - 1] \in Addrs /\ w[i] = nx[w[i - 1]] /\ i - 1 \notin S
  <2>1. i \in 1 .. Units /\ i - 1 \in 0 .. Units /\ ~(i <= i - 1)
    BY <1>4, <1>5, HeapFacts
  <2>2. w[i - 1] # NULL /\ w[i] = nx[w[i - 1]]
    BY <1>3, <1>4, <2>1, NullCell
  <2> QED
    BY <1>2, <1>3, <2>1, <2>2
<1> QED
  BY <1>2, <1>3, <1>4, <1>5 DEF w, i

Lengths == [Cells -> 0 .. WORD - 1]
Memories == [next : Links, length : Lengths]

(* Sums and differences are words.                                         *)
LEMMA PlusMinus ==
  ASSUME NEW a \in Int, NEW b \in Int
  PROVE  Plus(a, b) \in 0 .. WORD - 1 /\ Minus(a, b) \in 0 .. WORD - 1
BY ModRange DEF Plus, Minus

(* So is a length.                                                         *)
LEMMA LengthInt ==
  ASSUME NEW ln \in Lengths, NEW a \in Cells
  PROVE  ln[a] \in 0 .. WORD - 1 /\ ln[a] \in Int
<1>1. ln[a] \in 0 .. WORD - 1
  BY DEF Lengths
<1> QED
  BY <1>1

(* What the parts of the calls make is a memory.                           *)
LEMMA UnlinkMemory ==
  ASSUME next \in Links, length \in Lengths, NEW c \in Cores, NEW prev,
         NEW curr \in Addrs, NEW n \in 0 .. WORD - 1
  PROVE  /\ Unlink(c, prev, curr, n) \in Memories
         /\ curr + n \in Addrs => Split(c, prev, curr, n) \in Memories
<1>1. curr \in Cells /\ Head(c) \in Cells /\ n \in Int
  BY Heads, NullCell
<1>2. length[curr] \in Int /\ length[Head(c)] \in Int
  BY <1>1, LengthInt
<1>3. Minus(length[curr], n) \in 0 .. WORD - 1 /\ Minus(length[Head(c)], n) \in 0 .. WORD - 1
  BY <1>1, <1>2, PlusMinus
<1>4. next[curr] \in Addrs \cup {NULL}
  BY <1>1 DEF Links
<1>5. Unlink(c, prev, curr, n) \in Memories
  BY <1>1, <1>3, <1>4 DEF Unlink, Memories, Links, Lengths
<1>6. ASSUME curr + n \in Addrs PROVE Split(c, prev, curr, n) \in Memories
  <2>1. curr + n \in Cells
    BY <1>6, NullCell
  <2>2. [next EXCEPT ![curr + n] = next[curr], ![prev] = curr + n] \in Links
    BY <1>4, <1>6 DEF Links
  <2> DEFINE once == [length EXCEPT ![curr + n] = Minus(length[curr], n), ![curr] = n]
  <2>3. once \in Lengths
    BY <1>3 DEF Lengths
  <2>4. once[Head(c)] \in Int
    BY <1>1, <2>3, LengthInt
  <2> HIDE DEF once
  <2>5. [once EXCEPT ![Head(c)] = Minus(@, n)] \in Lengths
    BY <1>1, <2>3, <2>4, PlusMinus DEF Lengths
  <2>6. Split(c, prev, curr, n) =
          [next |-> [next EXCEPT ![curr + n] = next[curr], ![prev] = curr + n],
           length |-> [once EXCEPT ![Head(c)] = Minus(@, n)]]
    BY DEF Split, once
  <2> QED
    BY <2>2, <2>5, <2>6 DEF Memories
<1> QED
  BY <1>5, <1>6

(* And so do the joins.                                                    *)
LEMMA CoalesceMemory ==
  ASSUME next \in Links, length \in Lengths, NEW prev \in Cells,
         NEW a \in Addrs, NEW n \in 0 .. WORD - 1, NEW nxt \in Addrs
  PROVE  Coalesce(prev, a, n, nxt) \in Memories
<1>1. ASSUME NEW m \in Memories, NEW b \in Cells
      PROVE  JoinPrev(m, b, a, nxt) \in Memories /\ JoinNext(m, b, nxt) \in Memories
  <2>1. a \in Cells /\ nxt \in Cells
    BY NullCell
  <2>2. m.next \in Links /\ m.length \in Lengths
    BY DEF Memories
  <2>3. /\ m.next[nxt] \in Addrs \cup {NULL}
        /\ m.length[a] \in Int /\ m.length[nxt] \in Int /\ m.length[b] \in Int
    BY <2>1, <2>2, LengthInt DEF Links
  <2>4. Plus(m.length[b], m.length[a]) \in 0 .. WORD - 1 /\ Plus(m.length[b], m.length[nxt]) \in 0 .. WORD - 1
    BY <2>3, PlusMinus
  <2> QED
    BY <2>2, <2>3, <2>4 DEF JoinPrev, JoinNext, Memories, Links, Lengths
<1>2. Linked(prev, a, n, nxt) \in Memories
  BY DEF Linked, Memories, Links, Lengths
<1>3. a \in Cells
  BY NullCell
<1> QED
  BY <1>1, <1>2, <1>3, Zenon DEF Coalesce

-----------------------------------------------------------------------------
(* What the searches of freemem and getmem find. *)

(* Every cell of the heap is in a region, and freemem finds a list for it. *)
LEMMA SomeRegion ==
  ASSUME NEW a \in Addrs
  PROVE  \E c \in Cores : a \in Region(c)
<1> DEFINE T == {c \in Nat : a < base(c) + BOUND}
<1>1. Units \in Nat /\ a \in Nat /\ a > 0 /\ a <= Units /\ BOUND \in Nat /\ BOUND > 0 /\ NCORES \in Nat /\ NCORES > 0
  BY HeapFacts
<1>2. \A c \in Nat : base(c) \in Nat
  BY <1>1 DEF base
<1>3. NCORES - 1 \in T
  <2>1. NCORES - 1 \in Nat
    BY <1>1
  <2>2. base(NCORES - 1) + BOUND = Units + 1
    <3>1. (NCORES - 1) * BOUND = NCORES * BOUND - BOUND /\ NCORES * BOUND \in Nat
      BY <1>1
    <3> QED
      BY <1>1, <3>1 DEF base, Units
  <2> QED
    BY <1>1, <2>1, <2>2
<1>4. PICK c \in T : \A d \in T : c <= d
  BY <1>3, LeastNumber
<1>5. c \in Nat /\ a < base(c) + BOUND /\ c <= NCORES - 1
  BY <1>3, <1>4
<1>6. base(c) <= a
  <2>1. CASE c = 0
    BY <1>1, <2>1 DEF base
  <2>2. CASE c # 0
    <3>1. c - 1 \in Nat /\ ~(c <= c - 1)
      BY <1>5, <2>2
    <3>2. ~(a < base(c - 1) + BOUND)
      BY <1>4, <3>1
    <3>3. base(c - 1) + BOUND = base(c)
      <4>1. (c - 1) * BOUND = c * BOUND - BOUND /\ c * BOUND \in Nat
        BY <1>1, <1>5
      <4> QED
        BY <1>1, <4>1 DEF base
    <3> QED
      BY <1>1, <1>2, <1>5, <3>1, <3>2, <3>3
  <2> QED
    BY <2>1, <2>2
<1>7. c \in Cores
  BY <1>1, <1>5 DEF Cores
<1>8. a \in Region(c)
  BY <1>1, <1>2, <1>5, <1>6 DEF Region
<1> QED
  BY <1>7, <1>8

(* freemem goes by the bounds of the regions, and may take a cell for the  *)
(* end of the region before.                                               *)
LEMMA ListFound ==
  ASSUME NEW a \in Addrs
  PROVE  /\ ListOf(a) \in Cores
         /\ base(ListOf(a)) <= a /\ a <= base(ListOf(a)) + BOUND
<1> DEFINE T == {c \in Cores : base(c) <= a /\ a <= base(c) + BOUND}
<1>1. T \in SUBSET Nat
  BY HeapFacts DEF Cores
<1>2. T # {}
  <2> PICK c \in Cores : a \in Region(c)
    BY SomeRegion
  <2>1. base(c) \in Nat /\ a \in Nat /\ BOUND \in Nat
    BY Regions, HeapFacts
  <2>2. base(c) <= a /\ a <= base(c) + BOUND - 1
    BY DEF Region
  <2>3. a <= base(c) + BOUND
    BY <2>1, <2>2
  <2> QED
    BY <2>2, <2>3
<1>3. Min(T) \in T
  BY <1>1, <1>2, LeastIsMin
<1> QED
  BY <1>3 DEF ListOf

(* The walks of the model are walks in the present memory.                 *)
LEMMA WalksAreWalks == \A start : Walk(start) = WalkIn(next, start)
BY DEF Walk, WalkIn

(* What freemem finds: the cell of the list that follows the block, and    *)
(* the one before it.                                                      *)
Found(k, a, prev, nxt) ==
  LET w == Walk(next[Head(k)])
  IN  \E i \in 0 .. Units :
        /\ nxt = w[i] /\ nxt \in Addrs /\ a <= nxt
        /\ i = 0 => prev = Head(k) /\ nxt = next[prev]
        /\ i # 0 => prev = w[i - 1] /\ prev \in Addrs /\ nxt = next[prev] /\ ~(a <= prev)

(* freemem stops at a place of the list, refuses the block or puts it      *)
(* there; or it runs off the end of the list.                              *)
LEMMA FreememFinds ==
  ASSUME next \in Links, NEW b, NEW n, b.addr \in Addrs, Freemem(b, n)
  PROVE  LET k == ListOf(b.addr)
         IN  /\ k \in Cores
             /\ \/ wild' = TRUE /\ UNCHANGED <<memory, refused>>
                \/ \E prev \in Cells, nxt \in Addrs :
                     /\ Found(k, b.addr, prev, nxt)
                     /\ \/ Overlaps(prev, b.addr, nxt) /\ Refuse(b) /\ UNCHANGED <<memory, wild>>
                        \/ /\ ~Overlaps(prev, b.addr, nxt)
                           /\ next' = Coalesce(prev, b.addr, n, nxt).next
                           /\ length' = [Coalesce(prev, b.addr, n, nxt).length EXCEPT
                                           ![Head(k)] = Plus(@, n)]
                           /\ UNCHANGED <<refused, wild>>
<1> DEFINE k      == ListOf(b.addr)
           walk   == Walk(next[Head(k)])
           beyond == {i \in DOMAIN walk : walk[i] # NULL /\ b.addr <= walk[i]}
           i      == Min(beyond)
           prev   == IF i = 0 THEN Head(k) ELSE walk[i - 1]
           after  == Coalesce(prev, b.addr, n, walk[i])
<1>1. \/ beyond = {} /\ wild' = TRUE /\ UNCHANGED <<memory, refused>>
      \/ /\ beyond # {} /\ Overlaps(prev, b.addr, walk[i])
         /\ Refuse(b) /\ UNCHANGED <<memory, wild>>
      \/ /\ beyond # {} /\ ~Overlaps(prev, b.addr, walk[i])
         /\ next' = after.next
         /\ length' = [after.length EXCEPT ![Head(k)] = Plus(@, n)]
         /\ UNCHANGED <<refused, wild>>
  BY DEF Freemem
<1>2. k \in Cores /\ Head(k) \in Cells
  BY ListFound, Heads
<1>3. next[Head(k)] \in Addrs \cup {NULL} /\ walk = WalkIn(next, next[Head(k)])
  BY <1>2, WalksAreWalks DEF Links
<1>4. DOMAIN walk = 0 .. Units
  BY <1>3, WalkSteps
<1> HIDE DEF k
<1>5. CASE beyond = {}
  BY <1>1, <1>2, <1>5 DEF k
<1>6. CASE beyond # {}
  <2>1. \A j \in beyond : j \in 0 .. Units /\ WalkIn(next, next[Head(k)])[j] # NULL
    BY <1>3, <1>4
  <2>2. /\ i \in beyond /\ i \in 0 .. Units /\ walk[i] \in Addrs
        /\ i = 0 => walk[i] = next[Head(k)]
        /\ i # 0 => walk[i - 1] \in Addrs /\ walk[i] = next[walk[i - 1]] /\ i - 1 \notin beyond
    <3> DEFINE start == next[Head(k)]
               w     == WalkIn(next, start)
    <3>1. start \in Addrs \cup {NULL} /\ walk = w
      BY <1>3
    <3> HIDE DEF beyond, start, walk
    <3>2. /\ i \in beyond /\ i \in 0 .. Units /\ w[i] \in Addrs
          /\ i = 0 => w[i] = start
          /\ i # 0 => w[i - 1] \in Addrs /\ w[i] = next[w[i - 1]] /\ i - 1 \notin beyond
      <4>1. \A j \in beyond : j \in 0 .. Units /\ WalkIn(next, start)[j] # NULL
        BY <2>1 DEF start
      <4> QED
        BY <1>6, <3>1, <4>1, Stop
    <3> QED
      BY <3>1, <3>2 DEF start
  <2>3. i # 0 => i - 1 \in DOMAIN walk
    BY <1>4, <2>2, HeapFacts
  <2>4. i # 0 => walk[i - 1] # NULL
    BY <2>2, NullCell
  <2>5. b.addr <= walk[i] /\ (i # 0 => ~(b.addr <= walk[i - 1]))
    BY <2>2, <2>3, <2>4
  <2>6. prev \in Cells
    BY <1>2, <2>2, NullCell
  <2> HIDE DEF i, walk, beyond
  <2>7. Found(k, b.addr, prev, walk[i])
    BY <2>2, <2>5 DEF Found, walk
  <2>8. \/ Overlaps(prev, b.addr, walk[i]) /\ Refuse(b) /\ UNCHANGED <<memory, wild>>
        \/ /\ ~Overlaps(prev, b.addr, walk[i])
           /\ next' = after.next
           /\ length' = [after.length EXCEPT ![Head(k)] = Plus(@, n)]
           /\ UNCHANGED <<refused, wild>>
    <3> HIDE DEF prev, after
    <3> QED
      BY <1>1, <1>6
  <2> HIDE DEF prev
  <2> QED
    BY <1>2, <2>2, <2>6, <2>7, <2>8 DEF k
<1> QED
  BY <1>5, <1>6

(* What getmem finds: a block that is large enough, and the cell before it.*)
Fits(c, prev, curr) ==
  LET w == Walk(ctx[c].curr)
  IN  \E i \in 0 .. Units :
        /\ curr = w[i] /\ curr \in Addrs /\ length[curr] >= ctx[c].n
        /\ i = 0 => prev = Head(c) /\ curr = ctx[c].curr
        /\ i # 0 => prev = w[i - 1] /\ prev \in Addrs /\ curr = next[prev]
Got(c, prev, curr) == IF Splits(curr, ctx[c].n) THEN Split(c, prev, curr, ctx[c].n)
                      ELSE Unlink(c, prev, curr, ctx[c].n)

(* getmem leaves everything alone, or takes one of the blocks that are     *)
(* large enough.                                                           *)
LEMMA GetmemFinds ==
  ASSUME next \in Links, NEW c \in Cores, ctx[c].curr \in Addrs \cup {NULL}, GetmemFit(c)
  PROVE  \/ UNCHANGED <<memory, owned>> /\ wild' \in BOOLEAN
         \/ \E prev \in Cells, curr \in Addrs :
              /\ Fits(c, prev, curr)
              /\ Splits(curr, ctx[c].n) => curr + ctx[c].n \in Addrs
              /\ next' = IF ctx[c].by = "malloc" THEN [Got(c, prev, curr).next EXCEPT ![curr] = curr]
                         ELSE Got(c, prev, curr).next
              /\ length' = Got(c, prev, curr).length
              /\ owned' = owned \cup {[addr |-> curr, size |-> ctx[c].n, by |-> ctx[c].by]}
              /\ wild' = FALSE
<1> DEFINE call == ctx[c]
           walk == Walk(call.curr)
           fit  == {i \in DOMAIN walk : walk[i] # NULL /\ length[walk[i]] >= call.n}
           i    == Min(fit)
           prev == IF i = 0 THEN Head(c) ELSE walk[i - 1]
           got  == IF Splits(walk[i], call.n) THEN Split(c, prev, walk[i], call.n)
                   ELSE Unlink(c, prev, walk[i], call.n)
           outside == fit # {} /\ Splits(walk[i], call.n) /\ walk[i] + call.n \notin Addrs
<1>1. /\ wild' = outside
      /\ IF fit = {} \/ outside THEN UNCHANGED <<memory, owned>>
         ELSE /\ next' = IF call.by = "malloc" THEN [got.next EXCEPT ![walk[i]] = walk[i]] ELSE got.next
              /\ length' = got.length
              /\ owned' = owned \cup {[addr |-> walk[i], size |-> call.n, by |-> call.by]}
  BY DEF GetmemFit
<1>2. outside \in BOOLEAN
  OBVIOUS
<1>3. CASE fit = {} \/ outside
  BY <1>1, <1>2, <1>3
<1>4. CASE ~(fit = {} \/ outside)
  <2> DEFINE start == call.curr
             w     == WalkIn(next, start)
  <2>1. start \in Addrs \cup {NULL} /\ walk = w
    BY WalksAreWalks
  <2>2. DOMAIN walk = 0 .. Units
    <3> HIDE DEF start, walk
    <3> QED
      BY <2>1, WalkSteps
  <2>3. /\ i \in fit /\ i \in 0 .. Units /\ walk[i] \in Addrs
        /\ i = 0 => walk[i] = start
        /\ i # 0 => walk[i - 1] \in Addrs /\ walk[i] = next[walk[i - 1]]
    <3>1. \A j \in fit : j \in 0 .. Units /\ WalkIn(next, start)[j] # NULL
      BY <2>1, <2>2
    <3> HIDE DEF fit, start, walk
    <3>2. /\ i \in fit /\ i \in 0 .. Units /\ w[i] \in Addrs
          /\ i = 0 => w[i] = start
          /\ i # 0 => w[i - 1] \in Addrs /\ w[i] = next[w[i - 1]] /\ i - 1 \notin fit
      BY <1>4, <2>1, <3>1, Stop
    <3> QED
      BY <2>1, <3>2
  <2>4. length[walk[i]] >= call.n
    BY <2>3
  <2>5. prev \in Cells
    BY <2>3, NullCell, Heads
  <2> HIDE DEF i, fit
  <2>6. Fits(c, prev, walk[i])
    BY <2>3, <2>4 DEF Fits
  <2>7. Splits(walk[i], call.n) => walk[i] + call.n \in Addrs
    BY <1>4
  <2>8. got = Got(c, prev, walk[i])
    BY DEF Got
  <2>9. wild' = FALSE
    BY <1>1, <1>4
  <2> HIDE DEF prev, walk, got
  <2> QED
    BY <1>1, <1>4, <2>3, <2>5, <2>6, <2>7, <2>8, <2>9
<1> QED
  BY <1>3, <1>4

-----------------------------------------------------------------------------
(* The type invariant. *)

(* A core that is not idle is in getmem or malloc, for some units.         *)
Called == \A c \in Cores : ctx[c] = Idle \/ (ctx[c].n >= 1 /\ ctx[c].by \in {"getmem", "malloc"})
TypeInv == TypeOK /\ Called

(* The variables have their types at the start,                            *)
LEMMA InitTypes == Init => TypeInv
<1> SUFFICES ASSUME Init PROVE TypeInv
  OBVIOUS
<1>1. next \in Links
  <2>1. ASSUME NEW a \in Cells, a \notin Addrs PROVE base(-1 - a) \in Addrs
    <3> PICK c \in Cores : a = Head(c)
      BY <2>1 DEF Cells
    <3>1. -1 - a = c
      BY HeapFacts DEF Head, Cores
    <3> QED
      BY <3>1, Regions
  <2> QED
    BY <2>1 DEF Init, Links
<1>2. length \in Lengths
  <2>1. BOUND \in 0 .. WORD - 1 /\ 0 \in 0 .. WORD - 1
    BY HeapFacts
  <2> QED
    BY <2>1 DEF Init, Lengths
<1>3. TypeOK
  BY <1>1, <1>2 DEF Init, TypeOK, Links, Lengths, Idle
<1> QED
  BY <1>3 DEF TypeInv, Called, Init

(* after getmem has looked for a block,                                    *)
LEMMA GetmemTypes ==
  ASSUME TypeInv, NEW c \in Cores, GetmemFit(c)
  PROVE  TypeInv'
<1>1. /\ next \in Links /\ length \in Lengths /\ owned \subseteq Blocks /\ written \subseteq owned
      /\ ctx[c].n \in Nat /\ ctx[c].curr \in Addrs \cup {NULL}
      /\ ctx[c].by \in {"getmem", "malloc"}
  BY DEF TypeInv, TypeOK, Called, Links, Lengths, GetmemFit
<1>2. /\ ctx' = [ctx EXCEPT ![c] = Idle] /\ UNCHANGED <<refused, written>>
      /\ stale' \in BOOLEAN
  BY DEF GetmemFit, TypeInv, TypeOK
<1>3. ctx' \in [Cores -> [n : Nat, by : {"none", "getmem", "malloc"}, curr : Addrs \cup {NULL}]] /\ Called'
  BY <1>2 DEF TypeInv, TypeOK, Called, Idle
<1>4. next' \in Links /\ length' \in Lengths /\ owned' \subseteq Blocks /\ written' \subseteq owned' /\ wild' \in BOOLEAN
  <2>1. CASE UNCHANGED <<memory, owned>> /\ wild' \in BOOLEAN
    BY <1>1, <1>2, <2>1 DEF memory
  <2>2. CASE ~(UNCHANGED <<memory, owned>> /\ wild' \in BOOLEAN)
    <3> PICK prev \in Cells, curr \in Addrs :
              /\ Fits(c, prev, curr)
              /\ Splits(curr, ctx[c].n) => curr + ctx[c].n \in Addrs
              /\ next' = IF ctx[c].by = "malloc" THEN [Got(c, prev, curr).next EXCEPT ![curr] = curr]
                         ELSE Got(c, prev, curr).next
              /\ length' = Got(c, prev, curr).length
              /\ owned' = owned \cup {[addr |-> curr, size |-> ctx[c].n, by |-> ctx[c].by]}
              /\ wild' = FALSE
      BY <1>1, <2>2, GetmemFinds
    <3>1. ctx[c].n \in 0 .. WORD - 1
      <4>1. length[curr] \in 0 .. WORD - 1
        BY <1>1, NullCell, LengthInt
      <4> QED
        BY <1>1, <4>1, HeapFacts DEF Fits
    <3>2. Got(c, prev, curr) \in Memories
      BY <1>1, <3>1, UnlinkMemory DEF Got
    <3>3. next' \in Links /\ length' \in Lengths
      BY <3>2 DEF Memories, Links
    <3>4. owned' \subseteq Blocks
      BY <1>1, <3>1 DEF Blocks
    <3> QED
      BY <1>1, <1>2, <3>3, <3>4
  <2> QED
    BY <2>1, <2>2
<1> QED
  BY <1>2, <1>3, <1>4 DEF TypeInv, TypeOK, Links, Lengths

(* after freemem has refused one                                           *)
LEMMA RefuseType ==
  ASSUME TypeInv, NEW b \in Blocks, Refuse(b)
  PROVE  refused' \subseteq Blocks
BY DEF TypeInv, TypeOK, Refuse

(* or put it back,                                                         *)
LEMMA FreememTypes ==
  ASSUME TypeInv, NEW b \in Blocks, NEW n \in 0 .. WORD - 1, Freemem(b, n)
  PROVE  /\ next' \in Links /\ length' \in Lengths /\ wild' \in BOOLEAN
         /\ refused' \subseteq Blocks
<1> DEFINE k == ListOf(b.addr)
<1>1. next \in Links /\ length \in Lengths /\ b.addr \in Addrs
  BY DEF TypeInv, TypeOK, Links, Lengths, Blocks
<1>2. wild \in BOOLEAN /\ refused \subseteq Blocks
  BY DEF TypeInv, TypeOK
<1>3. CASE wild' = TRUE /\ UNCHANGED <<memory, refused>>
  BY <1>1, <1>2, <1>3 DEF memory
<1>4. CASE ~(wild' = TRUE /\ UNCHANGED <<memory, refused>>)
  <2> PICK prev \in Cells, nxt \in Addrs :
         \/ Overlaps(prev, b.addr, nxt) /\ Refuse(b) /\ UNCHANGED <<memory, wild>>
         \/ /\ ~Overlaps(prev, b.addr, nxt)
            /\ next' = Coalesce(prev, b.addr, n, nxt).next
            /\ length' = [Coalesce(prev, b.addr, n, nxt).length EXCEPT ![Head(k)] = Plus(@, n)]
            /\ UNCHANGED <<refused, wild>>
    BY <1>1, <1>4, FreememFinds
  <2>1. CASE Refuse(b) /\ UNCHANGED <<memory, wild>>
    BY <1>1, <1>2, <2>1, RefuseType DEF memory
  <2>2. CASE ~(Refuse(b) /\ UNCHANGED <<memory, wild>>)
    <3> DEFINE m == Coalesce(prev, b.addr, n, nxt)
    <3>1. m \in Memories /\ Head(k) \in Cells
      BY <1>1, CoalesceMemory, ListFound, Heads
    <3>2. m.next \in Links /\ m.length \in Lengths
      BY <3>1 DEF Memories
    <3> HIDE DEF m
    <3>3. m.length[Head(k)] \in Int
      BY <3>1, <3>2, LengthInt
    <3>4. Plus(m.length[Head(k)], n) \in 0 .. WORD - 1
      <4>1. n \in Int
        OBVIOUS
      <4> QED
        BY <3>3, <4>1, PlusMinus
    <3>5. next' \in Links /\ length' \in Lengths
      BY <2>2, <3>1, <3>2, <3>4 DEF m, Lengths
    <3> QED
      BY <1>2, <2>2, <3>5
  <2> QED
    BY <2>1, <2>2
<1> QED
  BY <1>3, <1>4

(* after freestk and free,                                                 *)
LEMMA ReleaseTypes ==
  ASSUME TypeInv, NEW c \in Cores, NEW b \in owned, FreeStack(c, b) \/ Free(c, b)
  PROVE  TypeInv'
<1>1. /\ owned' = owned \ {b} /\ written' = written \ {b} /\ UNCHANGED <<stale, ctx>>
      /\ b \in Blocks /\ b.size \in 0 .. WORD - 1 /\ b.addr \in Addrs
  BY DEF FreeStack, Free, Release, TypeInv, TypeOK, Blocks
<1>2. next \in Links /\ length \in Lengths /\ length[b.addr] \in 0 .. WORD - 1
  BY <1>1, NullCell, LengthInt DEF TypeInv, TypeOK, Links, Lengths
<1>3. /\ next' \in Links /\ length' \in Lengths /\ wild' \in BOOLEAN
      /\ refused' \subseteq Blocks
  <2>1. CASE Freemem(b, b.size) \/ Freemem(b, length[b.addr])
    BY <1>1, <1>2, <2>1, FreememTypes
  <2>2. CASE Refuse(b) /\ UNCHANGED <<memory, wild>>
    BY <1>1, <1>2, <2>2, RefuseType DEF memory, TypeInv, TypeOK
  <2> QED
    BY <2>1, <2>2 DEF FreeStack, Free
<1> QED
  BY <1>1, <1>3 DEF TypeInv, TypeOK, Called, Links, Lengths

(* and so after every step.                                                *)
LEMMA NextTypes == TypeInv /\ [Next]_vars => TypeInv'
<1> SUFFICES ASSUME TypeInv, [Next]_vars PROVE TypeInv'
  OBVIOUS
<1>1. CASE UNCHANGED vars
  BY <1>1 DEF vars, memory, TypeInv, TypeOK, Called, Blocks
<1>2. ASSUME NEW c \in Cores, NEW n \in Sizes, Getmem(c, n) \/ Malloc(c, n)
      PROVE  TypeInv'
  <2>1. n \in Nat /\ n >= 1 /\ n + 1 \in Nat /\ n + 1 >= 1
    BY FreeMemoryAssumption
  <2>2. next[Head(c)] \in Addrs \cup {NULL}
    BY Heads DEF TypeInv, TypeOK
  <2>3. PICK m \in {n, n + 1}, by \in {"getmem", "malloc"} : GetmemRead(c, m, by)
    BY <1>2 DEF Getmem, Malloc
  <2> DEFINE call == [n |-> m, by |-> by, curr |-> next[Head(c)]]
  <2>4. m \in Nat /\ m >= 1
    BY <2>1
  <2>5. call \in [n : Nat, by : {"none", "getmem", "malloc"}, curr : Addrs \cup {NULL}]
    BY <2>2, <2>4
  <2>6. call.n >= 1 /\ call.by \in {"getmem", "malloc"}
    BY <2>4
  <2> HIDE DEF call
  <2>7. ctx' = [ctx EXCEPT ![c] = call] /\ UNCHANGED <<memory, owned, refused, written, stale, wild>>
    BY <2>3 DEF GetmemRead, call
  <2>8. ctx' \in [Cores -> [n : Nat, by : {"none", "getmem", "malloc"}, curr : Addrs \cup {NULL}]] /\ Called'
    BY <2>5, <2>6, <2>7 DEF TypeInv, TypeOK, Called
  <2> QED
    BY <2>7, <2>8 DEF TypeInv, TypeOK, memory
<1>3. ASSUME NEW c \in Cores, NEW b \in owned, NEW w \in Words, Write(c, b, w)
      PROVE  TypeInv'
  <2>1. w \in 0 .. WORD - 1
    BY FreeMemoryAssumption
  <2> QED
    BY <1>3, <2>1 DEF Write, TypeInv, TypeOK, Called
<1>4. CASE Stopped
  BY <1>1, <1>4 DEF Stopped
<1> QED
  BY <1>1, <1>2, <1>3, <1>4, GetmemTypes, ReleaseTypes DEF Next

(* Every behaviour keeps the variables in their types, those that go wild  *)
(* and those that allocate from an old head included: a call writes cells  *)
(* of the heap and list heads only, every pointer is NULL or in the heap,  *)
(* and sizes are words.                                                    *)
THEOREM TypeCorrect == Spec => []TypeOK
<1>1. Spec => []TypeInv
  BY InitTypes, NextTypes, PTL DEF Spec
<1> QED
  BY <1>1, PTL DEF TypeInv

-----------------------------------------------------------------------------
(* Well-formed lists, and what the calls do to one. *)

(* A well-formed list: its blocks are in the region of its core and do not *)
(* overlap, and only those in E may touch the next one.                    *)
Part(nx, ln, c, A, E) ==
  /\ Chain(nx, c, A)
  /\ \A a \in A : /\ ln[a] \in Nat /\ ln[a] >= 1
                  /\ a + ln[a] <= base(c) + BOUND
                  /\ nx[a] # NULL => a + ln[a] <= nx[a]
                  /\ nx[a] # NULL /\ a \notin E => a + ln[a] < nx[a]

(* The units in the blocks A.                                              *)
Covers(ln, A) == {u \in Addrs : \E a \in A : a <= u /\ u < a + ln[a]}

(* The numbers that the proofs below compare.                              *)
LEMMA PartFacts ==
  ASSUME NEW c \in Cores, NEW nx, NEW ln, NEW A, NEW E, Part(nx, ln, c, A, E)
  PROVE  /\ Head(c) \in Int /\ Head(c) \notin A /\ NULL \notin A /\ NULL = 0
         /\ base(c) \in Int /\ base(c) + BOUND \in Int
         /\ \A a \in A : /\ a \in Addrs /\ a \in Int /\ ln[a] \in Int /\ a + ln[a] \in Int
                         /\ Head(c) < a /\ base(c) <= a /\ ln[a] >= 1
                         /\ nx[a] \in A \cup {NULL}
         /\ nx[Head(c)] \in A \cup {NULL}
<1>1. A \subseteq Addrs /\ \A a \in A : a \in Region(c)
  BY Regions DEF Part, Chain
<1>2. Head(c) \in Int /\ Head(c) < 0 /\ Head(c) \notin Addrs /\ NULL \notin Addrs /\ NULL = 0
  BY Heads, NullCell
<1>3. base(c) \in Int /\ base(c) + BOUND \in Int
  BY Regions, HeapFacts
<1>4. \A a \in A : a \in Int /\ a > 0 /\ base(c) <= a
  BY <1>1, <1>3, HeapFacts DEF Region
<1>5. \A a \in A : ln[a] \in Int /\ a + ln[a] \in Int /\ ln[a] >= 1 /\ nx[a] \in A \cup {NULL}
  BY <1>4 DEF Part, Chain
<1>6. nx[Head(c)] \in A \cup {NULL}
  BY DEF Part, Chain
<1> QED
  BY <1>1, <1>2, <1>3, <1>4, <1>5, <1>6

(* A block ends before the next one begins, wherever that is.              *)
LEMMA PartOrder ==
  ASSUME NEW c \in Cores, NEW nx, NEW ln, NEW A, NEW E, Part(nx, ln, c, A, E),
         NEW x \in A, NEW y \in A, x < y
  PROVE  nx[x] \in A /\ x < nx[x] /\ x + ln[x] <= nx[x] /\ nx[x] <= y
<1>1. x \in Int /\ y \in Int /\ ~(y <= x) /\ NULL \notin A
  BY PartFacts
<1>2. nx[x] \in A /\ x < nx[x] /\ nx[x] <= y
  BY <1>1 DEF Part, Chain
<1>3. x + ln[x] <= nx[x]
  BY <1>1, <1>2 DEF Part
<1> QED
  BY <1>2, <1>3

(* No unit is in two blocks of a list.                                     *)
LEMMA PartApart ==
  ASSUME NEW c \in Cores, NEW nx, NEW ln, NEW A, NEW E, Part(nx, ln, c, A, E),
         NEW x \in A, NEW y \in A, NEW u \in Int,
         x <= u, u < x + ln[x], y <= u, u < y + ln[y]
  PROVE  x = y
<1>1. ASSUME NEW p \in A, NEW q \in A, p < q, q <= u, u < p + ln[p] PROVE FALSE
  <2>1. nx[p] \in A /\ p + ln[p] <= nx[p] /\ nx[p] <= q
    BY <1>1, PartOrder
  <2>2. p \in Int /\ q \in Int /\ p + ln[p] \in Int /\ nx[p] \in Int
    BY <2>1, PartFacts
  <2> QED
    BY <1>1, <2>1, <2>2
<1>2. x \in Int /\ y \in Int
  BY PartFacts
<1> QED
  BY <1>1, <1>2

(* The next cell of the list of c, from a cell of it or from its head.     *)
LEMMA PartNext ==
  ASSUME NEW c \in Cores, NEW nx, NEW ln, NEW A, NEW E, Part(nx, ln, c, A, E),
         NEW x \in A \cup {Head(c)}, nx[x] \in A
  PROVE  x < nx[x] /\ x \in Int /\ \A z \in A : z <= x \/ nx[x] <= z
<1>1. NULL \notin A /\ Head(c) \in Int /\ \A a \in A : a \in Int
  BY PartFacts
<1> QED
  BY <1>1 DEF Part, Chain

(* What the calls do to a list: from nx, ln to mx, mn, from the cells A to *)
(* the cells B.  They leave a block out,                                   *)
Removal(c, nx, ln, A, prev, curr, mx, mn, B) ==
  /\ Part(nx, ln, c, A, {}) /\ B = A \ {curr}
  /\ prev \in A \cup {Head(c)} /\ curr \in A /\ nx[prev] = curr
  /\ mx[prev] = nx[curr]
  /\ \A z \in (A \cup {Head(c)}) \ {prev, curr} : mx[z] = nx[z]
  /\ \A z \in A \ {curr} : mn[z] = ln[z]

(* Leaving a block out.                                                    *)
LEMMA PartWithout ==
  ASSUME NEW c \in Cores, NEW nx, NEW ln, NEW A, NEW prev, NEW curr, NEW mx, NEW mn, NEW B,
         Removal(c, nx, ln, A, prev, curr, mx, mn, B)
  PROVE  /\ Part(mx, mn, c, B, {})
         /\ \A u : u \in Covers(mn, B) <=> u \in Covers(ln, A) /\ ~(curr <= u /\ u < curr + ln[curr])
<1> USE DEF Removal
<1>1. /\ Head(c) \in Int /\ Head(c) \notin A /\ NULL \notin A
      /\ \A a \in A : a \in Int /\ Head(c) < a /\ ln[a] \in Int /\ a + ln[a] \in Int /\ a \in Addrs
  BY PartFacts
<1>2. prev \in Int /\ prev < curr /\ \A z \in A : z <= prev \/ curr <= z
  BY PartNext
<1>3. nx[curr] = NULL => \A z \in A : z <= curr
  BY <1>1 DEF Part, Chain
<1>4. nx[curr] # NULL => nx[curr] \in A /\ curr < nx[curr] /\ \A z \in A : z <= curr \/ nx[curr] <= z
  BY <1>1 DEF Part, Chain
<1>5. ASSUME NEW x \in B \cup {Head(c)}
      PROVE  \/ mx[x] = NULL /\ \A z \in B : z <= x
             \/ mx[x] \in B /\ x < mx[x] /\ \A z \in B : z <= x \/ mx[x] <= z
  <2>1. CASE x = prev
    <3>1. CASE nx[curr] = NULL
      <4>1. \A z \in B : z <= x
        <5> TAKE z \in B
        <5>1. z \in Int /\ curr \in Int /\ z <= curr /\ z # curr
          BY <1>1, <1>3, <3>1
        <5> QED
          BY <1>2, <2>1, <5>1
      <4> QED
        BY <2>1, <3>1, <4>1
    <3>2. CASE nx[curr] # NULL
      <4>1. nx[curr] \in B /\ x < nx[curr]
        <5>1. nx[curr] \in A /\ curr < nx[curr]
          BY <1>4, <3>2
        <5>2. nx[curr] \in Int /\ curr \in Int
          BY <1>1, <5>1
        <5> QED
          BY <1>2, <2>1, <5>1, <5>2
      <4>2. \A z \in B : z <= x \/ nx[curr] <= z
        <5> TAKE z \in B
        <5>1. z \in Int /\ curr \in Int /\ z # curr /\ (z <= curr \/ nx[curr] <= z) /\ (z <= prev \/ curr <= z)
          BY <1>1, <1>2, <1>4, <3>2
        <5> QED
          BY <2>1, <5>1
      <4> QED
        BY <2>1, <4>1, <4>2
    <3> QED
      BY <3>1, <3>2
  <2>2. CASE x # prev
    <3>1. x # curr /\ x \in A \cup {Head(c)} /\ mx[x] = nx[x]
      BY <1>1, <2>2
    <3>2. nx[x] # curr
      <4> SUFFICES ASSUME nx[x] = curr PROVE FALSE
        OBVIOUS
      <4>1. x < curr /\ x \in Int /\ \A z \in A : z <= x \/ curr <= z
        BY <3>1, PartNext
      <4>2. prev # x /\ (prev \in A => prev <= x) /\ (x \in A => x <= prev)
        BY <1>1, <1>2, <2>2, <4>1
      <4> QED
        BY <1>1, <1>2, <3>1, <4>1, <4>2
    <3>3. \/ nx[x] = NULL /\ \A z \in A : z <= x
          \/ nx[x] \in A /\ x < nx[x] /\ \A z \in A : z <= x \/ nx[x] <= z
      BY <3>1 DEF Part, Chain
    <3> QED
      BY <3>1, <3>2, <3>3
  <2> QED
    BY <2>1, <2>2
<1>6. Chain(mx, c, B)
  BY <1>5 DEF Chain, Part
<1>7. ASSUME NEW a \in B
      PROVE  /\ mn[a] \in Nat /\ mn[a] >= 1
             /\ a + mn[a] <= base(c) + BOUND
             /\ mx[a] # NULL => a + mn[a] < mx[a] /\ a + mn[a] <= mx[a]
  <2>1. mn[a] = ln[a] /\ ln[a] \in Nat /\ ln[a] >= 1 /\ a + ln[a] <= base(c) + BOUND
    BY DEF Part
  <2>2. ASSUME mx[a] # NULL PROVE a + ln[a] < mx[a]
    <3>1. CASE a = prev
      <4>1. nx[curr] # NULL /\ nx[curr] \in A /\ mx[a] = nx[curr]
        BY <1>4, <2>2, <3>1
      <4>2. a + ln[a] <= curr /\ curr < nx[curr]
        BY <1>1, <1>4, <3>1, <4>1 DEF Part
      <4>3. a + ln[a] \in Int /\ curr \in Int /\ nx[curr] \in Int
        BY <1>1, <4>1
      <4> QED
        BY <4>1, <4>2, <4>3
    <3>2. CASE a # prev
      BY <2>2, <3>2 DEF Part
    <3> QED
      BY <3>1, <3>2
  <2>3. mx[a] # NULL => mx[a] \in Int
    BY <1>1, <1>6 DEF Chain
  <2> QED
    BY <1>1, <2>1, <2>2, <2>3
<1>8. Part(mx, mn, c, B, {})
  BY <1>6, <1>7 DEF Part
<1>9. \A u : u \in Covers(mn, B) <=> u \in Covers(ln, A) /\ ~(curr <= u /\ u < curr + ln[curr])
  <2>1. ASSUME NEW u \in Covers(mn, B) PROVE u \in Covers(ln, A) /\ ~(curr <= u /\ u < curr + ln[curr])
    <3> PICK a \in B : a <= u /\ u < a + mn[a]
      BY DEF Covers
    <3>1. u \in Addrs /\ u \in Int /\ mn[a] = ln[a]
      BY HeapFacts DEF Covers
    <3>2. ~(curr <= u /\ u < curr + ln[curr])
      BY <3>1, PartApart
    <3> QED
      BY <3>1, <3>2 DEF Covers
  <2>2. ASSUME NEW u \in Covers(ln, A), ~(curr <= u /\ u < curr + ln[curr]) PROVE u \in Covers(mn, B)
    <3> PICK a \in A : a <= u /\ u < a + ln[a]
      BY DEF Covers
    <3>1. a # curr
      BY <2>2
    <3> QED
      BY <3>1 DEF Covers
  <2> QED
    BY <2>1, <2>2
<1> QED
  BY <1>8, <1>9

(* or the lower n units of one,                                            *)
Shrinking(c, nx, ln, A, prev, curr, n, rest, mx, mn, B) ==
  /\ Part(nx, ln, c, A, {}) /\ B = (A \ {curr}) \cup {rest}
  /\ prev \in A \cup {Head(c)} /\ curr \in A /\ nx[prev] = curr
  /\ n \in Nat /\ n >= 1 /\ n < ln[curr] /\ rest = curr + n
  /\ mx[prev] = rest /\ mx[rest] = nx[curr]
  /\ \A z \in (A \cup {Head(c)}) \ {prev, curr} : mx[z] = nx[z]
  /\ mn[rest] = ln[curr] - n
  /\ \A z \in A \ {curr} : mn[z] = ln[z]

(* Taking the lower n units of a block: what is left begins at rest.       *)
LEMMA PartShrunk ==
  ASSUME NEW c \in Cores, NEW nx, NEW ln, NEW A, NEW prev, NEW curr, NEW n, NEW rest, NEW mx, NEW mn, NEW B,
         Shrinking(c, nx, ln, A, prev, curr, n, rest, mx, mn, B)
  PROVE  /\ Part(mx, mn, c, B, {})
         /\ \A u : u \in Covers(mn, B) <=> u \in Covers(ln, A) /\ ~(curr <= u /\ u < curr + n)
<1> USE DEF Shrinking
<1>1. /\ Head(c) \in Int /\ Head(c) \notin A /\ NULL \notin A /\ base(c) \in Int /\ base(c) + BOUND \in Int
      /\ \A a \in A : /\ a \in Int /\ Head(c) < a /\ base(c) <= a
                      /\ ln[a] \in Int /\ a + ln[a] \in Int /\ a \in Addrs
  BY PartFacts
<1>2. prev \in Int /\ prev < curr /\ \A z \in A : z <= prev \/ curr <= z
  BY PartNext
<1>3. /\ rest \in Int /\ curr \in Int /\ curr < rest /\ rest < curr + ln[curr]
      /\ curr + ln[curr] <= base(c) + BOUND /\ rest + mn[rest] = curr + ln[curr]
      /\ base(c) <= rest /\ ln[curr] \in Int
  BY <1>1 DEF Part
<1>4. \A z \in A : z < rest => z <= curr
  <2> TAKE z \in A
  <2> SUFFICES ASSUME z < rest, ~(z <= curr) PROVE FALSE
    OBVIOUS
  <2>1. z \in Int /\ curr < z
    BY <1>1, <1>3
  <2>2. nx[curr] \in A /\ curr + ln[curr] <= nx[curr] /\ nx[curr] <= z
    BY <2>1, PartOrder
  <2>3. nx[curr] \in Int
    BY <1>1, <2>2
  <2> QED
    BY <1>3, <2>1, <2>2, <2>3
<1>5. rest \notin A /\ rest # Head(c) /\ rest # prev
  <2>1. rest \notin A
    <3> SUFFICES ASSUME rest \in A PROVE FALSE
      OBVIOUS
    <3>1. nx[curr] \in A /\ curr + ln[curr] <= nx[curr] /\ nx[curr] <= rest
      BY <1>3, PartOrder
    <3>2. nx[curr] \in Int
      BY <1>1, <3>1
    <3> QED
      BY <1>3, <3>1, <3>2
  <2> QED
    BY <1>1, <1>2, <1>3, <2>1
<1>6. \/ nx[curr] = NULL /\ \A z \in A : z <= curr
      \/ /\ nx[curr] \in A /\ nx[curr] # NULL /\ nx[curr] \in Int
         /\ curr + ln[curr] < nx[curr] /\ rest < nx[curr]
         /\ \A z \in A : z <= curr \/ nx[curr] <= z
  <2>1. CASE nx[curr] = NULL
    BY <1>1, <2>1 DEF Part, Chain
  <2>2. CASE nx[curr] # NULL
    <3>1. nx[curr] \in A /\ curr + ln[curr] < nx[curr] /\ \A z \in A : z <= curr \/ nx[curr] <= z
      BY <2>2 DEF Part, Chain
    <3>2. nx[curr] \in Int
      BY <1>1, <3>1
    <3> QED
      BY <1>3, <2>2, <3>1, <3>2
  <2> QED
    BY <2>1, <2>2
<1>7. ASSUME NEW x \in B \cup {Head(c)}
      PROVE  \/ mx[x] = NULL /\ \A z \in B : z <= x
             \/ mx[x] \in B /\ x < mx[x] /\ \A z \in B : z <= x \/ mx[x] <= z
  <2>1. CASE x = prev
    <3>1. \A z \in B : z <= x \/ rest <= z
      <4> TAKE z \in B
      <4>1. CASE z = rest
        BY <1>3, <4>1
      <4>2. CASE z # rest
        <5>1. z \in A /\ z \in Int /\ z # curr /\ (z <= prev \/ curr <= z)
          BY <1>1, <1>2, <4>2
        <5>2. z < rest => z <= curr
          BY <1>4, <5>1
        <5> QED
          BY <1>3, <2>1, <5>1, <5>2
      <4> QED
        BY <4>1, <4>2
    <3>2. rest \in B /\ x < rest
      BY <1>2, <1>3, <2>1
    <3> QED
      BY <2>1, <3>1, <3>2
  <2>2. CASE x = rest
    <3>1. CASE nx[curr] = NULL
      <4>1. \A z \in B : z <= rest
        <5> TAKE z \in B
        <5>1. CASE z = rest
          BY <1>3, <5>1
        <5>2. CASE z # rest
          <6>1. z \in Int /\ z <= curr
            BY <1>1, <1>6, <3>1, <5>2
          <6> QED
            BY <1>3, <6>1
        <5> QED
          BY <5>1, <5>2
      <4> QED
        BY <2>2, <3>1, <4>1
    <3>2. CASE nx[curr] # NULL
      <4>1. nx[curr] \in A /\ nx[curr] \in Int /\ rest < nx[curr]
        BY <1>6, <3>2
      <4>2. nx[curr] \in B
        BY <1>3, <4>1
      <4>3. \A z \in B : z <= rest \/ nx[curr] <= z
        <5> TAKE z \in B
        <5>1. CASE z = rest
          BY <1>3, <5>1
        <5>2. CASE z # rest
          <6>1. z \in Int /\ (z <= curr \/ nx[curr] <= z)
            BY <1>1, <1>6, <3>2, <5>2
          <6> QED
            BY <1>3, <6>1
        <5> QED
          BY <5>1, <5>2
      <4> QED
        BY <2>2, <4>1, <4>2, <4>3
    <3> QED
      BY <3>1, <3>2
  <2>3. CASE x # prev /\ x # rest
    <3>1. x # curr /\ x \in A \cup {Head(c)} /\ mx[x] = nx[x] /\ x \in Int
      BY <1>1, <1>3, <2>3
    <3>2. nx[x] # curr
      <4> SUFFICES ASSUME nx[x] = curr PROVE FALSE
        OBVIOUS
      <4>1. x < curr /\ x \in Int /\ \A z \in A : z <= x \/ curr <= z
        BY <3>1, PartNext
      <4>2. prev # x /\ (prev \in A => prev <= x) /\ (x \in A => x <= prev)
        BY <1>1, <1>2, <2>3, <4>1
      <4> QED
        BY <1>1, <1>2, <3>1, <4>1, <4>2
    <3>3. CASE nx[x] = NULL
      <4>1. \A z \in A : z <= x
        BY <1>1, <3>1, <3>3 DEF Part, Chain
      <4>2. curr <= x /\ x \in A
        BY <1>1, <3>1, <4>1
      <4>3. ~(x < rest)
        BY <1>3, <1>4, <3>1, <4>2
      <4> QED
        BY <1>3, <3>1, <3>3, <4>1, <4>3
    <3>4. CASE nx[x] # NULL
      <4>1. nx[x] \in A /\ x < nx[x] /\ (\A z \in A : z <= x \/ nx[x] <= z) /\ nx[x] \in Int
        BY <1>1, <3>1, <3>4 DEF Part, Chain
      <4>2. rest <= x \/ nx[x] <= rest
        <5>1. curr <= x \/ nx[x] <= curr
          BY <4>1
        <5>2. CASE nx[x] <= curr
          BY <1>3, <4>1, <5>2
        <5>3. CASE curr <= x
          <6>1. x \in A
            BY <1>1, <1>3, <3>1, <5>3
          <6> QED
            BY <1>3, <1>4, <3>1, <5>3, <6>1
        <5> QED
          BY <5>1, <5>2, <5>3
      <4> QED
        BY <3>1, <3>2, <4>1, <4>2
    <3> QED
      BY <3>3, <3>4
  <2> QED
    BY <2>1, <2>2, <2>3
<1>8. Chain(mx, c, B)
  <2>1. rest \in Region(c)
    <3>1. rest \in base(c) .. base(c) + BOUND - 1
      BY <1>1, <1>3, HeapFacts
    <3> QED
      BY <3>1 DEF Region
  <2> QED
    BY <1>7, <2>1 DEF Chain, Part
<1>9. ASSUME NEW a \in B
      PROVE  /\ mn[a] \in Nat /\ mn[a] >= 1
             /\ a + mn[a] <= base(c) + BOUND
             /\ mx[a] # NULL => a + mn[a] < mx[a] /\ a + mn[a] <= mx[a]
  <2>1. CASE a = rest
    <3>1. mn[a] \in Nat /\ mn[a] >= 1 /\ a + mn[a] = curr + ln[curr] /\ curr + ln[curr] \in Int
      BY <1>1, <1>3, <2>1
    <3>2. mx[a] # NULL => curr + ln[curr] < mx[a] /\ mx[a] \in Int
      BY <1>6, <2>1
    <3> QED
      BY <1>3, <3>1, <3>2
  <2>2. CASE a = prev
    <3>1. a \in A /\ a # curr /\ nx[a] = curr /\ curr # NULL
      BY <1>1, <1>2, <1>5, <2>2
    <3>2. mn[a] = ln[a] /\ ln[a] \in Nat /\ ln[a] >= 1 /\ a + ln[a] <= base(c) + BOUND /\ a + ln[a] < curr
      BY <3>1 DEF Part
    <3>3. mx[a] = rest /\ a + ln[a] \in Int
      BY <1>1, <2>2, <3>1
    <3> QED
      BY <1>3, <3>2, <3>3
  <2>3. CASE a # rest /\ a # prev
    <3>1. a \in A \ {curr} /\ a # prev
      BY <2>3
    <3>2. mn[a] = ln[a] /\ mx[a] = nx[a]
      BY <3>1
    <3> QED
      BY <3>1, <3>2 DEF Part
  <2> QED
    BY <2>1, <2>2, <2>3
<1>10. Part(mx, mn, c, B, {})
  BY <1>8, <1>9 DEF Part
<1>11. \A u : u \in Covers(mn, B) <=> u \in Covers(ln, A) /\ ~(curr <= u /\ u < curr + n)
  <2>1. ASSUME NEW u \in Covers(mn, B) PROVE u \in Covers(ln, A) /\ ~(curr <= u /\ u < curr + n)
    <3> PICK a \in B : a <= u /\ u < a + mn[a]
      BY DEF Covers
    <3>1. u \in Addrs /\ u \in Int
      BY HeapFacts DEF Covers
    <3>2. CASE a = rest
      <4>1. curr <= u /\ u < curr + ln[curr] /\ ~(u < curr + n)
        BY <1>1, <1>3, <3>1, <3>2
      <4> QED
        BY <3>1, <4>1 DEF Covers
    <3>3. CASE a # rest
      <4>1. a \in A /\ a # curr /\ mn[a] = ln[a]
        BY <3>3
      <4>2. ~(curr <= u /\ u < curr + ln[curr])
        BY <3>1, <4>1, PartApart
      <4>3. ~(curr <= u /\ u < curr + n)
        BY <1>3, <3>1, <4>2
      <4> QED
        BY <3>1, <4>1, <4>3 DEF Covers
    <3> QED
      BY <3>2, <3>3
  <2>2. ASSUME NEW u \in Covers(ln, A), ~(curr <= u /\ u < curr + n) PROVE u \in Covers(mn, B)
    <3> PICK a \in A : a <= u /\ u < a + ln[a]
      BY DEF Covers
    <3>1. u \in Addrs /\ u \in Int
      BY HeapFacts DEF Covers
    <3>2. CASE a = curr
      <4>1. rest <= u /\ u < rest + mn[rest] /\ rest \in B
        BY <1>1, <1>3, <2>2, <3>1, <3>2
      <4> QED
        BY <3>1, <4>1 DEF Covers
    <3>3. CASE a # curr
      BY <3>1, <3>3 DEF Covers
    <3> QED
      BY <3>2, <3>3
  <2> QED
    BY <2>1, <2>2
<1> QED
  BY <1>10, <1>11

(* put a block of n units at a between two others,                         *)
Insertion(c, nx, ln, A, prev, nxt, a, n, mx, mn, B, E) ==
  /\ Part(nx, ln, c, A, {}) /\ B = A \cup {a} /\ E = {prev, a}
  /\ prev \in A \cup {Head(c)} /\ nxt \in A /\ nx[prev] = nxt
  /\ a \in Region(c) /\ n \in Nat /\ n >= 1
  /\ prev < a /\ (prev \in A => prev + ln[prev] <= a) /\ a + n <= nxt
  /\ mx[prev] = a /\ mx[a] = nxt
  /\ \A z \in (A \cup {Head(c)}) \ {prev} : mx[z] = nx[z]
  /\ mn[a] = n
  /\ \A z \in A : mn[z] = ln[z]

(* A block between two others; it may touch both.                          *)
LEMMA PartLinked ==
  ASSUME NEW c \in Cores, NEW nx, NEW ln, NEW A, NEW prev, NEW nxt, NEW a, NEW n, NEW mx, NEW mn, NEW B, NEW E,
         Insertion(c, nx, ln, A, prev, nxt, a, n, mx, mn, B, E)
  PROVE  /\ a \notin A /\ a # Head(c)
         /\ Part(mx, mn, c, B, E)
         /\ \A u : u \in Covers(mn, B) <=> u \in Covers(ln, A) \/ (u \in Addrs /\ a <= u /\ u < a + n)
<1> USE DEF Insertion
<1>1. /\ Head(c) \in Int /\ Head(c) \notin A /\ NULL \notin A /\ base(c) \in Int /\ base(c) + BOUND \in Int
      /\ \A z \in A : /\ z \in Int /\ Head(c) < z /\ base(c) <= z
                      /\ ln[z] \in Int /\ z + ln[z] \in Int /\ z \in Addrs
  BY PartFacts
<1>2. prev \in Int /\ prev < nxt /\ \A z \in A : z <= prev \/ nxt <= z
  BY PartNext
<1>3. a \in Addrs /\ a \in Int /\ a < nxt /\ nxt \in Int /\ a # NULL /\ a + n \in Int
  BY <1>1, Regions, HeapFacts, NullCell
<1>4. a \notin A /\ a # Head(c) /\ a # prev
  BY <1>1, <1>2, <1>3
<1>5. ASSUME NEW x \in B \cup {Head(c)}
      PROVE  \/ mx[x] = NULL /\ \A z \in B : z <= x
             \/ mx[x] \in B /\ x < mx[x] /\ \A z \in B : z <= x \/ mx[x] <= z
  <2>1. CASE x = prev
    <3>1. \A z \in B : z <= x \/ a <= z
      <4> TAKE z \in B
      <4>1. CASE z = a
        BY <1>3, <4>1
      <4>2. CASE z # a
        <5>1. z \in Int /\ (z <= prev \/ nxt <= z)
          BY <1>1, <1>2, <4>2
        <5> QED
          BY <1>3, <2>1, <5>1
      <4> QED
        BY <4>1, <4>2
    <3> QED
      BY <2>1, <3>1
  <2>2. CASE x = a
    <3>1. \A z \in B : z <= a \/ nxt <= z
      <4> TAKE z \in B
      <4>1. CASE z = a
        BY <1>3, <4>1
      <4>2. CASE z # a
        <5>1. z \in Int /\ (z <= prev \/ nxt <= z)
          BY <1>1, <1>2, <4>2
        <5> QED
          BY <1>2, <1>3, <5>1
      <4> QED
        BY <4>1, <4>2
    <3> QED
      BY <1>3, <2>2, <3>1
  <2>3. CASE x # prev /\ x # a
    <3>1. x \in A \cup {Head(c)} /\ mx[x] = nx[x] /\ x \in Int
      BY <1>1, <2>3
    <3>2. CASE nx[x] = NULL
      <4>1. \A z \in A : z <= x
        BY <1>1, <3>1, <3>2 DEF Part, Chain
      <4>2. a <= x
        BY <1>3, <3>1, <4>1
      <4> QED
        BY <3>1, <3>2, <4>1, <4>2
    <3>3. CASE nx[x] # NULL
      <4>1. nx[x] \in A /\ x < nx[x] /\ (\A z \in A : z <= x \/ nx[x] <= z) /\ nx[x] \in Int
        BY <1>1, <3>1, <3>3 DEF Part, Chain
      <4>2. a <= x \/ nx[x] <= a
        <5>1. nxt <= x \/ nx[x] <= nxt
          BY <4>1
        <5>2. CASE nxt <= x
          BY <1>3, <3>1, <5>2
        <5>3. CASE nx[x] <= nxt /\ ~(nxt <= x)
          <6>1. x <= prev
            BY <1>1, <1>2, <1>3, <3>1, <5>3
          <6>2. x < prev
            BY <1>2, <2>3, <3>1, <6>1
          <6>3. prev \in A
            BY <1>1, <3>1, <6>2
          <6>4. nx[x] <= prev
            BY <1>2, <3>1, <4>1, <6>2, <6>3
          <6> QED
            BY <1>2, <1>3, <4>1, <6>4
        <5> QED
          BY <5>1, <5>2, <5>3
      <4> QED
        BY <3>1, <4>1, <4>2
    <3> QED
      BY <3>2, <3>3
  <2> QED
    BY <2>1, <2>2, <2>3
<1>6. Chain(mx, c, B)
  BY <1>5 DEF Chain, Part
<1>7. ASSUME NEW x \in B
      PROVE  /\ mn[x] \in Nat /\ mn[x] >= 1
             /\ x + mn[x] <= base(c) + BOUND
             /\ mx[x] # NULL => x + mn[x] <= mx[x]
             /\ mx[x] # NULL /\ x \notin {prev, a} => x + mn[x] < mx[x]
  <2>1. CASE x = a
    <3>1. nxt + ln[nxt] <= base(c) + BOUND /\ ln[nxt] >= 1
      BY DEF Part
    <3>2. a + n <= base(c) + BOUND
      BY <1>1, <1>3, <3>1
    <3> QED
      BY <2>1, <3>2
  <2>2. CASE x = prev
    <3>1. x \in A /\ mn[x] = ln[x] /\ ln[x] \in Nat /\ ln[x] >= 1 /\ x + ln[x] <= base(c) + BOUND
      BY <1>1, <1>3, <1>4, <2>2 DEF Part
    <3> QED
      BY <2>2, <3>1
  <2>3. CASE x # a /\ x # prev
    <3>1. x \in A /\ mn[x] = ln[x] /\ mx[x] = nx[x]
      BY <2>3
    <3> QED
      BY <3>1 DEF Part
  <2> QED
    BY <2>1, <2>2, <2>3
<1>8. Part(mx, mn, c, B, E)
  BY <1>6, <1>7 DEF Part
<1>9. \A u : u \in Covers(mn, B) <=> u \in Covers(ln, A) \/ (u \in Addrs /\ a <= u /\ u < a + n)
  <2>1. ASSUME NEW u \in Addrs
        PROVE  (\E x \in B : x <= u /\ u < x + mn[x])
               <=> (\E x \in A : x <= u /\ u < x + ln[x]) \/ (a <= u /\ u < a + n)
    BY <1>4
  <2> QED
    BY <2>1 DEF Covers
<1> QED
  BY <1>4, <1>8, <1>9

(* A block that does not touch the next one.                               *)
LEMMA PartStrict ==
  ASSUME NEW c \in Cores, NEW nx, NEW ln, NEW A, NEW E, NEW x, Part(nx, ln, c, A, E),
         x \in A => x + ln[x] # nx[x]
  PROVE  Part(nx, ln, c, A, E \ {x})
<1>1. \A a \in A : a + ln[a] \in Int /\ nx[a] \in Int
  BY PartFacts
<1>2. ASSUME NEW a \in A, nx[a] # NULL, a \notin E \ {x} PROVE a + ln[a] < nx[a]
  BY <1>1, <1>2 DEF Part
<1> QED
  BY <1>2 DEF Part

(* or join two blocks that touch.                                          *)
Joining(c, nx, ln, A, E, x, y, mx, mn, B, F) ==
  /\ Part(nx, ln, c, A, E) /\ B = A \ {y}
  /\ x \in A /\ y \in A /\ nx[x] = y /\ x + ln[x] = y
  /\ mx[x] = nx[y]
  /\ \A z \in (A \cup {Head(c)}) \ {x, y} : mx[z] = nx[z]
  /\ mn[x] = ln[x] + ln[y]
  /\ \A z \in A \ {x, y} : mn[z] = ln[z]
  /\ \A z \in A \ {x, y} : z \notin F => z \notin E
  /\ x \notin F => y \notin E

(* Joining two blocks that touch.                                          *)
LEMMA PartJoined ==
  ASSUME NEW c \in Cores, NEW nx, NEW ln, NEW A, NEW E, NEW x, NEW y, NEW mx, NEW mn, NEW B, NEW F,
         Joining(c, nx, ln, A, E, x, y, mx, mn, B, F)
  PROVE  /\ Part(mx, mn, c, B, F)
         /\ Covers(mn, B) = Covers(ln, A)
<1> USE DEF Joining
<1>1. /\ Head(c) \in Int /\ Head(c) \notin A /\ NULL \notin A /\ base(c) \in Int /\ base(c) + BOUND \in Int
      /\ \A z \in A : /\ z \in Int /\ Head(c) < z /\ base(c) <= z
                      /\ ln[z] \in Int /\ ln[z] >= 1 /\ z + ln[z] \in Int /\ z \in Addrs
  BY PartFacts
<1>2. x < y /\ \A z \in A : z <= x \/ y <= z
  BY PartNext
<1>3. /\ x \in Int /\ y \in Int /\ ln[x] \in Int /\ ln[y] \in Int
      /\ x + mn[x] = y + ln[y] /\ y + ln[y] \in Int
  BY <1>1
<1>4. \/ nx[y] = NULL /\ \A z \in A : z <= y
      \/ nx[y] \in A /\ nx[y] # NULL /\ y < nx[y] /\ \A z \in A : z <= y \/ nx[y] <= z
  BY <1>1 DEF Part, Chain
<1>5. ASSUME NEW w \in B \cup {Head(c)}
      PROVE  \/ mx[w] = NULL /\ \A z \in B : z <= w
             \/ mx[w] \in B /\ w < mx[w] /\ \A z \in B : z <= w \/ mx[w] <= z
  <2>1. CASE w = x
    <3>1. CASE nx[y] = NULL
      <4>1. \A z \in B : z <= x
        <5> TAKE z \in B
        <5>1. z \in Int /\ z # y /\ z <= y /\ (z <= x \/ y <= z)
          BY <1>1, <1>2, <1>4, <3>1
        <5> QED
          BY <1>3, <5>1
      <4> QED
        BY <2>1, <3>1, <4>1
    <3>2. CASE nx[y] # NULL
      <4>1. nx[y] \in A /\ y < nx[y] /\ nx[y] \in Int
        BY <1>1, <1>4, <3>2
      <4>2. nx[y] \in B /\ x < nx[y]
        BY <1>2, <1>3, <4>1
      <4>3. \A z \in B : z <= x \/ nx[y] <= z
        <5> TAKE z \in B
        <5>1. z \in Int /\ z # y /\ (z <= y \/ nx[y] <= z) /\ (z <= x \/ y <= z)
          BY <1>1, <1>2, <1>4, <3>2
        <5> QED
          BY <1>3, <5>1
      <4> QED
        BY <2>1, <4>2, <4>3
    <3> QED
      BY <3>1, <3>2
  <2>2. CASE w # x
    <3>1. w # y /\ w \in A \cup {Head(c)} /\ mx[w] = nx[w] /\ w \in Int
      BY <1>1, <2>2
    <3>2. nx[w] # y
      <4> SUFFICES ASSUME nx[w] = y PROVE FALSE
        OBVIOUS
      <4>1. w < y /\ \A z \in A : z <= w \/ y <= z
        BY <3>1, PartNext
      <4>2. x <= w
        BY <1>2, <1>3, <4>1
      <4>3. w \in A
        BY <1>1, <3>1, <4>2
      <4> QED
        BY <1>2, <1>3, <2>2, <3>1, <4>1, <4>2, <4>3
    <3>3. \/ nx[w] = NULL /\ \A z \in A : z <= w
          \/ nx[w] \in A /\ w < nx[w] /\ \A z \in A : z <= w \/ nx[w] <= z
      BY <3>1 DEF Part, Chain
    <3> QED
      BY <3>1, <3>2, <3>3
  <2> QED
    BY <2>1, <2>2
<1>6. Chain(mx, c, B)
  BY <1>5 DEF Chain, Part
<1>7. ASSUME NEW a \in B
      PROVE  /\ mn[a] \in Nat /\ mn[a] >= 1
             /\ a + mn[a] <= base(c) + BOUND
             /\ mx[a] # NULL => a + mn[a] <= mx[a]
             /\ mx[a] # NULL /\ a \notin F => a + mn[a] < mx[a]
  <2>1. CASE a = x
    <3>1. mn[a] \in Nat /\ mn[a] >= 1 /\ a + mn[a] = y + ln[y] /\ mx[a] = nx[y]
      BY <1>1, <1>3, <2>1
    <3>2. /\ y + ln[y] <= base(c) + BOUND
          /\ nx[y] # NULL => y + ln[y] <= nx[y]
          /\ nx[y] # NULL /\ y \notin E => y + ln[y] < nx[y]
      BY DEF Part
    <3> QED
      BY <2>1, <3>1, <3>2
  <2>2. CASE a # x
    <3>1. a \in A \ {x, y} /\ mn[a] = ln[a] /\ mx[a] = nx[a]
      BY <2>2
    <3> QED
      BY <3>1 DEF Part
  <2> QED
    BY <2>1, <2>2
<1>8. Part(mx, mn, c, B, F)
  BY <1>6, <1>7 DEF Part
<1>9. Covers(mn, B) = Covers(ln, A)
  <2>1. ASSUME NEW u \in Addrs, NEW a \in B, a <= u, u < a + mn[a]
        PROVE  \E z \in A : z <= u /\ u < z + ln[z]
    <3>1. u \in Int
      BY <2>1, HeapFacts
    <3>2. CASE a = x
      <4>1. u < y + ln[y]
        BY <1>3, <2>1, <3>2
      <4>2. CASE u < y
        BY <2>1, <3>2, <4>2
      <4>3. CASE ~(u < y)
        BY <1>3, <3>1, <4>1, <4>3
      <4> QED
        BY <4>2, <4>3
    <3>3. CASE a # x
      BY <2>1, <3>3
    <3> QED
      BY <3>2, <3>3
  <2>2. ASSUME NEW u \in Addrs, NEW a \in A, a <= u, u < a + ln[a]
        PROVE  \E z \in B : z <= u /\ u < z + mn[z]
    <3>1. u \in Int
      BY <2>2, HeapFacts
    <3>2. CASE a = y \/ a = x
      <4>1. x <= u /\ u < x + mn[x]
        BY <1>1, <1>2, <1>3, <2>2, <3>1, <3>2
      <4>2. x \in B
        BY <1>2, <1>3
      <4> QED
        BY <4>1, <4>2
    <3>3. CASE a # y /\ a # x
      BY <2>2, <3>3
    <3> QED
      BY <3>2, <3>3
  <2> QED
    BY <2>1, <2>2 DEF Covers
<1> QED
  BY <1>8, <1>9

-----------------------------------------------------------------------------
(* The heap in order. *)

(* The heap between steps: the lists are well-formed and as long as they   *)
(* say; every unit is in one free block, or in one block of a program, or  *)
(* in one that was refused; and the words of a block are those it was      *)
(* given with, unless its owner has written them.                          *)
Lists   == \A c \in Cores : Part(next, length, c, Nodes(c), {})
FreeUnits(c) == Covers(length, Nodes(c))
Counts  == \A c \in Cores : length[Head(c)] = Cardinality(FreeUnits(c))
Mine(b) == {u \in Addrs : b.addr <= u /\ u < b.addr + b.size}
Fitting(b) == \E c \in Cores : b.addr \in Region(c) /\ b.size >= 1 /\ b.addr + b.size <= base(c) + BOUND
Inside  == (\A b \in owned : Fitting(b)) /\ (\A r \in refused : Fitting(r))
Apart(u) ==
  /\ \A b, d \in owned : u \in Mine(b) /\ u \in Mine(d) => b = d
  /\ \A r, s \in refused : u \in Mine(r) /\ u \in Mine(s) => r = s
  /\ \A b \in owned : \A r \in refused : u \notin Mine(b) \/ u \notin Mine(r)
  /\ \A c \in Cores : u \in FreeUnits(c) => /\ \A b \in owned : u \notin Mine(b)
                                       /\ \A r \in refused : u \notin Mine(r)
Somewhere(u) ==
  \/ \E c \in Cores : u \in FreeUnits(c)
  \/ \E b \in owned : u \in Mine(b)
  \/ \E r \in refused : u \in Mine(r)
Tiled == \A u \in Addrs : Apart(u) /\ Somewhere(u)
Marks == \A b \in owned : /\ b \notin written => length[b.addr] = b.size
                          /\ b.by = "malloc" => next[b.addr] = b.addr /\ b \notin written
Denied  == \A r \in refused : r.by = "getmem"
HeapInv == Lists /\ Counts /\ Inside /\ Tiled /\ Marks /\ Denied

(* Nodes(c) is what a walk meets in the present memory.                    *)
LEMMA NodesWalk == \A c : Nodes(c) = NodesIn(next, c) /\ Nodes(c)' = NodesIn(next', c)
BY DEF Nodes, NodesIn, Walk, WalkIn

(* The free units of a core are in its region.                             *)
LEMMA FreeInRegion ==
  ASSUME Lists, NEW c \in Cores
  PROVE  /\ FreeUnits(c) \subseteq Region(c) /\ Nodes(c) \subseteq FreeUnits(c)
         /\ Nodes(c) \subseteq Region(c) /\ Nodes(c) \subseteq Addrs
<1>1. Part(next, length, c, Nodes(c), {})
  BY DEF Lists
<1>2. \A a \in Nodes(c) : /\ a \in Addrs /\ a \in Int /\ length[a] \in Int /\ a + length[a] \in Int
                          /\ base(c) <= a /\ length[a] >= 1 /\ a + length[a] <= base(c) + BOUND
  <2>1. \A a \in Nodes(c) : /\ a \in Addrs /\ a \in Int /\ length[a] \in Int /\ a + length[a] \in Int
                            /\ base(c) <= a /\ length[a] >= 1
    BY <1>1, PartFacts
  <2>2. \A a \in Nodes(c) : a + length[a] <= base(c) + BOUND
    BY <1>1 DEF Part
  <2> QED
    BY <2>1, <2>2
<1>3. base(c) \in Int /\ BOUND \in Int
  BY Regions, HeapFacts
<1>4. ASSUME NEW u \in FreeUnits(c) PROVE u \in Region(c)
  <2> PICK a \in Nodes(c) : a <= u /\ u < a + length[a]
    BY DEF FreeUnits, Covers
  <2>1. u \in Int
    BY HeapFacts DEF FreeUnits, Covers
  <2>2. base(c) <= u /\ u < base(c) + BOUND
    BY <1>2, <1>3, <2>1
  <2> QED
    BY <1>3, <2>1, <2>2 DEF Region
<1>5. ASSUME NEW a \in Nodes(c) PROVE a \in FreeUnits(c)
  <2>1. a \in Addrs /\ a <= a /\ a < a + length[a]
    BY <1>2
  <2> QED
    BY <2>1 DEF FreeUnits, Covers
<1> QED
  BY <1>2, <1>4, <1>5

(* A list whose cells are left alone stays as it is.                       *)
LEMMA PartFrame ==
  ASSUME NEW c \in Cores, NEW nx, NEW ln, NEW A, Part(nx, ln, c, A, {}), NEW mx, NEW mn,
         \A z \in A \cup {Head(c)} : mx[z] = nx[z], \A z \in A : mn[z] = ln[z]
  PROVE  Part(mx, mn, c, A, {}) /\ Covers(mn, A) = Covers(ln, A)
<1>1. Chain(mx, c, A)
  BY DEF Part, Chain
<1>2. Part(mx, mn, c, A, {})
  BY <1>1 DEF Part
<1>3. Covers(mn, A) = Covers(ln, A)
  BY DEF Covers
<1> QED
  BY <1>2, <1>3

(* A step that changes the list of core c only.                            *)
LEMMA ListsMove ==
  ASSUME next' \in Links, Lists, NEW c \in Cores, NEW B, Part(next', length', c, B, {}),
         \A d \in Cores \ {c} : \A z \in Nodes(d) \cup {Head(d)} :
           next'[z] = next[z] /\ length'[z] = length[z]
  PROVE  /\ Lists' /\ FreeUnits(c)' = Covers(length', B)
         /\ \A d \in Cores \ {c} : FreeUnits(d)' = FreeUnits(d)
<1>1. Nodes(c)' = B
  BY ChainWalk, NodesWalk DEF Part
<1>2. ASSUME NEW d \in Cores, d # c
      PROVE  /\ Nodes(d)' = Nodes(d) /\ FreeUnits(d)' = FreeUnits(d)
             /\ Part(next', length', d, Nodes(d), {})
  <2>1. Part(next, length, d, Nodes(d), {})
    BY DEF Lists
  <2>2. Part(next', length', d, Nodes(d), {}) /\ Covers(length', Nodes(d)) = Covers(length, Nodes(d))
    BY <1>2, <2>1, PartFrame
  <2>3. Nodes(d)' = Nodes(d)
    <3>1. Chain(next', d, Nodes(d))
      BY <2>2 DEF Part
    <3>2. NodesIn(next', d) = Nodes(d)
      BY <3>1, ChainWalk
    <3> QED
      BY <3>2, NodesWalk
  <2> QED
    BY <2>2, <2>3 DEF FreeUnits
<1>3. \A d \in Cores : Part(next', length', d, Nodes(d)', {})
  BY <1>1, <1>2
<1>4. Lists'
  BY <1>3 DEF Lists, Part, Chain
<1> QED
  BY <1>1, <1>2, <1>4 DEF FreeUnits

(* The units of a block in a region, and their number.                     *)
LEMMA MineFacts ==
  ASSUME NEW b, NEW c \in Cores, b.addr \in Region(c), b.size \in Int, b.size >= 1,
         b.addr + b.size <= base(c) + BOUND
  PROVE  /\ Mine(b) = b.addr .. b.addr + b.size - 1 /\ Mine(b) \subseteq Region(c)
         /\ IsFiniteSet(Mine(b)) /\ Cardinality(Mine(b)) = b.size
         /\ b.addr \in Mine(b) /\ b.addr \in Addrs /\ b.addr \in Int
<1>1. /\ base(c) \in Int /\ base(c) >= 1 /\ BOUND \in Int /\ b.addr \in Int
      /\ base(c) <= b.addr /\ Region(c) \subseteq Addrs /\ base(c) + BOUND - 1 <= Units
      /\ Units \in Int /\ Addrs = 1 .. Units
  BY Regions, HeapFacts DEF Region
<1>2. Mine(b) = b.addr .. b.addr + b.size - 1
  BY <1>1 DEF Mine
<1>3. Mine(b) \subseteq Region(c)
  BY <1>1, <1>2 DEF Region
<1>4. IsFiniteSet(Mine(b)) /\ Cardinality(Mine(b)) = b.size
  <2> DEFINE lo == b.addr
             hi == b.addr + b.size - 1
  <2>1. lo \in Int /\ hi \in Int /\ ~(lo > hi) /\ hi - lo + 1 = b.size
    BY <1>1
  <2>2. Mine(b) = lo .. hi
    BY <1>2
  <2> HIDE DEF lo, hi
  <2>3. IsFiniteSet(lo .. hi) /\ Cardinality(lo .. hi) = hi - lo + 1
    BY <2>1, FS_Interval
  <2> QED
    BY <2>1, <2>2, <2>3
<1> QED
  BY <1>1, <1>2, <1>3, <1>4

(* A set of free units is small enough to be counted without overflow.     *)
LEMMA RegionSize ==
  ASSUME NEW c \in Cores, NEW S, \A u \in S : u \in Region(c)
  PROVE  IsFiniteSet(S) /\ Cardinality(S) \in Nat /\ Cardinality(S) <= BOUND /\ Cardinality(S) < WORD
<1>1. base(c) \in Int /\ base(c) + BOUND - 1 \in Int /\ BOUND \in Nat /\ BOUND > 0 /\ BOUND < WORD /\ WORD \in Int
  BY Regions, HeapFacts
<1>2. IsFiniteSet(Region(c)) /\ Cardinality(Region(c)) = BOUND
  BY <1>1, FS_Interval DEF Region
<1>3. S \in SUBSET Region(c)
  OBVIOUS
<1>4. IsFiniteSet(S) /\ Cardinality(S) <= Cardinality(Region(c))
  BY <1>2, <1>3, FS_Subset
<1>5. Cardinality(S) \in Nat
  BY <1>4, FS_CardinalityType
<1> QED
  BY <1>1, <1>2, <1>4, <1>5

(* The size of a list is kept by subtraction when a block is taken,        *)
LEMMA CountTaken ==
  ASSUME NEW c \in Cores, NEW S, \A u \in S : u \in Region(c), NEW M, \A u \in M : u \in S
  PROVE  Cardinality(S \ M) = Minus(Cardinality(S), Cardinality(M))
<1>1. /\ IsFiniteSet(S) /\ Cardinality(S) \in Nat /\ Cardinality(S) < WORD
      /\ IsFiniteSet(M) /\ Cardinality(M) \in Nat
      /\ Cardinality(S \ M) \in Nat
  BY RegionSize
<1>2. S \cap M = M
  OBVIOUS
<1>3. Cardinality(S \ M) = Cardinality(S) - Cardinality(M)
  BY <1>1, <1>2, FS_Difference
<1>4. Cardinality(S) - Cardinality(M) \in Nat /\ Cardinality(S) - Cardinality(M) < WORD
  BY <1>1, <1>3, HeapFacts
<1> QED
  BY <1>3, <1>4, ModSmall DEF Minus

(* and by addition when a block comes back.                                *)
LEMMA CountGiven ==
  ASSUME NEW c \in Cores, NEW S, \A u \in S : u \in Region(c),
         NEW M, \A u \in M : u \in Region(c) /\ u \notin S
  PROVE  Cardinality(S \cup M) = Plus(Cardinality(S), Cardinality(M))
<1>1. /\ IsFiniteSet(S) /\ Cardinality(S) \in Nat
      /\ IsFiniteSet(M) /\ Cardinality(M) \in Nat
      /\ Cardinality(S \cup M) \in Nat /\ Cardinality(S \cup M) < WORD
  <2>1. \A u \in S \cup M : u \in Region(c)
    OBVIOUS
  <2>2. IsFiniteSet(S) /\ Cardinality(S) \in Nat /\ IsFiniteSet(M) /\ Cardinality(M) \in Nat
    BY RegionSize
  <2> DEFINE T == S \cup M
  <2> HIDE DEF T
  <2>3. Cardinality(T) \in Nat /\ Cardinality(T) < WORD
    BY <2>1, RegionSize DEF T
  <2> QED
    BY <2>2, <2>3 DEF T
<1>2. S \cap M = {}
  OBVIOUS
<1>3. Cardinality(S \cup M) = Cardinality(S) + Cardinality(M)
  <2>1. Cardinality(S \cup M) = Cardinality(S) + Cardinality(M) - Cardinality(S \cap M)
    BY <1>1, FS_Union
  <2>2. Cardinality(S \cap M) = 0
    BY <1>2, FS_EmptySet
  <2> QED
    BY <1>1, <2>1, <2>2
<1>4. Cardinality(S) + Cardinality(M) \in Nat /\ Cardinality(S) + Cardinality(M) < WORD
  BY <1>1, <1>3
<1> QED
  BY <1>3, <1>4, ModSmall DEF Plus
-----------------------------------------------------------------------------
(* Handing units over. *)

(* Every unit has one place still when getmem takes a block,               *)
LEMMA TilesTaken ==
  ASSUME Lists, Tiled, NEW c \in Cores, NEW b, \A u \in Mine(b) : u \in FreeUnits(c),
         owned' = owned \cup {b}, refused' = refused,
         FreeUnits(c)' = FreeUnits(c) \ Mine(b), \A d \in Cores \ {c} : FreeUnits(d)' = FreeUnits(d)
  PROVE  Tiled'
<1> SUFFICES ASSUME NEW u \in Addrs PROVE Apart(u)' /\ Somewhere(u)'
  BY DEF Tiled
<1>1. Apart(u) /\ Somewhere(u)
  BY DEF Tiled
<1>2. \A d \in Cores : FreeUnits(d)' \subseteq FreeUnits(d)
  OBVIOUS
<1>3. u \in Mine(b) => /\ \A d \in owned : u \notin Mine(d)
                       /\ \A r \in refused : u \notin Mine(r)
  BY <1>1 DEF Apart
<1>4. \A x, y \in owned' : u \in Mine(x) /\ u \in Mine(y) => x = y
  BY <1>1, <1>3 DEF Apart
<1>5. \A r, s \in refused' : u \in Mine(r) /\ u \in Mine(s) => r = s
  BY <1>1 DEF Apart
<1>6. \A x \in owned' : \A r \in refused' : u \notin Mine(x) \/ u \notin Mine(r)
  BY <1>1, <1>3 DEF Apart
<1>7. ASSUME NEW d \in Cores, u \in FreeUnits(d)'
      PROVE  (\A x \in owned' : u \notin Mine(x)) /\ (\A r \in refused' : u \notin Mine(r))
  <2>1. u \in FreeUnits(d)
    BY <1>2, <1>7
  <2>2. (\A x \in owned : u \notin Mine(x)) /\ (\A r \in refused : u \notin Mine(r))
    BY <1>1, <2>1 DEF Apart
  <2> SUFFICES ASSUME u \in Mine(b) PROVE FALSE
    BY <2>2
  <2>3. d # c
    BY <1>7
  <2>4. u \in Region(c) /\ u \in Region(d)
    BY <2>1, FreeInRegion
  <2> QED
    BY <2>3, <2>4, Regions
<1>8. Somewhere(u)'
  BY <1>1 DEF Somewhere
<1> QED
  BY <1>4, <1>5, <1>6, <1>7, <1>8 DEF Apart

(* when freemem takes it back,                                             *)
LEMMA TilesGiven ==
  ASSUME Tiled, NEW c \in Cores, NEW b \in owned, \A u \in Mine(b) : u \in Addrs,
         owned' = owned \ {b}, refused' = refused,
         FreeUnits(c)' = FreeUnits(c) \cup Mine(b), \A d \in Cores \ {c} : FreeUnits(d)' = FreeUnits(d)
  PROVE  Tiled'
<1> SUFFICES ASSUME NEW u \in Addrs PROVE Apart(u)' /\ Somewhere(u)'
  BY DEF Tiled
<1>1. Apart(u) /\ Somewhere(u)
  BY DEF Tiled
<1>2. \A x, y \in owned' : u \in Mine(x) /\ u \in Mine(y) => x = y
  BY <1>1 DEF Apart
<1>3. \A r, s \in refused' : u \in Mine(r) /\ u \in Mine(s) => r = s
  BY <1>1 DEF Apart
<1>4. \A x \in owned' : \A r \in refused' : u \notin Mine(x) \/ u \notin Mine(r)
  BY <1>1 DEF Apart
<1>5. ASSUME NEW d \in Cores, u \in FreeUnits(d)'
      PROVE  (\A x \in owned' : u \notin Mine(x)) /\ (\A r \in refused' : u \notin Mine(r))
  <2>1. CASE u \in Mine(b)
    BY <1>1, <2>1 DEF Apart
  <2>2. CASE u \notin Mine(b)
    <3>1. u \in FreeUnits(d)
      BY <1>5, <2>2
    <3> QED
      BY <1>1, <3>1 DEF Apart
  <2> QED
    BY <2>1, <2>2
<1>6. Somewhere(u)'
  BY <1>1 DEF Somewhere
<1> QED
  BY <1>2, <1>3, <1>4, <1>5, <1>6 DEF Apart

(* and when freemem refuses it.                                            *)
LEMMA TilesRefused ==
  ASSUME Tiled, NEW b \in owned,
         owned' = owned \ {b}, refused' = refused \cup {b},
         \A d \in Cores : FreeUnits(d)' = FreeUnits(d)
  PROVE  Tiled'
<1> SUFFICES ASSUME NEW u \in Addrs PROVE Apart(u)' /\ Somewhere(u)'
  BY DEF Tiled
<1>1. Apart(u) /\ Somewhere(u)
  BY DEF Tiled
<1>2. u \in Mine(b) => \A s \in refused : u \notin Mine(s)
  BY <1>1 DEF Apart
<1>3. \A x, y \in owned' : u \in Mine(x) /\ u \in Mine(y) => x = y
  BY <1>1 DEF Apart
<1>4. \A q, s \in refused' : u \in Mine(q) /\ u \in Mine(s) => q = s
  BY <1>1, <1>2 DEF Apart
<1>5. \A x \in owned' : \A s \in refused' : u \notin Mine(x) \/ u \notin Mine(s)
  BY <1>1 DEF Apart
<1>6. \A d \in Cores : u \in FreeUnits(d)' => /\ \A x \in owned' : u \notin Mine(x)
                                             /\ \A s \in refused' : u \notin Mine(s)
  BY <1>1 DEF Apart
<1>7. Somewhere(u)'
  BY <1>1 DEF Somewhere
<1> QED
  BY <1>3, <1>4, <1>5, <1>6, <1>7 DEF Apart

-----------------------------------------------------------------------------
(* Steps that change one list. *)

(* What changes in the region of one core leaves the other lists alone.    *)
LEMMA Elsewhere ==
  ASSUME Lists, NEW c \in Cores, NEW S, \A u \in S : u \in Region(c),
         \A z \in Cells : z \in S \/ z = Head(c) \/ (next'[z] = next[z] /\ length'[z] = length[z])
  PROVE  \A d \in Cores \ {c} : \A z \in Nodes(d) \cup {Head(d)} :
           next'[z] = next[z] /\ length'[z] = length[z]
<1> SUFFICES ASSUME NEW d \in Cores, d # c, NEW z \in Nodes(d) \cup {Head(d)}
             PROVE  next'[z] = next[z] /\ length'[z] = length[z]
  OBVIOUS
<1>1. \A u \in S : u \in Addrs /\ u \notin Region(d)
  BY Regions
<1>2. CASE z = Head(d)
  BY <1>1, <1>2, Heads
<1>3. CASE z \in Nodes(d)
  <2>1. z \in Region(d) /\ z \in Addrs
    BY <1>3, FreeInRegion
  <2>2. z \in Cells /\ z \notin S /\ z # Head(c)
    BY <1>1, <2>1, Heads, NullCell
  <2> QED
    BY <2>2
<1> QED
  BY <1>2, <1>3

(* An owned block is where its first unit is, and that is not free.        *)
LEMMA OwnedPlace ==
  ASSUME TypeInv, HeapInv, NEW b \in owned
  PROVE  /\ b \in Blocks /\ b.addr \in Addrs /\ b.size \in Int /\ b.addr \in Mine(b)
         /\ \A d \in Cores : \A u \in Mine(b) : u \notin FreeUnits(d)
         /\ \A u \in Mine(b) : u \in Addrs
         /\ \A x \in owned : b.addr \in Mine(x) => x = b
         /\ \E c \in Cores : /\ b.addr \in Region(c) /\ b.size >= 1
                             /\ b.addr + b.size <= base(c) + BOUND
<1>1. b \in Blocks /\ b.addr \in Addrs /\ b.size \in Int /\ Fitting(b)
  BY DEF HeapInv, Inside, TypeInv, TypeOK, Blocks
<1>2. \E c \in Cores : b.addr \in Region(c) /\ b.size >= 1 /\ b.addr + b.size <= base(c) + BOUND
  BY <1>1 DEF Fitting
<1>3. b.addr \in Mine(b)
  BY <1>1, <1>2, MineFacts
<1>4. \A u \in Mine(b) : u \in Addrs
  BY DEF Mine
<1>5. \A u \in Addrs : Apart(u)
  BY DEF HeapInv, Tiled
<1>6. \A d \in Cores : \A u \in Mine(b) : u \notin FreeUnits(d)
  BY <1>4, <1>5 DEF Apart
<1>7. \A x \in owned : b.addr \in Mine(x) => x = b
  BY <1>1, <1>3, <1>5 DEF Apart
<1> QED
  BY <1>1, <1>2, <1>3, <1>4, <1>6, <1>7

(* Whatever the way a free block is taken, the heap is in order after it.  *)
LEMMA TakenHeap ==
  ASSUME TypeInv, HeapInv, next' \in Links, NEW c \in Cores, NEW b \in Blocks,
         b.addr \in Region(c), b.size >= 1, b.addr + b.size <= base(c) + BOUND,
         \A u \in Mine(b) : u \in FreeUnits(c),
         NEW B, Part(next', length', c, B, {}), Covers(length', B) = FreeUnits(c) \ Mine(b),
         length'[Head(c)] = Minus(length[Head(c)], b.size),
         \A z \in Cells : \/ z \in FreeUnits(c) \/ z = Head(c)
                          \/ next'[z] = next[z] /\ length'[z] = length[z],
         length'[b.addr] = b.size, b.by = "malloc" => next'[b.addr] = b.addr,
         owned' = owned \cup {b}, UNCHANGED <<refused, written>>
  PROVE  HeapInv'
<1>1. Lists /\ Counts /\ Inside /\ Tiled /\ Marks /\ Denied
  BY DEF HeapInv
<1>2. \A u \in FreeUnits(c) : u \in Region(c)
  BY <1>1, FreeInRegion
<1>3. \A d \in Cores \ {c} : \A z \in Nodes(d) \cup {Head(d)} :
        next'[z] = next[z] /\ length'[z] = length[z]
  BY <1>1, <1>2, Elsewhere
<1>4. /\ Lists' /\ FreeUnits(c)' = Covers(length', B)
      /\ \A d \in Cores \ {c} : FreeUnits(d)' = FreeUnits(d)
  BY <1>1, <1>3, ListsMove
<1>5. b.size \in Int /\ b.addr \in Mine(b) /\ b.addr \in Addrs /\ Cardinality(Mine(b)) = b.size
  <2>1. b.size \in Int
    BY DEF Blocks
  <2> QED
    BY <2>1, MineFacts
<1>6. Counts'
  <2>1. length'[Head(c)] = Cardinality(FreeUnits(c)')
    <3>1. Cardinality(FreeUnits(c) \ Mine(b)) = Minus(Cardinality(FreeUnits(c)), Cardinality(Mine(b)))
      BY <1>2, CountTaken
    <3> QED
      BY <1>1, <1>4, <1>5, <3>1 DEF Counts
  <2>2. ASSUME NEW d \in Cores, d # c PROVE length'[Head(d)] = Cardinality(FreeUnits(d)')
    BY <1>1, <1>3, <1>4, <2>2 DEF Counts
  <2> QED
    BY <2>1, <2>2 DEF Counts
<1>7. Inside'
  BY <1>1 DEF Inside, Fitting
<1>8. Tiled'
  BY <1>1, <1>4, TilesTaken
<1>9. Marks'
  <2>1. ASSUME NEW x \in owned
        PROVE  /\ x \notin written' => length'[x.addr] = x.size
               /\ x.by = "malloc" => next'[x.addr] = x.addr /\ x \notin written'
    <3>1. x.addr \in Addrs /\ x.addr \in Mine(x) /\ x.addr \notin FreeUnits(c)
      BY OwnedPlace
    <3>2. x.addr \in Cells /\ x.addr # Head(c)
      BY <3>1, Heads, NullCell
    <3>3. next'[x.addr] = next[x.addr] /\ length'[x.addr] = length[x.addr]
      BY <3>1, <3>2
    <3> QED
      BY <1>1, <3>3 DEF Marks
  <2>2. b \notin written'
    <3> SUFFICES ASSUME b \in written PROVE FALSE
      OBVIOUS
    <3>1. b \in owned
      BY DEF TypeInv, TypeOK
    <3> QED
      BY <1>5, <3>1, OwnedPlace
  <2> QED
    BY <2>1, <2>2 DEF Marks
<1>10. Denied'
  BY <1>1 DEF Denied
<1> QED
  BY <1>4, <1>6, <1>7, <1>8, <1>9, <1>10 DEF HeapInv

(* Whatever the way a block is put back, the heap is in order after it.    *)
LEMMA GivenHeap ==
  ASSUME TypeInv, HeapInv, next' \in Links, NEW c \in Cores, NEW b \in owned,
         b.addr \in Region(c), b.addr + b.size <= base(c) + BOUND,
         NEW B, Part(next', length', c, B, {}), Covers(length', B) = FreeUnits(c) \cup Mine(b),
         length'[Head(c)] = Plus(length[Head(c)], b.size),
         \A z \in Cells : \/ z \in FreeUnits(c) \cup Mine(b) \/ z = Head(c)
                          \/ next'[z] = next[z] /\ length'[z] = length[z],
         owned' = owned \ {b}, written' = written \ {b}, refused' = refused
  PROVE  HeapInv'
<1>1. Lists /\ Counts /\ Inside /\ Tiled /\ Marks /\ Denied
  BY DEF HeapInv
<1>2. /\ b.size \in Int /\ b.size >= 1 /\ b.addr \in Addrs /\ \A u \in Mine(b) : u \in Addrs
      /\ \A d \in Cores : \A u \in Mine(b) : u \notin FreeUnits(d)
  BY OwnedPlace
<1>3. Mine(b) \subseteq Region(c) /\ Cardinality(Mine(b)) = b.size
  BY <1>2, MineFacts
<1>4. \A u \in FreeUnits(c) : u \in Region(c)
  BY <1>1, FreeInRegion
<1>5. \A d \in Cores \ {c} : \A z \in Nodes(d) \cup {Head(d)} :
        next'[z] = next[z] /\ length'[z] = length[z]
  <2> DEFINE S == FreeUnits(c) \cup Mine(b)
  <2>1. \A u \in S : u \in Region(c)
    BY <1>3, <1>4
  <2> HIDE DEF S
  <2>2. \A z \in Cells : z \in S \/ z = Head(c) \/ (next'[z] = next[z] /\ length'[z] = length[z])
    BY DEF S
  <2> QED
    BY <1>1, <2>1, <2>2, Elsewhere
<1>6. /\ Lists' /\ FreeUnits(c)' = Covers(length', B)
      /\ \A d \in Cores \ {c} : FreeUnits(d)' = FreeUnits(d)
  BY <1>1, <1>5, ListsMove
<1>7. Counts'
  <2>1. length'[Head(c)] = Cardinality(FreeUnits(c)')
    <3>1. Cardinality(FreeUnits(c) \cup Mine(b)) = Plus(Cardinality(FreeUnits(c)), Cardinality(Mine(b)))
      BY <1>2, <1>3, <1>4, CountGiven
    <3> QED
      BY <1>1, <1>3, <1>6, <3>1 DEF Counts
  <2>2. ASSUME NEW d \in Cores, d # c PROVE length'[Head(d)] = Cardinality(FreeUnits(d)')
    BY <1>1, <1>5, <1>6, <2>2 DEF Counts
  <2> QED
    BY <2>1, <2>2 DEF Counts
<1>8. Inside'
  BY <1>1 DEF Inside, Fitting
<1>9. Tiled'
  BY <1>1, <1>2, <1>6, TilesGiven
<1>10. Marks'
  <2> SUFFICES ASSUME NEW x \in owned, x # b
               PROVE  /\ x \notin written' => length'[x.addr] = x.size
                      /\ x.by = "malloc" => next'[x.addr] = x.addr /\ x \notin written'
    BY DEF Marks
  <2>1. x.addr \in Addrs /\ x.addr \notin FreeUnits(c) /\ x.addr \notin Mine(b)
    BY OwnedPlace
  <2>2. x.addr \in Cells /\ x.addr # Head(c)
    BY <2>1, Heads, NullCell
  <2>3. next'[x.addr] = next[x.addr] /\ length'[x.addr] = length[x.addr]
    BY <2>1, <2>2
  <2> QED
    BY <1>1, <2>3 DEF Marks
<1>11. Denied'
  BY <1>1 DEF Denied
<1> QED
  BY <1>6, <1>7, <1>8, <1>9, <1>10, <1>11 DEF HeapInv

(* getmem or malloc takes a block in one of its two ways.                  *)
LEMMA UnlinkHeap ==
  ASSUME TypeInv, HeapInv, next' \in Links, NEW c \in Cores, NEW b \in Blocks, b.size >= 1,
         NEW prev \in Nodes(c) \cup {Head(c)}, b.addr \in Nodes(c), next[prev] = b.addr,
         length[b.addr] = b.size,
         next' = IF b.by = "malloc" THEN [Unlink(c, prev, b.addr, b.size).next EXCEPT ![b.addr] = b.addr]
                 ELSE Unlink(c, prev, b.addr, b.size).next,
         length' = Unlink(c, prev, b.addr, b.size).length,
         owned' = owned \cup {b}, UNCHANGED <<refused, written>>
  PROVE  HeapInv'
<1> DEFINE curr == b.addr
           n    == b.size
           A    == Nodes(c)
<1>1. /\ next \in Links /\ length \in Lengths /\ Lists /\ curr \in A
      /\ Part(next, length, c, A, {}) /\ length[curr] = n /\ next[prev] = curr /\ n \in Int
  BY DEF TypeInv, TypeOK, HeapInv, Lists, Links, Lengths, Blocks
<1>2. /\ \A z \in A : z \in Addrs /\ z \in Cells /\ z \in FreeUnits(c) /\ z # Head(c)
      /\ Head(c) \in Cells /\ prev \in Cells
  BY <1>1, FreeInRegion, Heads, NullCell
<1>3. prev # curr
  <2>1. prev < curr /\ prev \in Int
    BY <1>1, PartNext
  <2> QED
    BY <2>1
<1>4. /\ next'[prev] = next[curr]
      /\ b.by = "malloc" => next'[curr] = curr
      /\ \A z \in Cells \ {prev, curr} : next'[z] = next[z]
  BY <1>2, <1>3 DEF Unlink, Links
<1>5. /\ length'[Head(c)] = Minus(length[Head(c)], n)
      /\ \A z \in Cells \ {Head(c)} : length'[z] = length[z]
  BY <1>1, <1>2 DEF Unlink, Lengths
<1> HIDE DEF A
<1> DEFINE B == A \ {curr}
<1>6. /\ Part(next', length', c, B, {})
      /\ \A u : u \in Covers(length', B) <=> u \in Covers(length, A) /\ ~(curr <= u /\ u < curr + length[curr])
  <2>1. \A z \in (A \cup {Head(c)}) \ {prev, curr} : next'[z] = next[z]
    BY <1>2, <1>4
  <2>2. \A z \in A \ {curr} : length'[z] = length[z]
    BY <1>2, <1>5
  <2>3. prev \in A \cup {Head(c)}
    BY DEF A
  <2>4. Part(next, length, c, A, {}) /\ curr \in A /\ next[prev] = curr /\ next'[prev] = next[curr]
    BY <1>1, <1>4
  <2>5. B = A \ {curr}
    OBVIOUS
  <2> HIDE DEF curr, n, B
  <2>6. Removal(c, next, length, A, prev, curr, next', length', B)
    BY <2>1, <2>2, <2>3, <2>4, <2>5 DEF Removal
  <2> QED
    BY <2>6, PartWithout
<1> HIDE DEF B
<1>7. curr \in Region(c) /\ curr + n <= base(c) + BOUND
  BY <1>1, FreeInRegion DEF Part, A
<1>8. Covers(length', B) = FreeUnits(c) \ Mine(b)
  BY <1>1, <1>6 DEF FreeUnits, Mine, A, Covers
<1>9. \A u \in Mine(b) : u \in FreeUnits(c)
  BY <1>1 DEF Mine, FreeUnits, Covers, A
<1>10. \A z \in Cells : \/ z \in FreeUnits(c) \/ z = Head(c)
                        \/ next'[z] = next[z] /\ length'[z] = length[z]
  BY <1>1, <1>2, <1>4, <1>5 DEF A
<1>11. length'[curr] = n
  BY <1>1, <1>2, <1>5
<1> QED
  BY <1>4, <1>5, <1>6, <1>7, <1>8, <1>9, <1>10, <1>11, TakenHeap

(* The other way: the lower units of a larger block.                       *)
LEMMA SplitHeap ==
  ASSUME TypeInv, HeapInv, next' \in Links, NEW c \in Cores, NEW b \in Blocks, b.size >= 1,
         NEW prev \in Nodes(c) \cup {Head(c)}, b.addr \in Nodes(c), next[prev] = b.addr,
         length[b.addr] > b.size, b.addr + b.size \in Addrs,
         next' = IF b.by = "malloc" THEN [Split(c, prev, b.addr, b.size).next EXCEPT ![b.addr] = b.addr]
                 ELSE Split(c, prev, b.addr, b.size).next,
         length' = Split(c, prev, b.addr, b.size).length,
         owned' = owned \cup {b}, UNCHANGED <<refused, written>>
  PROVE  HeapInv'
<1> DEFINE curr == b.addr
           n    == b.size
           rest == curr + n
           A    == Nodes(c)
<1>1. /\ next \in Links /\ length \in Lengths /\ Lists /\ curr \in A
      /\ Part(next, length, c, A, {}) /\ length[curr] > n /\ next[prev] = curr
      /\ n \in Nat /\ n >= 1 /\ curr \in Int
  BY HeapFacts DEF TypeInv, TypeOK, HeapInv, Lists, Links, Lengths, Blocks
<1>2. /\ \A z \in A : z \in Addrs /\ z \in Cells /\ z \in FreeUnits(c) /\ z # Head(c)
      /\ Head(c) \in Cells /\ prev \in Cells /\ rest \in Cells /\ rest # Head(c) /\ rest \in Addrs
  BY <1>1, FreeInRegion, Heads, NullCell
<1>3. /\ prev # curr /\ prev # rest /\ rest # curr /\ rest \in Int
      /\ curr <= rest /\ rest < curr + length[curr]
  <2>1. prev < curr /\ prev \in Int
    BY <1>1, PartNext
  <2>2. length[curr] \in Int
    BY <1>1, <1>2, LengthInt
  <2> QED
    BY <1>1, <2>1, <2>2
<1>4. rest \notin A /\ rest \in FreeUnits(c)
  <2>1. rest \in FreeUnits(c)
    BY <1>1, <1>2, <1>3 DEF FreeUnits, Covers
  <2> SUFFICES ASSUME rest \in A PROVE FALSE
    BY <2>1
  <2>2. rest <= rest /\ rest < rest + length[rest]
    <3>1. length[rest] \in Int /\ length[rest] >= 1
      BY <1>1, PartFacts
    <3> QED
      BY <1>3, <3>1
  <2> HIDE DEF rest, curr, A
  <2>3. rest = curr
    BY <1>1, <1>3, <2>2, PartApart
  <2> QED
    BY <1>3, <2>3
<1>5. Minus(length[curr], n) = length[curr] - n
  <2>1. length[curr] \in 0 .. WORD - 1 /\ length[curr] \in Int
    BY <1>1, <1>2, LengthInt
  <2>2. length[curr] - n \in Nat /\ length[curr] - n < WORD
    BY <1>1, <2>1, HeapFacts
  <2> QED
    BY <2>2, ModSmall DEF Minus
<1>6. /\ next'[prev] = rest /\ next'[rest] = next[curr]
      /\ b.by = "malloc" => next'[curr] = curr
      /\ \A z \in Cells \ {prev, curr, rest} : next'[z] = next[z]
  <2> DEFINE nx == [next EXCEPT ![rest] = next[curr], ![prev] = rest]
  <2>1. /\ nx \in [Cells -> Addrs \cup {NULL}] /\ nx[prev] = rest /\ nx[rest] = next[curr]
        /\ \A z \in Cells \ {prev, rest} : nx[z] = next[z]
    BY <1>1, <1>2, <1>3 DEF Links
  <2>2. next' = IF b.by = "malloc" THEN [nx EXCEPT ![curr] = curr] ELSE nx
    BY DEF Split
  <2> HIDE DEF nx, rest
  <2> QED
    BY <1>2, <1>3, <2>1, <2>2
<1>7. /\ length'[rest] = length[curr] - n /\ length'[curr] = n
      /\ length'[Head(c)] = Minus(length[Head(c)], n)
      /\ \A z \in Cells \ {rest, curr, Head(c)} : length'[z] = length[z]
  <2>1. curr # Head(c) /\ rest # Head(c) /\ curr \in Cells
    BY <1>1, <1>2
  <2>2. length' = [length EXCEPT ![rest] = Minus(length[curr], n), ![curr] = n,
                                 ![Head(c)] = Minus(@, n)]
    BY DEF Split
  <2> HIDE DEF rest, curr, n
  <2>3. length \in [Cells -> 0 .. WORD - 1]
    BY <1>1 DEF Lengths
  <2> QED
    BY <1>2, <1>3, <1>5, <2>1, <2>2, <2>3
<1> DEFINE B == (A \ {curr}) \cup {rest}
<1>8. /\ Part(next', length', c, B, {})
      /\ \A u : u \in Covers(length', B) <=> u \in Covers(length, A) /\ ~(curr <= u /\ u < curr + n)
  <2>1. \A z \in (A \cup {Head(c)}) \ {prev, curr} : next'[z] = next[z]
    BY <1>2, <1>4, <1>6
  <2>2. \A z \in A \ {curr} : length'[z] = length[z]
    BY <1>2, <1>4, <1>7
  <2>3. prev \in A \cup {Head(c)}
    OBVIOUS
  <2>4. rest = curr + n /\ n < length[curr]
    BY <1>1, <1>2, LengthInt
  <2>5. /\ Part(next, length, c, A, {}) /\ curr \in A /\ next[prev] = curr /\ n \in Nat /\ n >= 1
        /\ next'[prev] = rest /\ next'[rest] = next[curr] /\ length'[rest] = length[curr] - n
    BY <1>1, <1>6, <1>7
  <2>6. B = (A \ {curr}) \cup {rest}
    OBVIOUS
  <2> HIDE DEF curr, n, rest, A, B
  <2>7. Shrinking(c, next, length, A, prev, curr, n, rest, next', length', B)
    BY <2>1, <2>2, <2>3, <2>4, <2>5, <2>6 DEF Shrinking
  <2> QED
    BY <2>7, PartShrunk
<1>9. curr \in Region(c) /\ curr + n <= base(c) + BOUND
  <2>1. curr + length[curr] <= base(c) + BOUND /\ length[curr] \in Int
    BY <1>1, <1>2, LengthInt DEF Part
  <2>2. curr \in Region(c) /\ base(c) \in Int /\ BOUND \in Int
    BY <1>1, FreeInRegion, Regions, HeapFacts
  <2> QED
    BY <1>1, <2>1, <2>2
<1>10. Covers(length', B) = FreeUnits(c) \ Mine(b)
  <2> HIDE DEF B
  <2> QED
    BY <1>8 DEF FreeUnits, Mine, Covers
<1>11. \A u \in Mine(b) : u \in FreeUnits(c)
  <2>1. ASSUME NEW u \in Mine(b) PROVE u < curr + length[curr] /\ curr <= u /\ u \in Addrs
    BY <1>1, <1>2, LengthInt, HeapFacts DEF Mine
  <2> QED
    BY <1>1, <2>1 DEF FreeUnits, Covers
<1>12. \A z \in Cells : \/ z \in FreeUnits(c) \/ z = Head(c)
                        \/ next'[z] = next[z] /\ length'[z] = length[z]
  BY <1>1, <1>2, <1>4, <1>6, <1>7
<1> HIDE DEF B
<1> QED
  BY <1>1, <1>6, <1>7, <1>8, <1>9, <1>10, <1>11, <1>12, TakenHeap

(* A step that leaves the memory and the blocks alone.                     *)
LEMMA HeapFrame ==
  ASSUME HeapInv, UNCHANGED <<next, length, owned, refused, written>>
  PROVE  HeapInv'
<1>1. \A c : Nodes(c)' = Nodes(c)
  BY DEF Nodes, Walk
<1>2. \A c : FreeUnits(c)' = FreeUnits(c)
  BY <1>1 DEF FreeUnits, Covers
<1>3. Lists'
  BY <1>1 DEF HeapInv, Lists, Part, Chain
<1>4. Tiled'
  BY <1>2 DEF HeapInv, Tiled, Apart, Somewhere
<1>5. Counts'
  BY <1>2 DEF HeapInv, Counts
<1> QED
  BY <1>3, <1>4, <1>5 DEF HeapInv, Inside, Marks, Denied

(* Between them these are what getmem does.                                *)
LEMMA GetmemHeap ==
  ASSUME TypeInv, TypeInv', HeapInv, NEW c \in Cores, GetmemFit(c), ~stale'
  PROVE  HeapInv'
<1>1. /\ next \in Links /\ length \in Lengths /\ next' \in Links /\ Lists
      /\ ctx[c].n \in Nat /\ ctx[c].n >= 1 /\ ctx[c].by \in {"getmem", "malloc"}
      /\ ctx[c].curr \in Addrs \cup {NULL}
  BY DEF TypeInv, TypeOK, Called, HeapInv, Links, Lengths, GetmemFit
<1>2. ctx[c].curr = next[Head(c)] /\ UNCHANGED <<refused, written>>
  BY DEF GetmemFit
<1>3. CASE UNCHANGED <<memory, owned>>
  BY <1>2, <1>3, HeapFrame DEF memory
<1>4. CASE ~UNCHANGED <<memory, owned>>
  <2> PICK prev \in Cells, curr \in Addrs :
              /\ Fits(c, prev, curr)
              /\ Splits(curr, ctx[c].n) => curr + ctx[c].n \in Addrs
              /\ next' = IF ctx[c].by = "malloc" THEN [Got(c, prev, curr).next EXCEPT ![curr] = curr]
                         ELSE Got(c, prev, curr).next
              /\ length' = Got(c, prev, curr).length
              /\ owned' = owned \cup {[addr |-> curr, size |-> ctx[c].n, by |-> ctx[c].by]}
              /\ wild' = FALSE
    BY <1>1, <1>4, GetmemFinds
  <2> DEFINE b == [addr |-> curr, size |-> ctx[c].n, by |-> ctx[c].by]
             w == Walk(next[Head(c)])
  <2>1. Chain(next, c, Nodes(c))
    BY <1>1 DEF Lists, Part
  <2>2. /\ \A i \in 0 .. Units : w[i] \in Nodes(c) \cup {NULL}
        /\ \A i \in 1 .. Units : w[i] # NULL => w[i - 1] \in Nodes(c) /\ w[i] = next[w[i - 1]]
    BY <1>1, <2>1, ChainWalk, WalksAreWalks
  <2>3. PICK i \in 0 .. Units :
        /\ curr = w[i] /\ curr \in Addrs /\ length[curr] >= ctx[c].n
        /\ i = 0 => prev = Head(c) /\ curr = next[Head(c)]
        /\ i # 0 => prev = w[i - 1] /\ prev \in Addrs /\ curr = next[prev]
    BY <1>2 DEF Fits
  <2>4. i # 0 => i \in 1 .. Units
    BY HeapFacts
  <2>5. curr \in Nodes(c) /\ prev \in Nodes(c) \cup {Head(c)} /\ next[prev] = curr
    BY <2>2, <2>3, <2>4, NullCell
  <2>6. length[curr] \in 0 .. WORD - 1 /\ length[curr] \in Int
    BY <1>1, NullCell, LengthInt
  <2>7. b \in Blocks
    <3>1. ctx[c].n \in 0 .. WORD - 1
      BY <1>1, <2>3, <2>6, HeapFacts
    <3> QED
      BY <1>1, <3>1 DEF Blocks
  <2>8. /\ b.addr = curr /\ b.size = ctx[c].n /\ b.by = ctx[c].by
        /\ owned' = owned \cup {b}
    OBVIOUS
  <2> HIDE DEF b
  <2>9. CASE Splits(curr, ctx[c].n)
    <3>1. Got(c, prev, curr) = Split(c, prev, b.addr, b.size)
      BY <2>8, <2>9 DEF Got
    <3>2. length[b.addr] > b.size /\ b.addr + b.size \in Addrs
      BY <2>8, <2>9 DEF Splits
    <3> QED
      BY <1>1, <1>2, <2>5, <2>7, <2>8, <3>1, <3>2, SplitHeap
  <2>10. CASE ~Splits(curr, ctx[c].n)
    <3>1. Got(c, prev, curr) = Unlink(c, prev, b.addr, b.size)
      BY <2>8, <2>10 DEF Got
    <3>2. length[b.addr] = b.size
      BY <1>1, <2>3, <2>6, <2>8, <2>10 DEF Splits
    <3> QED
      BY <1>1, <1>2, <2>5, <2>7, <2>8, <3>1, <3>2, UnlinkHeap
  <2> QED
    BY <2>9, <2>10
<1> QED
  BY <1>3, <1>4

(* A program writes into a block of its own only, and the heap is in order *)
(* after it.                                                               *)
LEMMA WriteHeap ==
  ASSUME TypeInv, TypeInv', HeapInv, NEW c \in Cores, NEW b \in owned, NEW w, Write(c, b, w)
  PROVE  HeapInv'
<1>1. /\ next \in Links /\ length \in Lengths /\ next' \in Links /\ Lists /\ Counts /\ Marks /\ b.by = "getmem"
      /\ length' = [length EXCEPT ![b.addr] = w] /\ written' = written \cup {b}
      /\ UNCHANGED <<next, owned, refused>>
  BY DEF TypeInv, TypeOK, HeapInv, Links, Lengths, Write
<1>2. b.addr \in Addrs /\ \A d \in Cores : b.addr \notin FreeUnits(d)
  BY OwnedPlace
<1>3. \A z \in Cells : z # b.addr => length'[z] = length[z]
  BY <1>1 DEF Lengths
<1>4. \A d \in Cores : \A z \in Nodes(d) \cup {Head(d)} : next'[z] = next[z] /\ length'[z] = length[z]
  <2> SUFFICES ASSUME NEW d \in Cores, NEW z \in Nodes(d) \cup {Head(d)}
               PROVE  z \in Cells /\ z # b.addr
    BY <1>1, <1>3
  <2> QED
    BY <1>1, <1>2, FreeInRegion, Heads, NullCell
<1>5. ASSUME NEW d \in Cores
      PROVE  Part(next', length', d, Nodes(d), {}) /\ Covers(length', Nodes(d)) = FreeUnits(d)
  <2>1. Part(next, length, d, Nodes(d), {})
    BY <1>1 DEF Lists
  <2> QED
    BY <1>4, <2>1, PartFrame DEF FreeUnits
<1>6. Lists' /\ \A d \in Cores : FreeUnits(d)' = FreeUnits(d)
  <2>1. \A d \in Cores : Nodes(d)' = Nodes(d)
    BY <1>1 DEF Nodes, Walk
  <2>2. Lists'
    BY <1>5, <2>1 DEF Lists, Part, Chain
  <2> QED
    BY <1>5, <2>1, <2>2 DEF FreeUnits
<1>7. Counts'
  BY <1>1, <1>4, <1>6 DEF Counts
<1>8. Tiled'
  BY <1>1, <1>6 DEF HeapInv, Tiled, Apart, Somewhere
<1>9. Marks'
  <2> SUFFICES ASSUME NEW x \in owned
               PROVE  /\ x \notin written' => length'[x.addr] = x.size
                      /\ x.by = "malloc" => next[x.addr] = x.addr /\ x \notin written'
    BY <1>1 DEF Marks
  <2>1. x # b => x.addr # b.addr /\ x.addr \in Cells
    BY OwnedPlace, NullCell
  <2> QED
    BY <1>1, <1>3, <2>1 DEF Marks
<1>10. Inside' /\ Denied'
  BY <1>1 DEF HeapInv, Inside, Fitting, Denied
<1> QED
  BY <1>6, <1>7, <1>8, <1>9, <1>10 DEF HeapInv

-----------------------------------------------------------------------------
(* Joining blocks. *)

(* Two blocks that touch are together smaller than the address space.      *)
LEMMA NoOverflow ==
  ASSUME NEW c \in Cores, NEW nx, NEW ln, NEW A, NEW E, Part(nx, ln, c, A, E),
         NEW x \in A, NEW y \in A, x + ln[x] = y
  PROVE  Plus(ln[x], ln[y]) = ln[x] + ln[y]
<1>1. /\ x \in Int /\ x >= 1 /\ ln[x] \in Nat /\ ln[y] \in Nat /\ y \in Int
      /\ y + ln[y] <= base(c) + BOUND
  <2>1. x \in Addrs /\ x \in Int /\ y \in Int
    BY PartFacts
  <2>2. ln[x] \in Nat /\ ln[y] \in Nat /\ y + ln[y] <= base(c) + BOUND
    BY DEF Part
  <2> QED
    BY <2>1, <2>2, HeapFacts
<1>2. base(c) + BOUND - 1 <= Units /\ base(c) \in Int /\ BOUND \in Int /\ Units \in Int /\ Units < WORD
  BY Regions, HeapFacts
<1>3. ln[x] + ln[y] \in Nat /\ ln[x] + ln[y] < WORD
  <2>1. ln[x] + ln[y] = y + ln[y] - x /\ y + ln[y] <= Units + 1
    BY <1>1, <1>2
  <2>2. y + ln[y] \in Int /\ WORD \in Int
    BY <1>1, HeapFacts
  <2>3. ln[x] + ln[y] < WORD
    BY <1>1, <1>2, <2>1, <2>2
  <2> QED
    BY <1>1, <2>3
<1> QED
  BY <1>3, ModSmall DEF Plus

(* Joining a block of the list with the next one, if they touch,           *)
NextJoined(c, m, A, x, nxt, after) ==
  /\ m \in Memories /\ x \in A /\ nxt \in A
  /\ Part(m.next, m.length, c, A, {x}) /\ m.next[x] = nxt
  /\ after = IF x + m.length[x] = nxt THEN JoinNext(m, x, nxt) ELSE m

(* and with the one before, which it touches.                              *)
PrevJoined(c, m, A, prev, a, nxt, after, B, E) ==
  /\ m \in Memories /\ prev \in A /\ a \in A /\ B = A \ {a} /\ E = {prev}
  /\ Part(m.next, m.length, c, A, {prev, a}) /\ m.next[prev] = a /\ m.next[a] = nxt
  /\ prev + m.length[prev] = a
  /\ after = JoinPrev(m, prev, a, nxt)

(* Joining the next block covers the same units; nothing touches any more. *)
LEMMA JoinNextPart ==
  ASSUME NEW c \in Cores, NEW m, NEW A, NEW x, NEW nxt, NEW after,
         NextJoined(c, m, A, x, nxt, after)
  PROVE  /\ \E B : /\ Part(after.next, after.length, c, B, {})
                   /\ Covers(after.length, B) = Covers(m.length, A)
         /\ \A z \in Cells \ {x} : after.next[z] = m.next[z] /\ after.length[z] = m.length[z]
<1> USE DEF NextJoined
<1> DEFINE nx == m.next
           ln == m.length
<1>1. /\ nx \in Links /\ ln \in Lengths /\ Part(nx, ln, c, A, {x}) /\ nx[x] = nxt
  BY DEF Memories
<1>2. CASE x + ln[x] # nxt
  <2>1. Part(nx, ln, c, A, {x} \ {x})
    <3> HIDE DEF nx, ln
    <3> QED
      BY <1>1, <1>2, PartStrict
  <2>2. {x} \ {x} = {}
    OBVIOUS
  <2>3. Part(nx, ln, c, A, {})
    BY <2>1, <2>2
  <2>4. after = m
    BY <1>2
  <2> QED
    BY <2>3, <2>4
<1>3. CASE x + ln[x] = nxt
  <2> DEFINE mx == [nx EXCEPT ![x] = nx[nxt]]
             mn == [ln EXCEPT ![x] = Plus(ln[x], ln[nxt])]
             B == A \ {nxt}
  <2>1. after.next = mx /\ after.length = mn
    BY <1>3 DEF JoinNext
  <2> HIDE DEF nx, ln
  <2>2. x \in Cells /\ nxt \in Cells /\ x # nxt /\ \A z \in A : z \in Cells
    <3>1. x < nxt /\ x \in Int
      BY <1>1, PartNext
    <3>2. \A z \in A : z \in Addrs
      BY <1>1, PartFacts
    <3> QED
      BY <3>1, <3>2, NullCell
  <2>3. Plus(ln[x], ln[nxt]) = ln[x] + ln[nxt]
    BY <1>1, <1>3, NoOverflow
  <2>4. /\ mx[x] = nx[nxt] /\ \A z \in Cells \ {x} : mx[z] = nx[z]
        /\ mn[x] = ln[x] + ln[nxt] /\ \A z \in Cells \ {x} : mn[z] = ln[z]
    BY <1>1, <2>2, <2>3 DEF Links, Lengths
  <2>5. /\ \A z \in (A \cup {Head(c)}) \ {x, nxt} : mx[z] = nx[z]
        /\ \A z \in A \ {x, nxt} : mn[z] = ln[z]
    BY <2>2, <2>4, Heads
  <2>6. Part(mx, mn, c, B, {}) /\ Covers(mn, B) = Covers(ln, A)
    <3>1. B = A \ {nxt} /\ \A z \in A \ {x, nxt} : z \notin {x}
      OBVIOUS
    <3> HIDE DEF mx, mn, B
    <3>2. Joining(c, nx, ln, A, {x}, x, nxt, mx, mn, B, {})
      BY <1>1, <1>3, <2>2, <2>4, <2>5, <3>1 DEF Joining
    <3> QED
      BY <3>2, PartJoined
  <2> HIDE DEF mx, mn, B
  <2> QED
    BY <2>1, <2>4, <2>6 DEF nx, ln
<1> QED
  BY <1>2, <1>3

(* Joining the one before covers the same units; that block alone may      *)
(* still touch the next one.                                               *)
LEMMA JoinPrevPart ==
  ASSUME NEW c \in Cores, NEW m, NEW A, NEW prev, NEW a, NEW nxt, NEW after, NEW B, NEW E,
         PrevJoined(c, m, A, prev, a, nxt, after, B, E)
  PROVE  /\ Part(after.next, after.length, c, B, E)
         /\ Covers(after.length, B) = Covers(m.length, A)
         /\ after \in Memories /\ after.next[prev] = nxt
         /\ prev + after.length[prev] = a + m.length[a]
         /\ \A z \in Cells \ {prev} : after.next[z] = m.next[z] /\ after.length[z] = m.length[z]
<1> USE DEF PrevJoined
<1> DEFINE nx == m.next
           ln == m.length
           mx == [nx EXCEPT ![prev] = nxt]
           mn == [ln EXCEPT ![prev] = Plus(ln[prev], ln[a])]
<1>1. /\ nx \in Links /\ ln \in Lengths /\ Part(nx, ln, c, A, {prev, a}) /\ nx[prev] = a /\ nx[a] = nxt
      /\ prev + ln[prev] = a /\ prev \in A /\ a \in A
  BY DEF Memories
<1>2. after.next = mx /\ after.length = mn /\ after = [next |-> mx, length |-> mn]
  BY DEF JoinPrev
<1> HIDE DEF nx, ln
<1>3. /\ prev \in Cells /\ a \in Cells /\ prev # a /\ \A z \in A : z \in Cells
      /\ nxt \in Addrs \cup {NULL} /\ prev \in Int /\ ln[prev] \in Int /\ ln[a] \in Int
  <2>1. prev < a /\ prev \in Int
    BY <1>1, PartNext
  <2>2. (\A z \in A : z \in Addrs /\ ln[z] \in Int /\ nx[z] \in A \cup {NULL})
    BY <1>1, PartFacts
  <2>3. nxt \in Addrs \cup {NULL}
    BY <1>1, <2>2
  <2>4. \A z \in A : z \in Cells
    BY <2>2, NullCell
  <2> QED
    BY <1>1, <2>1, <2>2, <2>3, <2>4
<1>4. Plus(ln[prev], ln[a]) = ln[prev] + ln[a] /\ Plus(ln[prev], ln[a]) \in 0 .. WORD - 1
  <2>1. Plus(ln[prev], ln[a]) = ln[prev] + ln[a]
    BY <1>1, NoOverflow
  <2> QED
    BY <1>3, <2>1, PlusMinus
<1>5. /\ mx[prev] = nxt /\ \A z \in Cells \ {prev} : mx[z] = nx[z]
      /\ mn[prev] = ln[prev] + ln[a] /\ \A z \in Cells \ {prev} : mn[z] = ln[z]
      /\ mx \in Links /\ mn \in Lengths
  BY <1>1, <1>3, <1>4 DEF Links, Lengths
<1>6. /\ \A z \in (A \cup {Head(c)}) \ {prev, a} : mx[z] = nx[z]
      /\ \A z \in A \ {prev, a} : mn[z] = ln[z]
  BY <1>3, <1>5, Heads
<1>7. Part(mx, mn, c, B, {prev}) /\ Covers(mn, B) = Covers(ln, A)
  <2>1. /\ \A z \in A \ {prev, a} : z \notin {prev} => z \notin {prev, a}
        /\ prev \notin {prev} => a \notin {prev, a}
    OBVIOUS
  <2>2. mx[prev] = nx[a]
    BY <1>1, <1>5
  <2> HIDE DEF mx, mn
  <2>3. Joining(c, nx, ln, A, {prev, a}, prev, a, mx, mn, B, {prev})
    BY <1>1, <1>5, <1>6, <2>1, <2>2 DEF Joining
  <2> QED
    BY <2>3, PartJoined
<1>8. prev + mn[prev] = a + ln[a]
  BY <1>1, <1>3, <1>5
<1> HIDE DEF mx, mn
<1> QED
  BY <1>2, <1>5, <1>7, <1>8 DEF nx, ln, Memories

-----------------------------------------------------------------------------
(* Putting a block back. *)

(* Where freemem puts a block: in the list of its region, between two      *)
(* blocks that it does not overlap.                                        *)
LEMMA FreePlace ==
  ASSUME TypeInv, HeapInv, NEW b \in owned, NEW c, c = ListOf(b.addr),
         NEW prev \in Cells, NEW nxt \in Addrs, Found(c, b.addr, prev, nxt)
  PROVE  /\ c \in Cores /\ b.addr \in Region(c) /\ b.addr + b.size <= base(c) + BOUND
         /\ prev \in Nodes(c) \cup {Head(c)} /\ nxt \in Nodes(c) /\ next[prev] = nxt
         /\ prev < b.addr /\ b.addr + b.size <= nxt
         /\ prev \in Nodes(c) => prev + length[prev] <= b.addr
<1> DEFINE a == b.addr
           A == Nodes(c)
           w == Walk(next[Head(c)])
<1>1. /\ a \in Addrs /\ a \in Int /\ b.size \in Int /\ a \in Mine(b) /\ a >= 1
      /\ \A d \in Cores : \A u \in Mine(b) : u \notin FreeUnits(d)
      /\ \E d \in Cores : a \in Region(d) /\ b.size >= 1 /\ a + b.size <= base(d) + BOUND
  BY OwnedPlace, HeapFacts
<1>2. c \in Cores /\ base(c) <= a /\ a <= base(c) + BOUND
  BY <1>1, ListFound
<1>3. /\ next \in Links /\ length \in Lengths /\ Lists /\ Part(next, length, c, A, {})
      /\ base(c) \in Int /\ BOUND \in Int
  BY <1>2, Regions, HeapFacts DEF TypeInv, TypeOK, HeapInv, Lists, Links, Lengths
<1>4. PICK i \in 0 .. Units :
        /\ nxt = w[i] /\ a <= nxt
        /\ i = 0 => prev = Head(c) /\ nxt = next[prev]
        /\ i # 0 => prev = w[i - 1] /\ prev \in Addrs /\ nxt = next[prev] /\ ~(a <= prev)
  BY DEF Found
<1>5. nxt \in A /\ prev \in A \cup {Head(c)} /\ next[prev] = nxt
  <2>1. Chain(next, c, A)
    BY <1>3 DEF Part
  <2> HIDE DEF A
  <2>2. /\ \A j \in 0 .. Units : w[j] \in A \cup {NULL}
        /\ \A j \in 1 .. Units : w[j] # NULL => w[j - 1] \in A
    BY <1>2, <1>3, <2>1, ChainWalk, WalksAreWalks
  <2>3. i # 0 => i \in 1 .. Units
    BY HeapFacts
  <2> QED
    BY <1>4, <2>2, <2>3, NullCell
<1>6. prev < a /\ prev \in Int
  <2>1. CASE i = 0
    BY <1>1, <1>2, <1>4, <2>1, Heads
  <2>2. CASE i # 0
    BY <1>1, <1>4, <2>2, HeapFacts
  <2> QED
    BY <2>1, <2>2
<1>7. nxt \in Region(c) /\ nxt \in FreeUnits(c) /\ nxt \in Int /\ nxt \in Addrs
  BY <1>2, <1>3, <1>5, FreeInRegion, HeapFacts
<1>8. a \in Region(c)
  BY <1>1, <1>2, <1>3, <1>4, <1>7 DEF Region
<1>9. a + b.size <= base(c) + BOUND
  BY <1>1, <1>2, <1>8, Regions
<1>10. a + b.size <= nxt
  <2> SUFFICES ASSUME ~(a + b.size <= nxt) PROVE FALSE
    OBVIOUS
  <2>1. nxt \in Mine(b)
    BY <1>1, <1>4, <1>7 DEF Mine
  <2> QED
    BY <1>1, <1>2, <1>7, <2>1
<1>11. ASSUME prev \in A PROVE prev + length[prev] <= a
  <2> SUFFICES ASSUME ~(prev + length[prev] <= a) PROVE FALSE
    OBVIOUS
  <2>1. length[prev] \in Int
    BY <1>3, LengthInt
  <2>2. a \in FreeUnits(c)
    BY <1>1, <1>6, <1>11, <2>1 DEF FreeUnits, Covers
  <2> QED
    BY <1>1, <1>2, <2>2
<1> QED
  BY <1>2, <1>5, <1>6, <1>8, <1>9, <1>10, <1>11

(* A block that its owner has not written is not refused, and nobody       *)
(* writes the accounting block of malloc.                                  *)
LEMMA RefusedHeap ==
  ASSUME TypeInv, HeapInv, NEW b \in owned, NEW c, c = ListOf(b.addr),
         NEW prev \in Cells, NEW nxt \in Addrs, Found(c, b.addr, prev, nxt),
         Overlaps(prev, b.addr, nxt), Refuse(b), UNCHANGED memory,
         owned' = owned \ {b}, written' = written \ {b}
  PROVE  HeapInv'
<1>1. refused' = refused \cup {b} /\ UNCHANGED <<next, length>>
  BY DEF Refuse, memory
<1>2. b \in written
  <2> SUFFICES ASSUME b \notin written PROVE FALSE
    OBVIOUS
  <2>1. /\ c \in Cores /\ prev \in Nodes(c) \cup {Head(c)} /\ prev < b.addr /\ b.addr + b.size <= nxt
        /\ prev \in Nodes(c) => prev + length[prev] <= b.addr
        /\ b.addr \in Region(c)
    BY FreePlace
  <2>2. length[b.addr] = b.size /\ length \in Lengths /\ Part(next, length, c, Nodes(c), {})
    BY <2>1 DEF HeapInv, Marks, TypeInv, TypeOK, Lengths, Lists
  <2>3. b.addr \in Nat /\ b.size \in Nat /\ nxt \in Nat /\ nxt < WORD /\ b.addr < WORD
    <3>1. b.size \in Int /\ b.size >= 1 /\ b.addr \in Addrs
      BY OwnedPlace
    <3> QED
      BY <3>1, HeapFacts
  <2>4. Plus(b.addr, length[b.addr]) = b.addr + b.size
    <3>1. b.addr + b.size \in Nat /\ b.addr + b.size < WORD
      BY <2>1, <2>3, HeapFacts
    <3> QED
      BY <2>2, <3>1, ModSmall DEF Plus
  <2>5. ASSUME prev \in Addrs PROVE ~(b.addr < Plus(prev, length[prev]))
    <3>1. prev \in Nodes(c) /\ prev + length[prev] <= b.addr
      BY <2>1, <2>5, Heads
    <3>2. prev \in Nat /\ length[prev] \in Nat
      BY <2>2, <2>5, <3>1, HeapFacts DEF Part
    <3>3. prev + length[prev] \in Nat /\ prev + length[prev] < WORD
      BY <2>3, <3>1, <3>2, HeapFacts
    <3>4. Plus(prev, length[prev]) = prev + length[prev]
      BY <3>3, ModSmall DEF Plus
    <3> QED
      BY <2>3, <3>1, <3>3, <3>4
  <2> QED
    BY <2>1, <2>3, <2>4, <2>5 DEF Overlaps
<1>3. b.by = "getmem"
  BY <1>2 DEF HeapInv, Marks, TypeInv, TypeOK, Blocks
<1>4. \A d : Nodes(d)' = Nodes(d)
  BY <1>1 DEF Nodes, Walk
<1>5. \A d : FreeUnits(d)' = FreeUnits(d)
  BY <1>1, <1>4 DEF FreeUnits, Covers
<1>6. Lists' /\ Counts'
  BY <1>1, <1>4, <1>5 DEF HeapInv, Lists, Part, Chain, Counts
<1>7. Inside'
  BY <1>1 DEF HeapInv, Inside, Fitting
<1>8. Tiled'
  BY <1>1, <1>5, TilesRefused DEF HeapInv
<1>9. Marks'
  BY <1>1 DEF HeapInv, Marks
<1>10. Denied'
  BY <1>1, <1>3 DEF HeapInv, Denied
<1> QED
  BY <1>6, <1>7, <1>8, <1>9, <1>10 DEF HeapInv

(* No block of a core lies where the list head of that core ends, for the  *)
(* length it has: freemem would take the head for a free block before the  *)
(* one it gets, and join the two (FreeMemoryHead.cfg).                     *)
Clear == \A c \in Cores : \A n \in 0 .. BOUND : Plus(HeadAddr[c], n) \notin Region(c)

(* A place for a block of n units at a in the list of core c.              *)
Place(c, prev, a, n, nxt) ==
  /\ c \in Cores /\ n \in Nat /\ n >= 1
  /\ prev \in Nodes(c) \cup {Head(c)} /\ nxt \in Nodes(c) /\ next[prev] = nxt
  /\ a \in Region(c) /\ prev < a /\ a + n <= nxt
  /\ prev \in Nodes(c) => prev + length[prev] <= a

(* A block linked into its place covers its own units and those that were  *)
(* free; it alone may touch its neighbours.                                *)
LEMMA LinkedPart ==
  ASSUME TypeInv, HeapInv, NEW c, NEW prev, NEW a, NEW n, NEW nxt, Place(c, prev, a, n, nxt),
         NEW m, m = Linked(prev, a, n, nxt), NEW A, A = Nodes(c) \cup {a}
  PROVE  /\ m \in Memories /\ Part(m.next, m.length, c, A, {prev, a})
         /\ \A u : u \in Covers(m.length, A) <=> u \in FreeUnits(c) \/ (u \in Addrs /\ a <= u /\ u < a + n)
         /\ m.next[prev] = a /\ m.next[a] = nxt /\ m.length[a] = n
         /\ \A z \in Cells \ {a} : m.length[z] = length[z]
         /\ \A z \in Cells \ {prev, a} : m.next[z] = next[z]
         /\ a \notin Nodes(c) /\ a # Head(c) /\ prev # a /\ a \in Cells /\ prev \in Cells
<1> DEFINE N == Nodes(c)
           mx == [next EXCEPT ![prev] = a, ![a] = nxt]
           mn == [length EXCEPT ![a] = n]
<1>1. /\ c \in Cores /\ n \in Nat /\ n >= 1 /\ prev \in N \cup {Head(c)} /\ nxt \in N /\ next[prev] = nxt
      /\ a \in Region(c) /\ prev < a /\ a + n <= nxt /\ (prev \in N => prev + length[prev] <= a)
  BY DEF Place
<1>2. next \in Links /\ length \in Lengths /\ Lists /\ Part(next, length, c, N, {})
  BY <1>1 DEF TypeInv, TypeOK, HeapInv, Lists, Links, Lengths
<1>3. /\ a \in Addrs /\ a \in Cells /\ prev \in Cells /\ a # Head(c) /\ nxt \in Addrs /\ nxt \in Int /\ a \in Int
      /\ \A z \in N : z \in Cells
  BY <1>1, <1>2, Regions, FreeInRegion, Heads, NullCell, HeapFacts
<1>4. prev # a /\ prev \in Int
  <2>1. prev \in Int
    BY <1>1, <1>2, PartNext
  <2> QED
    BY <1>1, <2>1
<1>5. n \in 0 .. WORD - 1
  <2>1. n < nxt /\ nxt < WORD
    BY <1>1, <1>3, HeapFacts
  <2> QED
    BY <1>1, <1>3, <2>1, HeapFacts
<1>6. m.next = mx /\ m.length = mn /\ m = [next |-> mx, length |-> mn]
  BY DEF Linked
<1>7. a \notin N
  <2> SUFFICES ASSUME a \in N PROVE FALSE
    OBVIOUS
  <2>1. a <= prev \/ nxt <= a
    BY <1>1, <1>2, PartNext
  <2> QED
    BY <1>1, <1>3, <1>4, <2>1
<1>8. /\ mx[prev] = a /\ mx[a] = nxt /\ \A z \in Cells \ {prev, a} : mx[z] = next[z]
      /\ mn[a] = n /\ \A z \in Cells \ {a} : mn[z] = length[z]
      /\ mx \in Links /\ mn \in Lengths
  BY <1>2, <1>3, <1>4, <1>5 DEF Links, Lengths
<1>9. /\ \A z \in (N \cup {Head(c)}) \ {prev} : mx[z] = next[z]
      /\ \A z \in N : mn[z] = length[z]
  BY <1>1, <1>3, <1>7, <1>8, Heads
<1> HIDE DEF mx, mn
<1> DEFINE E == {prev, a}
<1>10. Insertion(c, next, length, N, prev, nxt, a, n, mx, mn, A, E)
  <2>1. A = N \cup {a} /\ E = {prev, a}
    OBVIOUS
  <2> HIDE DEF N, E
  <2> QED
    BY <1>1, <1>2, <1>8, <1>9, <2>1 DEF Insertion
<1>11. /\ Part(mx, mn, c, A, E)
       /\ \A u : u \in Covers(mn, A) <=> u \in Covers(length, N) \/ (u \in Addrs /\ a <= u /\ u < a + n)
  <2> HIDE DEF N, E
  <2> QED
    BY <1>1, <1>10, PartLinked
<1>12. \A u : u \in Covers(mn, A) <=> u \in FreeUnits(c) \/ (u \in Addrs /\ a <= u /\ u < a + n)
  BY <1>11 DEF FreeUnits
<1>13. m \in Memories
  BY <1>6, <1>8 DEF Memories
<1> QED
  BY <1>3, <1>4, <1>6, <1>7, <1>8, <1>11, <1>12, <1>13

(* The two blocks that freemem compares touch if the sum of their numbers  *)
(* says so, and a block never touches a list head.                         *)
LEMMA Abuts ==
  ASSUME TypeInv, HeapInv, Clear, NEW c, NEW prev, NEW a, NEW n, NEW nxt, Place(c, prev, a, n, nxt)
  PROVE  a = Plus(At(prev), length[prev]) <=> prev \in Nodes(c) /\ a = prev + length[prev]
<1>1. /\ c \in Cores /\ prev \in Nodes(c) \cup {Head(c)} /\ a \in Region(c) /\ a \in Addrs /\ a < WORD
      /\ prev \in Nodes(c) => prev + length[prev] <= a
      /\ Lists /\ Counts
  BY Regions, HeapFacts DEF Place, HeapInv
<1>2. CASE prev = Head(c)
  <2>1. At(prev) = HeadAddr[c]
    <3>1. c \in Nat /\ -1 - (-1 - c) = c
      BY <1>1, HeapFacts DEF Cores
    <3> QED
      BY <1>1, <1>2, <3>1, Heads DEF At, Head
  <2>2. length[prev] \in 0 .. BOUND
    <3>1. \A u \in FreeUnits(c) : u \in Region(c)
      BY <1>1, FreeInRegion
    <3>2. Cardinality(FreeUnits(c)) \in Nat /\ Cardinality(FreeUnits(c)) <= BOUND
      BY <1>1, <3>1, RegionSize
    <3> QED
      BY <1>1, <1>2, <3>2, HeapFacts DEF Counts
  <2>3. a # Plus(At(prev), length[prev])
    BY <1>1, <2>1, <2>2 DEF Clear
  <2>4. prev \notin Nodes(c)
    BY <1>1, <1>2, FreeInRegion, Heads
  <2> QED
    BY <2>3, <2>4
<1>3. CASE prev \in Nodes(c)
  <2>1. prev \in Addrs
    BY <1>1, <1>3, FreeInRegion
  <2>2. length[prev] \in Nat
    BY <1>1, <1>3 DEF Lists, Part
  <2>3. prev + length[prev] \in Nat /\ prev + length[prev] < WORD
    BY <1>1, <1>3, <2>1, <2>2, HeapFacts
  <2>4. Plus(At(prev), length[prev]) = prev + length[prev]
    BY <2>1, <2>3, ModSmall DEF At, Plus
  <2> QED
    BY <1>3, <2>4
<1> QED
  BY <1>1, <1>2, <1>3

(* After both joins the same units are covered, and no two blocks touch.   *)
LEMMA CoalescedPart ==
  ASSUME TypeInv, HeapInv, Clear, NEW c, NEW prev, NEW a, NEW n, NEW nxt, Place(c, prev, a, n, nxt),
         NEW after, after = Coalesce(prev, a, n, nxt)
  PROVE  /\ \E B : /\ Part(after.next, after.length, c, B, {})
                   /\ \A u : u \in Covers(after.length, B) <=>
                               u \in FreeUnits(c) \/ (u \in Addrs /\ a <= u /\ u < a + n)
         /\ after.length[Head(c)] = length[Head(c)]
         /\ \A z \in Cells \ {prev, a} : after.next[z] = next[z] /\ after.length[z] = length[z]
         /\ after \in Memories
<1> DEFINE m    == Linked(prev, a, n, nxt)
           A    == Nodes(c) \cup {a}
           join == a = Plus(At(prev), m.length[prev])
           j    == IF join THEN JoinPrev(m, prev, a, nxt) ELSE m
           x    == IF join THEN prev ELSE a
<1>1. /\ m \in Memories /\ Part(m.next, m.length, c, A, {prev, a})
      /\ \A u : u \in Covers(m.length, A) <=> u \in FreeUnits(c) \/ (u \in Addrs /\ a <= u /\ u < a + n)
      /\ m.next[prev] = a /\ m.next[a] = nxt /\ m.length[a] = n
      /\ \A z \in Cells \ {a} : m.length[z] = length[z]
      /\ \A z \in Cells \ {prev, a} : m.next[z] = next[z]
      /\ a \notin Nodes(c) /\ a # Head(c) /\ prev # a /\ a \in Cells /\ prev \in Cells
  BY LinkedPart
<1>2. /\ c \in Cores /\ prev \in Nodes(c) \cup {Head(c)} /\ nxt \in Nodes(c) /\ Head(c) \in Cells
      /\ n \in Nat /\ a \in Region(c)
  BY Heads DEF Place
<1>3. join <=> prev \in Nodes(c) /\ a = prev + m.length[prev]
  BY <1>1, Abuts
<1>4. after = IF a + n = nxt THEN JoinNext(j, x, nxt) ELSE j
  BY DEF Coalesce
<1> HIDE DEF m, join
<1>5. /\ j \in Memories /\ j.next[x] = nxt /\ x + j.length[x] = a + n
      /\ j.length[Head(c)] = length[Head(c)] /\ x # Head(c) /\ x \in {prev, a}
      /\ \A z \in Cells \ {prev, a} : j.next[z] = next[z] /\ j.length[z] = length[z]
      /\ \E B : /\ Part(j.next, j.length, c, B, {x}) /\ x \in B /\ nxt \in B
                /\ Covers(j.length, B) = Covers(m.length, A)
  <2>1. CASE join
    <3> DEFINE B == A \ {a}
    <3>1. prev \in Nodes(c) /\ a = prev + m.length[prev] /\ prev # Head(c)
      <4>1. prev \in Nodes(c) /\ a = prev + m.length[prev]
        BY <1>3, <2>1
      <4>2. Lists
        BY DEF HeapInv
      <4> QED
        BY <1>2, <4>1, <4>2, FreeInRegion, Heads
    <3>2. j = JoinPrev(m, prev, a, nxt) /\ x = prev
      BY <2>1
    <3>3. prev \in A /\ a \in A /\ prev \in B /\ nxt \in B /\ B = A \ {a}
      BY <1>1, <1>2, <3>1
    <3> HIDE DEF j, x, A, B
    <3> DEFINE E == {prev}
    <3>4. /\ Part(j.next, j.length, c, B, E)
          /\ Covers(j.length, B) = Covers(m.length, A)
          /\ j \in Memories /\ j.next[prev] = nxt
          /\ prev + j.length[prev] = a + m.length[a]
          /\ \A z \in Cells \ {prev} : j.next[z] = m.next[z] /\ j.length[z] = m.length[z]
      <4>1. PrevJoined(c, m, A, prev, a, nxt, j, B, E)
        BY <1>1, <1>2, <3>1, <3>2, <3>3 DEF PrevJoined
      <4>2. c \in Cores
        BY <1>2
      <4> HIDE DEF E
      <4> QED
        BY <4>1, <4>2, JoinPrevPart
    <3>5. j.length[Head(c)] = length[Head(c)]
      BY <1>1, <1>2, <3>1, <3>4
    <3> QED
      BY <1>1, <3>1, <3>2, <3>3, <3>4, <3>5
  <2>2. CASE ~join
    <3>1. j = m /\ x = a
      BY <2>2
    <3>2. prev \in A => prev + m.length[prev] # m.next[prev]
      BY <1>1, <1>3, <2>2
    <3>3. {prev, a} \ {prev} = {a}
      BY <1>1
    <3>4. a \in A /\ nxt \in A
      BY <1>2
    <3> HIDE DEF j, x, A
    <3>5. Part(m.next, m.length, c, A, {prev, a} \ {prev})
      BY <1>1, <1>2, <3>2, PartStrict
    <3> QED
      BY <1>1, <1>2, <3>1, <3>3, <3>4, <3>5
  <2> QED
    BY <2>1, <2>2
<1> HIDE DEF j, x, A
<1>6. PICK B : /\ Part(j.next, j.length, c, B, {x}) /\ x \in B /\ nxt \in B
               /\ Covers(j.length, B) = Covers(m.length, A)
  BY <1>5
<1>7. after = IF x + j.length[x] = nxt THEN JoinNext(j, x, nxt) ELSE j
  BY <1>4, <1>5
<1>8. /\ \E D : /\ Part(after.next, after.length, c, D, {})
                /\ Covers(after.length, D) = Covers(j.length, B)
      /\ \A z \in Cells \ {x} : after.next[z] = j.next[z] /\ after.length[z] = j.length[z]
  <2>1. NextJoined(c, j, B, x, nxt, after)
    BY <1>2, <1>5, <1>6, <1>7 DEF NextJoined
  <2> QED
    BY <1>2, <2>1, JoinNextPart
<1>9. after \in Memories
  <2>1. /\ next \in Links /\ length \in Lengths /\ Lists
    BY DEF TypeInv, TypeOK, HeapInv, Links, Lengths
  <2>2. a \in Addrs /\ nxt \in Addrs
    BY <1>2, <2>1, FreeInRegion, Regions
  <2>3. n \in 0 .. WORD - 1
    <3>1. m.length \in Lengths
      BY <1>1 DEF Memories
    <3> QED
      BY <1>1, <3>1, LengthInt
  <2> QED
    BY <1>1, <2>1, <2>2, <2>3, CoalesceMemory
<1>10. after.length[Head(c)] = length[Head(c)]
  BY <1>2, <1>5, <1>8
<1>11. \A z \in Cells \ {prev, a} : after.next[z] = next[z] /\ after.length[z] = length[z]
  BY <1>5, <1>8
<1>12. PICK D : /\ Part(after.next, after.length, c, D, {})
                /\ Covers(after.length, D) = Covers(j.length, B)
  BY <1>8
<1>13. \A u : u \in Covers(after.length, D) <=>
                u \in FreeUnits(c) \/ (u \in Addrs /\ a <= u /\ u < a + n)
  BY <1>1, <1>6, <1>12
<1> QED
  BY <1>9, <1>10, <1>11, <1>12, <1>13

(* What freemem does leaves the heap in order,                             *)
LEMMA FreememHeap ==
  ASSUME TypeInv, TypeInv', HeapInv, Clear, NEW b \in owned, NEW n, n = b.size, Freemem(b, n),
         owned' = owned \ {b}, written' = written \ {b}, ~wild'
  PROVE  HeapInv'
<1> DEFINE c == ListOf(b.addr)
           a == b.addr
<1>1. /\ next \in Links /\ length \in Lengths /\ next' \in Links /\ Lists
      /\ a \in Addrs /\ a \in Mine(b) /\ n \in Nat /\ n >= 1
  <2>1. a \in Addrs /\ a \in Mine(b) /\ n \in Int /\ n >= 1
    BY OwnedPlace
  <2> QED
    BY <2>1 DEF TypeInv, TypeOK, HeapInv, Links, Lengths
<1>2. PICK prev \in Cells, nxt \in Addrs :
        /\ Found(c, a, prev, nxt)
        /\ \/ Overlaps(prev, a, nxt) /\ Refuse(b) /\ UNCHANGED <<memory, wild>>
           \/ /\ ~Overlaps(prev, a, nxt)
              /\ next' = Coalesce(prev, a, n, nxt).next
              /\ length' = [Coalesce(prev, a, n, nxt).length EXCEPT ![Head(c)] = Plus(@, n)]
              /\ UNCHANGED <<refused, wild>>
  <2>1. \/ wild' = TRUE /\ UNCHANGED <<memory, refused>>
        \/ \E prev \in Cells, nxt \in Addrs :
             /\ Found(c, a, prev, nxt)
             /\ \/ Overlaps(prev, a, nxt) /\ Refuse(b) /\ UNCHANGED <<memory, wild>>
                \/ /\ ~Overlaps(prev, a, nxt)
                   /\ next' = Coalesce(prev, a, n, nxt).next
                   /\ length' = [Coalesce(prev, a, n, nxt).length EXCEPT ![Head(c)] = Plus(@, n)]
                   /\ UNCHANGED <<refused, wild>>
    BY <1>1, FreememFinds, Zenon
  <2> QED
    BY <2>1, Zenon
<1>3. CASE Overlaps(prev, a, nxt) /\ Refuse(b) /\ UNCHANGED <<memory, wild>>
  BY <1>2, <1>3, RefusedHeap
<1>4. CASE ~(Overlaps(prev, a, nxt) /\ Refuse(b) /\ UNCHANGED <<memory, wild>>)
  <2> DEFINE after == Coalesce(prev, a, n, nxt)
  <2>1. /\ c \in Cores /\ a \in Region(c) /\ a + b.size <= base(c) + BOUND
        /\ prev \in Nodes(c) \cup {Head(c)} /\ nxt \in Nodes(c) /\ next[prev] = nxt
        /\ prev < a /\ a + b.size <= nxt
        /\ prev \in Nodes(c) => prev + length[prev] <= a
    BY <1>2, FreePlace
  <2>2. Place(c, prev, a, n, nxt)
    BY <1>1, <2>1 DEF Place
  <2>3. /\ \E B : /\ Part(after.next, after.length, c, B, {})
                  /\ \A u : u \in Covers(after.length, B) <=>
                              u \in FreeUnits(c) \/ (u \in Addrs /\ a <= u /\ u < a + n)
        /\ after.length[Head(c)] = length[Head(c)]
        /\ \A z \in Cells \ {prev, a} : after.next[z] = next[z] /\ after.length[z] = length[z]
        /\ after \in Memories
    BY <2>2, CoalescedPart
  <2>4. /\ next' = after.next /\ length' = [after.length EXCEPT ![Head(c)] = Plus(@, n)]
        /\ refused' = refused
    BY <1>2, <1>4
  <2> HIDE DEF after
  <2>5. PICK B : /\ Part(after.next, after.length, c, B, {})
                 /\ \A u : u \in Covers(after.length, B) <=>
                             u \in FreeUnits(c) \/ (u \in Addrs /\ a <= u /\ u < a + n)
    BY <2>3
  <2>6. after.length \in Lengths /\ Head(c) \in Cells
    BY <2>1, <2>3, Heads DEF Memories
  <2>7. /\ length'[Head(c)] = Plus(length[Head(c)], n)
        /\ \A z \in Cells \ {Head(c)} : length'[z] = after.length[z]
    BY <2>3, <2>4, <2>6 DEF Lengths
  <2>8. Part(next', length', c, B, {}) /\ Covers(length', B) = Covers(after.length, B)
    <3>1. \A z \in B : z \in Cells /\ z # Head(c)
      <4>1. \A z \in B : z \in Addrs
        BY <2>1, <2>5, PartFacts
      <4> QED
        BY <2>1, <4>1, Heads, NullCell
    <3>2. \A z \in B : length'[z] = after.length[z]
      BY <2>7, <3>1
    <3>3. \A z \in B \cup {Head(c)} : next'[z] = after.next[z]
      BY <2>4
    <3> HIDE DEF c
    <3> QED
      BY <2>1, <2>5, <3>2, <3>3, PartFrame
  <2>9. Covers(length', B) = FreeUnits(c) \cup Mine(b)
    BY <2>5, <2>8 DEF Mine
  <2>10. \A z \in Cells : \/ z \in FreeUnits(c) \cup Mine(b) \/ z = Head(c)
                          \/ next'[z] = next[z] /\ length'[z] = length[z]
    <3>1. prev \in FreeUnits(c) \/ prev = Head(c)
      BY <1>1, <2>1, FreeInRegion
    <3> QED
      BY <1>1, <2>3, <2>4, <2>7, <3>1
  <2> HIDE DEF c
  <2> QED
    BY <1>1, <2>1, <2>4, <2>7, <2>8, <2>9, <2>10, GivenHeap
<1> QED
  BY <1>3, <1>4

(* and so do its callers freestk and free.                                 *)
LEMMA ReleaseHeap ==
  ASSUME TypeInv, TypeInv', HeapInv, Clear, NEW c \in Cores, NEW b \in owned,
         FreeStack(c, b) \/ Free(c, b), ~wild'
  PROVE  HeapInv'
<1>1. owned' = owned \ {b} /\ written' = written \ {b}
  BY DEF FreeStack, Free, Release
<1>2. CASE FreeStack(c, b)
  BY <1>1, <1>2, FreememHeap DEF FreeStack
<1>3. CASE Free(c, b)
  <2>1. b.by = "malloc"
    BY <1>3 DEF Free, Release
  <2>2. next[b.addr] = b.addr /\ length[b.addr] = b.size
    BY <2>1 DEF HeapInv, Marks
  <2>3. Freemem(b, length[b.addr])
    BY <1>3, <2>2 DEF Free
  <2> QED
    BY <1>1, <2>2, <2>3, FreememHeap
<1> QED
  BY <1>2, <1>3

-----------------------------------------------------------------------------
(* The inductive invariant, and what it says. *)

IInv == TypeInv /\ (Sound => HeapInv)

(* The heap is in order at the start: one block for each core.             *)
LEMMA InitHeap == Init => HeapInv
<1> SUFFICES ASSUME Init PROVE HeapInv
  OBVIOUS
<1>1. TypeInv /\ next \in Links /\ length \in Lengths
  BY InitTypes DEF TypeInv, TypeOK, Links, Lengths
<1>2. owned = {} /\ refused = {}
  BY DEF Init
<1>3. ASSUME NEW c \in Cores
      PROVE  /\ Part(next, length, c, Nodes(c), {}) /\ FreeUnits(c) = Region(c)
             /\ length[Head(c)] = BOUND
  <2> DEFINE A == {base(c)}
  <2>1. /\ base(c) \in Addrs /\ base(c) \in Cells /\ base(c) \in Int /\ base(c) >= 1 /\ base(c) \in Region(c)
        /\ BOUND \in Nat /\ BOUND >= 1 /\ Head(c) \in Cells /\ Head(c) \notin Addrs /\ Head(c) < 0
        /\ Head(c) \in Int
    BY Regions, HeapFacts, Heads, NullCell DEF Region
  <2>2. next[Head(c)] = base(c) /\ next[base(c)] = NULL
    <3>1. -1 - Head(c) = c
      BY HeapFacts DEF Head, Cores
    <3> QED
      BY <2>1, <3>1 DEF Init
  <2>3. length[Head(c)] = BOUND /\ length[base(c)] = BOUND
    BY <2>1 DEF Init
  <2>4. Chain(next, c, A)
    BY <2>1, <2>2, NullCell DEF Chain
  <2>5. \A z : z \in A <=> z = base(c)
    OBVIOUS
  <2> HIDE DEF A
  <2>6. Nodes(c) = A
    BY <1>1, <2>4, ChainWalk, NodesWalk
  <2>7. Part(next, length, c, A, {})
    BY <2>1, <2>2, <2>3, <2>4, <2>5 DEF Part
  <2>8. Covers(length, A) = Region(c)
    <3>1. Covers(length, A) = {u \in Addrs : base(c) <= u /\ u < base(c) + BOUND}
      BY <2>3, <2>5 DEF Covers
    <3>2. ASSUME NEW u \in Region(c) PROVE u \in Addrs /\ base(c) <= u /\ u < base(c) + BOUND
      BY <2>1, Regions DEF Region
    <3>3. ASSUME NEW u \in Addrs, base(c) <= u, u < base(c) + BOUND PROVE u \in Region(c)
      BY <2>1, <3>3, HeapFacts DEF Region
    <3> QED
      BY <3>1, <3>2, <3>3
  <2> QED
    BY <2>3, <2>6, <2>7, <2>8 DEF FreeUnits
<1>4. Lists
  BY <1>3 DEF Lists
<1>5. Counts
  <2> SUFFICES ASSUME NEW c \in Cores PROVE Cardinality(Region(c)) = BOUND
    BY <1>3 DEF Counts
  <2> DEFINE hi == base(c) + BOUND - 1
  <2>1. base(c) \in Int /\ hi \in Int /\ ~(base(c) > hi) /\ hi - base(c) + 1 = BOUND
    BY Regions, HeapFacts
  <2>2. Region(c) = base(c) .. hi
    BY DEF Region
  <2> HIDE DEF hi
  <2> QED
    BY <2>1, <2>2, FS_Interval
<1>6. Tiled
  <2> SUFFICES ASSUME NEW u \in Addrs PROVE Apart(u) /\ Somewhere(u)
    BY DEF Tiled
  <2>1. Somewhere(u)
    BY <1>3, SomeRegion DEF Somewhere
  <2> QED
    BY <1>2, <2>1 DEF Apart
<1> QED
  BY <1>2, <1>4, <1>5, <1>6 DEF HeapInv, Inside, Marks, Denied

(* and after every step of a behaviour that has not gone wild or begun     *)
(* from an old head.                                                       *)
LEMMA NextHeap ==
  ASSUME Clear, TypeInv, TypeInv', Sound => HeapInv, [Next]_vars, Sound'
  PROVE  HeapInv'
<1>1. CASE UNCHANGED vars
  BY <1>1, HeapFrame DEF vars, memory, Sound
<1>2. ASSUME NEW c \in Cores, NEW n \in Sizes, Getmem(c, n) \/ Malloc(c, n)
      PROVE  HeapInv'
  <2>1. UNCHANGED <<memory, owned, refused, written, stale, wild>>
    BY <1>2 DEF Getmem, Malloc, GetmemRead
  <2> QED
    BY <2>1, HeapFrame DEF memory, Sound
<1>3. ASSUME NEW c \in Cores, GetmemFit(c) PROVE HeapInv'
  <2>1. Sound /\ ~stale'
    BY <1>3 DEF Sound, GetmemFit, Goes
  <2> QED
    BY <1>3, <2>1, GetmemHeap
<1>4. ASSUME NEW c \in Cores, NEW b \in owned, FreeStack(c, b) \/ Free(c, b)
      PROVE  HeapInv'
  <2>1. Sound /\ ~wild'
    BY <1>4 DEF Sound, FreeStack, Free, Release, Idles, Goes
  <2> QED
    BY <1>4, <2>1, ReleaseHeap
<1>5. ASSUME NEW c \in Cores, NEW b \in owned, NEW w \in Words, Write(c, b, w)
      PROVE  HeapInv'
  <2>1. Sound
    BY <1>5 DEF Sound, Write, Idles, Goes
  <2> QED
    BY <1>5, <2>1, WriteHeap
<1>6. CASE Stopped
  BY <1>1, <1>6 DEF Stopped
<1> QED
  BY <1>1, <1>2, <1>3, <1>4, <1>5, <1>6 DEF Next

(* While no call has gone wild or begun from an old head, the heap is in   *)
(* order.                                                                  *)
THEOREM HeapInvariant == ASSUME Clear PROVE Spec => []IInv
<1>1. Init => IInv
  BY InitTypes, InitHeap DEF IInv
<1>2. IInv /\ [Next]_vars => IInv'
  <2> SUFFICES ASSUME IInv, [Next]_vars PROVE IInv'
    OBVIOUS
  <2>1. TypeInv /\ (Sound => HeapInv) /\ TypeInv'
    BY NextTypes DEF IInv
  <2>2. Sound' => HeapInv'
    BY <2>1, NextHeap
  <2> QED
    BY <2>1, <2>2 DEF IInv
<1> QED
  BY <1>1, <1>2, PTL DEF Spec

(* Sets with one element at most.                                          *)
LEMMA AtMostOne ==
  ASSUME NEW S, \A x, y \in S : x = y
  PROVE  Cardinality(S) = IF S = {} THEN 0 ELSE 1
<1>1. CASE S = {}
  BY <1>1, FS_EmptySet
<1>2. CASE S # {}
  <2> PICK x \in S : TRUE
    BY <1>2
  <2>1. S = {x}
    OBVIOUS
  <2>2. Cardinality({x}) = 1
    BY FS_Singleton
  <2> QED
    BY <1>2, <2>1, <2>2
<1> QED
  BY <1>1, <1>2

(* What HeapInv says of units, with the words of EveryUnitOnce,            *)
LEMMA UnitsOnce == TypeInv /\ HeapInv => EveryUnitOnce
<1> SUFFICES ASSUME TypeInv, HeapInv, NEW c \in Cores, NEW u \in Region(c)
             PROVE  Cardinality({a \in Nodes(c) : u \in Extent(a, length[a])})
                    + Cardinality({b \in owned : u \in Extent(b.addr, b.size)})
                    + Cardinality({r \in refused : u \in Extent(r.addr, r.size)}) = 1
  BY DEF EveryUnitOnce
<1> DEFINE F == {a \in Nodes(c) : u \in Extent(a, length[a])}
           O == {b \in owned : u \in Extent(b.addr, b.size)}
           R == {r \in refused : u \in Extent(r.addr, r.size)}
<1>1. u \in Addrs /\ u \in Int /\ Lists /\ Apart(u) /\ Somewhere(u) /\ Part(next, length, c, Nodes(c), {})
  <2>1. u \in Addrs
    BY Regions
  <2> QED
    BY <2>1, HeapFacts DEF HeapInv, Tiled, Lists
<1>2. \A x \in Int, k \in Int : u \in Extent(x, k) <=> x <= u /\ u < x + k
  BY <1>1 DEF Extent
<1>3. /\ \A a \in Nodes(c) : a \in Int /\ length[a] \in Int
      /\ \A b \in owned : b.addr \in Int /\ b.size \in Int
      /\ \A r \in refused : r.addr \in Int /\ r.size \in Int
  <2>1. \A a \in Nodes(c) : a \in Int /\ length[a] \in Int
    BY <1>1, PartFacts
  <2>2. \A b \in Blocks : b.addr \in Int /\ b.size \in Int
    BY HeapFacts DEF Blocks
  <2> QED
    BY <2>1, <2>2 DEF TypeInv, TypeOK
<1>4. /\ \A a \in F : a \in Nodes(c) /\ a <= u /\ u < a + length[a]
      /\ \A b \in O : b \in owned /\ u \in Mine(b)
      /\ \A r \in R : r \in refused /\ u \in Mine(r)
  BY <1>1, <1>2, <1>3 DEF Mine
<1>5. /\ u \in FreeUnits(c) <=> F # {}
      /\ (\E b \in owned : u \in Mine(b)) <=> O # {}
      /\ (\E r \in refused : u \in Mine(r)) <=> R # {}
  <2>1. u \in FreeUnits(c) <=> F # {}
    BY <1>1, <1>2, <1>3 DEF FreeUnits, Covers
  <2>2. (\E b \in owned : u \in Mine(b)) <=> O # {}
    BY <1>1, <1>2, <1>3 DEF Mine
  <2>3. (\E r \in refused : u \in Mine(r)) <=> R # {}
    BY <1>1, <1>2, <1>3 DEF Mine
  <2> QED
    BY <2>1, <2>2, <2>3
<1> HIDE DEF F, O, R
<1>6. \A x, y \in F : x = y
  BY <1>1, <1>4, PartApart
<1>7. \A x, y \in O : x = y
  BY <1>1, <1>4 DEF Apart
<1>8. \A x, y \in R : x = y
  BY <1>1, <1>4 DEF Apart
<1>9. F # {} \/ O # {} \/ R # {}
  <2>1. ASSUME NEW d \in Cores, u \in FreeUnits(d) PROVE d = c
    BY <1>1, <2>1, FreeInRegion, Regions
  <2> QED
    BY <1>1, <1>5, <2>1 DEF Somewhere
<1>10. /\ F = {} \/ (O = {} /\ R = {})
       /\ O = {} \/ R = {}
  BY <1>1, <1>4, <1>5 DEF Apart
<1>11. /\ Cardinality(F) = IF F = {} THEN 0 ELSE 1
       /\ Cardinality(O) = IF O = {} THEN 0 ELSE 1
       /\ Cardinality(R) = IF R = {} THEN 0 ELSE 1
  BY <1>6, <1>7, <1>8, AtMostOne
<1>12. Cardinality(F) + Cardinality(O) + Cardinality(R) = 1
  BY <1>9, <1>10, <1>11
<1> QED
  BY <1>12 DEF F, O, R

(* of the sizes of the lists with those of LengthIsListSize,               *)
LEMMA ListsCounted == TypeInv /\ HeapInv => LengthIsListSize
<1> SUFFICES ASSUME TypeInv, HeapInv, NEW c \in Cores
             PROVE  length[Head(c)] = Cardinality({u \in Addrs : \E a \in Nodes(c) : u \in Extent(a, length[a])})
  BY DEF LengthIsListSize
<1>1. Part(next, length, c, Nodes(c), {})
  BY DEF HeapInv, Lists
<1>2. ASSUME NEW u \in Addrs, NEW a \in Nodes(c)
      PROVE  u \in Extent(a, length[a]) <=> a <= u /\ u < a + length[a]
  <2>1. u \in Int /\ a \in Int /\ length[a] \in Int
    BY <1>1, PartFacts, HeapFacts
  <2> QED
    BY <2>1 DEF Extent
<1>3. {u \in Addrs : \E a \in Nodes(c) : u \in Extent(a, length[a])} = FreeUnits(c)
  BY <1>2 DEF FreeUnits, Covers
<1> QED
  BY <1>3 DEF HeapInv, Counts

(* and of the blocks of a list with those of Coalesced.                    *)
LEMMA ListsCoalesced == TypeInv /\ HeapInv => Coalesced
<1> SUFFICES ASSUME TypeInv, HeapInv, NEW c \in Cores, NEW a \in Nodes(c)
             PROVE  a \in Region(c) /\ (next[a] # NULL => a + length[a] < next[a])
  BY DEF Coalesced
<1>1. Part(next, length, c, Nodes(c), {}) /\ Lists
  BY DEF HeapInv, Lists
<1> QED
  BY <1>1, FreeInRegion DEF Part

(* getmem, malloc, freestk and free neither lose a unit of the heap nor    *)
(* hand it out twice: it is in one free block, or in one block that a      *)
(* program has, or in one that freemem would not take back.                *)
THEOREM UnitOnce == ASSUME Clear PROVE Spec => []EveryUnitOnce
<1>1. IInv => EveryUnitOnce
  BY UnitsOnce DEF IInv, EveryUnitOnce
<1>2. Spec => []IInv
  BY HeapInvariant
<1> QED
  BY <1>1, <1>2, PTL

(* The size that the head of a list keeps is the number of free units of   *)
(* its core.                                                               *)
THEOREM ListSize == ASSUME Clear PROVE Spec => []LengthIsListSize
<1>1. IInv => LengthIsListSize
  BY ListsCounted DEF IInv, LengthIsListSize
<1>2. Spec => []IInv
  BY HeapInvariant
<1> QED
  BY <1>1, <1>2, PTL

(* The blocks of a free list lie in the region of its core, in ascending   *)
(* order, and no two of them touch: freemem joins what can be joined.      *)
THEOREM FullyCoalesced == ASSUME Clear PROVE Spec => []Coalesced
<1>1. IInv => Coalesced
  BY ListsCoalesced DEF IInv, Coalesced
<1>2. Spec => []IInv
  BY HeapInvariant
<1> QED
  BY <1>1, <1>2, PTL

(* free never fails on what malloc gave out (free.c, freemem.c): nothing   *)
(* of malloc's is refused, in any order of calls, while nobody has used an *)
(* old head.                                                               *)
THEOREM MallocNotRefused == ASSUME Clear PROVE Spec => []MallocTakenBack
<1>1. IInv => MallocTakenBack
  BY DEF IInv, HeapInv, Denied, MallocTakenBack
<1>2. Spec => []IInv
  BY HeapInvariant
<1> QED
  BY <1>1, <1>2, PTL
===============================================================================
