--------------------------- MODULE ReadyListsProofs ---------------------------
(***************************************************************************)
(* Lemmas about ready lists and waiting queues, seen as families of lists  *)
(* of processes, and about what resched and ready do to them.  The proofs  *)
(* of Semaphore and of Messages rest on them.                              *)
(***************************************************************************)
EXTENDS ReadyLists, FunctionTheorems, FiniteSetTheorems, SequenceTheorems, TLAPS

(* p is in one of the lists; no two places of the lists hold the same.     *)
In(p, lists) == \E k \in DOMAIN lists : \E i \in DOMAIN lists[k] : lists[k][i] = p
Apart(lists) ==
  \A k, l \in DOMAIN lists : \A i \in DOMAIN lists[k], j \in DOMAIN lists[l] :
    lists[k][i] = lists[l][j] => k = l /\ i = j

(* A family of lists of processes.                                         *)
Family(lists, K) == lists \in [K -> Seq(Procs)]

-----------------------------------------------------------------------------
(* Families of lists *)

(* An append adds one process to the lists.                                *)
LEMMA AppendIn ==
  ASSUME NEW K, NEW lists, Family(lists, K), NEW k \in K, NEW p \in Procs
  PROVE  /\ Family([lists EXCEPT ![k] = Append(@, p)], K)
         /\ \A q : In(q, [lists EXCEPT ![k] = Append(@, p)]) <=> In(q, lists) \/ q = p
<1> DEFINE new == [lists EXCEPT ![k] = Append(@, p)]
<1>1. lists \in [K -> Seq(Procs)]
  BY DEF Family
<1>2. /\ Append(lists[k], p) \in Seq(Procs)
      /\ Len(lists[k]) \in Nat
      /\ DOMAIN lists[k] = 1 .. Len(lists[k])
      /\ DOMAIN Append(lists[k], p) = 1 .. Len(lists[k]) + 1
      /\ \A i \in 1 .. Len(lists[k]) : Append(lists[k], p)[i] = lists[k][i]
      /\ Append(lists[k], p)[Len(lists[k]) + 1] = p
  BY <1>1
<1>3. /\ new \in [K -> Seq(Procs)]
      /\ new[k] = Append(lists[k], p)
      /\ \A l \in K : l # k => new[l] = lists[l]
      /\ DOMAIN new = K /\ DOMAIN lists = K
  BY <1>1, <1>2
<1> HIDE DEF new
<1>4. ASSUME NEW q PROVE In(q, new) <=> In(q, lists) \/ q = p
  <2>1. ASSUME NEW l \in K, NEW i \in DOMAIN new[l], new[l][i] = q
        PROVE  In(q, lists) \/ q = p
    <3>1. CASE l # k
      BY <2>1, <3>1, <1>3 DEF In
    <3>2. CASE l = k /\ i \in 1 .. Len(lists[k])
      BY <2>1, <3>2, <1>3, <1>2 DEF In
    <3>3. CASE l = k /\ i = Len(lists[k]) + 1
      BY <2>1, <3>3, <1>3, <1>2
    <3> QED
      BY <3>1, <3>2, <3>3, <2>1, <1>2, <1>3
  <2>2. ASSUME NEW l \in K, NEW i \in DOMAIN lists[l], lists[l][i] = q
        PROVE  In(q, new)
    <3>1. i \in DOMAIN new[l] /\ new[l][i] = q
      <4>1. CASE l = k
        BY <2>2, <4>1, <1>2, <1>3
      <4>2. CASE l # k
        BY <2>2, <4>2, <1>3
      <4> QED
        BY <4>1, <4>2
    <3> QED
      BY <3>1, <1>3 DEF In
  <2>3. In(p, new)
    <3>1. Len(lists[k]) + 1 \in DOMAIN new[k] /\ new[k][Len(lists[k]) + 1] = p
      BY <1>2, <1>3
    <3> QED
      BY <3>1, <1>3 DEF In
  <2> QED
    BY <2>1, <2>2, <2>3, <1>3 DEF In
<1> QED
  BY <1>3, <1>4 DEF Family, new

(* It keeps the lists without duplicates if the process was in none.       *)
LEMMA AppendApart ==
  ASSUME NEW K, NEW lists, Family(lists, K), NEW k \in K, NEW p \in Procs,
         Apart(lists), ~In(p, lists)
  PROVE  Apart([lists EXCEPT ![k] = Append(@, p)])
<1> DEFINE new == [lists EXCEPT ![k] = Append(@, p)]
<1>1. lists \in [K -> Seq(Procs)]
  BY DEF Family
<1>2. /\ Append(lists[k], p) \in Seq(Procs)
      /\ Len(lists[k]) \in Nat
      /\ DOMAIN lists[k] = 1 .. Len(lists[k])
      /\ DOMAIN Append(lists[k], p) = 1 .. Len(lists[k]) + 1
      /\ \A i \in 1 .. Len(lists[k]) : Append(lists[k], p)[i] = lists[k][i]
      /\ Append(lists[k], p)[Len(lists[k]) + 1] = p
  BY <1>1
<1>3. /\ new[k] = Append(lists[k], p)
      /\ \A l \in K : l # k => new[l] = lists[l]
      /\ DOMAIN new = K /\ DOMAIN lists = K
  BY <1>1, <1>2
<1> HIDE DEF new
<1>4. \A l \in K : \A i \in DOMAIN new[l] :
        \/ i \in DOMAIN lists[l] /\ new[l][i] = lists[l][i] /\ lists[l][i] # p
        \/ l = k /\ i = Len(lists[k]) + 1 /\ new[l][i] = p
  <2> TAKE l \in K
  <2> TAKE i \in DOMAIN new[l]
  <2>1. CASE l # k
    BY <2>1, <1>3 DEF In
  <2>2. CASE l = k /\ i \in 1 .. Len(lists[k])
    BY <2>2, <1>2, <1>3 DEF In
  <2>3. CASE l = k /\ i = Len(lists[k]) + 1
    BY <2>3, <1>2, <1>3
  <2> QED
    BY <2>1, <2>2, <2>3, <1>2, <1>3
<1> QED
  BY <1>3, <1>4 DEF Apart, new

(* A tail takes the head of its list away, and nobody else.                *)
LEMMA TailIn ==
  ASSUME NEW K, NEW lists, Family(lists, K), NEW k \in K, lists[k] # <<>>, Apart(lists)
  PROVE  /\ Family([lists EXCEPT ![k] = Tail(@)], K)
         /\ Apart([lists EXCEPT ![k] = Tail(@)])
         /\ Head(lists[k]) \in Procs
         /\ In(Head(lists[k]), lists)
         /\ \A q : In(q, [lists EXCEPT ![k] = Tail(@)]) <=> In(q, lists) /\ q # Head(lists[k])
<1> DEFINE new == [lists EXCEPT ![k] = Tail(@)]
<1>1. lists \in [K -> Seq(Procs)]
  BY DEF Family
<1>2. /\ Tail(lists[k]) \in Seq(Procs)
      /\ Head(lists[k]) \in Procs
      /\ Len(lists[k]) \in Nat \ {0}
      /\ Head(lists[k]) = lists[k][1]
      /\ DOMAIN lists[k] = 1 .. Len(lists[k])
      /\ DOMAIN Tail(lists[k]) = 1 .. Len(lists[k]) - 1
      /\ \A i \in 1 .. Len(lists[k]) - 1 : Tail(lists[k])[i] = lists[k][i + 1]
  BY <1>1
<1>3. /\ new \in [K -> Seq(Procs)]
      /\ new[k] = Tail(lists[k])
      /\ \A l \in K : l # k => new[l] = lists[l]
      /\ DOMAIN new = K /\ DOMAIN lists = K
  BY <1>1, <1>2
<1> HIDE DEF new
<1>4. \A l \in K : \A i \in DOMAIN new[l] :
        \E j \in DOMAIN lists[l] :
          /\ new[l][i] = lists[l][j] /\ j = IF l = k THEN i + 1 ELSE i
          /\ i \in Int /\ j \in Int /\ ~(l = k /\ j = 1)
  <2> TAKE l \in K
  <2> TAKE i \in DOMAIN new[l]
  <2>1. CASE l # k
    BY <2>1, <1>1, <1>3
  <2>2. CASE l = k
    BY <2>2, <1>2, <1>3
  <2> QED
    BY <2>1, <2>2
<1>5. \A l \in K : \A j \in DOMAIN lists[l] :
        (l = k /\ j = 1) \/ \E i \in DOMAIN new[l] : new[l][i] = lists[l][j]
  <2> TAKE l \in K
  <2> TAKE j \in DOMAIN lists[l]
  <2>1. CASE l # k
    BY <2>1, <1>3
  <2>2. CASE l = k /\ j # 1
    <3>1. j - 1 \in 1 .. Len(lists[k]) - 1 /\ (j - 1) + 1 = j
      BY <2>2, <1>2
    <3> QED
      BY <2>2, <3>1, <1>2, <1>3
  <2> QED
    BY <2>1, <2>2
<1>6. Apart(new)
  <2> SUFFICES ASSUME NEW l \in K, NEW m \in K, NEW i \in DOMAIN new[l], NEW j \in DOMAIN new[m],
                      new[l][i] = new[m][j]
               PROVE  l = m /\ i = j
    BY <1>3 DEF Apart
  <2>1. PICK ii \in DOMAIN lists[l] : /\ new[l][i] = lists[l][ii]
                                      /\ ii = IF l = k THEN i + 1 ELSE i
                                      /\ i \in Int /\ ii \in Int
    BY <1>4
  <2>2. PICK jj \in DOMAIN lists[m] : /\ new[m][j] = lists[m][jj]
                                      /\ jj = IF m = k THEN j + 1 ELSE j
                                      /\ j \in Int /\ jj \in Int
    BY <1>4
  <2>3. lists[l][ii] = lists[m][jj]
    BY <2>1, <2>2
  <2>4. l = m /\ ii = jj
    BY <2>3, <1>3 DEF Apart
  <2> QED
    BY <2>1, <2>2, <2>4
<1>7. In(Head(lists[k]), lists)
  BY <1>2, <1>3 DEF In
<1>8. ASSUME NEW q PROVE In(q, new) <=> In(q, lists) /\ q # Head(lists[k])
  <2>1. ASSUME NEW l \in K, NEW i \in DOMAIN new[l], new[l][i] = q
        PROVE  In(q, lists) /\ q # Head(lists[k])
    <3>1. PICK j \in DOMAIN lists[l] : new[l][i] = lists[l][j] /\ ~(l = k /\ j = 1)
      BY <1>4
    <3>2. In(q, lists)
      BY <2>1, <3>1, <1>3 DEF In
    <3>3. q # lists[k][1]
      BY <2>1, <3>1, <1>2, <1>3 DEF Apart
    <3> QED
      BY <3>2, <3>3, <1>2
  <2>2. ASSUME NEW l \in K, NEW j \in DOMAIN lists[l], lists[l][j] = q, q # Head(lists[k])
        PROVE  In(q, new)
    BY <2>2, <1>2, <1>3, <1>5 DEF In
  <2> QED
    BY <2>1, <2>2, <1>3 DEF In
<1> QED
  BY <1>2, <1>3, <1>6, <1>7, <1>8 DEF Family, new

(* In lists that are apart a process has one position, or none.            *)
LEMMA SpotsCount ==
  ASSUME NEW lists, NEW p, Apart(lists)
  PROVE  Cardinality(Spots(p, lists)) = IF In(p, lists) THEN 1 ELSE 0
<1>1. CASE In(p, lists)
  <2>1. PICK k \in DOMAIN lists : \E i \in DOMAIN lists[k] : lists[k][i] = p
    BY <1>1 DEF In
  <2> PICK i \in DOMAIN lists[k] : lists[k][i] = p
    BY <2>1
  <2>2. \A s : s \in Spots(p, lists) => s = <<k, i>>
    BY DEF Spots, Apart
  <2>3. <<k, i>> \in Spots(p, lists)
    BY DEF Spots
  <2>4. Spots(p, lists) = {<<k, i>>}
    BY <2>2, <2>3
  <2> QED
    BY <1>1, <2>4, FS_Singleton
<1>2. CASE ~In(p, lists)
  <2>1. Spots(p, lists) = {}
    BY <1>2 DEF In, Spots
  <2> QED
    BY <1>2, <2>1, FS_EmptySet
<1> QED
  BY <1>1, <1>2

-----------------------------------------------------------------------------
(* The scheduler *)

(* What a core lists and what it runs belongs to it.                       *)
AtHome(lists) == \A c \in Cores : \A i \in DOMAIN lists[c] : Affinity[lists[c][i]] = c
OwnRuns == \A c \in Cores : currpid[c] # NullProc => Affinity[currpid[c]] = c

SchedOK(states) ==
  SchedTypeOK(states) /\ Apart(readylist) /\ AtHome(readylist) /\ OwnRuns

(* Whether the current process of c goes back to the ready list.           *)
Goes(c) == currpid[c] # NullProc /\ state[currpid[c]] = "PRCURR"

(* Processes stay on the lists of their core when one joins.               *)
LEMMA AppendHome ==
  ASSUME NEW lists, Family(lists, Cores), AtHome(lists), NEW p \in Procs, Affinity[p] \in Cores
  PROVE  AtHome([lists EXCEPT ![Affinity[p]] = Append(@, p)])
<1> DEFINE c == Affinity[p]
           new == [lists EXCEPT ![c] = Append(@, p)]
<1>1. lists \in [Cores -> Seq(Procs)]
  BY DEF Family
<1>2. /\ Len(lists[c]) \in Nat
      /\ DOMAIN lists[c] = 1 .. Len(lists[c])
      /\ DOMAIN Append(lists[c], p) = 1 .. Len(lists[c]) + 1
      /\ \A i \in 1 .. Len(lists[c]) : Append(lists[c], p)[i] = lists[c][i]
      /\ Append(lists[c], p)[Len(lists[c]) + 1] = p
  BY <1>1
<1>3. /\ new[c] = Append(lists[c], p)
      /\ \A d \in Cores : d # c => new[d] = lists[d]
  BY <1>1
<1> HIDE DEF new
<1> SUFFICES ASSUME NEW d \in Cores, NEW i \in DOMAIN new[d]
             PROVE  Affinity[new[d][i]] = d
  BY DEF AtHome, new
<1>4. CASE d # c
  BY <1>4, <1>3 DEF AtHome
<1>5. CASE d = c /\ i \in 1 .. Len(lists[c])
  BY <1>5, <1>2, <1>3 DEF AtHome
<1>6. CASE d = c /\ i = Len(lists[c]) + 1
  BY <1>6, <1>2, <1>3
<1> QED
  BY <1>4, <1>5, <1>6, <1>2, <1>3

(* And when one leaves.                                                    *)
LEMMA TailHome ==
  ASSUME NEW lists, Family(lists, Cores), AtHome(lists), NEW c \in Cores, lists[c] # <<>>
  PROVE  /\ AtHome([lists EXCEPT ![c] = Tail(@)])
         /\ Affinity[Head(lists[c])] = c
<1>1. lists \in [Cores -> Seq(Procs)]
  BY DEF Family
<1>2. /\ Len(lists[c]) \in Nat \ {0}
      /\ Head(lists[c]) = lists[c][1]
      /\ DOMAIN lists[c] = 1 .. Len(lists[c])
      /\ DOMAIN Tail(lists[c]) = 1 .. Len(lists[c]) - 1
      /\ \A i \in 1 .. Len(lists[c]) - 1 : Tail(lists[c])[i] = lists[c][i + 1]
  BY <1>1
<1>3. \A i \in DOMAIN Tail(lists[c]) : Affinity[Tail(lists[c])[i]] = c
  BY <1>2 DEF AtHome
<1> QED
  BY <1>1, <1>2, <1>3 DEF AtHome

(* The core gets the process at the head of its list, or none.             *)
LEMMA ReschedMoves ==
  ASSUME NEW c \in Cores, NEW S, "PRCURR" \in S, "PRREADY" \in S,
         SchedOK(S), Goes(c) => ~In(currpid[c], readylist), Resched(c)
  PROVE  /\ SchedOK(S)'
         /\ currpid'[c] \in Procs \cup {NullProc}
         /\ currpid'[c] # NullProc => Affinity[currpid'[c]] = c
         /\ \A q \in Procs : Running(q)' <=> IF Affinity[q] = c THEN q = currpid'[c] ELSE Running(q)
         /\ \A q \in Procs : In(q, readylist') <=>
              /\ In(q, readylist) \/ (Goes(c) /\ q = currpid[c])
              /\ q # currpid'[c]
         /\ \/ currpid'[c] = NullProc
            \/ In(currpid'[c], readylist)
            \/ Goes(c) /\ currpid'[c] = currpid[c]
         /\ \A q \in Procs : state'[q] =
              IF q = currpid'[c] THEN "PRCURR"
              ELSE IF Goes(c) /\ q = currpid[c] THEN "PRREADY" ELSE state[q]
<1> DEFINE goes == Goes(c)
           old == currpid[c]
           ext == IF goes THEN [readylist EXCEPT ![c] = Append(@, old)] ELSE readylist
<1>0. /\ readylist \in [Cores -> Seq(Procs)] /\ Family(readylist, Cores)
      /\ Apart(readylist) /\ AtHome(readylist) /\ OwnRuns
      /\ currpid \in [Cores -> Procs \cup {NullProc}] /\ state \in [Procs -> S]
      /\ torn' \in BOOLEAN
  BY DEF Family, SchedOK, SchedTypeOK, Resched
<1> USE <1>0
<1>1. goes => old \in Procs /\ Affinity[old] = c
  BY DEF Goes, OwnRuns
<1>2. /\ Family(ext, Cores) /\ Apart(ext) /\ AtHome(ext)
      /\ \A q : In(q, ext) <=> In(q, readylist) \/ (goes /\ q = old)
  <2>1. CASE goes
    <3>1. Family(ext, Cores) /\ \A q : In(q, ext) <=> In(q, readylist) \/ q = old
      BY <2>1, <1>1, AppendIn
    <3>2. Apart(ext)
      BY <2>1, <1>1, AppendApart
    <3>3. AtHome(ext)
      BY <2>1, <1>1, AppendHome
    <3> QED
      BY <2>1, <3>1, <3>2, <3>3
  <2>2. CASE ~goes
    BY <2>2
  <2> QED
    BY <2>1, <2>2
<1>3. ext[c] = IF goes THEN Append(readylist[c], old) ELSE readylist[c]
  BY <1>0
<1>4. /\ currpid' = [currpid EXCEPT ![c] = IF ext[c] = <<>> THEN NullProc ELSE Head(ext[c])]
      /\ readylist' = [readylist EXCEPT ![c] = IF ext[c] = <<>> THEN ext[c] ELSE Tail(ext[c])]
      /\ state' = [q \in Procs |-> IF q = currpid'[c] THEN "PRCURR"
                                   ELSE IF goes /\ q = old THEN "PRREADY" ELSE state[q]]
  <2> DEFINE list == IF goes THEN Append(readylist[c], old) ELSE readylist[c]
             new == IF list = <<>> THEN NullProc ELSE Head(list)
  <2>1. /\ currpid' = [currpid EXCEPT ![c] = new]
        /\ readylist' = [readylist EXCEPT ![c] = IF list = <<>> THEN list ELSE Tail(list)]
        /\ state' = [q \in Procs |-> IF q = new THEN "PRCURR"
                                     ELSE IF goes /\ q = old THEN "PRREADY" ELSE state[q]]
    BY DEF Resched, Goes
  <2>2. currpid'[c] = new
    BY <2>1
  <2>3. list = ext[c]
    BY <1>3
  <2> HIDE DEF list, ext, goes
  <2> QED
    BY <2>1, <2>2, <2>3
<1>5. readylist' = IF ext[c] = <<>> THEN ext ELSE [ext EXCEPT ![c] = Tail(@)]
  BY <1>0, <1>4
<1> HIDE DEF ext, goes
<1>6. currpid' \in [Cores -> Procs \cup {NullProc}] /\ OwnRuns'
  <2>1. ext[c] # <<>> => Head(ext[c]) \in Procs /\ Affinity[Head(ext[c])] = c
    BY <1>2, TailIn, TailHome
  <2> QED
    BY <2>1, <1>4 DEF OwnRuns
<1>9. /\ currpid'[c] \in Procs \cup {NullProc}
      /\ currpid'[c] # NullProc => Affinity[currpid'[c]] = c
      /\ \A q \in Procs : Running(q)' <=> IF Affinity[q] = c THEN q = currpid'[c] ELSE Running(q)
  BY <1>4, <1>6 DEF Running, OwnRuns
<1>7. CASE ext[c] = <<>>
  <2>1. currpid'[c] = NullProc /\ readylist' = ext
    BY <1>4, <1>5, <1>7
  <2>2. Family(readylist', Cores) /\ Apart(readylist') /\ AtHome(readylist')
    BY <2>1, <1>2
  <2>3. \A q \in Procs : q # NullProc
    BY ReadyListsAssumption
  <2>4. state' \in [Procs -> S]
    BY <1>4
  <2>5. SchedOK(S)'
    BY <1>6, <2>2, <2>4 DEF SchedOK, SchedTypeOK, Family, AtHome, Apart
  <2> QED
    BY <2>1, <2>3, <2>5, <1>2, <1>4, <1>9 DEF goes
<1>8. CASE ext[c] # <<>>
  <2>1. currpid'[c] = Head(ext[c]) /\ readylist' = [ext EXCEPT ![c] = Tail(@)]
    BY <1>4, <1>5, <1>8
  <2>2. Family(readylist', Cores) /\ Apart(readylist') /\ AtHome(readylist')
    BY <2>1, <1>2, <1>8, TailIn, TailHome
  <2>3. /\ In(Head(ext[c]), ext)
        /\ \A q : In(q, readylist') <=> In(q, ext) /\ q # Head(ext[c])
    BY <2>1, <1>2, <1>8, TailIn
  <2>4. state' \in [Procs -> S]
    BY <1>4
  <2>5. SchedOK(S)'
    BY <1>6, <2>2, <2>4 DEF SchedOK, SchedTypeOK, Family, AtHome, Apart
  <2> QED
    BY <2>1, <2>3, <2>5, <1>2, <1>4, <1>9 DEF goes
<1> QED
  BY <1>7, <1>8

(* ready marks its process ...                                             *)
LEMMA MarkMoves ==
  ASSUME NEW S, "PRREADY" \in S, SchedOK(S), NEW pid \in Procs, MarkReady(pid)
  PROVE  /\ SchedOK(S)' /\ currpid' = currpid /\ readylist' = readylist
         /\ \A q \in Procs : state'[q] = IF q = pid THEN "PRREADY" ELSE state[q]
BY DEF MarkReady, SchedOK, SchedTypeOK, Family, AtHome, Apart, OwnRuns

(* ... and puts it on the list of its core.                                *)
LEMMA ListMoves ==
  ASSUME NEW S, SchedOK(S), NEW pid \in Procs, ~In(pid, readylist), ListReady(pid)
  PROVE  /\ SchedOK(S)' /\ currpid' = currpid /\ state' = state
         /\ \A q : In(q, readylist') <=> In(q, readylist) \/ q = pid
<1> DEFINE new == [readylist EXCEPT ![Affinity[pid]] = Append(@, pid)]
<1>1. Family(readylist, Cores) /\ Affinity[pid] \in Cores
  BY ReadyListsAssumption DEF SchedOK, SchedTypeOK, Family
<1>2. Family(new, Cores) /\ \A q : In(q, new) <=> In(q, readylist) \/ q = pid
  BY <1>1, AppendIn
<1>3. Apart(new)
  BY <1>1, AppendApart DEF SchedOK
<1>4. AtHome(new)
  BY <1>1, AppendHome DEF SchedOK
<1>5. readylist' = new /\ UNCHANGED <<state, currpid, torn>>
  BY DEF ListReady
<1> HIDE DEF new
<1> QED
  BY <1>2, <1>3, <1>4, <1>5 DEF SchedOK, SchedTypeOK, Family, AtHome, Apart, OwnRuns

(* The initial state.                                                      *)
LEMMA SchedStart ==
  ASSUME NEW S, "PRREADY" \in S, SchedInit
  PROVE  SchedOK(S) /\ \A q \in Procs : In(q, readylist) /\ ~Running(q)
<1> DEFINE Own(c) == {p \in Procs : Affinity[p] = c}
<1>1. ASSUME NEW c \in Cores
      PROVE  /\ SetToSeq(Own(c)) \in Seq(Own(c))
             /\ \A i, j \in DOMAIN SetToSeq(Own(c)) :
                   SetToSeq(Own(c))[i] = SetToSeq(Own(c))[j] => i = j
             /\ \A q \in Own(c) : \E i \in DOMAIN SetToSeq(Own(c)) : SetToSeq(Own(c))[i] = q
  <2> DEFINE T == Own(c)
             n == Cardinality(T)
  <2>1. IsFiniteSet(T)
    <3>1. T \in SUBSET Procs
      OBVIOUS
    <3> QED
      BY <3>1, FS_Subset, ReadyListsAssumption
  <2> HIDE DEF T
  <2>2. n \in Nat /\ ExistsBijection(1 .. n, T)
    BY <2>1, FS_CardinalityType
  <2>3. PICK f \in Bijection(1 .. n, T) : TRUE
    BY <2>2 DEF ExistsBijection
  <2>4. f \in [1 .. n -> T] /\ IsInjective(f)
    BY <2>3 DEF Bijection, Injection, IsInjective
  <2>5. SetToSeq(T) \in [1 .. n -> T] /\ IsInjective(SetToSeq(T))
    BY <2>4 DEF SetToSeq
  <2>6. SetToSeq(T) \in Seq(T) /\ DOMAIN SetToSeq(T) = 1 .. n
    BY <2>5, <2>2
  <2>7. SetToSeq(T) \in Surjection(1 .. n, T)
    <3>1. SetToSeq(T) \in Injection(1 .. n, T)
      BY <2>5 DEF Injection, IsInjective
    <3>2. IsFiniteSet(1 .. n) /\ Cardinality(1 .. n) = n
      BY <2>2, FS_Interval
    <3> QED
      BY <3>1, <3>2, <2>1, FS_Injection
  <2>8. \A q \in T : \E i \in DOMAIN SetToSeq(T) : SetToSeq(T)[i] = q
    BY <2>6, <2>7 DEF Surjection
  <2> QED
    BY <2>5, <2>6, <2>8 DEF T, IsInjective
<1>2. readylist \in [Cores -> Seq(Procs)]
  <2>1. \A c \in Cores : SetToSeq(Own(c)) \in Seq(Procs)
    <3> TAKE c \in Cores
    <3>1. Seq(Own(c)) \subseteq Seq(Procs)
      OBVIOUS
    <3> QED
      BY <3>1, <1>1
  <2> QED
    BY <2>1 DEF SchedInit
<1>3. \A c \in Cores : readylist[c] = SetToSeq(Own(c))
  BY DEF SchedInit
<1> HIDE DEF Own
<1>4. \A c \in Cores : \A i \in DOMAIN readylist[c] : Affinity[readylist[c][i]] = c
  <2> TAKE c \in Cores
  <2> TAKE i \in DOMAIN readylist[c]
  <2>1. readylist[c][i] \in Own(c)
    BY <1>1, <1>3, ElementOfSeq
  <2> QED
    BY <2>1 DEF Own
<1>5. Apart(readylist)
  BY <1>1, <1>2, <1>3, <1>4 DEF Apart
<1>6. \A q \in Procs : In(q, readylist)
  <2> TAKE q \in Procs
  <2>1. Affinity[q] \in Cores /\ q \in Own(Affinity[q])
    BY ReadyListsAssumption DEF Own
  <2> QED
    BY <2>1, <1>1, <1>2, <1>3 DEF In
<1>7. /\ state \in [Procs -> S] /\ currpid \in [Cores -> Procs \cup {NullProc}] /\ OwnRuns
      /\ torn \in BOOLEAN
  BY DEF SchedInit, OwnRuns
<1>8. \A q \in Procs : ~Running(q)
  BY ReadyListsAssumption DEF SchedInit, Running
<1> QED
  BY <1>2, <1>4, <1>5, <1>6, <1>7, <1>8 DEF SchedOK, SchedTypeOK, AtHome

-----------------------------------------------------------------------------
(* Ready processes are listed *)

(* The ready lists hold the ready processes but for those marked, which a  *)
(* ready is about to enqueue, and a current process runs.                  *)
Listing(marked) ==
  /\ \A q \in Procs : In(q, readylist) <=> state[q] = "PRREADY" /\ q \notin marked
  /\ \A q \in marked : q \in Procs /\ state[q] = "PRREADY"
  /\ \A q \in Procs : state[q] = "PRCURR" => Running(q)

(* What a reschedule does to the states: processes may be preempted and    *)
(* dispatched, no more.                                                    *)
Turn ==
  /\ \A q \in Procs : \/ state'[q] = state[q]
                      \/ {state'[q], state[q]} \subseteq {"PRCURR", "PRREADY"}
  /\ \A q \in Procs : Running(q)' => state'[q] = "PRCURR" \/ (Running(q) /\ state'[q] = state[q])

(* resched: the old process goes to the list if it is still current.      *)
LEMMA ListedResched ==
  ASSUME NEW c \in Cores, NEW S, "PRCURR" \in S, "PRREADY" \in S,
         SchedOK(S), NEW marked, Listing(marked), Resched(c)
  PROVE  /\ SchedOK(S)' /\ Listing(marked)' /\ Turn
         /\ \A q \in Procs : IF Affinity[q] = c THEN Running(q)' => state'[q] = "PRCURR"
                            ELSE state'[q] = state[q] /\ (Running(q)' <=> Running(q))
<1> DEFINE old  == currpid[c]
           new  == currpid'[c]
           goes == Goes(c)
<1>0. goes => old \in Procs /\ state[old] = "PRCURR" /\ Affinity[old] = c
  BY DEF Goes, OwnRuns, SchedOK, SchedTypeOK
<1>1. goes => ~In(old, readylist)
  BY <1>0 DEF Listing
<1>2. /\ SchedOK(S)'
      /\ new # NullProc => Affinity[new] = c /\ new \in Procs
      /\ \A q \in Procs : Running(q)' <=> IF Affinity[q] = c THEN q = new ELSE Running(q)
      /\ \A q \in Procs : In(q, readylist') <=> (In(q, readylist) \/ (goes /\ q = old)) /\ q # new
      /\ \A q \in Procs : state'[q] =
              IF q = new THEN "PRCURR" ELSE IF goes /\ q = old THEN "PRREADY" ELSE state[q]
      /\ \/ new = NullProc
         \/ In(new, readylist)
         \/ goes /\ new = old
  BY <1>1, ReschedMoves
<1>3. \A q \in Procs : state[q] = "PRCURR" /\ Affinity[q] = c => goes /\ q = old
  <2> SUFFICES ASSUME NEW q \in Procs, state[q] = "PRCURR", Affinity[q] = c PROVE goes /\ q = old
    OBVIOUS
  <2>1. old = q
    BY DEF Listing, Running
  <2>2. q # NullProc
    BY ReadyListsAssumption
  <2> QED
    BY <2>1, <2>2 DEF Goes
<1>4. \A q \in Procs : Affinity[q] # c => q # new /\ ~(goes /\ q = old)
  BY <1>0, <1>2, ReadyListsAssumption
<1> HIDE DEF old, new, goes
<1>5. Listing(marked)'
  <2>0. \A q \in marked : q \in Procs /\ q # new /\ state'[q] = "PRREADY"
    <3> SUFFICES ASSUME NEW q \in marked PROVE q \in Procs /\ q # new /\ state'[q] = "PRREADY"
      OBVIOUS
    <3>1. q \in Procs /\ state[q] = "PRREADY" /\ ~In(q, readylist)
      BY DEF Listing
    <3>2. q # new
      BY <3>1, <1>0, <1>2, ReadyListsAssumption
    <3> QED
      BY <3>1, <3>2, <1>0, <1>2
  <2>1. ASSUME NEW q \in Procs PROVE In(q, readylist') <=> state'[q] = "PRREADY" /\ q \notin marked
    BY <2>0, <1>0, <1>2 DEF Listing
  <2>2. ASSUME NEW q \in Procs, state'[q] = "PRCURR" PROVE Running(q)'
    <3>1. CASE q = new
      <4>1. Affinity[q] = c
        BY <1>2, <3>1, ReadyListsAssumption
      <4> QED
        BY <4>1, <1>2, <3>1
    <3>2. CASE q # new
      <4>1. state[q] = "PRCURR" /\ Affinity[q] # c
        BY <2>2, <3>2, <1>2, <1>3
      <4> QED
        BY <4>1, <1>2 DEF Listing
    <3> QED
      BY <3>1, <3>2
  <2> QED
    BY <2>0, <2>1, <2>2 DEF Listing
<1>6. Turn
  <2>1. ASSUME NEW q \in Procs
        PROVE  \/ state'[q] = state[q]
               \/ {state'[q], state[q]} \subseteq {"PRCURR", "PRREADY"}
    <3>1. CASE q = new
      <4>1. q # NullProc
        BY ReadyListsAssumption
      <4>2. state[q] \in {"PRCURR", "PRREADY"}
        BY <1>0, <1>2, <3>1, <4>1 DEF Listing
      <4> QED
        BY <4>2, <1>2, <3>1
    <3>2. CASE q # new
      BY <1>0, <1>2, <3>2
    <3> QED
      BY <3>1, <3>2
  <2>2. ASSUME NEW q \in Procs, Running(q)'
        PROVE  state'[q] = "PRCURR" \/ (Running(q) /\ state'[q] = state[q])
    BY <2>2, <1>2, <1>4
  <2> QED
    BY <2>1, <2>2 DEF Turn
<1> QED
  BY <1>2, <1>4, <1>5, <1>6

(* ready marks a process that was neither ready nor current ...            *)
LEMMA ListedMark ==
  ASSUME NEW S, "PRREADY" \in S, SchedOK(S), NEW marked, Listing(marked),
         NEW pid \in Procs, state[pid] \notin {"PRCURR", "PRREADY"}, MarkReady(pid)
  PROVE  /\ SchedOK(S)' /\ Listing(marked \cup {pid})'
         /\ \A q \in Procs : Running(q)' <=> Running(q)
         /\ \A q \in Procs : state'[q] = IF q = pid THEN "PRREADY" ELSE state[q]
<1>1. /\ SchedOK(S)' /\ currpid' = currpid /\ readylist' = readylist
      /\ \A q \in Procs : state'[q] = IF q = pid THEN "PRREADY" ELSE state[q]
  BY MarkMoves
<1> QED
  BY <1>1 DEF Listing, Running

(* ... and enqueues it.                                                    *)
LEMMA ListedEnlist ==
  ASSUME NEW S, SchedOK(S), NEW marked, Listing(marked),
         NEW pid \in Procs, pid \in marked, ListReady(pid)
  PROVE  /\ SchedOK(S)' /\ Listing(marked \ {pid})' /\ state' = state
         /\ \A q \in Procs : Running(q)' <=> Running(q)
<1>1. ~In(pid, readylist) /\ state[pid] = "PRREADY"
  BY DEF Listing
<1>2. /\ SchedOK(S)' /\ currpid' = currpid /\ state' = state
      /\ \A q : In(q, readylist') <=> In(q, readylist) \/ q = pid
  BY <1>1, ListMoves
<1> QED
  BY <1>1, <1>2 DEF Listing, Running
=============================================================================
