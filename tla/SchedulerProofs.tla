--------------------------- MODULE SchedulerProofs ---------------------------
(***************************************************************************)
(* Theorems about Scheduler, for every number of cores and process slots   *)
(* and every quantum: whatever the program, the variables keep their       *)
(* types.                                                                  *)
(* For the programs Separated describes, until two cores meet in a ready   *)
(* list, which has no lock: every core can fall back on its null process;  *)
(* a process is in one place only, and its place agrees with its state;    *)
(* none that is ready is lost; nothing writes the saved context of a       *)
(* process that waits; and, if processes kill themselves only, numproc     *)
(* counts them.                                                            *)
(***************************************************************************)
EXTENDS Scheduler, FiniteSetTheorems, SequenceTheorems, TLAPS

Lists == [Priorities -> Seq(Procs)]

(* What the assumption on the constants says.                              *)
LEMMA ConstantFacts ==
  /\ NCORES \in Nat /\ NCORES > 0
  /\ NPROC \in Nat /\ NPROC > NCORES
  /\ QUANTUM \in Nat /\ QUANTUM > 0
  /\ NullProcs \subseteq Procs
  /\ Cores = NullProcs
  /\ Main \in Procs \ NullProcs
  /\ Priorities = {0, 1, 2}
  /\ ChildPriorities \subseteq Priorities
  /\ EMPTY \notin Procs /\ SYSERR \notin Procs
BY SchedulerAssumption DEF NullProcs, Procs, Cores, Main, Priorities, PRIORITY_LOW,
   PRIORITY_HIGH, EMPTY, SYSERR

-----------------------------------------------------------------------------
(* The operators on lists stay within the process table. *)

LEMMA UnlinkType ==
  ASSUME NEW S, NEW list \in Seq(S), NEW pid
  PROVE  Unlink(list, pid) \in Seq(S)
<1>1. CASE Contains(list, pid)
  <2> DEFINE i == CHOOSE j \in 1 .. Len(list) : list[j] = pid
  <2>1. i \in 1 .. Len(list)
    BY <1>1 DEF Contains
  <2> HIDE DEF i
  <2>5. Len(list) \in Nat /\ \A j \in 1 .. Len(list) : list[j] \in S
    BY LenProperties, ElementOfSeq
  <2>2. SubSeq(list, 1, i - 1) \in Seq(S)
    <3>1. i - 1 \in Int /\ 1 \in Int /\ \A j \in 1 .. i - 1 : list[j] \in S
      BY <2>1, <2>5
    <3> QED
      BY <3>1, SubSeqProperties
  <2>3. SubSeq(list, i + 1, Len(list)) \in Seq(S)
    <3>1. i + 1 \in Int /\ Len(list) \in Int /\ \A j \in i + 1 .. Len(list) : list[j] \in S
      BY <2>1, <2>5
    <3> QED
      BY <3>1, SubSeqProperties
  <2>4. RemoveAt(list, i) \in Seq(S)
    BY <2>2, <2>3 DEF RemoveAt
  <2> QED
    BY <1>1, <2>4 DEF Unlink, i
<1>2. CASE ~Contains(list, pid)
  BY <1>2 DEF Unlink
<1> QED
  BY <1>1, <1>2

LEMMA PromoteType ==
  ASSUME NEW lists \in Lists, NEW from \in Priorities, NEW to \in Priorities
  PROVE  Promote(lists, from, to) \in Lists
<1>1. CASE lists[from] = <<>>
  BY <1>1 DEF Promote
<1>2. CASE lists[from] # <<>>
  <2> DEFINE rest == [lists EXCEPT ![from] = Tail(@)]
  <2>1. Head(lists[from]) \in Procs /\ Tail(lists[from]) \in Seq(Procs)
    BY <1>2 DEF Lists
  <2>2. rest \in Lists
    BY <2>1 DEF Lists
  <2>3. Append(rest[to], Head(lists[from])) \in Seq(Procs)
    BY <2>1, <2>2 DEF Lists
  <2>4. Enqueue(rest, to, Head(lists[from])) \in Lists
    BY <2>2, <2>3 DEF Enqueue, Lists
  <2> QED
    BY <1>2, <2>4 DEF Promote
<1> QED
  BY <1>1, <1>2

LEMMA AgedType ==
  ASSUME TypeOK, NEW c \in Cores
  PROVE  AgedLists(c) \in Lists
<1>1. readylist[c] \in Lists
  BY DEF TypeOK, Lists
<1>2. PRIORITY_LOW \in Priorities /\ PRIORITY_MED \in Priorities /\ PRIORITY_HIGH \in Priorities
  BY DEF PRIORITY_LOW, PRIORITY_MED, PRIORITY_HIGH, Priorities
<1> DEFINE once == IF MediumDue(c)
                   THEN Promote(readylist[c], PRIORITY_MED, PRIORITY_HIGH)
                   ELSE readylist[c]
<1>3. once \in Lists
  BY <1>1, <1>2, PromoteType
<1>4. Promote(once, PRIORITY_LOW, PRIORITY_MED) \in Lists
  BY <1>2, <1>3, PromoteType
<1> QED
  BY <1>3, <1>4 DEF AgedLists

LEMMA RequeuedType ==
  ASSUME TypeOK, NEW c \in Cores, currpid[c] \in Procs
  PROVE  RequeuedLists(c) \in Lists
<1>1. AgedLists(c) \in Lists
  BY AgedType
<1>2. priority[currpid[c]] \in Priorities
  BY DEF TypeOK
<1> QED
  BY <1>1, <1>2 DEF RequeuedLists, Lists

LEMMA HighestType ==
  ASSUME NEW lists
  PROVE  Highest(lists) \in Priorities
BY DEF Highest, Priorities, PRIORITY_LOW, PRIORITY_MED, PRIORITY_HIGH

LEMMA QuantumTypes ==
  ASSUME TypeOK, NEW c \in Cores
  PROVE  /\ ~MediumDue(c) => promote_medium[c] - 1 \in 1 .. QUANTUM
         /\ LowLeft(c) # 0 => LowLeft(c) \in 1 .. QUANTUM
         /\ QUANTUM \in 1 .. QUANTUM
BY ConstantFacts DEF TypeOK, MediumDue, LowLeft
-----------------------------------------------------------------------------
(* resched keeps every variable in its range. *)

LEMMA ReschedType ==
  ASSUME TypeOK, NEW c \in Cores, currpid[c] \in Procs,
         NEW saved \in Contexts, Resched(c, saved)
  PROVE  TypeOK'
<1> DEFINE old    == currpid[c]
           lists  == RequeuedLists(c)
           q      == Highest(lists)
           new    == IF lists[q] = <<>> THEN EMPTY ELSE Head(lists[q])
           parked == [state EXCEPT ![old] = IF @ = "PRCURR" THEN "PRREADY" ELSE @]
           kept   == [regs EXCEPT ![old] = saved]
<1>1. lists \in Lists /\ q \in Priorities
  BY RequeuedType, HighestType
<1>2. parked \in [Procs -> States] /\ kept \in [Procs -> Contexts]
  BY DEF TypeOK, States
<1>3. new \in Procs \cup {EMPTY}
  BY <1>1 DEF Lists
<1>4. new # EMPTY => new \in Procs /\ Tail(lists[q]) \in Seq(Procs)
  BY <1>1, ConstantFacts DEF Lists
<1>5. currpid' \in [Cores -> Procs \cup {EMPTY}]
  BY <1>3 DEF Resched, TypeOK
<1>6. readylist' \in [Cores -> [Priorities -> Seq(Procs)]]
  <2>1. (IF new = EMPTY THEN lists ELSE [lists EXCEPT ![q] = Tail(@)]) \in Lists
    BY <1>1, <1>4 DEF Lists
  <2>2. readylist' = [readylist EXCEPT ![c] =
                        IF new = EMPTY THEN lists ELSE [lists EXCEPT ![q] = Tail(@)]]
    BY DEF Resched
  <2> QED
    BY <2>1, <2>2 DEF TypeOK, Lists
<1>7. state' \in [Procs -> States]
  BY <1>2, <1>4 DEF Resched, States
<1>8. regs' \in [Procs -> Contexts]
  BY <1>2 DEF Resched
<1>9. cpu' \in [Cores -> Contexts]
  BY <1>2, <1>4 DEF Resched, TypeOK
<1>10. /\ promote_medium' \in [Cores -> 1 .. QUANTUM]
       /\ promote_low' \in [Cores -> 1 .. QUANTUM]
       /\ preempt' \in [Cores -> 1 .. QUANTUM]
  BY QuantumTypes DEF Resched, TypeOK
<1> QED
  BY <1>5, <1>6, <1>7, <1>8, <1>9, <1>10 DEF Resched, TypeOK, counters

LEMMA ContextType ==
  ASSUME TypeOK, NEW c \in Cores
  PROVE  /\ cpu[c] \in Contexts
         /\ \A l \in Labels : [cpu[c] EXCEPT !.pc = l] \in Contexts
BY DEF TypeOK, Contexts

LEMMA RecordType ==
  ASSUME NEW x \in Contexts, NEW l \in Labels, NEW a \in Procs \cup {SYSERR}, NEW t \in Nat
  PROVE  /\ [x EXCEPT !.pc = l] \in Contexts
         /\ [x EXCEPT !.pc = l, !.tries = t] \in Contexts
         /\ [x EXCEPT !.pc = l, !.arg = a] \in Contexts
         /\ [x EXCEPT !.pc = l, !.arg = a, !.tries = t] \in Contexts
         /\ x.tries \in Nat
BY DEF Contexts

LEMMA GotoType ==
  ASSUME TypeOK, NEW c \in Cores, NEW l \in Labels, Goto(c, l)
  PROVE  cpu' \in [Cores -> Contexts]
BY DEF TypeOK, Goto, Contexts
-----------------------------------------------------------------------------
LEMMA InitType == Init => TypeOK
<1> SUFFICES ASSUME Init PROVE TypeOK
  OBVIOUS
<1>1. FreshContext \in Contexts /\ NullContext \in Contexts
  BY ConstantFacts DEF FreshContext, NullContext, Contexts, Labels
<1>2. readylist \in [Cores -> [Priorities -> Seq(Procs)]]
  <2>1. <<>> \in Seq(Procs) /\ <<Main>> \in Seq(Procs)
    BY ConstantFacts
  <2> QED
    BY <2>1 DEF Init
<1>6. torn \in BOOLEAN
  BY DEF Init
<1>3. PRIORITY_LOW \in Priorities
  BY ConstantFacts DEF PRIORITY_LOW
<1>4. core_affinity \in [Procs -> Cores \cup {-1}]
  BY ConstantFacts DEF Init, Cores
<1>5. 0 \in 0 .. MaxSpawn /\ QUANTUM \in 1 .. QUANTUM
  BY SchedulerAssumption
<1> QED
  BY <1>1, <1>2, <1>3, <1>4, <1>5, <1>6, ConstantFacts DEF Init, TypeOK, States

(* Every step keeps the types.                                             *)
LEMMA NextType == TypeOK /\ [Next]_vars => TypeOK'
<1> SUFFICES ASSUME TypeOK, [Next]_vars PROVE TypeOK'
  OBVIOUS
<1>1. CASE UNCHANGED vars
  BY <1>1 DEF TypeOK, vars, pcbVars, schedVars, quantums, counters
<1>2. CASE Stopped
  BY <1>1, <1>2 DEF Stopped
<1>3. CASE \E c \in Cores : Tick(c) \/ NullLoop(c) \/ KernelStep(c) \/ Program(c) \/ Meet(c)
  <2> PICK c \in Cores : Tick(c) \/ NullLoop(c) \/ KernelStep(c) \/ Program(c) \/ Meet(c)
    BY <1>3
  <2>1. CASE Tick(c)
    <3>1. CASE preempt[c] - 1 = 0
      BY <2>1, <3>1, ContextType, ReschedType DEF Tick
    <3>2. CASE preempt[c] - 1 # 0
      <4>1. preempt[c] - 1 \in 1 .. QUANTUM
        BY <3>2, ConstantFacts DEF TypeOK
      <4>2. preempt' = [preempt EXCEPT ![c] = preempt[c] - 1]
        BY <2>1, <3>2 DEF Tick
      <4>3. preempt' \in [Cores -> 1 .. QUANTUM]
        BY <4>1, <4>2 DEF TypeOK
      <4> QED
        BY <2>1, <3>2, <4>3 DEF Tick, TypeOK, pcbVars, counters
    <3> QED
      BY <3>1, <3>2
  <2>2. CASE NullLoop(c)
    BY <2>2, ContextType, ReschedType DEF NullLoop, At
  <2>3. CASE Yield(c)
    BY <2>3, ContextType, ReschedType DEF Yield, At
  <2>4. CASE Enable(c)
    <3>1. cpu' \in [Cores -> Contexts]
      BY <2>4 DEF Enable, TypeOK, Contexts
    <3> QED
      BY <2>4, <3>1 DEF Enable, TypeOK, pcbVars, schedVars, quantums, counters
  <2>5. CASE Create(c)
    <3>1. cpu' \in [Cores -> Contexts]
      <4>1. [cpu[c] EXCEPT !.pc = "newpid_next", !.tries = 0] \in Contexts
        BY RecordType, Zenon DEF TypeOK, Labels
      <4> QED
        BY <2>5, <4>1 DEF Create, TypeOK
    <3>2. spawned' \in 0 .. MaxSpawn
      BY <2>5, SchedulerAssumption DEF Create, TypeOK
    <3> QED
      BY <2>5, <3>1, <3>2 DEF Create, TypeOK, pcbVars, schedVars, quantums
  <2>6. CASE NewpidNext(c)
    <3>1. nextpid' \in Procs
      <4>1. nextpid' = (nextpid + 1) % NPROC
        BY <2>6 DEF NewpidNext
      <4>2. nextpid \in Int /\ NPROC \in Nat /\ NPROC > 0
        BY ConstantFacts DEF TypeOK, Procs
      <4>3. (nextpid + 1) % NPROC \in 0 .. NPROC - 1
        BY <4>2
      <4> QED
        BY <4>1, <4>3 DEF Procs
    <3>2. cpu' \in [Cores -> Contexts]
      <4>1. cpu[c] \in Contexts /\ cpu[c].tries + 1 \in Nat
        BY DEF TypeOK, Contexts
      <4>2. [cpu[c] EXCEPT !.pc = "newpid_check", !.tries = cpu[c].tries + 1] \in Contexts
        BY <4>1, RecordType, Zenon DEF TypeOK, Labels
      <4>3. cpu' = [cpu EXCEPT ![c] =
                      [cpu[c] EXCEPT !.pc = "newpid_check", !.tries = cpu[c].tries + 1]]
        BY <2>6 DEF NewpidNext
      <4> QED
        BY <4>2, <4>3 DEF TypeOK
    <3> QED
      BY <2>6, <3>1, <3>2 DEF NewpidNext, TypeOK, pcbVars, schedVars, quantums
  <2>7. CASE NewpidCheck(c)
    <3>1. cpu' \in [Cores -> Contexts]
      <4>1. /\ [cpu[c] EXCEPT !.pc = "newpid_return", !.arg = nextpid, !.tries = 0] \in Contexts
            /\ [cpu[c] EXCEPT !.pc = "newpid_next"] \in Contexts
            /\ [cpu[c] EXCEPT !.pc = "user", !.arg = SYSERR, !.tries = 0] \in Contexts
        BY RecordType, Zenon DEF TypeOK, Labels
      <4> QED
        BY <2>7, <4>1 DEF NewpidCheck, TypeOK
    <3> QED
      BY <2>7, <3>1 DEF NewpidCheck, TypeOK, pcbVars, schedVars, quantums, counters
  <2>8. CASE CreateCount(c)
    <3>1. cpu' \in [Cores -> Contexts]
      BY <2>8, GotoType DEF CreateCount, Labels
    <3>2. numproc' \in Int
      BY <2>8 DEF CreateCount, TypeOK
    <3> QED
      BY <2>8, <3>1, <3>2 DEF CreateCount, TypeOK, pcbVars, schedVars, quantums
  <2>9. CASE CreateFill(c)
    <3>1. cpu' \in [Cores -> Contexts]
      BY <2>9, GotoType DEF CreateFill, Labels
    <3>2. FreshContext \in Contexts
      BY ConstantFacts DEF FreshContext, Contexts, Labels
    <3>3. regs' \in [Procs -> Contexts]
      BY <2>9, <3>2 DEF CreateFill, TypeOK
    <3>4. core_affinity' \in [Procs -> Cores \cup {-1}] /\ priority' \in [Procs -> Priorities]
      <4>1. -1 \in Cores \cup {-1}
        OBVIOUS
      <4>2. core_affinity' = [core_affinity EXCEPT ![cpu[c].arg] = -1]
        BY <2>9 DEF CreateFill
      <4>3. PICK prio \in ChildPriorities : priority' = [priority EXCEPT ![cpu[c].arg] = prio]
        BY <2>9 DEF CreateFill
      <4> QED
        BY <4>1, <4>2, <4>3, ConstantFacts DEF TypeOK
    <3> QED
      BY <2>9, <3>1, <3>3, <3>4 DEF CreateFill, TypeOK, schedVars, quantums, counters
  <2>10. CASE ReadyMark(c)
    <3>1. cpu' \in [Cores -> Contexts]
      BY <2>10, GotoType DEF ReadyMark, Labels
    <3>2. state' \in [Procs -> States]
      BY <2>10 DEF ReadyMark, TypeOK, States
    <3>3. core_affinity' \in [Procs -> Cores \cup {-1}]
      BY <2>10 DEF ReadyMark, TypeOK
    <3> QED
      BY <2>10, <3>1, <3>3, <3>2 DEF ReadyMark, TypeOK, schedVars, quantums, counters
  <2>11. CASE ReadyEnqueue(c)
    <3> DEFINE pid  == cpu[c].arg
               core == core_affinity[pid]
    <3>1. cpu' \in [Cores -> Contexts]
      BY <2>11, GotoType DEF ReadyEnqueue, Labels
    <3>2. \A d \in Cores : Enqueue(readylist[d], priority[pid], pid) \in [Priorities -> Seq(Procs)]
      <4> TAKE d \in Cores
      <4>1. CASE isbadpid(pid)
        BY <4>1 DEF Enqueue, TypeOK
      <4>2. CASE ~isbadpid(pid)
        <5>1. pid \in Procs /\ priority[pid] \in Priorities
          BY <4>2 DEF isbadpid, TypeOK
        <5>2. Append(readylist[d][priority[pid]], pid) \in Seq(Procs)
          BY <5>1 DEF TypeOK
        <5> QED
          BY <4>2, <5>1, <5>2 DEF Enqueue, TypeOK
      <4> QED
        BY <4>1, <4>2
    <3>3. readylist' \in [Cores -> [Priorities -> Seq(Procs)]]
      BY <2>11, <3>2 DEF ReadyEnqueue, TypeOK
    <3> QED
      BY <2>11, <3>1, <3>3 DEF ReadyEnqueue, TypeOK, pcbVars, quantums, counters
  <2>12. CASE ReadyResched(c)
    BY <2>12, ContextType, ReschedType DEF ReadyResched, At, Labels
  <2>13. ASSUME NEW pid \in Procs, Kill(c, pid) PROVE TypeOK'
    <3>1. cpu' \in [Cores -> Contexts]
      <4>1. [cpu[c] EXCEPT !.pc = "kill_count", !.arg = pid] \in Contexts
        BY RecordType, Zenon DEF TypeOK, Labels
      <4> QED
        BY <2>13, <4>1 DEF Kill, TypeOK
    <3> QED
      BY <2>13, <3>1 DEF Kill, TypeOK, pcbVars, schedVars, quantums, counters
  <2>14. CASE KillCount(c)
    <3>1. cpu' \in [Cores -> Contexts]
      BY <2>14, GotoType DEF KillCount, Labels
    <3>2. numproc' \in Int
      BY <2>14 DEF KillCount, TypeOK
    <3> QED
      BY <2>14, <3>1, <3>2 DEF KillCount, TypeOK, pcbVars, schedVars, quantums
  <2>15. CASE KillSwitch(c)
    <3>1. cpu' \in [Cores -> Contexts]
      BY <2>15, GotoType DEF KillSwitch, Labels
    <3>2. state' \in [Procs -> States]
      BY <2>15 DEF KillSwitch, TypeOK, States
    <3> QED
      BY <2>15, <3>1, <3>2 DEF KillSwitch, TypeOK, schedVars, quantums, counters
  <2>16. CASE KillResched(c)
    BY <2>16, ContextType, ReschedType DEF KillResched, At, Labels
  <2>17. CASE KillRemove(c)
    <3>1. cpu' \in [Cores -> Contexts]
      BY <2>17, GotoType DEF KillRemove, Labels
    <3>2. readylist' \in [Cores -> [Priorities -> Seq(Procs)]]
      BY <2>17, UnlinkType DEF KillRemove, TypeOK
    <3> QED
      BY <2>17, <3>1, <3>2 DEF KillRemove, TypeOK, pcbVars, quantums, counters
  <2>18. CASE KillClear(c)
    <3>1. cpu' \in [Cores -> Contexts]
      BY <2>18, GotoType DEF KillClear, Labels
    <3>2. state' \in [Procs -> States]
      BY <2>18 DEF KillClear, TypeOK, States
    <3> QED
      BY <2>18, <3>1, <3>2 DEF KillClear, TypeOK, schedVars, quantums, counters
  <2>19. CASE NewpidReturn(c)
    <3>1. cpu' \in [Cores -> Contexts]
      <4>1. PICK pid \in {cpu[c].arg, nextpid} :
              cpu' = [cpu EXCEPT ![c] = [@ EXCEPT !.pc = "create_count", !.arg = pid]]
        BY <2>19 DEF NewpidReturn
      <4>2. pid \in Procs \cup {SYSERR}
        BY ContextType DEF Contexts, TypeOK
      <4>3. [cpu[c] EXCEPT !.pc = "create_count", !.arg = pid] \in Contexts
        BY <4>2, RecordType, Zenon DEF TypeOK, Labels
      <4> QED
        BY <4>1, <4>3 DEF TypeOK
    <3> QED
      BY <2>19, <3>1 DEF NewpidReturn, TypeOK, pcbVars, schedVars, quantums, counters
  <2>20. CASE CreateSuspend(c)
    <3>1. cpu' \in [Cores -> Contexts]
      BY <2>20, GotoType DEF CreateSuspend, Labels
    <3>2. state' \in [Procs -> States]
      BY <2>20 DEF CreateSuspend, TypeOK, States
    <3> QED
      BY <2>20, <3>1, <3>2 DEF CreateSuspend, TypeOK, schedVars, quantums, counters
  <2>21. CASE Meet(c)
    BY <2>21 DEF Meet, TypeOK, pcbVars, quantums, counters
  <2> QED
    BY <2>1, <2>2, <2>3, <2>4, <2>5, <2>6, <2>7, <2>8, <2>9, <2>10, <2>11, <2>12, <2>13,
       <2>14, <2>15, <2>16, <2>17, <2>18, <2>19, <2>20, <2>21 DEF KernelStep, Program
<1> QED
  BY <1>1, <1>2, <1>3 DEF Next

(* No kernel call, whatever it is interrupted by, takes a variable out of  *)
(* its range.                                                              *)
THEOREM TypeCorrect == Spec => []TypeOK
<1>1. Init => TypeOK
  BY InitType
<1>2. TypeOK /\ [Next]_vars => TypeOK'
  BY NextType
<1> QED
  BY <1>1, <1>2, PTL DEF Spec
-----------------------------------------------------------------------------
(* What the list operations keep and add *)

(* The members of a sequence, and of its head and tail.                    *)
LEMMA ContainsAppend ==
  ASSUME NEW S, NEW s \in Seq(S), NEW e \in S, NEW x
  PROVE  Contains(Append(s, e), x) <=> Contains(s, x) \/ x = e
<1>1. /\ Len(Append(s, e)) = Len(s) + 1
      /\ \A i \in 1 .. Len(s) : Append(s, e)[i] = s[i]
      /\ Append(s, e)[Len(s) + 1] = e
      /\ Len(s) \in Nat
  BY AppendProperties, LenProperties
<1> QED
  BY <1>1 DEF Contains

LEMMA ContainsTail ==
  ASSUME NEW S, NEW s \in Seq(S), s # <<>>, NEW x
  PROVE  Contains(s, x) <=> x = Head(s) \/ Contains(Tail(s), x)
<1>1. /\ Len(Tail(s)) = Len(s) - 1 /\ Len(s) \in Nat \ {0}
      /\ \A i \in 1 .. Len(Tail(s)) : Tail(s)[i] = s[i + 1]
      /\ Head(s) = s[1]
  BY HeadTailProperties, EmptySeq
<1>2. ASSUME Contains(s, x) PROVE x = Head(s) \/ Contains(Tail(s), x)
  <2> PICK i \in 1 .. Len(s) : s[i] = x
    BY <1>2 DEF Contains
  <2>1. i # 1 => i - 1 \in 1 .. Len(Tail(s)) /\ Tail(s)[i - 1] = x
    BY <1>1
  <2> QED
    BY <1>1, <2>1 DEF Contains
<1>3. ASSUME x = Head(s) \/ Contains(Tail(s), x) PROVE Contains(s, x)
  BY <1>1, <1>3 DEF Contains
<1> QED
  BY <1>2, <1>3

(* Unlink leaves out one position.                                         *)
LEMMA UnlinkAt ==
  ASSUME NEW S, NEW s \in Seq(S), NEW pid, Contains(s, pid)
  PROVE  \E i \in 1 .. Len(s) :
           /\ s[i] = pid
           /\ Len(Unlink(s, pid)) = Len(s) - 1
           /\ \A j \in 1 .. Len(s) - 1 : Unlink(s, pid)[j] = IF j <= i - 1 THEN s[j] ELSE s[j + 1]
<1> DEFINE i     == CHOOSE j \in 1 .. Len(s) : s[j] = pid
           front == SubSeq(s, 1, i - 1)
           back  == SubSeq(s, i + 1, Len(s))
<1>1. i \in 1 .. Len(s) /\ s[i] = pid
  BY DEF Contains
<1> HIDE DEF i
<1>2. Len(s) \in Nat /\ \A j \in 1 .. Len(s) : s[j] \in S
  BY LenProperties, ElementOfSeq
<1>3. front \in Seq(S) /\ Len(front) = i - 1 /\ \A j \in 1 .. i - 1 : front[j] = s[j]
  <2>1. i - 1 \in Int /\ 1 \in Int /\ \A j \in 1 .. i - 1 : s[j] \in S
    BY <1>1, <1>2
  <2>2. /\ front \in Seq(S)
        /\ Len(front) = IF 1 <= i - 1 THEN i - 1 - 1 + 1 ELSE 0
        /\ \A j \in 1 .. i - 1 - 1 + 1 : front[j] = s[1 + j - 1]
    BY <2>1, SubSeqProperties
  <2> QED
    BY <1>1, <1>2, <2>2
<1>4. /\ back \in Seq(S) /\ Len(back) = Len(s) - i
      /\ \A j \in 1 .. Len(s) - i : back[j] = s[i + j]
  <2>1. i + 1 \in Int /\ Len(s) \in Int /\ \A j \in i + 1 .. Len(s) : s[j] \in S
    BY <1>1, <1>2
  <2>2. /\ back \in Seq(S)
        /\ Len(back) = IF i + 1 <= Len(s) THEN Len(s) - (i + 1) + 1 ELSE 0
        /\ \A j \in 1 .. Len(s) - (i + 1) + 1 : back[j] = s[i + 1 + j - 1]
    BY <2>1, SubSeqProperties
  <2> QED
    BY <1>1, <1>2, <2>2
<1> HIDE DEF front, back
<1> DEFINE t == front \o back
<1>5. /\ Len(t) = Len(s) - 1
      /\ \A j \in 1 .. Len(s) - 1 : t[j] = IF j <= i - 1 THEN s[j] ELSE s[j + 1]
  <2>1. /\ Len(t) = Len(front) + Len(back)
        /\ \A j \in 1 .. Len(front) + Len(back) :
             t[j] = IF j <= Len(front) THEN front[j] ELSE back[j - Len(front)]
    BY <1>3, <1>4, ConcatProperties
  <2> HIDE DEF t
  <2>2. Len(t) = Len(s) - 1
    BY <1>1, <1>2, <1>3, <1>4, <2>1
  <2>3. ASSUME NEW j \in 1 .. Len(s) - 1 PROVE t[j] = IF j <= i - 1 THEN s[j] ELSE s[j + 1]
    <3>1. CASE j <= i - 1
      <4>1. j \in 1 .. i - 1
        BY <1>1, <1>2, <3>1
      <4>2. j \in 1 .. Len(front) + Len(back) /\ j <= Len(front)
        BY <1>1, <1>2, <1>3, <1>4, <3>1
      <4>3. t[j] = front[j]
        BY <2>1, <4>2
      <4> QED
        BY <1>3, <3>1, <4>1, <4>3
    <3>2. CASE ~(j <= i - 1)
      <4>1. j - (i - 1) \in 1 .. Len(s) - i /\ i + (j - (i - 1)) = j + 1
        BY <1>1, <1>2, <3>2
      <4>2. j \in 1 .. Len(front) + Len(back) /\ ~(j <= Len(front))
        BY <1>1, <1>2, <1>3, <1>4, <3>2
      <4>3. t[j] = back[j - Len(front)]
        BY <2>1, <4>2
      <4>4. t[j] = back[j - (i - 1)]
        BY <1>3, <4>3
      <4> QED
        BY <1>4, <3>2, <4>1, <4>4
    <3> QED
      BY <3>1, <3>2
  <2> QED
    BY <2>2, <2>3
<1> HIDE DEF t
<1>8. Unlink(s, pid) = t
  BY DEF Unlink, RemoveAt, t, front, back, i
<1> QED
  BY <1>1, <1>5, <1>8

(* remove takes the pid it is given from a list, and nothing else.         *)
LEMMA ContainsUnlink ==
  ASSUME NEW S, NEW s \in Seq(S), NEW pid, NEW x, x # pid
  PROVE  Contains(Unlink(s, pid), x) <=> Contains(s, x)
<1>1. CASE ~Contains(s, pid)
  BY <1>1 DEF Unlink
<1>2. CASE Contains(s, pid)
  <2> DEFINE t == Unlink(s, pid)
  <2> PICK i \in 1 .. Len(s) :
         /\ s[i] = pid
         /\ Len(t) = Len(s) - 1
         /\ \A j \in 1 .. Len(s) - 1 : t[j] = IF j <= i - 1 THEN s[j] ELSE s[j + 1]
    BY <1>2, UnlinkAt
  <2>1. Len(s) \in Nat
    BY LenProperties
  <2> HIDE DEF t
  <2>2. ASSUME Contains(s, x) PROVE Contains(t, x)
    <3> PICK k \in 1 .. Len(s) : s[k] = x
      BY <2>2 DEF Contains
    <3>1. CASE k < i
      BY <2>1, <3>1 DEF Contains
    <3>2. CASE k > i
      <4>1. k - 1 \in 1 .. Len(s) - 1 /\ ~(k - 1 <= i - 1) /\ k - 1 + 1 = k
        BY <2>1, <3>2
      <4>2. t[k - 1] = s[k]
        BY <4>1
      <4> QED
        BY <4>1, <4>2 DEF Contains
    <3> QED
      BY <2>1, <3>1, <3>2
  <2>3. ASSUME Contains(t, x) PROVE Contains(s, x)
    <3> PICK j \in 1 .. Len(s) - 1 : t[j] = x
      BY <2>3 DEF Contains
    <3>1. j \in 1 .. Len(s) /\ j + 1 \in 1 .. Len(s)
      BY <2>1
    <3> QED
      BY <3>1 DEF Contains
  <2> QED
    BY <2>2, <2>3 DEF t
<1> QED
  BY <1>1, <1>2

-----------------------------------------------------------------------------
(* Aging moves processes between the lists of a core and loses none, and a *)
(* current process joins them.                                             *)

LEMMA PromoteHolds ==
  ASSUME NEW lists \in Lists, NEW from \in Priorities, NEW to \in Priorities, from # to, NEW x
  PROVE  /\ Holds(Promote(lists, from, to), x) => Holds(lists, x)
         /\ ~isbadpid(x) /\ Holds(lists, x) => Holds(Promote(lists, from, to), x)
<1>1. CASE lists[from] = <<>>
  BY <1>1 DEF Promote
<1>2. CASE lists[from] # <<>>
  <2> DEFINE head == Head(lists[from])
             rest == [lists EXCEPT ![from] = Tail(@)]
  <2>1. lists[from] \in Seq(Procs) /\ head \in Procs /\ Tail(lists[from]) \in Seq(Procs)
    BY <1>2 DEF Lists
  <2>2. Contains(lists[from], x) <=> x = head \/ Contains(Tail(lists[from]), x)
    BY <1>2, <2>1, ContainsTail
  <2>3. \A q \in Priorities : rest[q] = IF q = from THEN Tail(lists[from]) ELSE lists[q]
    BY DEF Lists
  <2>4. Promote(lists, from, to) = IF isbadpid(head) THEN rest
                                   ELSE [rest EXCEPT ![to] = Append(lists[to], head)]
    BY <1>2, <2>3 DEF Promote, Enqueue
  <2>5. CASE isbadpid(head)
    <3>1. Holds(rest, x) => Holds(lists, x)
      BY <2>2, <2>3 DEF Holds
    <3>2. ~isbadpid(x) /\ Holds(lists, x) => Holds(rest, x)
      BY <2>2, <2>3, <2>5 DEF Holds
    <3> QED
      BY <2>4, <2>5, <3>1, <3>2
  <2>6. CASE ~isbadpid(head)
    <3> DEFINE moved == [rest EXCEPT ![to] = Append(lists[to], head)]
    <3>1. Contains(Append(lists[to], head), x) <=> Contains(lists[to], x) \/ x = head
      <4>1. lists[to] \in Seq(Procs)
        BY DEF Lists
      <4> QED
        BY <2>1, <4>1, ContainsAppend
    <3>2. \A q \in Priorities : moved[q] = IF q = to THEN Append(lists[to], head) ELSE rest[q]
      BY DEF Lists
    <3> HIDE DEF moved, rest
    <3>3. Holds(moved, x) => Holds(lists, x)
      BY <2>2, <2>3, <3>1, <3>2 DEF Holds
    <3>4. Holds(lists, x) => Holds(moved, x)
      BY <2>2, <2>3, <3>1, <3>2 DEF Holds
    <3> QED
      BY <2>4, <2>6, <3>3, <3>4 DEF moved
  <2> QED
    BY <2>5, <2>6
<1> QED
  BY <1>1, <1>2

LEMMA AgedHolds ==
  ASSUME TypeOK, NEW c \in Cores, NEW x
  PROVE  /\ Holds(AgedLists(c), x) => Holds(readylist[c], x)
         /\ ~isbadpid(x) /\ Holds(readylist[c], x) => Holds(AgedLists(c), x)
<1>1. readylist[c] \in Lists
  BY DEF TypeOK, Lists
<1>2. /\ PRIORITY_LOW \in Priorities /\ PRIORITY_MED \in Priorities /\ PRIORITY_HIGH \in Priorities
      /\ PRIORITY_MED # PRIORITY_HIGH /\ PRIORITY_LOW # PRIORITY_MED
  BY DEF PRIORITY_LOW, PRIORITY_MED, PRIORITY_HIGH, Priorities
<1> DEFINE first == Promote(readylist[c], PRIORITY_MED, PRIORITY_HIGH)
           once  == IF MediumDue(c) THEN first ELSE readylist[c]
           twice == Promote(once, PRIORITY_LOW, PRIORITY_MED)
<1>3. /\ Holds(first, x) => Holds(readylist[c], x)
      /\ ~isbadpid(x) /\ Holds(readylist[c], x) => Holds(first, x)
  BY <1>1, <1>2, PromoteHolds
<1>4. once \in Lists
  BY <1>1, <1>2, PromoteType
<1>5. /\ Holds(once, x) => Holds(readylist[c], x)
      /\ ~isbadpid(x) /\ Holds(readylist[c], x) => Holds(once, x)
  BY <1>3
<1> HIDE DEF once
<1>6. /\ Holds(twice, x) => Holds(once, x)
      /\ ~isbadpid(x) /\ Holds(once, x) => Holds(twice, x)
  BY <1>2, <1>4, PromoteHolds
<1>7. AgedLists(c) = IF LowLeft(c) = 0 THEN twice ELSE once
  BY DEF AgedLists, once
<1> QED
  BY <1>5, <1>6, <1>7

LEMMA RequeuedHolds ==
  ASSUME TypeOK, NEW c \in Cores, currpid[c] \in Procs, NEW x
  PROVE  /\ Holds(RequeuedLists(c), x) => Holds(readylist[c], x) \/ x = currpid[c]
         /\ ~isbadpid(x) /\ Holds(readylist[c], x) => Holds(RequeuedLists(c), x)
         /\ x = currpid[c] /\ state[x] = "PRCURR" => Holds(RequeuedLists(c), x)
<1> DEFINE old == currpid[c]
           p   == priority[old]
<1>1. p \in Priorities /\ AgedLists(c) \in Lists
  BY AgedType DEF TypeOK
<1>2. CASE state[old] # "PRCURR"
  BY <1>2, AgedHolds DEF RequeuedLists
<1>3. CASE state[old] = "PRCURR"
  <2>1. AgedLists(c)[p] \in Seq(Procs)
    BY <1>1 DEF Lists
  <2>2. Contains(Append(AgedLists(c)[p], old), x) <=> Contains(AgedLists(c)[p], x) \/ x = old
    BY <2>1, ContainsAppend
  <2>3. \A q \in Priorities : RequeuedLists(c)[q] = IF q = p THEN Append(AgedLists(c)[p], old)
                                                   ELSE AgedLists(c)[q]
    BY <1>1, <1>3 DEF RequeuedLists, Lists
  <2>4. Holds(RequeuedLists(c), x) <=> Holds(AgedLists(c), x) \/ x = old
    BY <1>1, <2>2, <2>3 DEF Holds
  <2> QED
    BY <2>4, AgedHolds
<1> QED
  BY <1>2, <1>3
-----------------------------------------------------------------------------
(* The null process of a core is never freed, no kernel call in progress   *)
(* is about it, no other core lists or runs it, and its own core either    *)
(* runs it as the current process or lists it.                             *)
NullArgs ==
  /\ \A p \in Procs : regs[p].arg \notin NullProcs
  /\ \A c \in Cores : cpu[c].arg \notin NullProcs
NullAtHome(n) == (currpid[n] = n /\ state[n] = "PRCURR") \/ Holds(readylist[n], n)
NullInv ==
  /\ NullArgs
  /\ \A c \in Cores : currpid[c] \in Procs
  /\ \A n \in NullProcs : state[n] # "PRFREE" /\ NullAtHome(n)
  /\ \A n \in NullProcs : \A c \in Cores \ {n} : currpid[c] # n /\ ~Holds(readylist[c], n)

(* resched on core c preserves all of it: the core's null process is in    *)
(* the lists resched picks from, so it finds a process.                    *)
LEMMA ReschedNull ==
  ASSUME TypeOK, NullInv, NEW c \in Cores,
         NEW saved \in Contexts, saved.arg \notin NullProcs, Resched(c, saved)
  PROVE  NullInv'
<1> DEFINE old    == currpid[c]
           lists  == RequeuedLists(c)
           q      == Highest(lists)
           new    == IF lists[q] = <<>> THEN EMPTY ELSE Head(lists[q])
           parked == [state EXCEPT ![old] = IF @ = "PRCURR" THEN "PRREADY" ELSE @]
           kept   == [regs EXCEPT ![old] = saved]
<1>1. /\ old \in Procs /\ c \in NullProcs /\ c \in Procs
      /\ \A n \in NullProcs : ~isbadpid(n)
  BY ConstantFacts DEF NullInv, isbadpid
<1>2. lists \in Lists /\ q \in Priorities
  BY <1>1, RequeuedType, HighestType
<1>3. Holds(lists, c)
  BY <1>1, RequeuedHolds DEF NullInv, NullAtHome
<1>4. lists[q] # <<>>
  <2> PICK r \in Priorities : Contains(lists[r], c)
    BY <1>3 DEF Holds
  <2>1. lists[r] # <<>>
    BY EmptySeq DEF Contains
  <2> QED
    BY <2>1, ConstantFacts DEF Highest, PRIORITY_LOW, PRIORITY_MED, PRIORITY_HIGH
<1>5. lists[q] \in Seq(Procs) /\ new = Head(lists[q]) /\ new \in Procs /\ new # EMPTY
  BY <1>2, <1>4, ConstantFacts DEF Lists
<1>6. \A n \in NullProcs \ {c} : ~Holds(lists, n)
  BY <1>1, RequeuedHolds DEF NullInv
<1>7. Holds(lists, new)
  <2>1. Contains(lists[q], new)
    BY <1>4, <1>5, ContainsTail
  <2> QED
    BY <1>2, <2>1 DEF Holds
<1>8. \A n \in NullProcs \ {c} : old # n /\ new # n
  BY <1>6, <1>7 DEF NullInv
<1> DEFINE left == [lists EXCEPT ![q] = Tail(@)]
<1>9. /\ currpid' = [currpid EXCEPT ![c] = new]
      /\ readylist' = [readylist EXCEPT ![c] = left]
      /\ state' = [parked EXCEPT ![new] = "PRCURR"]
      /\ regs' = kept
      /\ cpu' = [cpu EXCEPT ![c] = kept[new]]
  BY <1>5 DEF Resched
<1>10. \A x : Holds(lists, x) <=> x = new \/ Holds(left, x)
  <2> TAKE x
  <2>1. Contains(lists[q], x) <=> x = new \/ Contains(Tail(lists[q]), x)
    BY <1>4, <1>5, ContainsTail
  <2>2. \A r \in Priorities : left[r] = IF r = q THEN Tail(lists[q]) ELSE lists[r]
    BY <1>2 DEF Lists
  <2> HIDE DEF left, new, lists, q
  <2> QED
    BY <1>2, <2>1, <2>2 DEF Holds
<1> HIDE DEF left, lists, q, new
<1>11. NullArgs'
  <2>1. \A p \in Procs : kept[p].arg \notin NullProcs
    BY <1>1 DEF NullInv, NullArgs, TypeOK
  <2> QED
    BY <1>5, <1>9, <2>1 DEF NullArgs, NullInv, TypeOK
<1>12. \A d \in Cores : currpid'[d] \in Procs
  BY <1>5, <1>9 DEF NullInv, TypeOK
<1>13. \A n \in NullProcs : state'[n] # "PRFREE"
  BY <1>1, <1>5, <1>9, ConstantFacts DEF NullInv, TypeOK
<1>14. \A n \in NullProcs : NullAtHome(n)'
  <2> TAKE n \in NullProcs
  <2>1. CASE n = c
    <3>1. CASE new = c
      <4>1. currpid'[c] = c /\ state'[c] = "PRCURR"
        BY <1>1, <1>9, <3>1 DEF TypeOK
      <4> QED
        BY <2>1, <4>1 DEF NullAtHome
    <3>2. CASE new # c
      <4>1. Holds(readylist'[c], c)
        BY <1>3, <1>9, <1>10, <3>2 DEF TypeOK
      <4> QED
        BY <2>1, <4>1 DEF NullAtHome
    <3> QED
      BY <3>1, <3>2
  <2>2. CASE n # c
    <3>1. /\ currpid'[n] = currpid[n] /\ readylist'[n] = readylist[n]
          /\ state'[n] = state[n]
      BY <1>1, <1>8, <1>9, <2>2, ConstantFacts DEF TypeOK
    <3> QED
      BY <3>1 DEF NullInv, NullAtHome
  <2> QED
    BY <2>1, <2>2
<1>15. \A n \in NullProcs : \A d \in Cores \ {n} : currpid'[d] # n /\ ~Holds(readylist'[d], n)
  <2> TAKE n \in NullProcs
  <2> TAKE d \in Cores \ {n}
  <2>1. CASE d = c
    <3>1. currpid'[c] = new /\ readylist'[c] = left
      BY <1>9 DEF TypeOK
    <3> QED
      BY <1>6, <1>8, <1>10, <2>1, <3>1
  <2>2. CASE d # c
    <3>1. currpid'[d] = currpid[d] /\ readylist'[d] = readylist[d]
      BY <1>9, <2>2 DEF TypeOK
    <3> QED
      BY <3>1 DEF NullInv
  <2> QED
    BY <2>1, <2>2
<1> QED
  BY <1>11, <1>12, <1>13, <1>14, <1>15 DEF NullInv
(* Steps that leave the null processes where they are *)
LEMMA NullFrame ==
  ASSUME NullInv, NullArgs', UNCHANGED <<currpid, readylist>>,
         \A n \in NullProcs : state'[n] = state[n]
  PROVE  NullInv'
BY DEF NullInv, NullAtHome, Holds

(* Steps of a core that only move its own context, to a pid not null *)
LEMMA ArgsFrame ==
  ASSUME TypeOK, NullArgs, NEW c \in Cores, NEW ctx,
         cpu' = [cpu EXCEPT ![c] = ctx], ctx.arg \notin NullProcs, UNCHANGED regs
  PROVE  NullArgs'
BY DEF NullArgs, TypeOK

LEMMA GotoFrame ==
  ASSUME TypeOK, NullArgs, NEW c \in Cores, NEW l, Goto(c, l), UNCHANGED regs
  PROVE  NullArgs'
<1>1. \A d \in Cores : cpu'[d].arg = cpu[d].arg
  BY DEF Goto, TypeOK, Contexts
<1> QED
  BY <1>1 DEF NullArgs

LEMMA InitNull == Init => NullInv
<1> SUFFICES ASSUME Init PROVE NullInv
  OBVIOUS
<1>1. SYSERR \notin NullProcs
  BY ConstantFacts
<1>2. NullArgs
  BY <1>1 DEF Init, NullArgs, FreshContext, NullContext
<1>3. \A c \in Cores : currpid[c] \in Procs
  BY ConstantFacts DEF Init
<1>4. \A n \in NullProcs : state[n] # "PRFREE" /\ NullAtHome(n)
  BY ConstantFacts DEF Init, NullAtHome
<1>5. ASSUME NEW n \in NullProcs, NEW c \in Cores \ {n}
      PROVE  currpid[c] # n /\ ~Holds(readylist[c], n)
  <2>1. currpid[c] # n
    BY <1>5 DEF Init
  <2>2. \A q \in Priorities : readylist[c][q] = <<>> \/ readylist[c][q] = <<Main>>
    BY <1>5 DEF Init
  <2>3. \A q \in Priorities : ~Contains(readylist[c][q], n)
    <3> TAKE q \in Priorities
    <3>1. CASE readylist[c][q] = <<>>
      BY <3>1 DEF Contains
    <3>2. CASE readylist[c][q] = <<Main>>
      BY <3>2, ConstantFacts DEF Contains
    <3> QED
      BY <2>2, <3>1, <3>2
  <2> QED
    BY <2>1, <2>3 DEF Holds
<1> QED
  BY <1>2, <1>3, <1>4, <1>5 DEF NullInv

(* newpid returns the slot it has looked at, if nextpid does not move on   *)
(* meanwhile.                                                              *)
Agrees(x) == x.pc = "newpid_return" => x.arg = nextpid
ReadsAgree == /\ \A c \in Cores : Agrees(cpu[c])
              /\ \A p \in Procs : state[p] = "PRREADY" => Agrees(regs[p])

(* Every step keeps the null processes where they are.                     *)
LEMMA NextNull == TypeOK /\ NullInv /\ ReadsAgree /\ [Next]_vars => NullInv'
<1> SUFFICES ASSUME TypeOK, NullInv, ReadsAgree, [Next]_vars PROVE NullInv'
  OBVIOUS
<1> USE DEF pcbVars, schedVars, quantums, counters
<1>1. CASE UNCHANGED vars
  <2>1. NullArgs' /\ UNCHANGED <<currpid, readylist, state>>
    BY <1>1 DEF vars, NullInv, NullArgs
  <2> QED
    BY <2>1, NullFrame
<1>2. CASE Stopped
  BY <1>1, <1>2 DEF Stopped
<1>3. CASE \E c \in Cores : Tick(c) \/ NullLoop(c) \/ KernelStep(c) \/ Program(c) \/ Meet(c)
  <2> PICK c \in Cores : Tick(c) \/ NullLoop(c) \/ KernelStep(c) \/ Program(c) \/ Meet(c)
    BY <1>3
  <2>1. /\ NullArgs
        /\ cpu[c] \in Contexts /\ cpu[c].arg \notin NullProcs
        /\ \A l \in Labels : /\ [cpu[c] EXCEPT !.pc = l] \in Contexts
                            /\ [cpu[c] EXCEPT !.pc = l].arg \notin NullProcs
    <3>1. NullArgs /\ cpu[c] \in Contexts
      BY DEF NullInv, TypeOK
    <3>2. cpu[c].arg \notin NullProcs
      BY <3>1 DEF NullArgs
    <3>3. ASSUME NEW l \in Labels
          PROVE  /\ [cpu[c] EXCEPT !.pc = l] \in Contexts
                 /\ [cpu[c] EXCEPT !.pc = l].arg = cpu[c].arg
      BY <3>1 DEF Contexts
    <3> QED
      BY <3>1, <3>2, <3>3
  <2>2. CASE Tick(c)
    <3>1. CASE preempt[c] - 1 = 0
      BY <2>1, <2>2, <3>1, ReschedNull DEF Tick
    <3>2. CASE preempt[c] - 1 # 0
      <4>1. UNCHANGED <<currpid, readylist, state, regs, cpu>>
        BY <2>2, <3>2 DEF Tick
      <4>2. NullArgs'
        BY <2>1, <4>1 DEF NullArgs
      <4> QED
        BY <4>1, <4>2, NullFrame
    <3> QED
      BY <3>1, <3>2
  <2>3. CASE NullLoop(c)
    BY <2>1, <2>3, ReschedNull DEF NullLoop
  <2>4. CASE Yield(c)
    BY <2>1, <2>4, ReschedNull DEF Yield
  <2>5. CASE ReadyResched(c)
    BY <2>1, <2>5, ReschedNull DEF ReadyResched, Labels
  <2>6. CASE KillResched(c)
    BY <2>1, <2>6, ReschedNull DEF KillResched, Labels
  <2>7. CASE Enable(c)
    <3>1. \A d \in Cores : cpu'[d].arg = cpu[d].arg
      BY <2>7 DEF Enable, TypeOK, Contexts
    <3>2. NullArgs'
      BY <2>1, <2>7, <3>1 DEF Enable, NullArgs
    <3> QED
      BY <2>7, <3>2, NullFrame DEF Enable
  <2>8. CASE Create(c)
    <3>1. [cpu[c] EXCEPT !.pc = "newpid_next", !.tries = 0].arg \notin NullProcs
      BY <2>1 DEF Contexts
    <3>2. NullArgs'
      BY <2>1, <2>8, <3>1, ArgsFrame DEF Create
    <3> QED
      BY <2>8, <3>2, NullFrame DEF Create
  <2>9. CASE NewpidNext(c)
    <3>1. [cpu[c] EXCEPT !.pc = "newpid_check", !.tries = cpu[c].tries + 1].arg \notin NullProcs
      BY <2>1 DEF Contexts
    <3>2. NullArgs'
      BY <2>1, <2>9, <3>1, ArgsFrame DEF NewpidNext
    <3> QED
      BY <2>9, <3>2, NullFrame DEF NewpidNext
  <2>10. CASE NewpidCheck(c)
    <3> DEFINE ctx == IF state[nextpid] = "PRFREE"
                      THEN [cpu[c] EXCEPT !.pc = "newpid_return", !.arg = nextpid, !.tries = 0]
                      ELSE IF cpu[c].tries < NPROC THEN [cpu[c] EXCEPT !.pc = "newpid_next"]
                      ELSE [cpu[c] EXCEPT !.pc = "user", !.arg = SYSERR, !.tries = 0]
    <3>1. state[nextpid] = "PRFREE" => nextpid \notin NullProcs
      BY DEF NullInv
    <3>2. ctx.arg \notin NullProcs
      BY <2>1, <3>1, ConstantFacts DEF Contexts
    <3>3. cpu' = [cpu EXCEPT ![c] = ctx] /\ UNCHANGED <<regs, currpid, readylist, state>>
      BY <2>10 DEF NewpidCheck
    <3> HIDE DEF ctx
    <3>4. NullArgs'
      BY <2>1, <3>2, <3>3, ArgsFrame
    <3> QED
      BY <3>3, <3>4, NullFrame
  <2>11. CASE CreateCount(c)
    BY <2>1, <2>11, GotoFrame, NullFrame DEF CreateCount
  <2>12. CASE CreateFill(c)
    <3>1. \A p \in Procs : regs'[p].arg \notin NullProcs
      BY <2>1, <2>12, ConstantFacts DEF CreateFill, NullArgs, TypeOK, FreshContext
    <3>2. \A d \in Cores : cpu'[d].arg = cpu[d].arg
      BY <2>12 DEF CreateFill, Goto, TypeOK, Contexts
    <3>3. NullArgs'
      BY <2>1, <3>1, <3>2 DEF NullArgs
    <3> QED
      BY <2>12, <3>3, NullFrame DEF CreateFill
  <2>13. CASE ReadyMark(c)
    <3>1. NullArgs'
      BY <2>1, <2>13, GotoFrame DEF ReadyMark
    <3>2. \A n \in NullProcs : state'[n] = state[n]
      BY <2>1, <2>13, ConstantFacts DEF ReadyMark, TypeOK
    <3> QED
      BY <2>13, <3>1, <3>2, NullFrame DEF ReadyMark
  <2>14. CASE ReadyEnqueue(c)
    <3> DEFINE pid  == cpu[c].arg
               core == core_affinity[pid]
    <3>1. NullArgs'
      BY <2>1, <2>14, GotoFrame DEF ReadyEnqueue
    <3>2. ASSUME NEW n \in NullProcs, NEW d \in Cores
          PROVE  Holds(readylist'[d], n) <=> Holds(readylist[d], n)
      <4>1. CASE isbadpid(pid) \/ d # core
        <5>1. readylist'[d] = readylist[d]
          BY <2>14, <4>1 DEF ReadyEnqueue, Enqueue, TypeOK
        <5> QED
          BY <5>1
      <4>2. CASE ~isbadpid(pid) /\ d = core
        <5> DEFINE q == priority[pid]
        <5>1. pid \in Procs /\ q \in Priorities /\ readylist[d][q] \in Seq(Procs)
          BY <4>2 DEF isbadpid, TypeOK
        <5>2. Contains(Append(readylist[d][q], pid), n) <=> Contains(readylist[d][q], n)
          BY <2>1, <5>1, ContainsAppend
        <5>3. readylist'[d] = [readylist[d] EXCEPT ![q] = Append(readylist[d][q], pid)]
          BY <2>14, <4>2 DEF ReadyEnqueue, Enqueue, TypeOK
        <5>4. \A r \in Priorities : readylist'[d][r] = IF r = q THEN Append(readylist[d][q], pid)
                                                      ELSE readylist[d][r]
          BY <5>3 DEF TypeOK
        <5> QED
          BY <5>1, <5>2, <5>4 DEF Holds
      <4> QED
        BY <4>1, <4>2
    <3>3. UNCHANGED <<currpid, state>>
      BY <2>14 DEF ReadyEnqueue
    <3> QED
      BY <3>1, <3>2, <3>3, ConstantFacts DEF NullInv, NullAtHome
  <2>15. ASSUME NEW pid \in Procs, Kill(c, pid) PROVE NullInv'
    <3>1. [cpu[c] EXCEPT !.pc = "kill_count", !.arg = pid].arg \notin NullProcs
      BY <2>1, <2>15 DEF Kill, Contexts
    <3>2. NullArgs'
      BY <2>1, <2>15, <3>1, ArgsFrame DEF Kill
    <3> QED
      BY <2>15, <3>2, NullFrame DEF Kill
  <2>16. CASE KillCount(c)
    BY <2>1, <2>16, GotoFrame, NullFrame DEF KillCount
  <2>17. CASE KillSwitch(c)
    <3>1. NullArgs'
      BY <2>1, <2>17, GotoFrame DEF KillSwitch
    <3>2. \A n \in NullProcs : state'[n] = state[n]
      BY <2>1, <2>17, ConstantFacts DEF KillSwitch, TypeOK
    <3> QED
      BY <2>17, <3>1, <3>2, NullFrame DEF KillSwitch
  <2>18. CASE KillRemove(c)
    <3> DEFINE pid == cpu[c].arg
    <3>1. NullArgs'
      BY <2>1, <2>18, GotoFrame DEF KillRemove
    <3>2. ASSUME NEW n \in NullProcs, NEW d \in Cores
          PROVE  Holds(readylist'[d], n) <=> Holds(readylist[d], n)
      <4>1. CASE isbadpid(pid)
        <5>1. readylist' = readylist
          BY <2>18, <4>1 DEF KillRemove
        <5> QED
          BY <5>1
      <4>2. CASE ~isbadpid(pid)
        <5>1. \A q \in Priorities : readylist'[d][q] = Unlink(readylist[d][q], pid)
          BY <2>18, <4>2 DEF KillRemove
        <5>2. ASSUME NEW q \in Priorities
              PROVE  Contains(Unlink(readylist[d][q], pid), n) <=> Contains(readylist[d][q], n)
          <6>1. readylist[d][q] \in Seq(Procs) /\ n # pid
            BY <2>1 DEF TypeOK
          <6> QED
            BY <6>1, ContainsUnlink
        <5> QED
          BY <5>1, <5>2 DEF Holds
      <4> QED
        BY <4>1, <4>2
    <3>3. UNCHANGED <<currpid, state>>
      BY <2>18 DEF KillRemove
    <3> QED
      BY <3>1, <3>2, <3>3, ConstantFacts DEF NullInv, NullAtHome
  <2>19. CASE KillClear(c)
    <3>1. NullArgs'
      BY <2>1, <2>19, GotoFrame DEF KillClear
    <3>2. \A n \in NullProcs : state'[n] = state[n]
      BY <2>1, <2>19, ConstantFacts DEF KillClear, TypeOK
    <3> QED
      BY <2>19, <3>1, <3>2, NullFrame DEF KillClear
  <2>20. CASE NewpidReturn(c)
    <3>1. PICK pid \in {cpu[c].arg, nextpid} :
            cpu' = [cpu EXCEPT ![c] = [@ EXCEPT !.pc = "create_count", !.arg = pid]]
      BY <2>20 DEF NewpidReturn
    <3>2. pid = cpu[c].arg
      BY <2>20 DEF NewpidReturn, At, ReadsAgree, Agrees
    <3>3. [cpu[c] EXCEPT !.pc = "create_count", !.arg = pid].arg \notin NullProcs
      BY <2>1, <3>2 DEF Contexts
    <3>4. NullArgs'
      BY <2>1, <2>20, <3>1, <3>3, ArgsFrame DEF NewpidReturn
    <3> QED
      BY <2>20, <3>4, NullFrame DEF NewpidReturn
  <2>21. CASE CreateSuspend(c)
    <3>1. NullArgs'
      BY <2>1, <2>21, GotoFrame DEF CreateSuspend
    <3>2. \A n \in NullProcs : state'[n] = state[n]
      BY <2>1, <2>21, ConstantFacts DEF CreateSuspend, TypeOK
    <3> QED
      BY <2>21, <3>1, <3>2, NullFrame DEF CreateSuspend
  <2>22. CASE Meet(c)
    <3>1. NullArgs' /\ UNCHANGED <<currpid, readylist, state>>
      BY <2>1, <2>22 DEF Meet, NullArgs
    <3> QED
      BY <3>1, NullFrame
  <2> QED
    BY <2>2, <2>3, <2>4, <2>5, <2>6, <2>7, <2>8, <2>9, <2>10, <2>11, <2>12, <2>13,
       <2>14, <2>15, <2>16, <2>17, <2>18, <2>19, <2>20, <2>21, <2>22 DEF KernelStep, Program
<1> QED
  BY <1>1, <1>2, <1>3 DEF Next

-----------------------------------------------------------------------------
(* Lists without repetition: Distinct(lists) says that no process is twice *)
(* in the lists of a core.                                                 *)

Distinct(lists) ==
  \A q, r \in Priorities : \A i \in 1 .. Len(lists[q]) : \A j \in 1 .. Len(lists[r]) :
    lists[q][i] = lists[r][j] => q = r /\ i = j

(* The members of lists, by position.                                      *)
LEMMA HoldsAt ==
  ASSUME NEW lists, NEW x
  PROVE  Holds(lists, x) <=> \E q \in Priorities : \E i \in 1 .. Len(lists[q]) : lists[q][i] = x
BY DEF Holds, Contains

(* A process that is not listed may be appended to any list.               *)
LEMMA AppendDistinct ==
  ASSUME NEW lists \in Lists, NEW q \in Priorities, NEW p \in Procs,
         Distinct(lists), ~Holds(lists, p)
  PROVE  LET new == [lists EXCEPT ![q] = Append(@, p)]
         IN  /\ new \in Lists /\ Distinct(new)
             /\ \A x : Holds(new, x) <=> Holds(lists, x) \/ x = p
<1> DEFINE new == [lists EXCEPT ![q] = Append(@, p)]
<1>1. lists \in [Priorities -> Seq(Procs)]
  BY DEF Lists
<1>2. /\ Append(lists[q], p) \in Seq(Procs)
      /\ Len(lists[q]) \in Nat
      /\ Len(Append(lists[q], p)) = Len(lists[q]) + 1
      /\ \A i \in 1 .. Len(lists[q]) : Append(lists[q], p)[i] = lists[q][i]
      /\ Append(lists[q], p)[Len(lists[q]) + 1] = p
  BY <1>1
<1>3. /\ new \in Lists
      /\ \A r \in Priorities : new[r] = IF r = q THEN Append(lists[q], p) ELSE lists[r]
  BY <1>1, <1>2 DEF Lists
<1>4. \A r \in Priorities : \A i \in 1 .. Len(lists[r]) : lists[r][i] # p
  BY HoldsAt
<1> HIDE DEF new
<1>5. ASSUME NEW r \in Priorities, NEW i \in 1 .. Len(new[r])
      PROVE  IF r = q /\ i = Len(lists[q]) + 1 THEN new[r][i] = p
             ELSE i \in 1 .. Len(lists[r]) /\ new[r][i] = lists[r][i]
  <2>1. CASE r = q
    <3>1. new[r] = Append(lists[q], p) /\ i \in 1 .. Len(lists[q]) + 1
      BY <1>2, <1>3, <2>1
    <3> QED
      BY <1>2, <2>1, <3>1
  <2>2. CASE r # q
    BY <1>3, <2>2
  <2> QED
    BY <2>1, <2>2
<1>6. Distinct(new)
  <2> SUFFICES ASSUME NEW r \in Priorities, NEW s \in Priorities,
                      NEW i \in 1 .. Len(new[r]), NEW j \in 1 .. Len(new[s]), new[r][i] = new[s][j]
               PROVE  r = s /\ i = j
    BY DEF Distinct
  <2>1. CASE r = q /\ i = Len(lists[q]) + 1
    BY <1>4, <1>5, <2>1
  <2>2. CASE s = q /\ j = Len(lists[q]) + 1
    BY <1>4, <1>5, <2>2
  <2>3. CASE ~(r = q /\ i = Len(lists[q]) + 1) /\ ~(s = q /\ j = Len(lists[q]) + 1)
    BY <1>5, <2>3 DEF Distinct
  <2> QED
    BY <2>1, <2>2, <2>3
<1>7. ASSUME NEW x PROVE Holds(new, x) <=> Holds(lists, x) \/ x = p
  <2>1. ASSUME NEW r \in Priorities
        PROVE  Contains(new[r], x) <=> Contains(lists[r], x) \/ (r = q /\ x = p)
    BY <1>1, <1>3, ContainsAppend
  <2> QED
    BY <2>1 DEF Holds
<1> QED
  BY <1>3, <1>6, <1>7 DEF new

(* The head that resched takes off is then in no list of the core.         *)
LEMMA TailDistinct ==
  ASSUME NEW lists \in Lists, NEW q \in Priorities, lists[q] # <<>>, Distinct(lists)
  PROVE  LET new == [lists EXCEPT ![q] = Tail(@)]
         IN  /\ new \in Lists /\ Distinct(new)
             /\ Head(lists[q]) \in Procs /\ Holds(lists, Head(lists[q]))
             /\ \A x : Holds(new, x) <=> Holds(lists, x) /\ x # Head(lists[q])
<1> DEFINE new == [lists EXCEPT ![q] = Tail(@)]
<1>1. lists \in [Priorities -> Seq(Procs)]
  BY DEF Lists
<1>2. /\ Tail(lists[q]) \in Seq(Procs) /\ Head(lists[q]) \in Procs
      /\ Len(lists[q]) \in Nat \ {0}
      /\ Len(Tail(lists[q])) = Len(lists[q]) - 1
      /\ \A i \in 1 .. Len(lists[q]) - 1 : Tail(lists[q])[i] = lists[q][i + 1]
      /\ Head(lists[q]) = lists[q][1]
  BY <1>1
<1>3. /\ new \in Lists
      /\ \A r \in Priorities : new[r] = IF r = q THEN Tail(lists[q]) ELSE lists[r]
  BY <1>1, <1>2 DEF Lists
<1> HIDE DEF new
<1>5. ASSUME NEW r \in Priorities, NEW i \in 1 .. Len(new[r])
      PROVE  IF r = q THEN i + 1 \in 1 .. Len(lists[r]) /\ new[r][i] = lists[r][i + 1]
             ELSE i \in 1 .. Len(lists[r]) /\ new[r][i] = lists[r][i]
  <2>1. CASE r = q
    <3>1. new[r] = Tail(lists[q]) /\ i \in 1 .. Len(lists[q]) - 1
      BY <1>2, <1>3, <2>1
    <3> QED
      BY <1>2, <2>1, <3>1
  <2>2. CASE r # q
    BY <1>3, <2>2
  <2> QED
    BY <2>1, <2>2
<1>6. Distinct(new)
  <2> SUFFICES ASSUME NEW r \in Priorities, NEW s \in Priorities,
                      NEW i \in 1 .. Len(new[r]), NEW j \in 1 .. Len(new[s]), new[r][i] = new[s][j]
               PROVE  r = s /\ i = j
    BY DEF Distinct
  <2>1. i \in Int /\ j \in Int
    OBVIOUS
  <2> QED
    BY <1>5, <2>1 DEF Distinct
<1>7. Holds(lists, Head(lists[q])) /\ ~Holds(new, Head(lists[q]))
  <2>1. 1 \in 1 .. Len(lists[q])
    BY <1>2
  <2>2. Holds(lists, Head(lists[q]))
    BY <1>2, <2>1, HoldsAt
  <2>3. ASSUME NEW r \in Priorities, NEW i \in 1 .. Len(new[r]) PROVE new[r][i] # Head(lists[q])
    <3>1. CASE r = q
      <4>1. i + 1 \in 1 .. Len(lists[q]) /\ new[r][i] = lists[q][i + 1] /\ i + 1 # 1
        BY <1>5, <3>1
      <4> QED
        BY <1>2, <2>1, <4>1 DEF Distinct
    <3>2. CASE r # q
      BY <1>2, <1>5, <2>1, <3>2 DEF Distinct
    <3> QED
      BY <3>1, <3>2
  <2> QED
    BY <2>2, <2>3, HoldsAt
<1>8. ASSUME NEW x, x # Head(lists[q]) PROVE Holds(new, x) <=> Holds(lists, x)
  <2>1. ASSUME NEW r \in Priorities PROVE Contains(new[r], x) <=> Contains(lists[r], x)
    <3>1. Contains(lists[q], x) <=> x = Head(lists[q]) \/ Contains(Tail(lists[q]), x)
      BY <1>1, ContainsTail
    <3> QED
      BY <1>3, <1>8, <3>1
  <2> QED
    BY <2>1 DEF Holds
<1> QED
  BY <1>2, <1>3, <1>6, <1>7, <1>8 DEF new

(* What remove leaves in the lists of a core.                              *)
LEMMA UnlinkDistinct ==
  ASSUME NEW lists \in Lists, Distinct(lists), NEW pid \in Procs
  PROVE  LET new == [q \in Priorities |-> Unlink(lists[q], pid)]
         IN  /\ new \in Lists /\ Distinct(new)
             /\ \A x : Holds(new, x) <=> Holds(lists, x) /\ x # pid
<1> DEFINE new == [q \in Priorities |-> Unlink(lists[q], pid)]
<1>1. lists \in [Priorities -> Seq(Procs)]
  BY DEF Lists
<1>2. /\ new \in Lists
      /\ \A q \in Priorities : new[q] = Unlink(lists[q], pid) /\ Len(lists[q]) \in Nat
  BY <1>1, UnlinkType DEF Lists
<1> HIDE DEF new
<1>3. ASSUME NEW q \in Priorities, Contains(lists[q], pid)
      PROVE  \E i \in 1 .. Len(lists[q]) :
           /\ lists[q][i] = pid
           /\ Len(new[q]) = Len(lists[q]) - 1
           /\ \A j \in 1 .. Len(lists[q]) - 1 : new[q][j] = IF j <= i - 1 THEN lists[q][j] ELSE lists[q][j + 1]
  <2>1. lists[q] \in Seq(Procs) /\ new[q] = Unlink(lists[q], pid)
    BY <1>1, <1>2
  <2>2. \E i \in 1 .. Len(lists[q]) :
          /\ lists[q][i] = pid
          /\ Len(Unlink(lists[q], pid)) = Len(lists[q]) - 1
          /\ \A j \in 1 .. Len(lists[q]) - 1 :
               Unlink(lists[q], pid)[j] = IF j <= i - 1 THEN lists[q][j] ELSE lists[q][j + 1]
    <3>1. \A S : \A s \in Seq(S) : Contains(s, pid) =>
            \E i \in 1 .. Len(s) :
              /\ s[i] = pid
              /\ Len(Unlink(s, pid)) = Len(s) - 1
              /\ \A j \in 1 .. Len(s) - 1 :
                   Unlink(s, pid)[j] = IF j <= i - 1 THEN s[j] ELSE s[j + 1]
      BY UnlinkAt
    <3> QED
      BY <1>3, <2>1, <3>1
  <2> QED
    BY <2>1, <2>2
<1>4. ASSUME NEW q \in Priorities, NEW i \in 1 .. Len(new[q]), NEW j \in 1 .. Len(new[q]), i # j
      PROVE  \E k, l \in 1 .. Len(lists[q]) :
               new[q][i] = lists[q][k] /\ new[q][j] = lists[q][l] /\ k # l
  <2>1. CASE ~Contains(lists[q], pid)
    BY <1>2, <1>4, <2>1 DEF Unlink
  <2>2. CASE Contains(lists[q], pid)
    <3> PICK m \in 1 .. Len(lists[q]) :
           /\ lists[q][m] = pid
           /\ Len(new[q]) = Len(lists[q]) - 1
           /\ \A n \in 1 .. Len(lists[q]) - 1 : new[q][n] = IF n <= m - 1 THEN lists[q][n] ELSE lists[q][n + 1]
      BY <1>3, <2>2
    <3> DEFINE Was(n) == IF n <= m - 1 THEN n ELSE n + 1
    <3>1. /\ Was(i) \in 1 .. Len(lists[q]) /\ Was(j) \in 1 .. Len(lists[q]) /\ Was(i) # Was(j)
      BY <1>2, <1>4
    <3>2. new[q][i] = lists[q][Was(i)] /\ new[q][j] = lists[q][Was(j)]
      OBVIOUS
    <3> QED
      BY <3>1, <3>2
  <2> QED
    BY <2>1, <2>2
<1>5. ASSUME NEW q \in Priorities, NEW i \in 1 .. Len(new[q])
      PROVE  \E k \in 1 .. Len(lists[q]) : new[q][i] = lists[q][k] /\ new[q][i] # pid
  <2>1. CASE ~Contains(lists[q], pid)
    BY <1>2, <2>1 DEF Unlink, Contains
  <2>2. CASE Contains(lists[q], pid)
    <3> PICK m \in 1 .. Len(lists[q]) :
           /\ lists[q][m] = pid
           /\ Len(new[q]) = Len(lists[q]) - 1
           /\ \A n \in 1 .. Len(lists[q]) - 1 : new[q][n] = IF n <= m - 1 THEN lists[q][n] ELSE lists[q][n + 1]
      BY <1>3, <2>2
    <3> DEFINE k == IF i <= m - 1 THEN i ELSE i + 1
    <3>1. k \in 1 .. Len(lists[q]) /\ k # m
      BY <1>2
    <3>2. new[q][i] = lists[q][k]
      OBVIOUS
    <3>3. lists[q][k] # pid
      BY <3>1 DEF Distinct
    <3> QED
      BY <3>1, <3>2, <3>3
  <2> QED
    BY <2>1, <2>2
<1>6. Distinct(new)
  <2> SUFFICES ASSUME NEW r \in Priorities, NEW s \in Priorities,
                      NEW i \in 1 .. Len(new[r]), NEW j \in 1 .. Len(new[s]), new[r][i] = new[s][j]
               PROVE  r = s /\ i = j
    BY DEF Distinct
  <2>1. r = s
    BY <1>5 DEF Distinct
  <2>2. i = j
    BY <1>4, <2>1 DEF Distinct
  <2> QED
    BY <2>1, <2>2
<1>7. ~Holds(new, pid)
  BY <1>5, HoldsAt
<1>8. ASSUME NEW x, x # pid PROVE Holds(new, x) <=> Holds(lists, x)
  <2>1. \A q \in Priorities : Contains(new[q], x) <=> Contains(lists[q], x)
    BY <1>1, <1>2, <1>8, ContainsUnlink
  <2> QED
    BY <2>1 DEF Holds
<1> QED
  BY <1>2, <1>6, <1>7, <1>8 DEF new

-----------------------------------------------------------------------------
(* Aging and switching keep the lists without repetition. *)

LEMMA PromoteDistinct ==
  ASSUME NEW lists \in Lists, Distinct(lists),
         NEW from \in Priorities, NEW to \in Priorities, from # to
  PROVE  Distinct(Promote(lists, from, to))
<1>1. CASE lists[from] = <<>>
  BY <1>1 DEF Promote
<1>2. CASE lists[from] # <<>>
  <2> DEFINE head == Head(lists[from])
             rest == [lists EXCEPT ![from] = Tail(@)]
  <2>1. /\ rest \in Lists /\ Distinct(rest) /\ head \in Procs
        /\ ~Holds(rest, head)
    BY <1>2, TailDistinct
  <2>2. Promote(lists, from, to) = Enqueue(rest, to, head)
    BY <1>2 DEF Promote
  <2> HIDE DEF head, rest
  <2>3. Distinct([rest EXCEPT ![to] = Append(@, head)])
    BY <2>1, AppendDistinct
  <2> QED
    BY <2>1, <2>2, <2>3 DEF Enqueue
<1> QED
  BY <1>1, <1>2

LEMMA AgedDistinct ==
  ASSUME TypeOK, NEW c \in Cores, Distinct(readylist[c])
  PROVE  Distinct(AgedLists(c))
<1>1. readylist[c] \in Lists
  BY DEF TypeOK, Lists
<1>2. /\ PRIORITY_LOW \in Priorities /\ PRIORITY_MED \in Priorities /\ PRIORITY_HIGH \in Priorities
      /\ PRIORITY_MED # PRIORITY_HIGH /\ PRIORITY_LOW # PRIORITY_MED
  BY DEF PRIORITY_LOW, PRIORITY_MED, PRIORITY_HIGH, Priorities
<1> DEFINE first == Promote(readylist[c], PRIORITY_MED, PRIORITY_HIGH)
           once  == IF MediumDue(c) THEN first ELSE readylist[c]
           twice == Promote(once, PRIORITY_LOW, PRIORITY_MED)
<1>3. first \in Lists /\ Distinct(first)
  BY <1>1, <1>2, PromoteType, PromoteDistinct
<1>4. once \in Lists /\ Distinct(once)
  BY <1>1, <1>3
<1> HIDE DEF once
<1>5. Distinct(twice)
  BY <1>2, <1>4, PromoteDistinct
<1>6. AgedLists(c) = IF LowLeft(c) = 0 THEN twice ELSE once
  BY DEF AgedLists, once
<1> QED
  BY <1>4, <1>5, <1>6

(* A context switch on core c, as the rest of the kernel sees it: nothing  *)
(* but the process that runs on is taken off the lists, and nothing but    *)
(* the one that ran comes to them.                                         *)
Requeues(c) == state[currpid[c]] = "PRCURR"
Switched(c, saved) ==
  LET old == currpid[c]
      new == currpid'[c]
  IN  /\ new \in Procs
      /\ Holds(readylist[c], new) \/ (new = old /\ Requeues(c))
      /\ Distinct(readylist'[c])
      /\ \A p \in Procs : Holds(readylist'[c], p) <=>
           p # new /\ (Holds(readylist[c], p) \/ (p = old /\ Requeues(c)))
      /\ \A d \in Cores \ {c} : /\ readylist'[d] = readylist[d]
                                /\ currpid'[d] = currpid[d]
                                /\ cpu'[d] = cpu[d]
      /\ \A p \in Procs : state'[p] = IF p = new THEN "PRCURR"
                                      ELSE IF p = old /\ Requeues(c) THEN "PRREADY" ELSE state[p]
      /\ \A p \in Procs : regs'[p] = IF p = old THEN saved ELSE regs[p]
      /\ cpu'[c] = IF new = old THEN saved ELSE regs[new]
      /\ UNCHANGED <<priority, core_affinity, counters>>

(* Where resched finds a process, it switches to it.                       *)
LEMMA ReschedSwitches ==
  ASSUME TypeOK, NEW c \in Cores, NEW saved, currpid[c] \in Procs, currpid'[c] \in Procs,
         Distinct(readylist[c]), ~Holds(readylist[c], currpid[c]),
         \A p \in Procs : Holds(readylist[c], p) => ~isbadpid(p),
         Resched(c, saved)
  PROVE  Switched(c, saved)
<1> DEFINE old    == currpid[c]
           lists  == RequeuedLists(c)
           q      == Highest(lists)
           new    == IF lists[q] = <<>> THEN EMPTY ELSE Head(lists[q])
           left   == [lists EXCEPT ![q] = Tail(@)]
           parked == [state EXCEPT ![old] = IF @ = "PRCURR" THEN "PRREADY" ELSE @]
           kept   == [regs EXCEPT ![old] = saved]
<1>1. lists \in Lists /\ q \in Priorities /\ AgedLists(c) \in Lists
  BY RequeuedType, HighestType, AgedType
<1>2. \A p \in Procs : Holds(lists, p) <=> Holds(readylist[c], p) \/ (p = old /\ Requeues(c))
  <2> TAKE p \in Procs
  <2>1. CASE p # old \/ Requeues(c)
    BY <2>1, RequeuedHolds DEF Requeues
  <2>2. CASE p = old /\ ~Requeues(c)
    BY <2>2, AgedHolds DEF RequeuedLists, Requeues
  <2> QED
    BY <2>1, <2>2
<1>3. Distinct(lists)
  <2>1. Distinct(AgedLists(c)) /\ ~Holds(AgedLists(c), old)
    BY AgedDistinct, AgedHolds
  <2>2. priority[old] \in Priorities
    BY DEF TypeOK
  <2>3. Distinct([AgedLists(c) EXCEPT ![priority[old]] = Append(@, old)])
    BY <1>1, <2>1, <2>2, AppendDistinct
  <2> QED
    BY <2>1, <2>3 DEF RequeuedLists
<1>4. /\ currpid' = [currpid EXCEPT ![c] = new]
      /\ readylist' = [readylist EXCEPT ![c] = IF new = EMPTY THEN lists ELSE left]
      /\ state' = IF new = EMPTY THEN parked ELSE [parked EXCEPT ![new] = "PRCURR"]
      /\ regs' = kept
      /\ cpu' = IF new = EMPTY THEN cpu ELSE [cpu EXCEPT ![c] = kept[new]]
      /\ UNCHANGED <<priority, core_affinity, counters>>
  BY DEF Resched
<1>5. currpid'[c] = new
  BY <1>4 DEF TypeOK
<1>6. new \in Procs /\ new # EMPTY
  BY <1>5, ConstantFacts
<1>7. lists[q] # <<>> /\ new = Head(lists[q])
  BY <1>6
<1>8. /\ Distinct(left) /\ Holds(lists, new)
      /\ \A x : Holds(left, x) <=> Holds(lists, x) /\ x # new
  <2> HIDE DEF lists, q
  <2> QED
    BY <1>1, <1>3, <1>7, TailDistinct
<1> HIDE DEF new, left, lists, q
<1>9. /\ readylist'[c] = left
      /\ \A d \in Cores \ {c} : /\ readylist'[d] = readylist[d]
                                /\ currpid'[d] = currpid[d]
                                /\ cpu'[d] = cpu[d]
      /\ cpu'[c] = kept[new]
  BY <1>4, <1>6 DEF TypeOK
<1>10. \A p \in Procs : regs'[p] = IF p = old THEN saved ELSE regs[p]
  BY <1>4 DEF TypeOK
<1>11. \A p \in Procs : state'[p] = IF p = new THEN "PRCURR"
                                   ELSE IF p = old /\ Requeues(c) THEN "PRREADY" ELSE state[p]
  BY <1>4, <1>6 DEF TypeOK, Requeues
<1>12. cpu'[c] = IF new = old THEN saved ELSE regs[new]
  BY <1>6, <1>9 DEF TypeOK
<1>13. \A p \in Procs : Holds(readylist'[c], p) <=>
         p # new /\ (Holds(readylist[c], p) \/ (p = old /\ Requeues(c)))
  BY <1>2, <1>8, <1>9
<1>14. Holds(readylist[c], new) \/ (new = old /\ Requeues(c))
  BY <1>2, <1>6, <1>8
<1>15. Distinct(readylist'[c])
  BY <1>8, <1>9
<1>16. UNCHANGED <<priority, core_affinity, counters>>
  BY <1>4
<1> QED
  BY <1>5, <1>6, <1>9, <1>10, <1>11, <1>12, <1>13, <1>14, <1>15, <1>16, Zenon DEF Switched

-----------------------------------------------------------------------------
(* The hypotheses on the program, and the invariant of the places of the   *)
(* processes.                                                              *)

(* One process creates others, and either there is one core, on which      *)
(* processes may kill others while interrupts are masked, or no slot of    *)
(* the process table is used twice and each process kills itself only.     *)
OneCreator == \A p, q \in Creators : p = q
OneCore    == NCORES = 1 /\ TRUE \notin KillOthers
NoReuse    == KillOthers = {} /\ NCORES + MaxSpawn < NPROC
Separated  == OneCreator /\ (OneCore \/ NoReuse)

Runs(p)   == \E c \in Cores : currpid[c] = p
Listed(p) == \E c \in Cores : Holds(readylist[c], p)
Unused(p) == p \in Procs /\ state[p] = "PRFREE" /\ ~Runs(p)
Idle(p)   == p \in Procs /\ state[p] \in {"PRFREE", "PRSUSP"} /\ ~Runs(p)

(* Where a process is, against its state, core by core.                    *)
ListsApart == \A c \in Cores : Distinct(readylist[c])
ListsReady == \A c \in Cores : \A p \in Procs :
  Holds(readylist[c], p) => state[p] = "PRREADY" /\ core_affinity[p] = c
CoresRun == \A c \in Cores :
  /\ core_affinity[currpid[c]] = c
  /\ state[currpid[c]] = IF cpu[c].pc = "kill_resched" THEN "PRFREE" ELSE "PRCURR"
CurrentRuns == \A p \in Procs : state[p] = "PRCURR" => Runs(p)
ReadyListed == \A p \in Procs : state[p] = "PRREADY" =>
  Listed(p) \/ \E c \in Cores : cpu[c].pc \in {"ready_enqueue", "kill_clear"} /\ cpu[c].arg = p

(* What process p knows of the pid its kernel call is about: whether it    *)
(* runs or not, while it is switched off, and while it runs on core c.  A  *)
(* slot that create is filling in may be killed, but does not run.         *)
Creation == {"newpid_next", "newpid_check", "newpid_return", "create_count",
             "create_suspend", "create_fill", "ready", "ready_enqueue"}
Knows(p, x) ==
  /\ x.pc \in Creation => p \in Creators
  /\ x.pc \in {"newpid_return", "create_count", "create_suspend"} => Unused(x.arg)
  /\ x.pc \in {"create_fill", "ready"} => Idle(x.arg)
  /\ x.pc = "ready" /\ state[x.arg] = "PRSUSP" => regs[x.arg] = FreshContext
KnowsOff(p, x) ==
  /\ Knows(p, x)
  /\ x.pc \notin {"ready_enqueue", "ready_resched", "kill_resched", "kill_remove", "kill_clear"}
  /\ x.pc \in {"kill_count", "kill_switch"} => x.arg = p
KnowsOn(p, x) ==
  /\ Knows(p, x)
  /\ x.pc = "ready_enqueue" => /\ x.arg \in Procs /\ state[x.arg] = "PRREADY"
                               /\ ~Listed(x.arg) /\ core_affinity[x.arg] \in Cores
  /\ x.pc \in {"kill_count", "kill_switch"} => x.arg \in Procs /\ (x.arg = p \/ (OneCore /\ ~x.irq))
  /\ x.pc \in {"kill_remove", "kill_clear"} =>
       OneCore /\ ~x.irq /\ x.arg \in Procs /\ state[x.arg] = "PRREADY"
  /\ x.pc = "kill_clear" => ~Listed(x.arg)

CallsOn  == \A c \in Cores : KnowsOn(currpid[c], cpu[c])
CallsOff == \A p \in Procs : state[p] = "PRREADY" => KnowsOff(p, regs[p])

Places == /\ ListsApart /\ ListsReady /\ CoresRun /\ CurrentRuns /\ ReadyListed
          /\ CallsOn /\ CallsOff

(* No process is on two cores, and none that runs is listed.               *)
LEMMA Somewhere ==
  ASSUME Places, NEW c \in Cores, currpid[c] \in Procs
  PROVE  /\ \A d \in Cores : currpid[d] = currpid[c] => d = c
         /\ state[currpid[c]] \in {"PRFREE", "PRCURR"}
         /\ ~Listed(currpid[c])
BY DEF Places, CoresRun, ListsReady, Listed

(* On one core there is no other.                                          *)
LEMMA OnlyCore ==
  ASSUME OneCore, NEW c \in Cores, NEW d \in Cores
  PROVE  d = c
BY DEF OneCore, Cores

(* resched moves processes only between their own core and its lists.      *)
LEMMA SwitchPlaces ==
  ASSUME TypeOK, \A c \in Cores : currpid[c] \in Procs, Places,
         NEW c \in Cores, NEW saved, Switched(c, saved),
         Requeues(c) => KnowsOff(currpid[c], saved),
         cpu[c].pc \notin {"ready_enqueue", "kill_clear"}
  PROVE  Places'
<1> DEFINE old == currpid[c]
           new == currpid'[c]
<1>1. /\ old \in Procs /\ new \in Procs
      /\ core_affinity[old] = c /\ core_affinity[new] = c /\ ~Listed(old)
      /\ state[old] = IF Requeues(c) THEN "PRCURR" ELSE "PRFREE"
      /\ new # old => Holds(readylist[c], new) /\ state[new] = "PRREADY"
      /\ new = old => Requeues(c)
      /\ core_affinity' = core_affinity
  BY Somewhere, Zenon DEF Places, ListsReady, CoresRun, Switched, Requeues
<1>2. ASSUME NEW p \in Procs
      PROVE  /\ p = new => state'[p] = "PRCURR"
             /\ p # new /\ p = old /\ Requeues(c) => state'[p] = "PRREADY"
             /\ p # new /\ ~(p = old /\ Requeues(c)) => state'[p] = state[p]
  BY DEF Switched
<1>3. /\ \A d \in Cores \ {c} : /\ readylist'[d] = readylist[d]
                                /\ currpid'[d] = currpid[d]
                                /\ cpu'[d] = cpu[d]
                                /\ currpid[d] # new /\ currpid[d] # old
      /\ \A p \in Procs : Holds(readylist'[c], p) <=>
           p # new /\ (Holds(readylist[c], p) \/ (p = old /\ Requeues(c)))
  BY <1>1 DEF Switched, Places, CoresRun
<1>4. ListsApart'
  BY <1>3 DEF Switched, ListsApart, Places
<1>5. ListsReady'
  BY <1>1, <1>2, <1>3 DEF ListsReady, Places
<1>6. CurrentRuns'
  <2> SUFFICES ASSUME NEW p \in Procs, state'[p] = "PRCURR" PROVE Runs(p)'
    BY DEF CurrentRuns
  <2>1. CASE p = new
    BY <2>1 DEF Runs
  <2>2. CASE p # new
    <3>1. state[p] = "PRCURR" /\ p # old
      BY <1>1, <1>2, <2>2 DEF Requeues
    <3>2. PICK d \in Cores : currpid[d] = p
      BY <3>1 DEF Places, CurrentRuns, Runs
    <3> QED
      BY <1>3, <3>1, <3>2 DEF Runs
  <2> QED
    BY <2>1, <2>2
<1>7. ReadyListed'
  <2> SUFFICES ASSUME NEW p \in Procs, state'[p] = "PRREADY"
               PROVE  Listed(p)' \/ \E d \in Cores : /\ cpu'[d].pc \in {"ready_enqueue", "kill_clear"}
                                                     /\ cpu'[d].arg = p
    BY DEF ReadyListed
  <2>1. p # new
    BY <1>2
  <2>2. CASE p = old /\ Requeues(c)
    BY <1>3, <2>1, <2>2 DEF Listed
  <2>3. CASE ~(p = old /\ Requeues(c))
    <3>1. state[p] = "PRREADY"
      BY <1>2, <2>1, <2>3
    <3>2. CASE Listed(p)
      BY <1>3, <2>1, <3>2 DEF Listed
    <3>3. ASSUME NEW d \in Cores, cpu[d].pc \in {"ready_enqueue", "kill_clear"}, cpu[d].arg = p
          PROVE  cpu'[d].pc \in {"ready_enqueue", "kill_clear"} /\ cpu'[d].arg = p
      BY <1>3, <3>3
    <3> QED
      BY <3>1, <3>2, <3>3 DEF Places, ReadyListed
  <2> QED
    BY <2>2, <2>3
<1>8. FreshContext' = FreshContext
  BY DEF FreshContext
<1>9. ASSUME NEW p, NEW x, Knows(p, x) PROVE Knows(p, x)'
  <2>1. ASSUME Unused(x.arg) PROVE Unused(x.arg)'
    BY <1>1, <1>2, <1>3, <2>1 DEF Unused, Runs
  <2>2. ASSUME Idle(x.arg)
        PROVE  Idle(x.arg)' /\ state'[x.arg] = state[x.arg] /\ regs'[x.arg] = regs[x.arg]
    <3>1. x.arg \in Procs /\ state[x.arg] \in {"PRFREE", "PRSUSP"} /\ \A d \in Cores : currpid[d] # x.arg
      BY <2>2 DEF Idle, Runs
    <3>2. x.arg # old /\ x.arg # new
      BY <1>1, <3>1
    <3>3. state'[x.arg] = state[x.arg] /\ regs'[x.arg] = regs[x.arg] /\ \A d \in Cores : currpid'[d] # x.arg
      BY <1>2, <1>3, <3>1, <3>2 DEF Switched
    <3> QED
      BY <3>1, <3>3 DEF Idle, Runs
  <2> QED
    BY <1>8, <1>9, <2>1, <2>2 DEF Knows
<1>10. \A p, x : KnowsOff(p, x) => KnowsOff(p, x)'
  BY <1>9 DEF KnowsOff
<1>11. CallsOff'
  <2> SUFFICES ASSUME NEW p \in Procs, state'[p] = "PRREADY" PROVE KnowsOff(p, regs[p])'
    BY DEF CallsOff
  <2>1. CASE p = old
    <3>1. Requeues(c) /\ regs'[p] = saved
      BY <1>1, <1>2, <2>1 DEF Switched
    <3> QED
      BY <1>10, <2>1, <3>1
  <2>2. CASE p # old
    <3>1. regs'[p] = regs[p] /\ state[p] = "PRREADY"
      BY <1>2, <2>2 DEF Switched
    <3>2. KnowsOff(p, regs[p])
      BY <3>1 DEF Places, CallsOff
    <3> QED
      BY <1>10, <3>1, <3>2
  <2> QED
    BY <2>1, <2>2
<1>12. KnowsOff(currpid[c], cpu[c])'
  <2>1. CASE new = old
    BY <1>1, <1>10, <2>1 DEF Switched
  <2>2. CASE new # old
    <3>1. cpu'[c] = regs[new] /\ KnowsOff(new, regs[new])
      BY <1>1, <2>2 DEF Switched, Places, CallsOff
    <3> QED
      BY <1>10, <3>1
  <2> QED
    BY <2>1, <2>2
<1>13. CoresRun'
  <2>1. cpu'[c].pc # "kill_resched" /\ state'[new] = "PRCURR"
    BY <1>1, <1>2, <1>12 DEF KnowsOff
  <2>2. ASSUME NEW d \in Cores \ {c}
        PROVE  /\ core_affinity'[currpid'[d]] = d
               /\ state'[currpid'[d]] = IF cpu'[d].pc = "kill_resched" THEN "PRFREE" ELSE "PRCURR"
    BY <1>1, <1>2, <1>3 DEF Places, CoresRun
  <2> QED
    BY <1>1, <2>1, <2>2 DEF CoresRun
<1>14. CallsOn'
  <2>1. KnowsOn(currpid[c], cpu[c])'
    BY <1>1, <1>12 DEF KnowsOff, KnowsOn
  <2>2. ASSUME NEW d \in Cores \ {c} PROVE KnowsOn(currpid[d], cpu[d])'
    <3> DEFINE p == currpid[d]
               x == cpu[d]
    <3>1. KnowsOn(p, x) /\ currpid'[d] = p /\ cpu'[d] = x
      BY <1>3 DEF Places, CallsOn
    <3>2. ASSUME NEW q \in Procs, state[q] = "PRREADY", ~Listed(q)
          PROVE  state'[q] = "PRREADY" /\ ~Listed(q)'
      BY <1>1, <1>2, <1>3, <3>2 DEF Listed
    <3>3. ~OneCore
      BY OnlyCore
    <3>4. Knows(currpid[d], cpu[d])'
      BY <1>9, <3>1 DEF KnowsOn
    <3> HIDE DEF p, x
    <3> QED
      BY <1>1, <3>1, <3>2, <3>3, <3>4 DEF KnowsOn
  <2> QED
    BY <2>1, <2>2 DEF CallsOn
<1> QED
  BY <1>4, <1>5, <1>6, <1>7, <1>11, <1>13, <1>14 DEF Places

-----------------------------------------------------------------------------
(* Creation: newpid, create, and the first half of ready. *)

LEMMA GotoMoves ==
  ASSUME TypeOK, NEW c \in Cores, NEW l, Goto(c, l)
  PROVE  /\ cpu'[c].pc = l /\ cpu'[c].arg = cpu[c].arg /\ cpu'[c].irq = cpu[c].irq
         /\ \A d \in Cores \ {c} : cpu'[d] = cpu[d]
BY DEF Goto, TypeOK, Contexts

(* While the creator is in create or ready, no other call is.              *)
LEMMA OneCreates ==
  ASSUME OneCreator, Places, NEW c \in Cores, currpid[c] \in Procs, cpu[c].pc \in Creation
  PROVE  /\ \A d \in Cores \ {c} : cpu[d].pc \notin Creation
         /\ \A p \in Procs : state[p] = "PRREADY" => regs[p].pc \notin Creation
<1>1. \A d \in Cores : cpu[d].pc \in Creation => currpid[d] \in Creators
  BY DEF Places, CallsOn, KnowsOn, Knows
<1>2. \A p \in Procs : state[p] = "PRREADY" /\ regs[p].pc \in Creation => p \in Creators
  BY DEF Places, CallsOff, KnowsOff, Knows
<1> QED
  BY <1>1, <1>2, Somewhere DEF OneCreator

(* Steps of a call that only move it on.                                   *)
LEMMA QuietPlaces ==
  ASSUME Places, NEW c \in Cores, currpid[c] \in Procs,
         UNCHANGED <<state, core_affinity, regs, currpid, readylist>>,
         \A d \in Cores \ {c} : cpu'[d] = cpu[d],
         cpu[c].pc \notin {"ready_enqueue", "kill_clear", "kill_resched"},
         cpu'[c].pc # "kill_resched", KnowsOn(currpid[c], cpu[c])'
  PROVE  Places'
<1>1. /\ \A p : Listed(p)' <=> Listed(p)
      /\ \A p : Runs(p)' <=> Runs(p)
      /\ \A p : Unused(p)' <=> Unused(p)
      /\ \A p : Idle(p)' <=> Idle(p)
  BY DEF Listed, Runs, Unused, Idle
<1>2. ListsApart' /\ ListsReady' /\ CurrentRuns'
  BY <1>1 DEF Places, ListsApart, ListsReady, CurrentRuns
<1>3. FreshContext' = FreshContext
  BY DEF FreshContext
<1>4. CoresRun'
  BY DEF Places, CoresRun
<1>5. ReadyListed'
  <2> SUFFICES ASSUME NEW p \in Procs, state[p] = "PRREADY", ~Listed(p)
               PROVE  \E d \in Cores : cpu'[d].pc \in {"ready_enqueue", "kill_clear"} /\ cpu'[d].arg = p
    BY <1>1 DEF ReadyListed
  <2> PICK d \in Cores : cpu[d].pc \in {"ready_enqueue", "kill_clear"} /\ cpu[d].arg = p
    BY DEF Places, ReadyListed
  <2> QED
    BY DEF Places
<1>6. CallsOff'
  BY <1>1, <1>3 DEF Places, CallsOff, KnowsOff, Knows
<1>7. CallsOn'
  <2>1. ASSUME NEW d \in Cores \ {c} PROVE KnowsOn(currpid[d], cpu[d])'
    <3>1. KnowsOn(currpid[d], cpu[d]) /\ cpu'[d] = cpu[d]
      BY DEF Places, CallsOn
    <3> QED
      BY <1>1, <1>3, <3>1 DEF KnowsOn, Knows
  <2> QED
    BY <2>1 DEF CallsOn
<1> QED
  BY <1>2, <1>4, <1>5, <1>6, <1>7 DEF Places

(* create takes a slot that is not in use ...                              *)
LEMMA SuspendPlaces ==
  ASSUME TypeOK, OneCreator, \A c \in Cores : currpid[c] \in Procs, Places,
         NEW c \in Cores, CreateSuspend(c)
  PROVE  Places'
<1> DEFINE pid == cpu[c].arg
<1>1. /\ cpu[c].pc = "create_suspend" /\ currpid[c] \in Creators
      /\ pid \in Procs /\ state[pid] = "PRFREE" /\ ~Runs(pid)
  BY DEF CreateSuspend, At, Places, CallsOn, KnowsOn, Knows, Creation, Unused
<1>2. /\ \A p \in Procs : state'[p] = IF p = pid THEN "PRSUSP" ELSE state[p]
      /\ UNCHANGED <<core_affinity, regs, currpid, readylist>>
      /\ cpu'[c].pc = "create_fill" /\ cpu'[c].arg = pid
      /\ \A d \in Cores \ {c} : cpu'[d] = cpu[d]
  BY <1>1, GotoMoves DEF CreateSuspend, TypeOK, schedVars
<1>3. /\ \A d \in Cores \ {c} : cpu[d].pc \notin Creation
      /\ \A p \in Procs : state[p] = "PRREADY" => regs[p].pc \notin Creation
  BY <1>1, OneCreates DEF Creation
<1>4. /\ \A p : Listed(p)' <=> Listed(p)
      /\ \A p : Runs(p)' <=> Runs(p)
      /\ ~Listed(pid) /\ \A d \in Cores : currpid[d] # pid
  BY <1>1, <1>2 DEF Listed, Runs, Places, ListsReady
<1>5. ListsApart' /\ ListsReady'
  BY <1>2, <1>4 DEF Places, ListsApart, ListsReady, Listed
<1>6. CurrentRuns' /\ CoresRun'
  BY <1>1, <1>2, <1>4 DEF Places, CurrentRuns, CoresRun
<1>8. ReadyListed'
  <2> SUFFICES ASSUME NEW p \in Procs, state[p] = "PRREADY", ~Listed(p), p # pid
               PROVE  \E d \in Cores : cpu'[d].pc \in {"ready_enqueue", "kill_clear"} /\ cpu'[d].arg = p
    BY <1>2, <1>4 DEF ReadyListed
  <2> PICK d \in Cores : cpu[d].pc \in {"ready_enqueue", "kill_clear"} /\ cpu[d].arg = p
    BY DEF Places, ReadyListed
  <2> QED
    BY <1>1, <1>2 DEF Places
<1>9. CallsOff'
  <2> SUFFICES ASSUME NEW p \in Procs, state'[p] = "PRREADY" PROVE KnowsOff(p, regs[p])'
    BY DEF CallsOff
  <2>1. regs'[p] = regs[p] /\ KnowsOff(p, regs[p]) /\ regs[p].pc \notin Creation
    BY <1>2, <1>3 DEF Places, CallsOff
  <2> QED
    BY <2>1 DEF KnowsOff, Knows, Creation
<1>10. CallsOn'
  <2>1. KnowsOn(currpid[c], cpu[c])'
    BY <1>1, <1>2, <1>4 DEF KnowsOn, Knows, Creation, Idle
  <2>2. ASSUME NEW d \in Cores \ {c} PROVE KnowsOn(currpid[d], cpu[d])'
    <3>1. KnowsOn(currpid[d], cpu[d]) /\ cpu'[d] = cpu[d] /\ cpu[d].pc \notin Creation /\ ~OneCore
      BY <1>2, <1>3, OnlyCore DEF Places, CallsOn
    <3> QED
      BY <1>2, <3>1 DEF KnowsOn, Knows, Creation
  <2> QED
    BY <2>1, <2>2 DEF CallsOn
<1> QED
  BY <1>5, <1>6, <1>8, <1>9, <1>10 DEF Places

(* ... and fills it in.                                                    *)
LEMMA FillPlaces ==
  ASSUME TypeOK, OneCreator, \A c \in Cores : currpid[c] \in Procs, Places,
         NEW c \in Cores, CreateFill(c)
  PROVE  Places'
<1> DEFINE pid == cpu[c].arg
<1>1. /\ cpu[c].pc = "create_fill" /\ currpid[c] \in Creators
      /\ pid \in Procs /\ state[pid] \in {"PRFREE", "PRSUSP"} /\ ~Runs(pid)
  BY DEF CreateFill, At, Places, CallsOn, KnowsOn, Knows, Creation, Idle
<1>2. /\ state' = state
      /\ \A p \in Procs : regs'[p] = IF p = pid THEN FreshContext ELSE regs[p]
      /\ \A p \in Procs : core_affinity'[p] = IF p = pid THEN -1 ELSE core_affinity[p]
      /\ UNCHANGED <<currpid, readylist>>
      /\ cpu'[c].pc = "ready" /\ cpu'[c].arg = pid
      /\ \A d \in Cores \ {c} : cpu'[d] = cpu[d]
  BY <1>1, GotoMoves DEF CreateFill, TypeOK, schedVars
<1>3. /\ \A d \in Cores \ {c} : cpu[d].pc \notin Creation
      /\ \A p \in Procs : state[p] = "PRREADY" => regs[p].pc \notin Creation
  BY <1>1, OneCreates DEF Creation
<1>4. /\ \A p : Listed(p)' <=> Listed(p)
      /\ \A p : Runs(p)' <=> Runs(p)
      /\ ~Listed(pid) /\ \A d \in Cores : currpid[d] # pid
  BY <1>1, <1>2 DEF Listed, Runs, Places, ListsReady
<1>5. ListsApart' /\ ListsReady'
  BY <1>2, <1>4 DEF Places, ListsApart, ListsReady, Listed
<1>6. CurrentRuns' /\ CoresRun'
  BY <1>1, <1>2, <1>4 DEF Places, CurrentRuns, CoresRun
<1>7. FreshContext' = FreshContext
  BY DEF FreshContext
<1>8. ReadyListed'
  <2> SUFFICES ASSUME NEW p \in Procs, state[p] = "PRREADY", ~Listed(p), p # pid
               PROVE  \E d \in Cores : cpu'[d].pc \in {"ready_enqueue", "kill_clear"} /\ cpu'[d].arg = p
    BY <1>1, <1>2, <1>4 DEF ReadyListed
  <2> PICK d \in Cores : cpu[d].pc \in {"ready_enqueue", "kill_clear"} /\ cpu[d].arg = p
    BY DEF Places, ReadyListed
  <2> QED
    BY <1>1, <1>2 DEF Places
<1>9. CallsOff'
  <2> SUFFICES ASSUME NEW p \in Procs, state'[p] = "PRREADY" PROVE KnowsOff(p, regs[p])'
    BY DEF CallsOff
  <2>1. p # pid
    BY <1>1, <1>2
  <2>2. regs'[p] = regs[p] /\ KnowsOff(p, regs[p]) /\ regs[p].pc \notin Creation
    BY <1>2, <1>3, <2>1 DEF Places, CallsOff
  <2> QED
    BY <2>2 DEF KnowsOff, Knows, Creation
<1>10. CallsOn'
  <2>1. KnowsOn(currpid[c], cpu[c])'
    BY <1>1, <1>2, <1>4, <1>7 DEF KnowsOn, Knows, Creation, Idle
  <2>2. ASSUME NEW d \in Cores \ {c} PROVE KnowsOn(currpid[d], cpu[d])'
    <3>1. KnowsOn(currpid[d], cpu[d]) /\ cpu'[d] = cpu[d] /\ cpu[d].pc \notin Creation /\ ~OneCore
      BY <1>2, <1>3, OnlyCore DEF Places, CallsOn
    <3> QED
      BY <1>2, <3>1 DEF KnowsOn, Knows, Creation
  <2> QED
    BY <2>1, <2>2 DEF CallsOn
<1> QED
  BY <1>5, <1>6, <1>8, <1>9, <1>10 DEF Places

(* ready gives a suspended process its core ...                            *)
LEMMA MarkPlaces ==
  ASSUME TypeOK, OneCreator, \A c \in Cores : currpid[c] \in Procs, Places,
         NEW c \in Cores, ReadyMark(c)
  PROVE  Places'
<1> DEFINE pid == cpu[c].arg
<1>1. /\ cpu[c].pc = "ready" /\ currpid[c] \in Creators /\ currpid[c] \in Procs
      /\ pid \in Procs /\ state[pid] \in {"PRFREE", "PRSUSP"}
      /\ state[pid] = "PRSUSP" => regs[pid] = FreshContext
  BY DEF ReadyMark, At, Places, CallsOn, KnowsOn, Knows, Creation, Idle
<1>2. CASE isbadpid(pid)
  <2>1. /\ UNCHANGED <<state, core_affinity, regs, currpid, readylist>>
        /\ cpu'[c].pc = "user" /\ \A d \in Cores \ {c} : cpu'[d] = cpu[d]
    BY <1>2, GotoMoves DEF ReadyMark, schedVars
  <2>2. KnowsOn(currpid[c], cpu[c])'
    BY <2>1 DEF KnowsOn, Knows, Creation
  <2> QED
    BY <1>1, <2>1, <2>2, QuietPlaces
<1>3. CASE ~isbadpid(pid)
  <2>1. /\ state[pid] = "PRSUSP" /\ regs[pid] = FreshContext /\ ~Listed(pid)
        /\ \A d \in Cores : currpid[d] # pid
    BY <1>1, <1>3 DEF isbadpid, Places, ListsReady, Listed, CoresRun
  <2>2. /\ \A p \in Procs : state'[p] = IF p = pid THEN "PRREADY" ELSE state[p]
        /\ \A p \in Procs : p # pid => core_affinity'[p] = core_affinity[p]
        /\ UNCHANGED <<regs, currpid, readylist>>
        /\ cpu'[c].pc = "ready_enqueue" /\ cpu'[c].arg = pid
        /\ \A d \in Cores \ {c} : cpu'[d] = cpu[d]
    BY <1>1, <1>3, GotoMoves DEF ReadyMark, TypeOK, schedVars
  <2>3. core_affinity'[pid] \in Cores
    BY <1>1, <1>3 DEF ReadyMark, TypeOK
  <2>4. /\ \A d \in Cores \ {c} : cpu[d].pc \notin Creation
        /\ \A p \in Procs : state[p] = "PRREADY" => regs[p].pc \notin Creation
    BY <1>1, OneCreates DEF Creation
  <2>5. /\ \A p : Listed(p)' <=> Listed(p)
        /\ \A p : Runs(p)' <=> Runs(p)
    BY <2>2 DEF Listed, Runs
  <2>6. ListsApart' /\ ListsReady'
    BY <2>1, <2>2 DEF Places, ListsApart, ListsReady, Listed
  <2>7. CurrentRuns' /\ CoresRun'
    BY <1>1, <2>1, <2>2, <2>5 DEF Places, CurrentRuns, CoresRun
  <2>9. ReadyListed'
    <3> SUFFICES ASSUME NEW p \in Procs, state[p] = "PRREADY", ~Listed(p), p # pid
                 PROVE  \E d \in Cores : cpu'[d].pc \in {"ready_enqueue", "kill_clear"} /\ cpu'[d].arg = p
      BY <2>2, <2>5 DEF ReadyListed
    <3> PICK d \in Cores : cpu[d].pc \in {"ready_enqueue", "kill_clear"} /\ cpu[d].arg = p
      BY DEF Places, ReadyListed
    <3> QED
      BY <1>1, <2>2 DEF Places
  <2>10. CallsOff'
    <3> SUFFICES ASSUME NEW p \in Procs, state'[p] = "PRREADY" PROVE KnowsOff(p, regs[p])'
      BY DEF CallsOff
    <3>1. CASE p = pid
      <4>1. regs'[p].pc = "user"
        BY <2>1, <2>2, <3>1 DEF FreshContext
      <4> QED
        BY <4>1 DEF KnowsOff, Knows, Creation
    <3>2. CASE p # pid
      <4>1. regs'[p] = regs[p] /\ KnowsOff(p, regs[p]) /\ regs[p].pc \notin Creation
        BY <2>2, <2>4, <3>2 DEF Places, CallsOff
      <4> QED
        BY <4>1 DEF KnowsOff, Knows, Creation
    <3> QED
      BY <3>1, <3>2
  <2>11. CallsOn'
    <3>1. KnowsOn(currpid[c], cpu[c])'
      BY <1>1, <2>1, <2>2, <2>3, <2>5 DEF KnowsOn, Knows, Creation
    <3>2. ASSUME NEW d \in Cores \ {c} PROVE KnowsOn(currpid[d], cpu[d])'
      <4>1. KnowsOn(currpid[d], cpu[d]) /\ cpu'[d] = cpu[d] /\ cpu[d].pc \notin Creation /\ ~OneCore
        BY <2>2, <2>4, OnlyCore DEF Places, CallsOn
      <4> QED
        BY <2>2, <4>1 DEF KnowsOn, Knows, Creation
    <3> QED
      BY <3>1, <3>2 DEF CallsOn
  <2> QED
    BY <2>6, <2>7, <2>9, <2>10, <2>11 DEF Places
<1> QED
  BY <1>2, <1>3

-----------------------------------------------------------------------------
(* ready and kill. *)

(* ... and then puts it on the list of that core.                          *)
LEMMA EnqueuePlaces ==
  ASSUME TypeOK, OneCreator, \A c \in Cores : currpid[c] \in Procs, Places,
         NEW c \in Cores, ReadyEnqueue(c)
  PROVE  Places'
<1> DEFINE pid  == cpu[c].arg
           core == core_affinity[pid]
           q    == priority[pid]
<1>1. /\ cpu[c].pc = "ready_enqueue" /\ currpid[c] \in Creators /\ currpid[c] \in Procs
      /\ pid \in Procs /\ state[pid] = "PRREADY" /\ ~Listed(pid) /\ core \in Cores
      /\ q \in Priorities /\ ~isbadpid(pid)
  BY DEF ReadyEnqueue, At, Places, CallsOn, KnowsOn, Knows, Creation, TypeOK, isbadpid
<1>2. /\ UNCHANGED <<state, core_affinity, regs, currpid>>
      /\ cpu'[c].pc \in {"ready_resched", "user"}
      /\ \A d \in Cores \ {c} : cpu'[d] = cpu[d]
  BY GotoMoves DEF ReadyEnqueue, pcbVars
<1>3. readylist' = [readylist EXCEPT ![core] = [readylist[core] EXCEPT ![q] = Append(@, pid)]]
  BY <1>1 DEF ReadyEnqueue, Enqueue
<1>4. /\ Distinct(readylist'[core])
      /\ \A p : Holds(readylist'[core], p) <=> Holds(readylist[core], p) \/ p = pid
      /\ \A d \in Cores \ {core} : readylist'[d] = readylist[d]
  <2>1. readylist[core] \in Lists /\ Distinct(readylist[core]) /\ ~Holds(readylist[core], pid)
    BY <1>1 DEF TypeOK, Lists, Places, ListsApart, Listed
  <2>2. readylist'[core] = [readylist[core] EXCEPT ![q] = Append(@, pid)]
    BY <1>1, <1>3 DEF TypeOK
  <2>3. \A d \in Cores \ {core} : readylist'[d] = readylist[d]
    BY <1>1, <1>3 DEF TypeOK
  <2> HIDE DEF core, q, pid
  <2>4. /\ Distinct([readylist[core] EXCEPT ![q] = Append(@, pid)])
        /\ \A p : Holds([readylist[core] EXCEPT ![q] = Append(@, pid)], p)
                  <=> Holds(readylist[core], p) \/ p = pid
    BY <1>1, <2>1, AppendDistinct
  <2> QED
    BY <2>2, <2>3, <2>4
<1>5. /\ \A p : Listed(p)' <=> Listed(p) \/ p = pid
      /\ \A p : Runs(p)' <=> Runs(p)
      /\ \A p : Unused(p)' <=> Unused(p)
  BY <1>1, <1>2, <1>4 DEF Listed, Runs, Unused
<1>6. /\ \A d \in Cores \ {c} : cpu[d].pc \notin Creation
      /\ \A p \in Procs : state[p] = "PRREADY" => regs[p].pc \notin Creation
  BY <1>1, OneCreates DEF Creation
<1>7. ListsApart' /\ ListsReady'
  BY <1>1, <1>2, <1>4 DEF Places, ListsApart, ListsReady
<1>8. CurrentRuns' /\ CoresRun'
  BY <1>1, <1>2, <1>5 DEF Places, CurrentRuns, CoresRun
<1>9. ReadyListed'
  <2> SUFFICES ASSUME NEW p \in Procs, state[p] = "PRREADY", ~Listed(p), p # pid
               PROVE  \E d \in Cores : cpu'[d].pc \in {"ready_enqueue", "kill_clear"} /\ cpu'[d].arg = p
    BY <1>2, <1>5 DEF ReadyListed
  <2> PICK d \in Cores : cpu[d].pc \in {"ready_enqueue", "kill_clear"} /\ cpu[d].arg = p
    BY DEF Places, ReadyListed
  <2> QED
    BY <1>1, <1>2 DEF Places
<1>10. CallsOff'
  BY <1>2, <1>6 DEF Places, CallsOff, KnowsOff, Knows, Creation
<1>11. CallsOn'
  <2>1. KnowsOn(currpid[c], cpu[c])'
    BY <1>2 DEF KnowsOn, Knows, Creation
  <2>2. ASSUME NEW d \in Cores \ {c} PROVE KnowsOn(currpid[d], cpu[d])'
    <3>1. KnowsOn(currpid[d], cpu[d]) /\ cpu'[d] = cpu[d] /\ cpu[d].pc \notin Creation /\ ~OneCore
      BY <1>2, <1>6, OnlyCore DEF Places, CallsOn
    <3> QED
      BY <1>2, <1>5, <3>1 DEF KnowsOn, Knows, Creation
  <2> QED
    BY <2>1, <2>2 DEF CallsOn
<1> QED
  BY <1>7, <1>8, <1>9, <1>10, <1>11 DEF Places

(* kill frees the slot of the process that calls it, or, on a core where   *)
(* nothing interrupts it, one that is not on any list.                     *)
LEMMA FreePlaces ==
  ASSUME TypeOK, \A c \in Cores : currpid[c] \in Procs, Places,
         NEW c \in Cores, NEW pid \in Procs,
         state' = [state EXCEPT ![pid] = "PRFREE"], ~Listed(pid),
         UNCHANGED <<core_affinity, regs, currpid, readylist>>,
         \A d \in Cores \ {c} : cpu'[d] = cpu[d],
         \/ pid = currpid[c] /\ cpu[c].pc # "kill_resched" /\ cpu'[c].pc = "kill_resched"
         \/ OneCore /\ pid # currpid[c] /\ cpu[c].pc # "kill_resched" /\ cpu'[c].pc = "user",
         cpu[c].pc = "ready_enqueue" \/ cpu[c].pc = "kill_clear" => cpu[c].arg = pid,
         KnowsOn(currpid[c], cpu[c])'
  PROVE  Places'
<1>1. \A p \in Procs : state'[p] = IF p = pid THEN "PRFREE" ELSE state[p]
  BY DEF TypeOK
<1>2. /\ \A p : Listed(p)' <=> Listed(p)
      /\ \A p : Runs(p)' <=> Runs(p)
      /\ \A p : Unused(p) => Unused(p)'
      /\ \A p : Idle(p) => Idle(p)'
  BY <1>1 DEF Listed, Runs, Unused, Idle
<1>3. /\ OneCore \/ state[pid] = "PRCURR"
      /\ \A d \in Cores : currpid[d] = pid => d = c
  BY OnlyCore DEF Places, CoresRun
<1>4. ListsApart' /\ ListsReady'
  BY <1>1 DEF Places, ListsApart, ListsReady, Listed
<1>5. CoresRun'
  BY <1>1, <1>3, OnlyCore DEF Places, CoresRun
<1>6. CurrentRuns'
  BY <1>1, <1>2 DEF Places, CurrentRuns
<1>7. ReadyListed'
  <2> SUFFICES ASSUME NEW p \in Procs, state[p] = "PRREADY", ~Listed(p), p # pid
               PROVE  \E d \in Cores : cpu'[d].pc \in {"ready_enqueue", "kill_clear"} /\ cpu'[d].arg = p
    BY <1>1, <1>2 DEF ReadyListed
  <2> PICK d \in Cores : cpu[d].pc \in {"ready_enqueue", "kill_clear"} /\ cpu[d].arg = p
    BY DEF Places, ReadyListed
  <2> QED
    BY <1>1 DEF Places
<1>8. \A p, x : Knows(p, x) => Knows(p, x)'
  <2> SUFFICES ASSUME NEW p, NEW x, Knows(p, x) PROVE Knows(p, x)'
    OBVIOUS
  <2>1. FreshContext' = FreshContext
    BY DEF FreshContext
  <2>2. Idle(x.arg) /\ state'[x.arg] = "PRSUSP" => state[x.arg] = "PRSUSP"
    BY <1>1 DEF Idle
  <2> QED
    BY <1>2, <2>1, <2>2 DEF Knows
<1>9. CallsOff'
  <2> SUFFICES ASSUME NEW p \in Procs, state'[p] = "PRREADY" PROVE KnowsOff(p, regs[p])'
    BY DEF CallsOff
  <2>1. KnowsOff(p, regs[p])
    BY <1>1 DEF Places, CallsOff
  <2> QED
    BY <1>8, <2>1 DEF KnowsOff
<1>10. CallsOn'
  <2>1. ASSUME NEW d \in Cores \ {c} PROVE KnowsOn(currpid[d], cpu[d])'
    <3>1. KnowsOn(currpid[d], cpu[d]) /\ cpu'[d] = cpu[d] /\ ~OneCore
      BY OnlyCore DEF Places, CallsOn
    <3>2. Knows(currpid[d], cpu[d])'
      BY <1>8, <3>1 DEF KnowsOn
    <3> QED
      BY <1>1, <1>2, <1>3, <3>1, <3>2 DEF KnowsOn
  <2> QED
    BY <2>1 DEF CallsOn
<1> QED
  BY <1>4, <1>5, <1>6, <1>7, <1>9, <1>10 DEF Places

(* The switch of kill: by the state of the process before it is freed.     *)
LEMMA KillSwitchPlaces ==
  ASSUME TypeOK, \A c \in Cores : currpid[c] \in Procs, Places,
         NEW c \in Cores, KillSwitch(c)
  PROVE  Places'
<1> DEFINE pid == cpu[c].arg
           p   == currpid[c]
<1>1. /\ cpu[c].pc = "kill_switch" /\ p \in Procs /\ pid \in Procs
      /\ pid = p \/ (OneCore /\ ~cpu[c].irq)
      /\ state[p] = "PRCURR"
      /\ pid = p => state[pid] = "PRCURR"
      /\ UNCHANGED <<core_affinity, regs, currpid, readylist>>
  BY DEF KillSwitch, At, Places, CallsOn, KnowsOn, CoresRun, schedVars
<1>2. CASE state[pid] = "PRREADY"
  <2>1. /\ cpu'[c].pc = "kill_remove" /\ cpu'[c].arg = pid /\ cpu'[c].irq = cpu[c].irq
        /\ \A d \in Cores \ {c} : cpu'[d] = cpu[d]
        /\ UNCHANGED state
    BY <1>2, GotoMoves DEF KillSwitch
  <2>2. KnowsOn(currpid[c], cpu[c])'
    BY <1>1, <1>2, <2>1 DEF KnowsOn, Knows, Creation, OneCore
  <2> QED
    BY <1>1, <2>1, <2>2, QuietPlaces
<1>3. CASE state[pid] # "PRREADY"
  <2>1. /\ cpu'[c].pc = (IF state[pid] = "PRCURR" THEN "kill_resched" ELSE "user")
        /\ cpu'[c].arg = pid
        /\ \A d \in Cores \ {c} : cpu'[d] = cpu[d]
        /\ state' = [state EXCEPT ![pid] = "PRFREE"]
    BY <1>3, GotoMoves DEF KillSwitch
  <2>2. state[pid] = "PRCURR" <=> pid = p
    <3>1. ASSUME state[pid] = "PRCURR" PROVE pid = p
      <4>1. PICK d \in Cores : currpid[d] = pid
        BY <1>1, <3>1 DEF Places, CurrentRuns, Runs
      <4> QED
        BY <1>1, <4>1, OnlyCore
    <3> QED
      BY <1>1, <3>1
  <2>3. ~Listed(pid)
    BY <1>1, <1>3 DEF Places, ListsReady, Listed
  <2>4. KnowsOn(currpid[c], cpu[c])'
    BY <2>1 DEF KnowsOn, Knows, Creation
  <2>5. \/ pid = currpid[c] /\ cpu[c].pc # "kill_resched" /\ cpu'[c].pc = "kill_resched"
        \/ OneCore /\ pid # currpid[c] /\ cpu[c].pc # "kill_resched" /\ cpu'[c].pc = "user"
    BY <1>1, <2>1, <2>2
  <2>6. cpu[c].pc \notin {"ready_enqueue", "kill_clear"}
    BY <1>1
  <2> HIDE DEF pid, p
  <2> QED
    BY <1>1, <2>1, <2>3, <2>4, <2>5, <2>6, FreePlaces
<1> QED
  BY <1>2, <1>3

(* The end of a kill of another process: its slot is free.                 *)
LEMMA KillClearPlaces ==
  ASSUME TypeOK, \A c \in Cores : currpid[c] \in Procs, Places,
         NEW c \in Cores, KillClear(c)
  PROVE  Places'
<1> DEFINE pid == cpu[c].arg
<1>1. /\ cpu[c].pc = "kill_clear" /\ pid \in Procs /\ OneCore /\ state[pid] = "PRREADY"
      /\ ~Listed(pid) /\ currpid[c] # pid
      /\ UNCHANGED <<core_affinity, regs, currpid, readylist>>
      /\ state' = [state EXCEPT ![pid] = "PRFREE"]
  BY DEF KillClear, At, Places, CallsOn, KnowsOn, CoresRun, schedVars
<1>2. cpu'[c].pc = "user" /\ \A d \in Cores \ {c} : cpu'[d] = cpu[d]
  BY GotoMoves DEF KillClear
<1>3. KnowsOn(currpid[c], cpu[c])'
  BY <1>2 DEF KnowsOn, Knows, Creation
<1>4. \/ pid = currpid[c] /\ cpu[c].pc # "kill_resched" /\ cpu'[c].pc = "kill_resched"
      \/ OneCore /\ pid # currpid[c] /\ cpu[c].pc # "kill_resched" /\ cpu'[c].pc = "user"
  BY <1>1, <1>2
<1>5. cpu[c].pc = "ready_enqueue" \/ cpu[c].pc = "kill_clear" => cpu[c].arg = pid
  OBVIOUS
<1> HIDE DEF pid
<1> QED
  BY <1>1, <1>2, <1>3, <1>4, <1>5, FreePlaces

(* remove takes the process from its list; no list leads to it any more.   *)
LEMMA KillRemovePlaces ==
  ASSUME TypeOK, \A c \in Cores : currpid[c] \in Procs, Places,
         NEW c \in Cores, KillRemove(c)
  PROVE  Places'
<1> DEFINE pid == cpu[c].arg
<1>1. /\ cpu[c].pc = "kill_remove" /\ pid \in Procs /\ OneCore /\ ~cpu[c].irq
      /\ state[pid] = "PRREADY"
      /\ UNCHANGED <<state, core_affinity, regs, currpid>>
      /\ readylist' = [d \in Cores |-> [q \in Priorities |-> Unlink(readylist[d][q], pid)]]
  BY DEF KillRemove, At, Places, CallsOn, KnowsOn, isbadpid, pcbVars
<1>2. /\ cpu'[c].pc = "kill_clear" /\ cpu'[c].arg = pid /\ cpu'[c].irq = cpu[c].irq
      /\ \A d \in Cores \ {c} : cpu'[d] = cpu[d]
  BY GotoMoves DEF KillRemove
<1>3. ASSUME NEW d \in Cores
      PROVE  /\ Distinct(readylist'[d])
             /\ \A p : Holds(readylist'[d], p) <=> Holds(readylist[d], p) /\ p # pid
  <2>1. readylist[d] \in Lists /\ Distinct(readylist[d])
    BY DEF TypeOK, Lists, Places, ListsApart
  <2>2. readylist'[d] = [q \in Priorities |-> Unlink(readylist[d][q], pid)]
    BY <1>1
  <2> HIDE DEF pid
  <2>3. /\ Distinct([q \in Priorities |-> Unlink(readylist[d][q], pid)])
        /\ \A p : Holds([q \in Priorities |-> Unlink(readylist[d][q], pid)], p)
                  <=> Holds(readylist[d], p) /\ p # pid
    BY <1>1, <2>1, UnlinkDistinct
  <2> QED
    BY <2>2, <2>3
<1>4. /\ \A p : Listed(p)' <=> Listed(p) /\ p # pid
      /\ \A p : Runs(p)' <=> Runs(p)
      /\ \A p : Unused(p)' <=> Unused(p)
      /\ \A p : Idle(p)' <=> Idle(p)
  BY <1>1, <1>3 DEF Listed, Runs, Unused, Idle
<1>5. ListsApart' /\ ListsReady'
  BY <1>1, <1>3 DEF Places, ListsApart, ListsReady
<1>6. CurrentRuns' /\ CoresRun'
  BY <1>1, <1>2, <1>4 DEF Places, CurrentRuns, CoresRun
<1>7. ReadyListed'
  <2> SUFFICES ASSUME NEW p \in Procs, state[p] = "PRREADY", ~Listed(p), p # pid
               PROVE  \E d \in Cores : cpu'[d].pc \in {"ready_enqueue", "kill_clear"} /\ cpu'[d].arg = p
    BY <1>1, <1>2, <1>4 DEF ReadyListed
  <2> PICK d \in Cores : cpu[d].pc \in {"ready_enqueue", "kill_clear"} /\ cpu[d].arg = p
    BY DEF Places, ReadyListed
  <2> QED
    BY <1>1, <1>2 DEF Places
<1>8. CallsOff'
  <2>1. FreshContext' = FreshContext
    BY DEF FreshContext
  <2> QED
    BY <1>1, <1>4, <2>1 DEF Places, CallsOff, KnowsOff, Knows
<1>9. CallsOn'
  <2> SUFFICES ASSUME NEW d \in Cores PROVE KnowsOn(currpid[d], cpu[d])'
    BY DEF CallsOn
  <2>1. d = c
    BY <1>1, OnlyCore
  <2> QED
    BY <1>1, <1>2, <1>4, <2>1 DEF KnowsOn, Knows, Creation, OneCore
<1> QED
  BY <1>5, <1>6, <1>7, <1>8, <1>9 DEF Places

-----------------------------------------------------------------------------
(* The slots that no process has had yet. *)

(* Where no slot is used twice, the slots above nextpid are untouched, and *)
(* a call of create works on the one newpid has come to.                   *)
Reserves(x) ==
  /\ x.pc = "newpid_next" => nextpid < NCORES + spawned
  /\ x.pc = "newpid_check" => Unused(nextpid)
  /\ x.pc \in {"newpid_return", "create_count", "create_suspend", "create_fill"} =>
       x.arg \in Procs /\ x.arg <= nextpid
NewSlots == NoReuse =>
  /\ nextpid <= NCORES + spawned
  /\ \A p \in Procs : p > nextpid => Unused(p)
  /\ \A c \in Cores : Reserves(cpu[c])
  /\ \A p \in Procs : state[p] = "PRREADY" => Reserves(regs[p])

SchedInv == TypeOK /\ NullInv /\ Places /\ NewSlots /\ ReadsAgree

(* Steps of a core outside create, whatever they do to the slots in use.   *)
LEMMA SlotsFrame ==
  ASSUME NewSlots, NoReuse, NEW c \in Cores, UNCHANGED <<nextpid, spawned>>,
         \A p \in Procs : Unused(p) => Unused(p)',
         \A d \in Cores \ {c} : cpu'[d] = cpu[d],
         Reserves(cpu[c])',
         \A p \in Procs : /\ state'[p] = "PRREADY"
                          => \/ regs'[p].pc \notin Creation
                             \/ state[p] = "PRREADY" /\ regs'[p] = regs[p]
                             \/ regs'[p] = cpu[c]
  PROVE  NewSlots'
<1>1. ASSUME NEW x, Reserves(x) PROVE Reserves(x)'
  BY <1>1 DEF Reserves, Unused
<1>2. nextpid' <= NCORES + spawned' /\ \A p \in Procs : p > nextpid' => Unused(p)'
  BY DEF NewSlots
<1>3. \A d \in Cores : Reserves(cpu[d])'
  <2> TAKE d \in Cores
  <2>1. CASE d = c
    BY <2>1
  <2>2. CASE d # c
    <3>1. Reserves(cpu[d]) /\ cpu'[d] = cpu[d]
      BY <2>2 DEF NewSlots
    <3> QED
      BY <1>1, <3>1
  <2> QED
    BY <2>1, <2>2
<1>4. ASSUME NEW p \in Procs, state'[p] = "PRREADY" PROVE Reserves(regs[p])'
  <2>1. CASE regs'[p].pc \notin Creation
    BY <2>1 DEF Reserves, Creation
  <2>2. CASE state[p] = "PRREADY" /\ regs'[p] = regs[p]
    <3>1. Reserves(regs[p])
      BY <2>2 DEF NewSlots
    <3> QED
      BY <1>1, <2>2, <3>1
  <2>3. CASE regs'[p] = cpu[c]
    <3>1. Reserves(cpu[c])
      BY DEF NewSlots
    <3> QED
      BY <1>1, <2>3, <3>1
  <2> QED
    BY <1>4, <2>1, <2>2, <2>3
<1> QED
  BY <1>2, <1>3, <1>4 DEF NewSlots

(* resched, where the context it saves is out of create or the one the     *)
(* core has.                                                               *)
LEMMA SwitchSlots ==
  ASSUME Places, NewSlots, NEW c \in Cores, currpid[c] \in Procs, NEW saved, Switched(c, saved),
         saved.pc \notin Creation \/ saved = cpu[c]
  PROVE  NewSlots'
<1> SUFFICES ASSUME NoReuse PROVE NewSlots'
  BY DEF NewSlots, NoReuse
<1> DEFINE old == currpid[c]
           new == currpid'[c]
<1>1. /\ (new \in Procs /\ state[new] # "PRFREE") \/ new = old
      /\ UNCHANGED <<nextpid, spawned>>
  BY DEF Switched, Places, ListsReady, counters
<1>2. ASSUME NEW p \in Procs, Unused(p) PROVE Unused(p)'
  <2>1. \A d \in Cores : currpid[d] # p
    BY <1>2 DEF Unused, Runs
  <2>2. p # old /\ p # new /\ state[p] = "PRFREE"
    BY <1>1, <1>2, <2>1 DEF Unused
  <2>3. state'[p] = "PRFREE" /\ \A d \in Cores : currpid'[d] # p
    BY <2>1, <2>2 DEF Switched
  <2> QED
    BY <2>3 DEF Unused, Runs
<1>3. ASSUME NEW x, Reserves(x) PROVE Reserves(x)'
  BY <1>1, <1>2, <1>3 DEF Reserves, Unused
<1>4. Reserves(saved)
  BY DEF NewSlots, Reserves, Creation
<1>5. nextpid' <= NCORES + spawned' /\ \A p \in Procs : p > nextpid' => Unused(p)'
  BY <1>1, <1>2 DEF NewSlots
<1>6. \A d \in Cores : Reserves(cpu[d])'
  <2> TAKE d \in Cores
  <2>1. CASE d = c /\ new = old
    BY <1>3, <1>4, <2>1 DEF Switched
  <2>2. CASE d = c /\ new # old
    <3>1. cpu'[c] = regs[new] /\ state[new] = "PRREADY" /\ new \in Procs
      BY <2>2 DEF Switched, Places, ListsReady
    <3>2. Reserves(regs[new])
      BY <3>1 DEF NewSlots
    <3> QED
      BY <1>3, <2>2, <3>1, <3>2
  <2>3. CASE d # c
    <3>1. cpu'[d] = cpu[d] /\ Reserves(cpu[d])
      BY <2>3 DEF Switched, NewSlots
    <3> QED
      BY <1>3, <3>1
  <2> QED
    BY <2>1, <2>2, <2>3
<1>7. ASSUME NEW p \in Procs, state'[p] = "PRREADY" PROVE Reserves(regs[p])'
  <2>1. CASE p = old
    BY <1>3, <1>4, <2>1 DEF Switched
  <2>2. CASE p # old
    <3>1. regs'[p] = regs[p] /\ state[p] = "PRREADY"
      BY <1>7, <2>2 DEF Switched
    <3>2. Reserves(regs[p])
      BY <3>1 DEF NewSlots
    <3> QED
      BY <1>3, <3>1, <3>2
  <2> QED
    BY <2>1, <2>2
<1> QED
  BY <1>5, <1>6, <1>7 DEF NewSlots

(* resched keeps the invariant when what it saves is known.                *)
LEMMA ReschedPlaces ==
  ASSUME TypeOK, NullInv, NullInv', Places, NewSlots,
         NEW c \in Cores, NEW saved, Resched(c, saved),
         Requeues(c) => KnowsOff(currpid[c], saved),
         cpu[c].pc \notin {"ready_enqueue", "kill_clear"},
         saved.pc \notin Creation \/ saved = cpu[c]
  PROVE  Places' /\ NewSlots'
<1>1. currpid[c] \in Procs /\ currpid'[c] \in Procs /\ \A d \in Cores : currpid[d] \in Procs
  BY DEF NullInv
<1>2. /\ Distinct(readylist[c])
      /\ ~Holds(readylist[c], currpid[c])
      /\ \A p \in Procs : Holds(readylist[c], p) => ~isbadpid(p)
  BY <1>1, Somewhere DEF Places, ListsApart, ListsReady, Listed, isbadpid
<1>3. Switched(c, saved)
  BY <1>1, <1>2, ReschedSwitches
<1>4. Places'
  BY <1>1, <1>3, SwitchPlaces
<1>5. NewSlots'
  BY <1>1, <1>3, SwitchSlots
<1> QED
  BY <1>4, <1>5

(* At the start each core runs its null process, and core 0 lists main.    *)
LEMMA InitPlaces == Init => Places /\ NewSlots
<1> SUFFICES ASSUME Init PROVE Places /\ NewSlots
  OBVIOUS
<1>1. /\ \A c \in Cores : /\ c \in Procs /\ currpid[c] = c /\ state[c] = "PRCURR"
                          /\ core_affinity[c] = c /\ cpu[c] = NullContext
      /\ Main \in Procs /\ Main \notin Cores /\ state[Main] = "PRREADY" /\ core_affinity[Main] = 0
      /\ \A p \in Procs : p \notin Cores /\ p # Main => state[p] = "PRFREE"
      /\ \A p \in Procs : regs[p] = FreshContext
      /\ 0 \in Cores /\ PRIORITY_LOW \in Priorities
  BY ConstantFacts DEF Init, Cores, PRIORITY_LOW
<1>2. /\ NullContext.pc = "user" /\ FreshContext.pc = "user"
  BY DEF NullContext, FreshContext
<1>3. \A c \in Cores : \A q \in Priorities :
        readylist[c][q] = IF c = 0 /\ q = PRIORITY_LOW THEN <<Main>> ELSE <<>>
  BY DEF Init
<1>4. ListsApart
  BY <1>3 DEF ListsApart, Distinct
<1>5. \A c \in Cores : \A p : Holds(readylist[c], p) <=> c = 0 /\ p = Main
  <2>1. /\ \A p : Contains(<<Main>>, p) <=> p = Main
        /\ \A p : ~Contains(<<>>, p)
    BY DEF Contains
  <2> QED
    BY <1>1, <1>3, <2>1 DEF Holds
<1>6. ListsReady /\ CoresRun /\ CurrentRuns
  <2>1. ListsReady
    BY <1>1, <1>5 DEF ListsReady
  <2>2. CoresRun
    BY <1>1, <1>2 DEF CoresRun
  <2>3. CurrentRuns
    BY <1>1 DEF CurrentRuns, Runs
  <2> QED
    BY <2>1, <2>2, <2>3
<1>7. ReadyListed
  BY <1>1, <1>5 DEF ReadyListed, Listed
<1>8. CallsOn /\ CallsOff
  BY <1>1, <1>2 DEF CallsOn, CallsOff, KnowsOn, KnowsOff, Knows, Creation
<1>9. NewSlots
  <2>1. nextpid = NCORES /\ spawned = 0 /\ NCORES \in Nat /\ Main = NCORES
    BY ConstantFacts DEF Init, Main
  <2>2. ASSUME NEW p \in Procs, p > nextpid PROVE Unused(p)
    BY <1>1, <2>1, <2>2, ConstantFacts DEF Unused, Runs, Cores
  <2>3. \A c \in Cores : Reserves(cpu[c])
    BY <1>1, <1>2 DEF Reserves
  <2>4. \A p \in Procs : Reserves(regs[p])
    BY <1>1, <1>2 DEF Reserves
  <2> QED
    BY <2>1, <2>2, <2>3, <2>4 DEF NewSlots
<1> QED
  BY <1>4, <1>6, <1>7, <1>8, <1>9 DEF Places

-----------------------------------------------------------------------------
(* Every step keeps the invariant. *)

(* A tick, or a call of resched by a program or a null process.            *)
LEMMA OffAgain ==
  ASSUME TypeOK, Places, NEW c \in Cores, currpid[c] \in Procs, Requeues(c),
         cpu[c].pc = "user" \/ Unmasked(c)
  PROVE  KnowsOff(currpid[c], cpu[c])
<1>1. KnowsOn(currpid[c], cpu[c]) /\ cpu[c].pc # "kill_resched"
  BY DEF Places, CallsOn, CoresRun, Requeues
<1> QED
  BY <1>1 DEF KnowsOn, KnowsOff, Knows, Unmasked

(* The steps that switch contexts.                                         *)
LEMMA SwitchSteps ==
  ASSUME SchedInv, NullInv', NEW c \in Cores,
         \/ preempt[c] - 1 = 0 /\ Tick(c)
         \/ NullLoop(c)
         \/ Yield(c)
         \/ ReadyResched(c)
         \/ KillResched(c)
  PROVE  Places' /\ NewSlots'
<1>1. TypeOK /\ NullInv /\ Places /\ NewSlots /\ currpid[c] \in Procs /\ cpu[c] \in Contexts
  BY DEF SchedInv, NullInv, TypeOK
<1>2. KnowsOn(currpid[c], cpu[c])
  BY <1>1 DEF Places, CallsOn
<1>3. CASE preempt[c] - 1 = 0 /\ Tick(c)
  <2>1. Unmasked(c) /\ Resched(c, cpu[c])
    BY <1>3 DEF Tick
  <2>2. cpu[c].pc \notin {"ready_enqueue", "kill_clear"}
    BY <1>2, <2>1 DEF Unmasked, KnowsOn
  <2> QED
    BY <1>1, <2>1, <2>2, OffAgain, ReschedPlaces
<1>4. CASE NullLoop(c) \/ Yield(c)
  <2>1. cpu[c].pc = "user" /\ Resched(c, cpu[c])
    BY <1>4 DEF NullLoop, Yield, At
  <2> QED
    BY <1>1, <2>1, OffAgain, ReschedPlaces
<1>5. CASE ReadyResched(c)
  <2> DEFINE saved == [cpu[c] EXCEPT !.pc = "user"]
  <2>1. cpu[c].pc = "ready_resched" /\ Resched(c, saved)
    BY <1>5 DEF ReadyResched, At
  <2>2. saved.pc = "user"
    BY <1>1 DEF Contexts
  <2>3. KnowsOff(currpid[c], saved) /\ saved.pc \notin Creation
    BY <2>2 DEF KnowsOff, Knows, Creation
  <2> HIDE DEF saved
  <2> QED
    BY <1>1, <2>1, <2>3, ReschedPlaces
<1>6. CASE KillResched(c)
  <2> DEFINE saved == [cpu[c] EXCEPT !.pc = "kill_remove"]
  <2>1. cpu[c].pc = "kill_resched" /\ Resched(c, saved)
    BY <1>6 DEF KillResched, At
  <2>2. saved.pc \notin Creation
    BY <1>1 DEF Contexts, Creation
  <2>3. ~Requeues(c)
    BY <1>1, <2>1 DEF Requeues, Places, CoresRun
  <2> HIDE DEF saved
  <2> QED
    BY <1>1, <2>1, <2>2, <2>3, ReschedPlaces
<1> QED
  BY <1>3, <1>4, <1>5, <1>6

(* Steps that leave every process where it is.                             *)
Moves(c) == UNCHANGED <<state, core_affinity, regs, currpid, readylist>> /\ \A d \in Cores \ {c} : cpu'[d] = cpu[d]

(* create moves on: newpid comes to the next slot, which is not in use.    *)
LEMMA CreateSteps ==
  ASSUME Separated, SchedInv, NEW c \in Cores, Create(c) \/ NewpidNext(c) \/ CreateCount(c)
  PROVE  Places' /\ NewSlots'
<1>1. /\ TypeOK /\ Places /\ NewSlots /\ OneCreator /\ currpid[c] \in Procs /\ cpu[c] \in Contexts
      /\ KnowsOn(currpid[c], cpu[c])
  BY DEF SchedInv, NullInv, TypeOK, Separated, Places, CallsOn
<1>2. Moves(c)
  BY <1>1, GotoMoves DEF Moves, Create, NewpidNext, CreateCount, pcbVars, schedVars, TypeOK
<1>3. /\ currpid[c] \in Creators /\ currpid'[c] = currpid[c]
      /\ cpu[c].pc \notin {"ready_enqueue", "kill_clear", "kill_resched"}
  BY <1>1, <1>2 DEF Create, NewpidNext, CreateCount, At, KnowsOn, Knows, Creation, Moves
<1>4. CASE Create(c)
  <2>1. cpu'[c].pc = "newpid_next" /\ spawned' = spawned + 1 /\ nextpid' = nextpid
    BY <1>1, <1>4 DEF Create, TypeOK, Contexts
  <2>2. KnowsOn(currpid[c], cpu[c])'
    BY <1>3, <2>1 DEF KnowsOn, Knows
  <2>3. Places'
    BY <1>1, <1>2, <1>3, <2>1, <2>2, QuietPlaces DEF Moves
  <2>4. NewSlots'
    <3> SUFFICES ASSUME NoReuse PROVE NewSlots'
      BY DEF NewSlots, NoReuse
    <3>1. spawned \in Nat /\ nextpid \in Nat /\ NCORES \in Nat
      BY <1>1, ConstantFacts DEF TypeOK, Procs
    <3>2. \A p : Unused(p)' <=> Unused(p)
      BY <1>2 DEF Unused, Runs, Moves
    <3>3. ASSUME NEW x, Reserves(x) PROVE Reserves(x)'
      BY <2>1, <3>1, <3>2, <3>3 DEF Reserves
    <3>4. /\ \A d \in Cores \ {c} : Reserves(cpu[d])'
          /\ \A p \in Procs : state'[p] = "PRREADY" => Reserves(regs[p])'
      <4>1. /\ \A d \in Cores \ {c} : Reserves(cpu[d]) /\ cpu'[d] = cpu[d]
            /\ \A p \in Procs : state[p] = "PRREADY" => Reserves(regs[p])
            /\ regs' = regs /\ state' = state
        BY <1>1, <1>2 DEF NewSlots, Moves
      <4> QED
        BY <3>3, <4>1
    <3>5. Reserves(cpu[c])'
      BY <1>1, <2>1, <3>1 DEF Reserves, NewSlots
    <3> QED
      BY <1>1, <2>1, <3>1, <3>2, <3>4, <3>5 DEF NewSlots
  <2> QED
    BY <2>3, <2>4
<1>5. CASE NewpidNext(c)
  <2>1. /\ cpu[c].pc = "newpid_next" /\ cpu'[c].pc = "newpid_check"
        /\ spawned' = spawned /\ nextpid' = (nextpid + 1) % NPROC
    BY <1>1, <1>5 DEF NewpidNext, At, TypeOK, Contexts
  <2>2. KnowsOn(currpid[c], cpu[c])'
    BY <1>3, <2>1 DEF KnowsOn, Knows
  <2>3. Places'
    BY <1>1, <1>2, <1>3, <2>1, <2>2, QuietPlaces DEF Moves
  <2>4. NewSlots'
    <3> SUFFICES ASSUME NoReuse PROVE NewSlots'
      BY DEF NewSlots, NoReuse
    <3>1. spawned \in 0 .. MaxSpawn /\ nextpid \in Nat /\ NCORES \in Nat /\ NPROC \in Nat /\ MaxSpawn \in Nat
      BY <1>1, ConstantFacts, SchedulerAssumption DEF TypeOK, Procs
    <3>2. \A p : Unused(p)' <=> Unused(p)
      BY <1>2 DEF Unused, Runs, Moves
    <3>3. nextpid < NCORES + spawned
      BY <1>1, <2>1 DEF NewSlots, Reserves
    <3>4. nextpid' = nextpid + 1 /\ nextpid + 1 \in Procs
      <4>1. nextpid + 1 \in 0 .. NPROC - 1
        BY <3>1, <3>3 DEF NoReuse
      <4>2. (nextpid + 1) % NPROC = nextpid + 1
        BY <3>1, <4>1
      <4> QED
        BY <2>1, <4>1, <4>2 DEF Procs
    <3>5. Unused(nextpid')
      BY <1>1, <3>1, <3>4 DEF NewSlots
    <3>6. Reserves(cpu[c])'
      BY <2>1, <3>2, <3>5 DEF Reserves, Unused, Runs
    <3>7. /\ \A d \in Cores \ {c} : cpu[d].pc \notin Creation
          /\ \A p \in Procs : state[p] = "PRREADY" => regs[p].pc \notin Creation
      BY <1>1, <2>1, OneCreates DEF Creation
    <3>8. /\ \A d \in Cores \ {c} : Reserves(cpu[d])'
          /\ \A p \in Procs : state'[p] = "PRREADY" => Reserves(regs[p])'
      BY <1>2, <3>7 DEF Reserves, Creation, Moves
    <3>9. \A p \in Procs : p > nextpid' => Unused(p)'
      BY <1>1, <3>1, <3>2, <3>4 DEF NewSlots, Procs
    <3> QED
      BY <2>1, <3>1, <3>3, <3>4, <3>6, <3>8, <3>9 DEF NewSlots
  <2> QED
    BY <2>3, <2>4
<1>6. CASE CreateCount(c)
  <2>1. /\ cpu[c].pc = "create_count" /\ cpu'[c].pc = "create_suspend" /\ cpu'[c].arg = cpu[c].arg
        /\ UNCHANGED <<spawned, nextpid>>
    BY <1>1, <1>6, GotoMoves DEF CreateCount, At
  <2>2. \A p : Unused(p)' <=> Unused(p)
    BY <1>2 DEF Unused, Runs, Moves
  <2>3. KnowsOn(currpid[c], cpu[c])'
    BY <1>1, <1>3, <2>1, <2>2 DEF KnowsOn, Knows
  <2>4. Places'
    BY <1>1, <1>2, <1>3, <2>1, <2>3, QuietPlaces DEF Moves
  <2>5. NewSlots'
    <3> SUFFICES ASSUME NoReuse PROVE NewSlots'
      BY DEF NewSlots, NoReuse
    <3>1. Reserves(cpu[c])'
      BY <1>1, <2>1 DEF NewSlots, Reserves
    <3> QED
      BY <1>1, <1>2, <2>1, <2>2, <3>1, SlotsFrame DEF Moves
  <2> QED
    BY <2>4, <2>5
<1> QED
  BY <1>4, <1>5, <1>6

(* newpid returns a slot that is not in use.                               *)
LEMMA CheckSteps ==
  ASSUME Separated, SchedInv, NEW c \in Cores, NewpidCheck(c)
  PROVE  Places' /\ NewSlots' /\ Agrees(cpu[c])'
<1>1. /\ TypeOK /\ Places /\ NewSlots /\ OneCreator /\ currpid[c] \in Procs /\ cpu[c] \in Contexts
      /\ KnowsOn(currpid[c], cpu[c]) /\ cpu[c].pc = "newpid_check"
  BY DEF SchedInv, NullInv, TypeOK, Separated, Places, CallsOn, NewpidCheck, At
<1>2. /\ Moves(c) /\ UNCHANGED <<nextpid, spawned>>
  BY <1>1 DEF Moves, NewpidCheck, pcbVars, schedVars, counters, TypeOK
<1>3. /\ currpid[c] \in Creators /\ nextpid \in Procs
      /\ state[currpid[c]] = "PRCURR"
  BY <1>1 DEF KnowsOn, Knows, Creation, TypeOK, Places, CoresRun
<1>4. \A p : Unused(p)' <=> Unused(p)
  BY <1>2 DEF Unused, Runs, Moves
<1>5. \/ /\ state[nextpid] = "PRFREE"
         /\ cpu'[c].pc = "newpid_return" /\ cpu'[c].arg = nextpid
      \/ state[nextpid] # "PRFREE" /\ cpu'[c].pc \in {"newpid_next", "user"}
  BY <1>1 DEF NewpidCheck, TypeOK, Contexts
<1>6. state[nextpid] = "PRFREE" => Unused(nextpid)
  <2>1. CASE OneCore
    BY <1>3, <2>1, OnlyCore DEF Unused, Runs
  <2>2. CASE ~OneCore
    BY <1>1, <2>2 DEF Separated, NewSlots, Reserves
  <2> QED
    BY <2>1, <2>2
<1>7. KnowsOn(currpid[c], cpu[c])'
  BY <1>2, <1>3, <1>4, <1>5, <1>6 DEF KnowsOn, Knows, Creation, Moves
<1>8. Places'
  BY <1>1, <1>2, <1>5, <1>7, QuietPlaces DEF Moves
<1>9. NewSlots'
  <2> SUFFICES ASSUME NoReuse PROVE NewSlots'
    BY DEF NewSlots, NoReuse
  <2>1. Unused(nextpid)
    BY <1>1 DEF NewSlots, Reserves
  <2>2. cpu'[c].pc = "newpid_return" /\ cpu'[c].arg = nextpid
    BY <1>5, <2>1 DEF Unused
  <2>3. nextpid <= nextpid
    BY <1>3, ConstantFacts DEF Procs
  <2>4. Reserves(cpu[c])'
    BY <1>2, <1>3, <2>2, <2>3 DEF Reserves
  <2> QED
    BY <1>1, <1>2, <1>4, <2>4, SlotsFrame DEF Moves
<1>10. Agrees(cpu[c])'
  BY <1>2, <1>5 DEF Agrees
<1> QED
  BY <1>8, <1>9, <1>10

(* It still is not when newpid reads nextpid again to return it.           *)
LEMMA ReturnSteps ==
  ASSUME Separated, SchedInv, NEW c \in Cores, NewpidReturn(c)
  PROVE  Places' /\ NewSlots'
<1>1. /\ TypeOK /\ Places /\ NewSlots /\ OneCreator /\ currpid[c] \in Procs /\ cpu[c] \in Contexts
      /\ KnowsOn(currpid[c], cpu[c]) /\ cpu[c].pc = "newpid_return" /\ cpu[c].arg = nextpid
  BY DEF SchedInv, NullInv, TypeOK, Separated, Places, CallsOn, NewpidReturn, At, ReadsAgree, Agrees
<1>2. cpu' = [cpu EXCEPT ![c] = [@ EXCEPT !.pc = "create_count", !.arg = nextpid]]
  BY <1>1 DEF NewpidReturn
<1>3. /\ cpu'[c].pc = "create_count" /\ cpu'[c].arg = nextpid
      /\ \A d \in Cores \ {c} : cpu'[d] = cpu[d]
  BY <1>1, <1>2 DEF TypeOK, Contexts
<1>4. /\ Moves(c) /\ UNCHANGED <<nextpid, spawned>>
  BY <1>3 DEF Moves, NewpidReturn, pcbVars, schedVars, counters
<1>5. \A p : Unused(p)' <=> Unused(p)
  BY <1>4 DEF Unused, Runs, Moves
<1>6. Unused(nextpid) /\ currpid[c] \in Creators
  BY <1>1 DEF KnowsOn, Knows, Creation
<1>7. KnowsOn(currpid[c], cpu[c])'
  BY <1>3, <1>4, <1>5, <1>6 DEF KnowsOn, Knows, Creation, Moves
<1>8. Places'
  BY <1>1, <1>3, <1>4, <1>7, QuietPlaces DEF Moves
<1>9. NewSlots'
  <2> SUFFICES ASSUME NoReuse PROVE NewSlots'
    BY DEF NewSlots, NoReuse
  <2>1. Reserves(cpu[c])'
    BY <1>1, <1>3, <1>4 DEF NewSlots, Reserves
  <2> QED
    BY <1>1, <1>4, <1>5, <2>1, SlotsFrame DEF Moves
<1> QED
  BY <1>8, <1>9

(* create takes the slot newpid has returned,                              *)
LEMMA SuspendSteps ==
  ASSUME Separated, SchedInv, NEW c \in Cores, CreateSuspend(c)
  PROVE  Places' /\ NewSlots'
<1>1. /\ TypeOK /\ Places /\ NewSlots /\ OneCreator /\ \A d \in Cores : currpid[d] \in Procs
  BY DEF SchedInv, NullInv, Separated
<1>2. Places'
  BY <1>1, SuspendPlaces
<1>3. NewSlots'
  <2> DEFINE pid == cpu[c].arg
  <2> SUFFICES ASSUME NoReuse PROVE NewSlots'
    BY DEF NewSlots, NoReuse
  <2>1. /\ cpu[c].pc = "create_suspend" /\ pid \in Procs /\ pid <= nextpid
        /\ nextpid \in Int /\ Procs \subseteq Int
    BY <1>1 DEF CreateSuspend, At, NewSlots, Reserves, TypeOK, Procs
  <2>2. /\ \A p \in Procs : state'[p] = IF p = pid THEN "PRSUSP" ELSE state[p]
        /\ UNCHANGED <<regs, currpid, nextpid, spawned>>
        /\ cpu'[c].pc = "create_fill" /\ cpu'[c].arg = pid /\ \A d \in Cores \ {c} : cpu'[d] = cpu[d]
    BY <1>1, <2>1, GotoMoves DEF CreateSuspend, TypeOK, schedVars, counters
  <2>3. /\ \A d \in Cores \ {c} : cpu[d].pc \notin Creation
        /\ \A p \in Procs : state[p] = "PRREADY" => regs[p].pc \notin Creation
    BY <1>1, <2>1, OneCreates DEF Creation
  <2>4. \A p \in Procs : state'[p] = "PRREADY" => regs'[p].pc \notin Creation
    BY <2>2, <2>3
  <2>5. \A p \in Procs : p > nextpid => Unused(p)'
    <3> SUFFICES ASSUME NEW p \in Procs, p > nextpid PROVE Unused(p)'
      OBVIOUS
    <3>1. p # pid /\ Unused(p)
      BY <1>1, <2>1 DEF NewSlots
    <3> QED
      BY <2>2, <3>1 DEF Unused, Runs
  <2>6. \A d \in Cores : Reserves(cpu[d])'
    BY <2>1, <2>2, <2>3 DEF Reserves, Creation
  <2> QED
    BY <1>1, <2>2, <2>4, <2>5, <2>6 DEF NewSlots, Reserves, Creation
<1> QED
  BY <1>2, <1>3

(* and fills it in.                                                        *)
LEMMA FillSteps ==
  ASSUME Separated, SchedInv, NEW c \in Cores, CreateFill(c)
  PROVE  Places' /\ NewSlots'
<1>1. /\ TypeOK /\ Places /\ NewSlots /\ OneCreator /\ \A d \in Cores : currpid[d] \in Procs
  BY DEF SchedInv, NullInv, Separated
<1>2. Places'
  BY <1>1, FillPlaces
<1>3. NewSlots'
  <2> DEFINE pid == cpu[c].arg
  <2> SUFFICES ASSUME NoReuse PROVE NewSlots'
    BY DEF NewSlots, NoReuse
  <2>1. /\ cpu[c].pc = "create_fill" /\ pid \in Procs /\ pid <= nextpid
        /\ nextpid \in Int /\ Procs \subseteq Int
    BY <1>1 DEF CreateFill, At, NewSlots, Reserves, TypeOK, Procs
  <2>2. /\ state' = state
        /\ \A p \in Procs : regs'[p] = IF p = pid THEN FreshContext ELSE regs[p]
        /\ UNCHANGED <<currpid, readylist, nextpid, spawned>>
        /\ cpu'[c].pc = "ready" /\ \A d \in Cores \ {c} : cpu'[d] = cpu[d]
    BY <1>1, <2>1, GotoMoves DEF CreateFill, TypeOK, schedVars, counters
  <2>3. /\ \A d \in Cores \ {c} : cpu[d].pc \notin Creation
        /\ \A p \in Procs : state[p] = "PRREADY" => regs[p].pc \notin Creation
    BY <1>1, <2>1, OneCreates DEF Creation
  <2>4. /\ \A d \in Cores : cpu'[d].pc \notin {"newpid_next", "newpid_check", "newpid_return",
                                                "create_count", "create_suspend", "create_fill"}
        /\ \A p \in Procs : state'[p] = "PRREADY" => regs'[p].pc \notin Creation
    BY <2>2, <2>3 DEF Creation, FreshContext
  <2>5. \A p \in Procs : p > nextpid => Unused(p)'
    <3> SUFFICES ASSUME NEW p \in Procs, p > nextpid PROVE Unused(p)'
      OBVIOUS
    <3>1. p # pid /\ Unused(p)
      BY <1>1, <2>1 DEF NewSlots
    <3> QED
      BY <2>2, <3>1 DEF Unused, Runs
  <2> QED
    BY <1>1, <2>2, <2>4, <2>5 DEF NewSlots, Reserves, Creation
<1> QED
  BY <1>2, <1>3

(* The steps of the other calls, and a tick that leaves the process its    *)
(* core.                                                                   *)
LEMMA StaySteps ==
  ASSUME Separated, SchedInv, NEW c \in Cores,
         \/ preempt[c] - 1 # 0 /\ Tick(c)
         \/ Enable(c)
         \/ \E pid \in Procs : Kill(c, pid)
         \/ KillCount(c)
  PROVE  Places' /\ NewSlots'
<1>1. /\ TypeOK /\ Places /\ NewSlots /\ currpid[c] \in Procs /\ cpu[c] \in Contexts
      /\ KnowsOn(currpid[c], cpu[c])
  BY DEF SchedInv, NullInv, TypeOK, Places, CallsOn
<1>2. CASE preempt[c] - 1 # 0 /\ Tick(c)
  <2>1. UNCHANGED <<state, core_affinity, regs, currpid, readylist, cpu, nextpid, spawned>>
    BY <1>2 DEF Tick, pcbVars, counters
  <2>2. /\ \A p : Unused(p)' <=> Unused(p)
        /\ \A p : Listed(p)' <=> Listed(p)
        /\ \A p : Runs(p)' <=> Runs(p)
    BY <2>1 DEF Unused, Runs, Listed
  <2>3. ListsApart' /\ ListsReady' /\ CoresRun' /\ CurrentRuns' /\ ReadyListed'
    <3>1. ListsApart' /\ ListsReady' /\ CoresRun' /\ CurrentRuns'
      BY <1>1, <2>1, <2>2 DEF Places, ListsApart, ListsReady, CoresRun, CurrentRuns
    <3>2. ReadyListed'
      BY <1>1, <2>1, <2>2 DEF Places, ReadyListed
    <3> QED
      BY <3>1, <3>2
  <2>4. CallsOn' /\ CallsOff'
    <3>1. FreshContext' = FreshContext /\ \A p : Idle(p)' <=> Idle(p)
      BY <2>1 DEF FreshContext, Idle, Runs
    <3> QED
      BY <1>1, <2>1, <2>2, <3>1 DEF Places, CallsOn, CallsOff, KnowsOn, KnowsOff, Knows
  <2>5. NewSlots'
    BY <1>1, <2>1, <2>2 DEF NewSlots, Reserves
  <2> QED
    BY <2>3, <2>4, <2>5 DEF Places
<1>3. CASE Enable(c) \/ (\E pid \in Procs : Kill(c, pid)) \/ KillCount(c)
  <2>1. Moves(c) /\ UNCHANGED <<nextpid, spawned>>
    BY <1>1, <1>3, GotoMoves DEF Moves, Enable, Kill, KillCount, pcbVars, schedVars, counters, TypeOK
  <2>2. /\ cpu[c].pc \in {"user", "kill_count"}
        /\ cpu'[c].pc \in {"user", "kill_count", "kill_switch"}
        /\ cpu'[c].pc \in {"kill_count", "kill_switch"} =>
             /\ cpu'[c].arg \in Procs
             /\ cpu'[c].arg = currpid[c] \/ (OneCore /\ ~cpu'[c].irq)
    <3>1. CASE Enable(c)
      BY <1>1, <3>1 DEF Enable, At, TypeOK, Contexts
    <3>2. ASSUME NEW pid \in Procs, Kill(c, pid)
          PROVE  /\ cpu[c].pc = "user" /\ cpu'[c].pc = "kill_count"
                 /\ cpu'[c].arg = pid /\ (pid = currpid[c] \/ (OneCore /\ ~cpu'[c].irq))
      <4>1. /\ cpu[c].pc = "user" /\ cpu'[c].pc = "kill_count" /\ cpu'[c].arg = pid
            /\ cpu'[c].irq = cpu[c].irq /\ cpu[c].irq \in BOOLEAN
        BY <1>1, <3>2 DEF Kill, At, TypeOK, Contexts
      <4>2. pid = currpid[c] \/ cpu[c].irq \in KillOthers
        BY <3>2 DEF Kill
      <4>3. cpu[c].irq \in KillOthers => OneCore /\ cpu[c].irq = FALSE
        <5>1. CASE OneCore
          <6>1. TRUE \notin KillOthers
            BY <5>1 DEF OneCore
          <6>2. cpu[c].irq = TRUE \/ cpu[c].irq = FALSE
            BY <4>1
          <6> QED
            BY <5>1, <6>1, <6>2
        <5>2. CASE ~OneCore
          BY <5>2 DEF Separated, NoReuse
        <5> QED
          BY <5>1, <5>2
      <4> QED
        BY <4>1, <4>2, <4>3
    <3>3. CASE KillCount(c)
      <4>1. /\ cpu[c].pc = "kill_count" /\ cpu'[c].pc = "kill_switch"
            /\ cpu'[c].arg = cpu[c].arg /\ cpu'[c].irq = cpu[c].irq
        BY <1>1, <3>3, GotoMoves DEF KillCount, At
      <4> QED
        BY <1>1, <4>1 DEF KnowsOn
    <3> QED
      BY <1>3, <3>1, <3>2, <3>3
  <2>3. KnowsOn(currpid[c], cpu[c])'
    <3>1. currpid'[c] = currpid[c] /\ OneCore' = OneCore
      BY <2>1 DEF Moves, OneCore
    <3> QED
      BY <2>2, <3>1 DEF KnowsOn, Knows, Creation
  <2>4. Places'
    BY <1>1, <2>1, <2>2, <2>3, QuietPlaces DEF Moves
  <2>5. NewSlots'
    <3> SUFFICES ASSUME NoReuse PROVE NewSlots'
      BY DEF NewSlots, NoReuse
    <3>1. Reserves(cpu[c])'
      BY <2>2 DEF Reserves
    <3>2. \A p : Unused(p)' <=> Unused(p)
      BY <2>1 DEF Unused, Runs, Moves
    <3> QED
      BY <1>1, <2>1, <3>1, <3>2, SlotsFrame DEF Moves
  <2> QED
    BY <2>4, <2>5
<1> QED
  BY <1>2, <1>3

(* ready and kill, which change the state of a process.                    *)
LEMMA StateSteps ==
  ASSUME Separated, SchedInv, NEW c \in Cores,
         ReadyMark(c) \/ ReadyEnqueue(c) \/ KillSwitch(c) \/ KillRemove(c) \/ KillClear(c)
  PROVE  Places' /\ NewSlots'
<1>1. /\ TypeOK /\ Places /\ NewSlots /\ OneCreator /\ \A d \in Cores : currpid[d] \in Procs
      /\ KnowsOn(currpid[c], cpu[c])
  BY DEF SchedInv, NullInv, Separated, Places, CallsOn
<1>2. Places'
  BY <1>1, MarkPlaces, EnqueuePlaces, KillSwitchPlaces, KillRemovePlaces, KillClearPlaces
<1>3. NewSlots'
  <2> SUFFICES ASSUME NoReuse PROVE NewSlots'
    BY DEF NewSlots, NoReuse
  <2>1. /\ UNCHANGED <<regs, currpid, nextpid, spawned>>
        /\ \A d \in Cores \ {c} : cpu'[d] = cpu[d]
        /\ cpu'[c].pc \in {"user", "ready_enqueue", "ready_resched", "kill_remove", "kill_resched", "kill_clear"}
    BY <1>1, GotoMoves DEF ReadyMark, ReadyEnqueue, KillSwitch, KillRemove, KillClear,
       pcbVars, schedVars, counters
  <2>2. \A p \in Procs : \/ state'[p] = state[p]
                         \/ state'[p] = "PRFREE"
                         \/ state[p] = "PRSUSP" /\ state'[p] = "PRREADY"
    <3>1. CASE ReadyMark(c)
      <4>1. cpu[c].arg \in Procs /\ state[cpu[c].arg] \in {"PRFREE", "PRSUSP"}
        BY <1>1, <3>1 DEF ReadyMark, At, KnowsOn, Knows, Idle
      <4> QED
        BY <1>1, <3>1, <4>1 DEF ReadyMark, isbadpid, TypeOK
    <3>2. CASE ReadyEnqueue(c) \/ KillSwitch(c) \/ KillRemove(c) \/ KillClear(c)
      BY <1>1, <3>2 DEF ReadyEnqueue, KillSwitch, KillRemove, KillClear, TypeOK, pcbVars
    <3> QED
      BY <3>1, <3>2
  <2>3. \A p \in Procs : Unused(p) => Unused(p)'
    BY <2>1, <2>2 DEF Unused, Runs
  <2>4. Reserves(cpu[c])'
    BY <2>1 DEF Reserves
  <2>5. \A p \in Procs : state'[p] = "PRREADY" =>
          regs'[p].pc \notin Creation \/ (state[p] = "PRREADY" /\ regs'[p] = regs[p])
    <3> SUFFICES ASSUME NEW p \in Procs, state'[p] = "PRREADY", state[p] # "PRREADY"
                 PROVE  regs[p].pc \notin Creation
      BY <2>1
    <3>1. ReadyMark(c) /\ cpu[c].arg = p
      BY <1>1 DEF ReadyMark, ReadyEnqueue, KillSwitch, KillRemove, KillClear, TypeOK, pcbVars
    <3>2. state[p] = "PRSUSP" /\ cpu[c].pc = "ready"
      BY <2>2, <3>1 DEF ReadyMark, At
    <3>3. regs[p] = FreshContext
      BY <1>1, <3>1, <3>2 DEF KnowsOn, Knows
    <3> QED
      BY <3>3 DEF FreshContext, Creation
  <2> QED
    BY <1>1, <2>1, <2>3, <2>4, <2>5, SlotsFrame
<1> QED
  BY <1>2, <1>3

(* The creator is the only one to move nextpid on.                         *)
LEMMA NextReads ==
  ASSUME Separated, SchedInv, TypeOK', NullInv', [Next]_vars
  PROVE  ReadsAgree'
<1>1. /\ TypeOK /\ NullInv /\ Places /\ OneCreator /\ ReadsAgree /\ \A c \in Cores : currpid[c] \in Procs
  BY DEF SchedInv, NullInv, Separated
<1>2. CASE UNCHANGED <<state, regs, cpu, nextpid>>
  BY <1>1, <1>2 DEF ReadsAgree, Agrees
<1>3. ASSUME NEW c \in Cores, NEW saved, Resched(c, saved),
             saved = cpu[c] \/ saved.pc \notin Creation
      PROVE  ReadsAgree'
  <2>1. /\ Distinct(readylist[c])
        /\ ~Holds(readylist[c], currpid[c])
        /\ \A p \in Procs : Holds(readylist[c], p) => ~isbadpid(p)
        /\ currpid'[c] \in Procs
    BY <1>1, Somewhere DEF Places, ListsApart, ListsReady, Listed, isbadpid, NullInv
  <2>2. Switched(c, saved)
    BY <1>1, <1>3, <2>1, ReschedSwitches
  <2>3. Agrees(saved) /\ nextpid' = nextpid
    BY <1>1, <1>3, <2>2 DEF ReadsAgree, Agrees, Creation, Switched, counters
  <2>4. ASSUME NEW p \in Procs, state'[p] = "PRREADY" PROVE Agrees(regs[p])'
    <3>1. p = currpid[c] \/ state[p] = "PRREADY"
      BY <2>2, <2>4 DEF Switched
    <3> QED
      BY <1>1, <2>2, <2>3, <3>1 DEF Switched, ReadsAgree, Agrees
  <2>5. ASSUME NEW d \in Cores PROVE Agrees(cpu[d])'
    <3>1. CASE d # c
      BY <1>1, <2>2, <2>3, <3>1 DEF Switched, ReadsAgree, Agrees
    <3>2. CASE d = c /\ currpid'[c] = currpid[c]
      BY <2>2, <2>3, <3>2 DEF Switched, Agrees
    <3>3. CASE d = c /\ currpid'[c] # currpid[c]
      <4>1. state[currpid'[c]] = "PRREADY" /\ cpu'[c] = regs[currpid'[c]]
        BY <1>1, <2>1, <2>2, <3>3 DEF Switched, Places, ListsReady
      <4> QED
        BY <1>1, <2>1, <2>3, <3>3, <4>1 DEF ReadsAgree, Agrees
    <3> QED
      BY <3>1, <3>2, <3>3
  <2> QED
    BY <2>4, <2>5 DEF ReadsAgree
<1>4. ASSUME NEW c \in Cores, nextpid' = nextpid, \A d \in Cores \ {c} : cpu'[d] = cpu[d],
             Agrees(cpu[c])',
             \A p \in Procs : state'[p] = "PRREADY" =>
               regs'[p].pc = "user" \/ (state[p] = "PRREADY" /\ regs'[p] = regs[p])
      PROVE  ReadsAgree'
  <2>1. ASSUME NEW d \in Cores PROVE Agrees(cpu[d])'
    BY <1>1, <1>4 DEF ReadsAgree, Agrees
  <2>2. ASSUME NEW p \in Procs, state'[p] = "PRREADY" PROVE Agrees(regs[p])'
    BY <1>1, <1>4, <2>2 DEF ReadsAgree, Agrees
  <2> QED
    BY <2>1, <2>2 DEF ReadsAgree
<1>5. ASSUME NEW c \in Cores, NewpidNext(c) PROVE ReadsAgree'
  <2>1. /\ cpu[c].pc = "newpid_next" /\ cpu'[c].pc = "newpid_check"
        /\ \A d \in Cores \ {c} : cpu'[d] = cpu[d]
        /\ UNCHANGED <<state, regs>>
    BY <1>1, <1>5 DEF NewpidNext, At, TypeOK, Contexts, pcbVars
  <2>2. /\ \A d \in Cores \ {c} : cpu[d].pc \notin Creation
        /\ \A p \in Procs : state[p] = "PRREADY" => regs[p].pc \notin Creation
    BY <1>1, <2>1, OneCreates DEF Creation
  <2> QED
    BY <2>1, <2>2 DEF ReadsAgree, Agrees, Creation
<1>6. CASE UNCHANGED vars \/ Stopped
  BY <1>2, <1>6 DEF Stopped, vars, pcbVars, counters
<1>7. CASE \E c \in Cores : Tick(c) \/ NullLoop(c) \/ KernelStep(c) \/ Program(c) \/ Meet(c)
  <2> PICK c \in Cores : Tick(c) \/ NullLoop(c) \/ KernelStep(c) \/ Program(c) \/ Meet(c)
    BY <1>7
  <2>1. cpu[c] \in Contexts /\ KnowsOn(currpid[c], cpu[c])
    BY <1>1 DEF TypeOK, Places, CallsOn
  <2>2. CASE NewpidNext(c)
    BY <1>5, <2>2
  <2>3. CASE (preempt[c] - 1 = 0 /\ Tick(c)) \/ NullLoop(c) \/ Yield(c)
    BY <1>3, <2>3 DEF Tick, NullLoop, Yield
  <2>4. CASE ReadyResched(c) \/ KillResched(c)
    <3>1. [cpu[c] EXCEPT !.pc = "user"].pc \notin Creation /\ [cpu[c] EXCEPT !.pc = "kill_remove"].pc \notin Creation
      BY <2>1 DEF Contexts, Creation
    <3> QED
      BY <1>3, <2>4, <3>1 DEF ReadyResched, KillResched
  <2>5. CASE (preempt[c] - 1 # 0 /\ Tick(c)) \/ Meet(c)
    BY <1>2, <2>5 DEF Tick, Meet, pcbVars, counters
  <2>6. CASE \/ Enable(c) \/ Create(c) \/ (\E pid \in Procs : Kill(c, pid)) \/ NewpidCheck(c)
             \/ NewpidReturn(c)
    <3>1. /\ UNCHANGED <<state, regs, nextpid>> /\ \A d \in Cores \ {c} : cpu'[d] = cpu[d]
      BY <1>1, <2>6 DEF Enable, Create, Kill, NewpidCheck, NewpidReturn, TypeOK, pcbVars, counters
    <3>2. Agrees(cpu[c])'
      <4>1. CASE NewpidCheck(c)
        BY <4>1, CheckSteps
      <4>2. CASE Enable(c)
        <5>1. cpu[c].pc = "user" /\ cpu'[c] = [cpu[c] EXCEPT !.irq = TRUE]
          BY <1>1, <4>2 DEF Enable, At, TypeOK
        <5> QED
          BY <2>1, <5>1 DEF Agrees, Contexts
      <4>3. CASE Create(c)
        <5>1. cpu'[c] = [cpu[c] EXCEPT !.pc = "newpid_next", !.tries = 0]
          BY <1>1, <4>3 DEF Create, TypeOK
        <5> QED
          BY <2>1, <5>1 DEF Agrees, Contexts
      <4>4. CASE \E pid \in Procs : Kill(c, pid)
        <5>1. PICK pid \in Procs : cpu'[c] = [cpu[c] EXCEPT !.pc = "kill_count", !.arg = pid]
          BY <1>1, <4>4 DEF Kill, TypeOK
        <5> QED
          BY <2>1, <5>1 DEF Agrees, Contexts
      <4>5. CASE NewpidReturn(c)
        <5>1. PICK pid : cpu'[c] = [cpu[c] EXCEPT !.pc = "create_count", !.arg = pid]
          BY <1>1, <4>5 DEF NewpidReturn, TypeOK
        <5> QED
          BY <2>1, <5>1 DEF Agrees, Contexts
      <4> QED
        BY <2>6, <4>1, <4>2, <4>3, <4>4, <4>5
    <3> QED
      BY <1>4, <3>1, <3>2
  <2>7. CASE \/ CreateCount(c) \/ CreateSuspend(c) \/ CreateFill(c) \/ ReadyMark(c) \/ ReadyEnqueue(c)
             \/ KillCount(c) \/ KillSwitch(c) \/ KillRemove(c) \/ KillClear(c)
    <3>1. /\ nextpid' = nextpid /\ \A d \in Cores \ {c} : cpu'[d] = cpu[d]
          /\ cpu'[c].pc # "newpid_return"
      BY <1>1, <2>7, GotoMoves DEF CreateCount, CreateSuspend, CreateFill, ReadyMark, ReadyEnqueue,
         KillCount, KillSwitch, KillRemove, KillClear, counters
    <3>2. Agrees(cpu[c])'
      BY <3>1 DEF Agrees
    <3>3. ASSUME NEW p \in Procs, state'[p] = "PRREADY"
          PROVE  regs'[p].pc = "user" \/ (state[p] = "PRREADY" /\ regs'[p] = regs[p])
      <4>1. CASE CreateFill(c)
        <5>1. /\ state' = state
              /\ regs'[p] = IF p = cpu[c].arg THEN FreshContext ELSE regs[p]
          BY <1>1, <4>1 DEF CreateFill, TypeOK
        <5> QED
          BY <3>3, <5>1 DEF FreshContext
      <4>2. CASE ReadyMark(c)
        <5>1. /\ regs' = regs /\ cpu[c].pc = "ready"
              /\ \/ state[p] = "PRREADY"
                 \/ p = cpu[c].arg /\ ~isbadpid(p)
          BY <1>1, <3>3, <4>2 DEF ReadyMark, At, TypeOK
        <5>2. state[p] # "PRREADY" => regs[p] = FreshContext
          BY <2>1, <5>1 DEF isbadpid, KnowsOn, Knows, Idle
        <5> QED
          BY <5>1, <5>2 DEF FreshContext
      <4>3. CASE \/ CreateCount(c) \/ CreateSuspend(c) \/ ReadyEnqueue(c)
                 \/ KillCount(c) \/ KillSwitch(c) \/ KillRemove(c) \/ KillClear(c)
        BY <1>1, <3>3, <4>3 DEF CreateCount, CreateSuspend, ReadyEnqueue, KillCount, KillSwitch,
           KillRemove, KillClear, TypeOK, pcbVars
      <4> QED
        BY <2>7, <4>1, <4>2, <4>3
    <3> QED
      BY <1>4, <3>1, <3>2, <3>3
  <2> QED
    BY <2>2, <2>3, <2>4, <2>5, <2>6, <2>7 DEF KernelStep, Program
<1> QED
  BY <1>6, <1>7 DEF Next

(* Steps that move nothing but torn.                                       *)
LEMMA StillSched ==
  ASSUME SchedInv, UNCHANGED <<state, core_affinity, regs, currpid, readylist, cpu, nextpid, spawned>>
  PROVE  Places' /\ NewSlots'
<1>2. /\ \A p : Unused(p)' <=> Unused(p)
      /\ \A p : Idle(p)' <=> Idle(p)
      /\ \A p : Listed(p)' <=> Listed(p)
      /\ \A p : Runs(p)' <=> Runs(p)
      /\ FreshContext' = FreshContext
  BY DEF Unused, Idle, Runs, Listed, FreshContext
<1>3. ListsApart' /\ ListsReady' /\ CoresRun' /\ CurrentRuns'
  BY <1>2 DEF SchedInv, Places, ListsApart, ListsReady, CoresRun, CurrentRuns
<1>4. ReadyListed'
  BY <1>2 DEF SchedInv, Places, ReadyListed
<1>5. CallsOn' /\ CallsOff'
  BY <1>2 DEF SchedInv, Places, CallsOn, CallsOff, KnowsOn, KnowsOff, Knows
<1>6. NewSlots'
  BY <1>2 DEF SchedInv, NewSlots, Reserves
<1> QED
  BY <1>3, <1>4, <1>5, <1>6 DEF Places

(* Every step keeps the invariant.                                         *)
LEMMA NextSched == ASSUME Separated PROVE SchedInv /\ [Next]_vars => SchedInv'
<1> SUFFICES ASSUME SchedInv, [Next]_vars PROVE SchedInv'
  OBVIOUS
<1>1. TypeOK' /\ NullInv'
  BY NextType, NextNull DEF SchedInv
<1>2. ReadsAgree'
  BY <1>1, NextReads
<1>3. Places' /\ NewSlots'
  <2>1. CASE UNCHANGED vars \/ Stopped
    BY <2>1, StillSched DEF Stopped, vars, pcbVars, schedVars, counters
  <2>2. CASE \E c \in Cores : Tick(c) \/ NullLoop(c) \/ KernelStep(c) \/ Program(c) \/ Meet(c)
    <3> PICK c \in Cores : Tick(c) \/ NullLoop(c) \/ KernelStep(c) \/ Program(c) \/ Meet(c)
      BY <2>2
    <3>1. CASE Tick(c) \/ NullLoop(c) \/ Yield(c) \/ ReadyResched(c) \/ KillResched(c)
      BY <1>1, <3>1, SwitchSteps, StaySteps
    <3>2. CASE Enable(c) \/ (\E pid \in Procs : Kill(c, pid)) \/ KillCount(c)
      BY <3>2, StaySteps
    <3>3. CASE Create(c) \/ NewpidNext(c) \/ CreateCount(c)
      BY <3>3, CreateSteps
    <3>4. CASE NewpidCheck(c) \/ NewpidReturn(c) \/ CreateSuspend(c) \/ CreateFill(c)
      BY <3>4, CheckSteps, ReturnSteps, SuspendSteps, FillSteps
    <3>5. CASE ReadyMark(c) \/ ReadyEnqueue(c) \/ KillSwitch(c) \/ KillRemove(c) \/ KillClear(c)
      BY <3>5, StateSteps
    <3>6. CASE Meet(c)
      BY <3>6, StillSched DEF Meet, pcbVars, counters
    <3> QED
      BY <3>1, <3>2, <3>3, <3>4, <3>5, <3>6 DEF KernelStep, Program
  <2> QED
    BY <2>1, <2>2 DEF Next
<1> QED
  BY <1>1, <1>2, <1>3 DEF SchedInv

-----------------------------------------------------------------------------
(* What the invariant says of the properties. *)

(* A list without repetition fits into the process table.                  *)
LEMMA ListLength ==
  ASSUME TypeOK, NEW c \in Cores, Distinct(readylist[c]), NEW q \in Priorities
  PROVE  Len(readylist[c][q]) <= NPROC
<1> DEFINE s == readylist[c][q]
           n == Len(s)
           f == [i \in 1 .. n |-> s[i]]
<1>1. /\ n \in Nat /\ NPROC \in Nat /\ \A i \in 1 .. n : s[i] \in Procs
      /\ \A i, j \in 1 .. n : s[i] = s[j] => i = j
  BY ConstantFacts DEF TypeOK, Distinct
<1>2. IsFiniteSet(Procs) /\ Cardinality(Procs) = NPROC
  <2>1. 0 \in Int /\ NPROC - 1 \in Int /\ ~(0 > NPROC - 1) /\ NPROC - 1 - 0 + 1 = NPROC
    BY ConstantFacts
  <2>2. IsFiniteSet(0 .. NPROC - 1) /\ Cardinality(0 .. NPROC - 1) = NPROC
    BY <2>1, FS_Interval
  <2> QED
    BY <2>2 DEF Procs
<1>3. Cardinality(1 .. n) = n
  BY <1>1, FS_Interval
<1> HIDE DEF n, s
<1>4. f \in Injection(1 .. n, Procs)
  BY <1>1 DEF Injection, IsInjective
<1>5. Cardinality(1 .. n) <= Cardinality(Procs)
  BY <1>2, <1>4, FS_Injection
<1> QED
  BY <1>2, <1>3, <1>5 DEF n, s

(* The positions of a process in the lists.                                *)
LEMMA SlotsHold ==
  ASSUME TypeOK, Places, NEW p \in Procs
  PROVE  /\ \A s \in Slots(p) : s[1] \in Cores /\ Holds(readylist[s[1]], p)
         /\ Listed(p) => Slots(p) # {}
         /\ \A s, t \in Slots(p) : s = t
<1>1. ASSUME NEW s \in Slots(p)
      PROVE  /\ s[1] \in Cores /\ s[2] \in Priorities /\ s[3] \in 1 .. Len(readylist[s[1]][s[2]])
             /\ readylist[s[1]][s[2]][s[3]] = p /\ s = <<s[1], s[2], s[3]>>
             /\ Holds(readylist[s[1]], p)
  <2>1. /\ s[1] \in Cores /\ s[2] \in Priorities /\ s[3] \in 1 .. NPROC
        /\ s[3] <= Len(readylist[s[1]][s[2]]) /\ readylist[s[1]][s[2]][s[3]] = p
        /\ s = <<s[1], s[2], s[3]>>
    BY DEF Slots
  <2>2. s[3] \in 1 .. Len(readylist[s[1]][s[2]])
    <3>1. Len(readylist[s[1]][s[2]]) \in Nat
      BY <2>1 DEF TypeOK
    <3> QED
      BY <2>1, <3>1
  <2> QED
    BY <2>1, <2>2, HoldsAt
<1>2. ASSUME Listed(p) PROVE Slots(p) # {}
  <2> PICK c \in Cores : Holds(readylist[c], p)
    BY <1>2 DEF Listed
  <2>1. PICK q \in Priorities : \E i \in 1 .. Len(readylist[c][q]) : readylist[c][q][i] = p
    BY HoldsAt
  <2>2. PICK i \in 1 .. Len(readylist[c][q]) : readylist[c][q][i] = p
    BY <2>1
  <2>3. Len(readylist[c][q]) <= NPROC /\ Len(readylist[c][q]) \in Nat /\ NPROC \in Nat
    <3>1. Distinct(readylist[c])
      BY DEF Places, ListsApart
    <3>2. Len(readylist[c][q]) <= NPROC
      BY <3>1, ListLength
    <3>3. Len(readylist[c][q]) \in Nat
      BY DEF TypeOK
    <3> QED
      BY <3>2, <3>3, ConstantFacts
  <2>4. <<c, q, i>> \in Slots(p)
    BY <2>1, <2>2, <2>3 DEF Slots
  <2> QED
    BY <2>4
<1>3. ASSUME NEW s \in Slots(p), NEW t \in Slots(p) PROVE s = t
  <2>1. s[1] = t[1]
    BY <1>1 DEF Places, ListsReady
  <2>2. s[2] = t[2] /\ s[3] = t[3]
    <3>1. Distinct(readylist[s[1]])
      BY <1>1 DEF Places, ListsApart
    <3> QED
      BY <1>1, <2>1, <3>1 DEF Distinct
  <2> QED
    BY <1>1, <2>1, <2>2
<1> QED
  BY <1>1, <1>2, <1>3

(* The cardinality of a set of at most one member.                         *)
LEMMA AtMostOne ==
  ASSUME NEW S, \A s, t \in S : s = t
  PROVE  Cardinality(S) = IF S = {} THEN 0 ELSE 1
<1>1. CASE S = {}
  BY <1>1, FS_EmptySet
<1>2. CASE S # {}
  <2> PICK s : s \in S
    BY <1>2
  <2>1. S = {s}
    OBVIOUS
  <2> QED
    BY <1>2, <2>1, FS_Singleton
<1> QED
  BY <1>1, <1>2

(* queue.h: one place for every process.                                   *)
LEMMA OnePlaceHolds == TypeOK /\ NullInv /\ Places => OnePlace
<1> SUFFICES ASSUME TypeOK, NullInv, Places, NEW p \in Procs
             PROVE  Cardinality(Slots(p)) + Cardinality(CoresOf(p)) <= 1
  BY DEF OnePlace
<1>1. \A c, d \in CoresOf(p) : c = d
  BY Somewhere DEF CoresOf
<1>2. Slots(p) = {} \/ CoresOf(p) = {}
  <2> SUFFICES ASSUME NEW s \in Slots(p), NEW c \in CoresOf(p) PROVE FALSE
    OBVIOUS
  <2>1. Listed(p) /\ c \in Cores /\ currpid[c] = p
    BY SlotsHold DEF Listed, CoresOf
  <2> QED
    BY <2>1, Somewhere
<1>3. /\ Cardinality(Slots(p)) = IF Slots(p) = {} THEN 0 ELSE 1
      /\ Cardinality(CoresOf(p)) = IF CoresOf(p) = {} THEN 0 ELSE 1
  BY <1>1, SlotsHold, AtMostOne
<1> QED
  BY <1>2, <1>3

(* The invariant implies the properties.                                   *)
LEMMA SchedConsequences ==
  SchedInv => OnePlace /\ PlaceMatchesState /\ ReadyMeansListed /\ CreatedContextIntact
<1> SUFFICES ASSUME TypeOK, NullInv, Places
             PROVE  OnePlace /\ PlaceMatchesState /\ ReadyMeansListed /\ CreatedContextIntact
  BY DEF SchedInv
<1>1. OnePlace
  BY OnePlaceHolds
<1>2. PlaceMatchesState
  <2>1. \A p \in Procs : \A s \in Slots(p) : state[p] = "PRREADY" /\ core_affinity[p] = s[1]
    BY SlotsHold DEF Places, ListsReady
  <2> QED
    BY <2>1 DEF PlaceMatchesState, Places, CoresRun, NullInv
<1>3. ReadyMeansListed
  BY SlotsHold DEF ReadyMeansListed, Places, ReadyListed
<1>4. CreatedContextIntact
  <2> SUFFICES ASSUME NEW p \in Busy({"ready"}), state[Context(p).arg] = "PRSUSP"
               PROVE  regs[Context(p).arg] = FreshContext /\ CoresOf(Context(p).arg) = {}
    BY DEF CreatedContextIntact
  <2>1. Knows(p, Context(p)) /\ Context(p).pc = "ready"
    <3>1. CASE CoresOf(p) = {}
      BY <3>1 DEF Busy, Context, Places, CallsOff, KnowsOff
    <3>2. CASE CoresOf(p) # {}
      <4> DEFINE c == CHOOSE d \in CoresOf(p) : TRUE
      <4>1. c \in Cores /\ currpid[c] = p /\ Context(p) = cpu[c]
        BY <3>2 DEF Context, CoresOf
      <4> HIDE DEF c
      <4> QED
        BY <4>1 DEF Busy, Places, CallsOn, KnowsOn
    <3> QED
      BY <3>1, <3>2
  <2> QED
    BY <2>1 DEF Knows, Idle, Runs, CoresOf
<1> QED
  BY <1>1, <1>2, <1>3, <1>4

(* What each step does to the save areas.                                  *)
LEMMA KeepsContexts ==
  ASSUME Separated, SchedInv, [Next]_vars, NEW p \in Procs, Slots(p) # {}
  PROVE  regs'[p] = regs[p]
<1>1. TypeOK /\ NullInv /\ Places
  BY DEF SchedInv
<1>2. state[p] = "PRREADY" /\ \A c \in Cores : currpid[c] # p
  <2>1. Listed(p)
    BY <1>1, SlotsHold DEF Listed
  <2> QED
    BY <1>1, <2>1, Somewhere DEF Listed, Places, ListsReady
<1>3. ASSUME NEW c \in Cores, NEW saved, Resched(c, saved) PROVE regs'[p] = regs[p]
  BY <1>1, <1>2, <1>3 DEF Resched, TypeOK
<1>4. CASE UNCHANGED vars
  BY <1>4 DEF vars
<1>5. CASE Next
  <2>0. CASE Stopped
    BY <1>4, <2>0 DEF Stopped
  <2> SUFFICES ASSUME ~Stopped PROVE regs'[p] = regs[p]
    BY <2>0
  <2> PICK c \in Cores : Tick(c) \/ NullLoop(c) \/ KernelStep(c) \/ Program(c) \/ Meet(c)
    BY <1>5 DEF Next
  <2>1. CASE Tick(c) \/ NullLoop(c) \/ Yield(c) \/ ReadyResched(c) \/ KillResched(c)
    BY <1>3, <2>1 DEF Tick, NullLoop, Yield, ReadyResched, KillResched
  <2>2. CASE CreateFill(c)
    <3>1. cpu[c].arg # p
      BY <1>1, <1>2, <2>2 DEF CreateFill, At, Places, CallsOn, KnowsOn, Knows, Idle
    <3> QED
      BY <1>1, <2>2, <3>1 DEF CreateFill, TypeOK
  <2>3. CASE \/ Enable(c) \/ (\E pid \in Procs : Kill(c, pid)) \/ KillCount(c)
             \/ Create(c) \/ NewpidNext(c) \/ CreateCount(c) \/ NewpidCheck(c)
             \/ NewpidReturn(c) \/ CreateSuspend(c) \/ Meet(c)
             \/ ReadyMark(c) \/ ReadyEnqueue(c) \/ KillSwitch(c) \/ KillRemove(c) \/ KillClear(c)
    BY <2>3 DEF Enable, Kill, KillCount, Create, NewpidNext, CreateCount, NewpidCheck, NewpidReturn,
       CreateSuspend, Meet, ReadyMark, ReadyEnqueue, KillSwitch, KillRemove, KillClear
  <2> QED
    BY <2>1, <2>2, <2>3 DEF KernelStep, Program
<1> QED
  BY <1>4, <1>5

THEOREM SchedInvariance == ASSUME Separated PROVE Spec => []SchedInv
<1>1. Init => SchedInv
  <2>1. Init => ReadsAgree
    BY DEF Init, ReadsAgree, Agrees, NullContext, FreshContext
  <2> QED
    BY <2>1, InitType, InitNull, InitPlaces DEF SchedInv
<1>2. SchedInv /\ [Next]_vars => SchedInv'
  BY NextSched
<1> QED
  BY <1>1, <1>2, PTL DEF Spec

(* proc.h: "the null process is always eligible to run".  On every core,   *)
(* whatever is created, killed, promoted or preempted, until two cores meet*)
(* in a ready list.  One creator: with two of them newpid may return the   *)
(* slot of a null process.                                                 *)
THEOREM NullAlwaysEligible == ASSUME Separated PROVE Spec => []NullEligible
<1>1. SchedInv => NullEligible
  BY ConstantFacts DEF SchedInv, NullInv, NullAtHome, NullEligible
<1> QED
  BY <1>1, SchedInvariance, PTL

(* queue.h: a process is "in at most one queue at a time", and then it     *)
(* does not run; it never runs on two cores.  So it is until two cores     *)
(* meet in a ready list.                                                   *)
THEOREM NeverTwice == ASSUME Separated PROVE Spec => []OnePlace
BY SchedInvariance, SchedConsequences, PTL

(* Where a process is agrees with its state and its core affinity, until   *)
(* two cores meet in a ready list.                                         *)
THEOREM StateTells == ASSUME Separated PROVE Spec => []PlaceMatchesState
BY SchedInvariance, SchedConsequences, PTL

(* No ready process is lost, it is in a list or on its way there, until    *)
(* two cores meet in a ready list.                                         *)
THEOREM NoneLost == ASSUME Separated PROVE Spec => []ReadyMeansListed
BY SchedInvariance, SchedConsequences, PTL

(* A slot create has filled in is not run, and its registers are intact,   *)
(* until two cores meet in a ready list.                                   *)
THEOREM FilledIntact == ASSUME Separated PROVE Spec => []CreatedContextIntact
BY SchedInvariance, SchedConsequences, PTL

(* Nothing writes the saved context of a process that waits in a list,     *)
(* until two cores meet in a ready list.                                   *)
THEOREM SavedIntact == ASSUME Separated PROVE Spec => ContextKept
<1> DEFINE Kept == \A p \in Procs : Slots(p) # {} => regs'[p] = regs[p]
<1>1. SchedInv /\ [Next]_vars => [Kept]_vars
  BY KeepsContexts
<1>2. Spec => [][Kept]_vars
  <2> HIDE DEF Kept
  <2> QED
    BY <1>1, SchedInvariance, PTL DEF Spec
<1> QED
  BY <1>2 DEF ContextKept

-----------------------------------------------------------------------------
(* The count of the processes. *)

(* A process that runs is at the label of its core, one that is ready to   *)
(* at that of its saved context.                                           *)
BusyMeans == \A L : \A p \in Procs :
  p \in Busy(L) <=> \/ \E c \in Cores : currpid[c] = p /\ cpu[c].pc \in L
                    \/ ~Runs(p) /\ state[p] = "PRREADY" /\ regs[p].pc \in L

(* That is so as long as no process runs on two cores.                     *)
LEMMA BusyLabels == SchedInv => BusyMeans
<1> SUFFICES ASSUME SchedInv, NEW L, NEW p \in Procs
             PROVE  p \in Busy(L) <=> \/ \E c \in Cores : currpid[c] = p /\ cpu[c].pc \in L
                                      \/ ~Runs(p) /\ state[p] = "PRREADY" /\ regs[p].pc \in L
  BY DEF BusyMeans
<1>1. CASE Runs(p)
  <2>1. PICK c \in Cores : currpid[c] = p
    BY <1>1 DEF Runs
  <2>2. \A d \in Cores : currpid[d] = p => d = c
    BY <2>1, Somewhere DEF SchedInv
  <2>3. CoresOf(p) = {c}
    BY <2>1, <2>2 DEF CoresOf
  <2>4. Context(p) = cpu[c]
    BY <2>3 DEF Context
  <2> QED
    BY <1>1, <2>1, <2>2, <2>3, <2>4 DEF Busy
<1>2. CASE ~Runs(p)
  <2>1. CoresOf(p) = {}
    BY <1>2 DEF CoresOf, Runs
  <2>2. Context(p) = regs[p]
    BY <2>1 DEF Context
  <2>3. ~ \E c \in Cores : currpid[c] = p /\ cpu[c].pc \in L
    BY <1>2 DEF Runs
  <2> QED
    BY <1>2, <2>1, <2>2, <2>3 DEF Busy
<1> QED
  BY <1>1, <1>2

(* The same after a step.                                                  *)
LEMMA BusyNext == SchedInv' => BusyMeans'
BY BusyLabels, PTL

(* A process that runs is where its core is.                               *)
LEMMA BusyRuns ==
  ASSUME SchedInv, NEW c \in Cores, currpid[c] \in Procs, NEW L
  PROVE  currpid[c] \in Busy(L) <=> cpu[c].pc \in L
<1>1. \A d \in Cores : currpid[d] = currpid[c] => d = c
  BY Somewhere DEF SchedInv
<1> QED
  BY <1>1, BusyLabels DEF BusyMeans, Runs

(* A step that leaves a process alone, or is out of L with it.             *)
StaysPut(p, L) ==
  \/ regs'[p] = regs[p] /\ (state'[p] = "PRREADY" <=> state[p] = "PRREADY")
  \/ ~Runs(p) /\ state[p] # "PRREADY" /\ (state'[p] = "PRREADY" => regs'[p].pc \notin L)

(* A process that the step of core c leaves alone stays where it is.       *)
LEMMA BusyKept ==
  ASSUME SchedInv, SchedInv', NEW c \in Cores, currpid' = currpid,
         \A d \in Cores \ {c} : cpu'[d] = cpu[d],
         NEW p \in Procs, p # currpid[c], NEW L,
         StaysPut(p, L)
  PROVE  p \in Busy(L)' <=> p \in Busy(L)
<1>1. BusyMeans /\ BusyMeans'
  BY BusyLabels, BusyNext
<1>2. Runs(p)' <=> Runs(p)
  BY DEF Runs
<1>3. /\ p \in Busy(L) <=> \/ \E d \in Cores : currpid[d] = p /\ cpu[d].pc \in L
                           \/ ~Runs(p) /\ state[p] = "PRREADY" /\ regs[p].pc \in L
      /\ p \in Busy(L)' <=> \/ \E d \in Cores : currpid'[d] = p /\ cpu'[d].pc \in L
                            \/ ~Runs(p)' /\ state'[p] = "PRREADY" /\ regs'[p].pc \in L
  BY <1>1 DEF BusyMeans
<1>4. (\E d \in Cores : currpid'[d] = p /\ cpu'[d].pc \in L) <=> (\E d \in Cores : currpid[d] = p /\ cpu[d].pc \in L)
  OBVIOUS
<1>5. ~Runs(p) => ~ \E d \in Cores : currpid[d] = p /\ cpu[d].pc \in L
  BY DEF Runs
<1> QED
  BY <1>2, <1>3, <1>4, <1>5 DEF StaysPut

(* resched changes neither the slots in use nor the label of a process.    *)
LEMMA SwitchBusy ==
  ASSUME SchedInv, SchedInv', NEW c \in Cores, NEW saved, Resched(c, saved), NEW L,
         Requeues(c) => (saved.pc \in L <=> cpu[c].pc \in L),
         ~Requeues(c) => cpu[c].pc \notin L
  PROVE  /\ Busy(L)' = Busy(L)
         /\ \A p \in Procs : state'[p] = "PRFREE" <=> state[p] = "PRFREE"
<1> DEFINE old == currpid[c]
           new == currpid'[c]
<1>1. /\ TypeOK /\ NullInv /\ Places /\ BusyMeans /\ BusyMeans'
      /\ old \in Procs /\ new \in Procs
  BY BusyLabels, BusyNext DEF SchedInv, NullInv
<1>2. Switched(c, saved)
  <2>1. /\ Distinct(readylist[c])
        /\ ~Holds(readylist[c], currpid[c])
        /\ \A p \in Procs : Holds(readylist[c], p) => ~isbadpid(p)
    BY <1>1, Somewhere DEF Places, ListsApart, ListsReady, Listed, isbadpid
  <2> QED
    BY <1>1, <2>1, ReschedSwitches
<1>3. /\ Holds(readylist[c], new) \/ (new = old /\ Requeues(c))
      /\ \A d \in Cores \ {c} : currpid'[d] = currpid[d] /\ cpu'[d] = cpu[d]
      /\ \A p \in Procs : state'[p] = IF p = new THEN "PRCURR"
                                      ELSE IF p = old /\ Requeues(c) THEN "PRREADY" ELSE state[p]
      /\ \A p \in Procs : regs'[p] = IF p = old THEN saved ELSE regs[p]
      /\ cpu'[c] = IF new = old THEN saved ELSE regs[new]
  BY <1>2 DEF Switched
<1>4. state[new] = IF new = old THEN "PRCURR" ELSE "PRREADY"
  BY <1>1, <1>3, Somewhere DEF Places, ListsReady, Requeues, Listed
<1>5. ~Requeues(c) => new # old /\ state[old] = "PRFREE"
  BY <1>1, <1>3, Somewhere DEF Requeues, Listed
<1>6. \A p \in Procs : state'[p] = "PRFREE" <=> state[p] = "PRFREE"
  BY <1>3, <1>4 DEF Requeues
<1>7. ASSUME NEW p \in Procs PROVE p \in Busy(L)' <=> p \in Busy(L)
  <2>1. /\ p \in Busy(L) <=> \/ \E d \in Cores : currpid[d] = p /\ cpu[d].pc \in L
                             \/ ~Runs(p) /\ state[p] = "PRREADY" /\ regs[p].pc \in L
        /\ p \in Busy(L)' <=> \/ \E d \in Cores : currpid'[d] = p /\ cpu'[d].pc \in L
                              \/ ~Runs(p)' /\ state'[p] = "PRREADY" /\ regs'[p].pc \in L
    BY <1>1 DEF BusyMeans
  <2>2. CASE p # old /\ p # new
    <3>1. regs'[p] = regs[p] /\ state'[p] = state[p] /\ (Runs(p)' <=> Runs(p))
      BY <1>3, <2>2 DEF Runs
    <3>2. (\E d \in Cores : currpid'[d] = p /\ cpu'[d].pc \in L) <=> (\E d \in Cores : currpid[d] = p /\ cpu[d].pc \in L)
      BY <1>3, <2>2
    <3> QED
      BY <1>6, <2>1, <3>1, <3>2
  <2>3. CASE p = new
    <3>1. SchedInv' /\ currpid'[c] \in Procs
      BY <1>1
    <3>2. p \in Busy(L)' <=> cpu'[c].pc \in L
      <4>1. BusyMeans' /\ \A d \in Cores : currpid'[d] = currpid'[c] => d = c
        <5>1. ASSUME NEW d \in Cores, currpid'[d] = new PROVE d = c
          <6>1. CASE new = old
            BY <1>1, <1>3, <5>1, <6>1, Somewhere
          <6>2. CASE new # old
            BY <1>1, <1>3, <5>1, <6>2, Somewhere DEF Listed
          <6> QED
            BY <6>1, <6>2
        <5> QED
          BY <1>1, <5>1
      <4>2. Runs(p)'
        BY <2>3 DEF Runs
      <4> QED
        BY <2>1, <2>3, <4>1, <4>2
    <3>3. CASE new = old
      <4>1. p \in Busy(L) <=> cpu[c].pc \in L
        BY <1>1, <2>3, <3>3, BusyRuns
      <4> QED
        BY <1>3, <1>5, <3>2, <3>3, <4>1
    <3>4. CASE new # old
      <4>1. ~Runs(p)
        BY <1>1, <1>3, <2>3, <3>4, Somewhere DEF Runs, Listed
      <4>2. p \in Busy(L) <=> regs[p].pc \in L
        BY <1>4, <2>1, <2>3, <3>4, <4>1 DEF Runs
      <4> QED
        BY <1>3, <2>3, <3>2, <3>4, <4>2
    <3> QED
      BY <3>3, <3>4
  <2>4. CASE p = old /\ p # new
    <3>1. p \in Busy(L) <=> cpu[c].pc \in L
      BY <1>1, <2>4, BusyRuns
    <3>2. ~Runs(p)'
      BY <1>1, <1>3, <2>4, Somewhere DEF Runs
    <3>3. p \in Busy(L)' <=> Requeues(c) /\ saved.pc \in L
      BY <1>3, <1>5, <2>1, <2>4, <3>2 DEF Runs
    <3> QED
      BY <3>1, <3>3
  <2> QED
    BY <2>2, <2>3, <2>4
<1>8. Busy(L)' = Busy(L)
  <2>1. Busy(L) \subseteq Procs /\ Busy(L)' \subseteq Procs
    BY DEF Busy
  <2> QED
    BY <1>7, <2>1
<1> QED
  BY <1>6, <1>8

(* The labels and sets that NumprocAccounts counts.                        *)
FillLabels == {"create_suspend"}
KillLabels == {"kill_switch", "kill_remove", "kill_clear"}
InUse   == {p \in Procs : state[p] # "PRFREE"}
Filling == Busy(FillLabels)
Killing == Busy(KillLabels)

(* One process more, or less, in a set of them.                            *)
LEMMA OneMore ==
  ASSUME NEW S \in SUBSET Procs, NEW p \in Procs, p \notin S, NEW T, T = S \cup {p}
  PROVE  Cardinality(T) = Cardinality(S) + 1 /\ Cardinality(S) \in Nat
<1>1. IsFiniteSet(Procs)
  BY ConstantFacts, FS_Interval DEF Procs
<1>2. IsFiniteSet(S)
  BY <1>1, FS_Subset
<1> QED
  BY <1>2, FS_AddElement, FS_CardinalityType

(* The number of processes in a set is a number.                           *)
LEMMA Counted ==
  ASSUME NEW S \in SUBSET Procs
  PROVE  Cardinality(S) \in Nat
<1>1. IsFiniteSet(Procs)
  BY ConstantFacts, FS_Interval DEF Procs
<1> QED
  BY <1>1, FS_Subset, FS_CardinalityType

(* Under which program processes kill themselves only.                     *)
OwnKills == \A c \in Cores :
  /\ cpu[c].pc \in {"kill_count", "kill_switch"} => cpu[c].arg = currpid[c]
  /\ cpu[c].pc \notin {"kill_remove", "kill_clear"}
NumInv == NumprocAccounts /\ OwnKills

(* NumprocAccounts with these names, before a step                         *)
LEMMA NumprocMeans ==
  NumprocAccounts <=> numproc = Cardinality(InUse) + Cardinality(Filling) - Cardinality(Killing)
BY DEF NumprocAccounts, InUse, Filling, Killing, FillLabels, KillLabels

(* and after it.                                                           *)
LEMMA NumprocNext ==
  NumprocAccounts' <=> numproc' = Cardinality(InUse') + Cardinality(Filling') - Cardinality(Killing')
BY DEF NumprocAccounts, InUse, Filling, Killing, FillLabels, KillLabels, Busy, Context, CoresOf

(* All of these are processes.                                             *)
LEMMA SomeProcs == /\ InUse \subseteq Procs /\ Filling \subseteq Procs /\ Killing \subseteq Procs
                   /\ InUse' \subseteq Procs /\ Filling' \subseteq Procs /\ Killing' \subseteq Procs
BY DEF InUse, Filling, Killing, Busy

(* A switch.                                                               *)
LEMMA SwitchNum ==
  ASSUME SchedInv, SchedInv', NumInv, NEW c \in Cores, NEW saved, Resched(c, saved),
         cpu[c].pc \notin KillLabels \cup FillLabels \/ saved = cpu[c],
         ~Requeues(c) => cpu[c].pc = "kill_resched",
         saved = cpu[c] \/ saved.pc = "user" \/ ~Requeues(c),
         saved.pc \notin FillLabels \/ saved = cpu[c]
  PROVE  NumInv'
<1>1. /\ TypeOK /\ NullInv /\ Places /\ currpid[c] \in Procs /\ currpid'[c] \in Procs
      /\ \A p \in Procs : Holds(readylist[c], p) => ~isbadpid(p)
      /\ Distinct(readylist[c]) /\ ~Holds(readylist[c], currpid[c])
  BY Somewhere DEF SchedInv, NullInv, Places, ListsApart, ListsReady, Listed, isbadpid
<1>2. Switched(c, saved)
  BY <1>1, ReschedSwitches
<1>3. /\ Filling' = Filling
      /\ \A p \in Procs : state'[p] = "PRFREE" <=> state[p] = "PRFREE"
  <2>1. /\ Requeues(c) => (saved.pc \in FillLabels <=> cpu[c].pc \in FillLabels)
        /\ ~Requeues(c) => cpu[c].pc \notin FillLabels
    BY DEF FillLabels
  <2> QED
    BY <2>1, SwitchBusy DEF Filling
<1>4. Killing' = Killing
  <2>1. /\ Requeues(c) => (saved.pc \in KillLabels <=> cpu[c].pc \in KillLabels)
        /\ ~Requeues(c) => cpu[c].pc \notin KillLabels
    BY DEF KillLabels
  <2> QED
    BY <2>1, SwitchBusy DEF Killing
<1>5. InUse' = InUse /\ numproc' = numproc
  BY <1>2, <1>3 DEF InUse, Switched, counters
<1>6. NumprocAccounts'
  BY <1>3, <1>4, <1>5, NumprocMeans, NumprocNext DEF NumInv
<1>7. /\ Holds(readylist[c], currpid'[c]) \/ (currpid'[c] = currpid[c] /\ Requeues(c))
      /\ \A d \in Cores \ {c} : currpid'[d] = currpid[d] /\ cpu'[d] = cpu[d]
      /\ cpu'[c] = IF currpid'[c] = currpid[c] THEN saved ELSE regs[currpid'[c]]
  BY <1>2 DEF Switched
<1>8. currpid'[c] # currpid[c] => KnowsOff(currpid'[c], regs[currpid'[c]])
  BY <1>1, <1>7 DEF Places, CallsOff, ListsReady
<1>9. /\ cpu'[c].pc \in {"kill_count", "kill_switch"} => cpu'[c].arg = currpid'[c]
      /\ cpu'[c].pc \notin {"kill_remove", "kill_clear"}
  <2>1. CASE currpid'[c] # currpid[c]
    BY <1>7, <1>8, <2>1 DEF KnowsOff
  <2>2. CASE currpid'[c] = currpid[c]
    <3>1. Requeues(c) /\ cpu'[c] = saved /\ (saved = cpu[c] \/ saved.pc = "user")
      BY <1>1, <1>7, <2>2
    <3> QED
      BY <2>2, <3>1 DEF NumInv, OwnKills
  <2> QED
    BY <2>1, <2>2
<1>10. OwnKills'
  BY <1>7, <1>9 DEF NumInv, OwnKills
<1> QED
  BY <1>6, <1>10 DEF NumInv

(* What BusyRuns says, of every core.                                      *)
BusyRunning == \A c \in Cores : \A L : currpid[c] \in Busy(L) <=> cpu[c].pc \in L

(* On every core the process that runs is at the label of the core,        *)
LEMMA BusyRunnings == SchedInv => BusyRunning
<1> SUFFICES ASSUME SchedInv, NEW c \in Cores, NEW L PROVE currpid[c] \in Busy(L) <=> cpu[c].pc \in L
  BY DEF BusyRunning
<1>1. currpid[c] \in Procs
  BY DEF SchedInv, NullInv
<1> QED
  BY <1>1, BusyRuns

(* after a step as before it.                                              *)
LEMMA BusyRunningNext == SchedInv' => BusyRunning'
BY BusyRunnings, PTL

(* A step of core c with the process it runs, as labels L see it.          *)
LEMMA MoveBusy ==
  ASSUME SchedInv, SchedInv', NEW c \in Cores, currpid' = currpid, NEW L,
         \A d \in Cores \ {c} : cpu'[d] = cpu[d],
         \A p \in Procs : \/ p = currpid[c]
                          \/ StaysPut(p, L)
  PROVE  /\ currpid[c] \in Busy(L) <=> cpu[c].pc \in L
         /\ cpu'[c].pc \in L => Busy(L)' = Busy(L) \cup {currpid[c]}
         /\ cpu'[c].pc \notin L => Busy(L)' = Busy(L) \ {currpid[c]}
         /\ (cpu'[c].pc \in L <=> cpu[c].pc \in L) => Busy(L)' = Busy(L)
<1>1. currpid[c] \in Procs
  BY DEF SchedInv, NullInv
<1>2. currpid[c] \in Busy(L) <=> cpu[c].pc \in L
  BY BusyRunnings DEF BusyRunning
<1>3. currpid[c] \in Busy(L)' <=> cpu'[c].pc \in L
  BY BusyRunningNext DEF BusyRunning
<1>4. \A p \in Procs : p # currpid[c] => (p \in Busy(L)' <=> p \in Busy(L))
  BY BusyKept
<1>5. Busy(L) \subseteq Procs /\ Busy(L)' \subseteq Procs
  BY DEF Busy
<1> QED
  BY <1>1, <1>2, <1>3, <1>4, <1>5

(* A step that changes neither numproc nor the slots in use, nor enters or *)
(* leaves the labels that count.                                           *)
LEMMA SameNum ==
  ASSUME SchedInv, SchedInv', NumInv, NEW c \in Cores, currpid' = currpid, numproc' = numproc,
         \A d \in Cores \ {c} : cpu'[d] = cpu[d],
         \A p \in Procs : state'[p] = "PRFREE" <=> state[p] = "PRFREE",
         \A L \in {FillLabels, KillLabels} : /\ cpu'[c].pc \in L <=> cpu[c].pc \in L
                                             /\ \A p \in Procs : p = currpid[c] \/ StaysPut(p, L),
         cpu'[c].pc \in {"kill_count", "kill_switch"} => cpu'[c].arg = currpid[c],
         cpu'[c].pc \notin {"kill_remove", "kill_clear"}
  PROVE  NumInv'
<1>1. Filling' = Filling /\ Killing' = Killing
  BY MoveBusy DEF Filling, Killing
<1>2. InUse' = InUse
  BY DEF InUse
<1>3. NumprocAccounts'
  BY <1>1, <1>2, NumprocMeans, NumprocNext DEF NumInv
<1>4. OwnKills'
  BY DEF NumInv, OwnKills
<1> QED
  BY <1>3, <1>4 DEF NumInv

(* At the start the null processes and main use a slot each, and nobody is *)
(* in a call.                                                              *)
LEMMA InitNum == Init => NumInv
<1> SUFFICES ASSUME Init PROVE NumInv
  OBVIOUS
<1>1. \A c \in Cores : cpu[c].pc = "user" /\ currpid[c] = c
  BY DEF Init, NullContext, FreshContext
<1>2. \A p \in Procs : regs[p].pc = "user" /\ (state[p] # "PRFREE" <=> p \in 0 .. NCORES)
  <2>1. \A p \in Procs : state[p] # "PRFREE" <=> p \in NullProcs \cup {Main}
    BY DEF Init
  <2>2. NullProcs \cup {Main} = 0 .. NCORES
    BY ConstantFacts DEF NullProcs, Main
  <2> QED
    BY <2>1, <2>2 DEF Init, FreshContext
<1>3. \A p \in Procs : Context(p).pc = "user"
  <2> TAKE p \in Procs
  <2>1. CASE CoresOf(p) = {}
    BY <1>2, <2>1 DEF Context
  <2>2. CASE CoresOf(p) # {}
    <3>1. (CHOOSE c \in CoresOf(p) : TRUE) \in CoresOf(p)
      BY <2>2
    <3> QED
      BY <1>1, <2>2, <3>1 DEF Context, CoresOf
  <2> QED
    BY <2>1, <2>2
<1>4. Filling = {} /\ Killing = {}
  BY <1>3 DEF Filling, Killing, FillLabels, KillLabels, Busy
<1>5. InUse = 0 .. NCORES
  BY <1>2, ConstantFacts DEF InUse, Procs
<1>6. Cardinality(0 .. NCORES) = NCORES + 1
  BY ConstantFacts, FS_Interval
<1>7. Cardinality({}) = 0
  BY FS_EmptySet
<1>8. numproc = NCORES + 1
  BY DEF Init
<1>9. NumprocAccounts
  BY <1>4, <1>5, <1>6, <1>7, <1>8, ConstantFacts, NumprocMeans
<1>10. OwnKills
  BY <1>1 DEF OwnKills
<1> QED
  BY <1>9, <1>10 DEF NumInv

(* A call changes numproc: create before it fills a slot, kill before it   *)
(* frees one.                                                              *)
LEMMA CountNum ==
  ASSUME SchedInv, SchedInv', NumInv, NEW c \in Cores, CreateCount(c) \/ KillCount(c)
  PROVE  NumInv'
<1> DEFINE p == currpid[c]
<1>1. /\ TypeOK /\ p \in Procs /\ cpu[c] \in Contexts
      /\ currpid' = currpid /\ regs' = regs /\ state' = state
      /\ \A d \in Cores \ {c} : cpu'[d] = cpu[d]
      /\ \A x \in Procs : \A L : StaysPut(x, L)
  BY DEF SchedInv, NullInv, TypeOK, CreateCount, KillCount, Goto, pcbVars, schedVars, StaysPut
<1>2. InUse' = InUse
  BY <1>1 DEF InUse
<1>3. numproc \in Int /\ Cardinality(InUse) \in Nat /\ Cardinality(Filling) \in Nat /\ Cardinality(Killing) \in Nat
  BY <1>1, SomeProcs, Counted DEF TypeOK
<1>4. numproc = Cardinality(InUse) + Cardinality(Filling) - Cardinality(Killing)
  BY NumprocMeans DEF NumInv
<1>5. CASE CreateCount(c)
  <2>1. cpu[c].pc = "create_count" /\ cpu'[c].pc = "create_suspend" /\ numproc' = numproc + 1
    BY <1>1, <1>5 DEF CreateCount, At, Goto, TypeOK, Contexts
  <2>2. p \notin Filling /\ Filling' = Filling \cup {p}
    BY <1>1, <2>1, MoveBusy DEF Filling, FillLabels
  <2>3. Killing' = Killing
    BY <1>1, <2>1, MoveBusy DEF Killing, KillLabels
  <2>4. Cardinality(Filling') = Cardinality(Filling) + 1
    BY <1>1, <2>2, SomeProcs, OneMore
  <2>5. NumprocAccounts'
    BY <1>2, <1>3, <1>4, <2>1, <2>3, <2>4, NumprocNext
  <2>6. OwnKills'
    BY <1>1, <2>1 DEF NumInv, OwnKills
  <2> QED
    BY <2>5, <2>6 DEF NumInv
<1>6. CASE KillCount(c)
  <2>1. /\ cpu[c].pc = "kill_count" /\ cpu'[c].pc = "kill_switch" /\ numproc' = numproc - 1
        /\ cpu'[c].arg = cpu[c].arg
    BY <1>1, <1>6 DEF KillCount, At, Goto, TypeOK, Contexts
  <2>2. p \notin Killing /\ Killing' = Killing \cup {p}
    BY <1>1, <2>1, MoveBusy DEF Killing, KillLabels
  <2>3. Filling' = Filling
    BY <1>1, <2>1, MoveBusy DEF Filling, FillLabels
  <2>4. Cardinality(Killing') = Cardinality(Killing) + 1
    BY <1>1, <2>2, SomeProcs, OneMore
  <2>5. NumprocAccounts'
    BY <1>2, <1>3, <1>4, <2>1, <2>3, <2>4, NumprocNext
  <2>6. OwnKills'
    BY <1>1, <2>1 DEF NumInv, OwnKills
  <2> QED
    BY <2>5, <2>6 DEF NumInv
<1> QED
  BY <1>5, <1>6

(* create takes the slot it has counted.                                   *)
LEMMA SuspendNum ==
  ASSUME SchedInv, SchedInv', NumInv, NEW c \in Cores, CreateSuspend(c)
  PROVE  NumInv'
<1> DEFINE p   == currpid[c]
           pid == cpu[c].arg
<1>1. /\ TypeOK /\ p \in Procs /\ cpu[c] \in Contexts /\ cpu[c].pc = "create_suspend"
      /\ currpid' = currpid /\ numproc' = numproc /\ regs' = regs
      /\ \A d \in Cores \ {c} : cpu'[d] = cpu[d]
      /\ cpu'[c].pc = "create_fill"
  <2>1. TypeOK /\ p \in Procs /\ cpu[c] \in Contexts
    BY DEF SchedInv, NullInv, TypeOK
  <2>2. /\ cpu[c].pc = "create_suspend" /\ currpid' = currpid /\ numproc' = numproc /\ regs' = regs
        /\ cpu' = [cpu EXCEPT ![c].pc = "create_fill"]
    BY DEF CreateSuspend, At, Goto, schedVars, counters
  <2>3. \A d \in Cores \ {c} : cpu'[d] = cpu[d]
    BY <2>1, <2>2 DEF TypeOK
  <2>4. cpu'[c].pc = "create_fill"
    BY <2>1, <2>2 DEF TypeOK, Contexts
  <2> QED
    BY <2>1, <2>2, <2>3, <2>4
<1>2. Unused(pid) /\ pid \in Procs /\ pid # p
  BY <1>1 DEF SchedInv, Places, CallsOn, KnowsOn, Knows, Unused, Runs
<1>3. /\ \A x \in Procs : /\ x # pid => state'[x] = state[x]
                          /\ x = pid => state'[x] = "PRSUSP" /\ state[x] = "PRFREE"
      /\ \A x \in Procs : \A L : StaysPut(x, L)
  <2>1. state' = [state EXCEPT ![pid] = "PRSUSP"] /\ state \in [Procs -> States]
    BY <1>1 DEF CreateSuspend, TypeOK
  <2>2. state[pid] = "PRFREE"
    BY <1>2 DEF Unused
  <2>3. \A x \in Procs : /\ x # pid => state'[x] = state[x]
                         /\ x = pid => state'[x] = "PRSUSP" /\ state[x] = "PRFREE"
    BY <2>1, <2>2
  <2>4. ASSUME NEW x \in Procs
        PROVE  regs'[x] = regs[x] /\ (state'[x] = "PRREADY" <=> state[x] = "PRREADY")
    <3>1. CASE x = pid
      BY <1>1, <2>3, <3>1
    <3>2. CASE x # pid
      BY <1>1, <2>3, <3>2
    <3> QED
      BY <3>1, <3>2
  <2> QED
    BY <2>3, <2>4 DEF StaysPut
<1>4. pid \notin InUse /\ InUse' = InUse \cup {pid}
  <2>1. state[pid] = "PRFREE" /\ state'[pid] # "PRFREE" /\ pid \in Procs
    BY <1>2, <1>3 DEF Unused
  <2>2. \A x \in Procs : x # pid => state'[x] = state[x]
    BY <1>3
  <2> HIDE DEF pid
  <2> QED
    BY <2>1, <2>2 DEF InUse
<1>5. p \in Filling /\ Filling' = Filling \ {p}
  BY <1>1, <1>2, <1>3, MoveBusy DEF Filling, FillLabels
<1>6. Killing' = Killing
  BY <1>1, <1>2, <1>3, MoveBusy DEF Killing, KillLabels
<1>7. Cardinality(InUse') = Cardinality(InUse) + 1
  BY <1>2, <1>4, SomeProcs, OneMore
<1>8. Cardinality(Filling) = Cardinality(Filling') + 1
  <2>1. p \notin Filling' /\ Filling = Filling' \cup {p}
    BY <1>5
  <2> QED
    BY <1>1, <2>1, SomeProcs, OneMore
<1>9. /\ numproc \in Int /\ Cardinality(InUse) \in Nat /\ Cardinality(Filling) \in Nat
      /\ Cardinality(Killing) \in Nat /\ Cardinality(Filling') \in Nat
  BY <1>1, SomeProcs, Counted DEF TypeOK
<1>10. NumprocAccounts'
  BY <1>1, <1>6, <1>7, <1>8, <1>9, NumprocMeans, NumprocNext DEF NumInv
<1>11. OwnKills'
  BY <1>1 DEF NumInv, OwnKills
<1> QED
  BY <1>10, <1>11 DEF NumInv

(* kill frees the slot of the process that calls it.                       *)
LEMMA FreeNum ==
  ASSUME SchedInv, SchedInv', NumInv, NEW c \in Cores, KillSwitch(c)
  PROVE  NumInv'
<1> DEFINE p == currpid[c]
<1>1. /\ TypeOK /\ p \in Procs /\ cpu[c] \in Contexts /\ cpu[c].pc = "kill_switch"
      /\ currpid' = currpid /\ numproc' = numproc /\ regs' = regs
      /\ \A d \in Cores \ {c} : cpu'[d] = cpu[d]
  BY DEF SchedInv, NullInv, TypeOK, KillSwitch, At, Goto, schedVars, counters
<1>2. cpu[c].arg = p /\ state[p] = "PRCURR"
  BY <1>1 DEF NumInv, OwnKills, SchedInv, Places, CoresRun
<1>3. state' = [state EXCEPT ![p] = "PRFREE"] /\ cpu'[c].pc = "kill_resched"
  BY <1>1, <1>2 DEF KillSwitch, Goto, TypeOK, Contexts
<1>4. \A x \in Procs : state'[x] = IF x = p THEN "PRFREE" ELSE state[x]
  BY <1>1, <1>3 DEF TypeOK
<1>5. p \in InUse /\ InUse' = InUse \ {p}
  BY <1>1, <1>2, <1>4 DEF InUse
<1>13. \A x \in Procs : x = p \/ \A L : StaysPut(x, L)
  BY <1>1, <1>4 DEF StaysPut
<1>6. p \in Killing /\ Killing' = Killing \ {p}
  BY <1>1, <1>3, <1>13, MoveBusy DEF Killing, KillLabels
<1>7. Filling' = Filling
  BY <1>1, <1>3, <1>13, MoveBusy DEF Filling, FillLabels
<1>8. Cardinality(InUse) = Cardinality(InUse') + 1
  <2>1. p \notin InUse' /\ InUse = InUse' \cup {p}
    BY <1>5
  <2> QED
    BY <1>1, <2>1, SomeProcs, OneMore
<1>9. Cardinality(Killing) = Cardinality(Killing') + 1
  <2>1. p \notin Killing' /\ Killing = Killing' \cup {p}
    BY <1>6
  <2> QED
    BY <1>1, <2>1, SomeProcs, OneMore
<1>10. /\ numproc \in Int /\ Cardinality(InUse') \in Nat /\ Cardinality(Filling) \in Nat
       /\ Cardinality(Killing') \in Nat
  BY <1>1, SomeProcs, Counted DEF TypeOK
<1>11. NumprocAccounts'
  BY <1>1, <1>7, <1>8, <1>9, <1>10, NumprocMeans, NumprocNext DEF NumInv
<1>12. OwnKills'
  BY <1>1, <1>3 DEF NumInv, OwnKills
<1> QED
  BY <1>11, <1>12 DEF NumInv

(* The steps that move on without a change of numproc or of a slot.        *)
LEMMA MoveNum ==
  ASSUME KillOthers = {}, SchedInv, SchedInv', NumInv, NEW c \in Cores,
         \/ Tick(c) /\ ~(preempt[c] - 1 = 0)
         \/ Enable(c) \/ Create(c) \/ (\E pid \in Procs : Kill(c, pid))
         \/ NewpidNext(c) \/ NewpidCheck(c) \/ NewpidReturn(c) \/ CreateFill(c)
         \/ ReadyMark(c) \/ ReadyEnqueue(c)
  PROVE  NumInv'
<1>1. /\ TypeOK /\ currpid[c] \in Procs /\ cpu[c] \in Contexts
  BY DEF SchedInv, NullInv, TypeOK
<1>2. /\ cpu[c].pc \in {"kill_count", "kill_switch"} => cpu[c].arg = currpid[c]
      /\ cpu[c].pc \notin {"kill_remove", "kill_clear"}
  BY DEF NumInv, OwnKills
<1>3. /\ currpid' = currpid /\ numproc' = numproc
      /\ \A d \in Cores \ {c} : cpu'[d] = cpu[d]
  BY <1>1 DEF Tick, Enable, Create, Kill, NewpidNext, NewpidCheck, NewpidReturn, CreateFill,
     ReadyMark, ReadyEnqueue, Goto, TypeOK, counters, schedVars
<1>4. \A p \in Procs : state'[p] = "PRFREE" <=> state[p] = "PRFREE"
  <2>1. CASE ReadyMark(c)
    BY <1>1, <2>1 DEF ReadyMark, isbadpid, TypeOK
  <2>2. CASE ~ReadyMark(c)
    BY <2>2 DEF Tick, Enable, Create, Kill, NewpidNext, NewpidCheck, NewpidReturn, CreateFill,
       ReadyEnqueue, pcbVars
  <2> QED
    BY <2>1, <2>2
<1>7. ASSUME NEW L \in {FillLabels, KillLabels}, NEW p \in Procs PROVE p = currpid[c] \/ StaysPut(p, L)
  <2>1. CASE CreateFill(c)
    <3>1. Idle(cpu[c].arg)
      BY <2>1 DEF SchedInv, Places, CallsOn, KnowsOn, Knows, CreateFill, At
    <3>2. state' = state /\ (p # cpu[c].arg => regs'[p] = regs[p])
      BY <1>1, <2>1 DEF CreateFill, TypeOK
    <3> QED
      BY <3>1, <3>2 DEF StaysPut, Idle
  <2>2. CASE ReadyMark(c)
    <3>1. Knows(currpid[c], cpu[c]) /\ cpu[c].pc = "ready" /\ regs' = regs
      BY <2>2 DEF SchedInv, Places, CallsOn, KnowsOn, ReadyMark, At
    <3>2. p # cpu[c].arg => state'[p] = state[p]
      BY <1>1, <2>2 DEF ReadyMark, TypeOK
    <3>3. CASE state[cpu[c].arg] = "PRSUSP"
      <4>1. /\ Idle(cpu[c].arg) /\ regs[cpu[c].arg] = FreshContext /\ FreshContext.pc \notin L
        BY <3>1, <3>3 DEF Knows, FreshContext, FillLabels, KillLabels
      <4> QED
        BY <3>1, <3>2, <3>3, <4>1 DEF StaysPut, Idle
    <3>4. CASE state[cpu[c].arg] # "PRSUSP"
      <4>1. state' = state
        BY <2>2, <3>1, <3>4 DEF ReadyMark, isbadpid, Knows, Idle
      <4> QED
        BY <3>1, <4>1 DEF StaysPut
    <3> QED
      BY <3>3, <3>4
  <2>3. CASE ~ReadyMark(c) /\ ~CreateFill(c)
    <3>1. UNCHANGED <<state, regs>>
      BY <2>3 DEF Tick, Enable, Create, Kill, NewpidNext, NewpidCheck, NewpidReturn, ReadyEnqueue, pcbVars
    <3> QED
      BY <3>1 DEF StaysPut
  <2> QED
    BY <2>1, <2>2, <2>3
<1>5. \/ cpu'[c].pc = cpu[c].pc /\ cpu'[c].arg = cpu[c].arg
      \/ /\ cpu[c].pc \notin FillLabels \cup KillLabels
         /\ cpu'[c].pc \notin FillLabels \cup KillLabels \cup {"kill_count"}
      \/ cpu[c].pc = "user" /\ cpu'[c].pc = "kill_count" /\ cpu'[c].arg = currpid[c]
  <2>1. CASE (Tick(c) /\ ~(preempt[c] - 1 = 0)) \/ Enable(c)
    BY <1>1, <2>1 DEF Tick, Enable, TypeOK, Contexts
  <2>2. CASE Create(c) \/ NewpidNext(c) \/ NewpidCheck(c) \/ NewpidReturn(c)
    <3>1. cpu[c].pc \in {"user", "newpid_next", "newpid_check", "newpid_return"}
      BY <2>2 DEF Create, NewpidNext, NewpidCheck, NewpidReturn, At
    <3>2. cpu'[c].pc \in {"user", "newpid_next", "newpid_check", "newpid_return", "create_count"}
      <4>1. CASE Create(c) \/ NewpidNext(c)
        <5>1. \/ cpu'[c] = [cpu[c] EXCEPT !.pc = "newpid_next", !.tries = 0]
              \/ cpu'[c] = [cpu[c] EXCEPT !.pc = "newpid_check", !.tries = cpu[c].tries + 1]
          BY <1>1, <4>1 DEF Create, NewpidNext, TypeOK
        <5> QED
          BY <1>1, <5>1 DEF Contexts
      <4>2. CASE NewpidCheck(c)
        <5>1. \/ cpu'[c] = [cpu[c] EXCEPT !.pc = "newpid_return", !.arg = nextpid, !.tries = 0]
              \/ cpu'[c] = [cpu[c] EXCEPT !.pc = "newpid_next"]
              \/ cpu'[c] = [cpu[c] EXCEPT !.pc = "user", !.arg = SYSERR, !.tries = 0]
          BY <1>1, <4>2 DEF NewpidCheck, TypeOK
        <5> QED
          BY <1>1, <5>1 DEF Contexts
      <4>3. CASE NewpidReturn(c)
        <5>1. PICK pid : cpu'[c] = [cpu[c] EXCEPT !.pc = "create_count", !.arg = pid]
          BY <1>1, <4>3 DEF NewpidReturn, TypeOK
        <5> QED
          BY <1>1, <5>1 DEF Contexts
      <4> QED
        BY <2>2, <4>1, <4>2, <4>3
    <3> QED
      BY <3>1, <3>2 DEF FillLabels, KillLabels
  <2>3. CASE CreateFill(c) \/ ReadyMark(c) \/ ReadyEnqueue(c)
    <3>1. cpu[c].pc \in {"create_fill", "ready", "ready_enqueue"}
      BY <2>3 DEF CreateFill, ReadyMark, ReadyEnqueue, At
    <3>2. cpu'[c].pc \in {"user", "ready", "ready_enqueue", "ready_resched"}
      BY <1>1, <2>3 DEF CreateFill, ReadyMark, ReadyEnqueue, Goto, TypeOK, Contexts
    <3> QED
      BY <3>1, <3>2 DEF FillLabels, KillLabels
  <2>4. CASE \E pid \in Procs : Kill(c, pid)
    <3>1. PICK pid \in Procs : Kill(c, pid)
      BY <2>4
    <3>2. /\ cpu[c].pc = "user" /\ pid = currpid[c]
          /\ cpu' = [cpu EXCEPT ![c] = [@ EXCEPT !.pc = "kill_count", !.arg = pid]]
      BY <3>1 DEF Kill, At
    <3>3. cpu'[c] = [cpu[c] EXCEPT !.pc = "kill_count", !.arg = pid]
      BY <1>1, <3>2 DEF TypeOK
    <3> QED
      BY <1>1, <3>2, <3>3 DEF Contexts
  <2> QED
    BY <2>1, <2>2, <2>3, <2>4
<1>6. /\ \A L \in {FillLabels, KillLabels} : cpu'[c].pc \in L <=> cpu[c].pc \in L
      /\ cpu'[c].pc \in {"kill_count", "kill_switch"} => cpu'[c].arg = currpid[c]
      /\ cpu'[c].pc \notin {"kill_remove", "kill_clear"}
  BY <1>2, <1>5 DEF FillLabels, KillLabels
<1> QED
  BY <1>3, <1>4, <1>6, <1>7, SameNum

(* The steps that switch contexts.                                         *)
LEMMA SwitchesNum ==
  ASSUME SchedInv, SchedInv', NumInv, NEW c \in Cores,
         \/ preempt[c] - 1 = 0 /\ Tick(c)
         \/ NullLoop(c) \/ Yield(c) \/ ReadyResched(c) \/ KillResched(c)
  PROVE  NumInv'
<1>1. /\ TypeOK /\ currpid[c] \in Procs /\ cpu[c] \in Contexts
      /\ Requeues(c) <=> cpu[c].pc # "kill_resched"
  BY DEF SchedInv, NullInv, TypeOK, Requeues, Places, CoresRun
<1>2. CASE (preempt[c] - 1 = 0 /\ Tick(c)) \/ NullLoop(c) \/ Yield(c)
  <2>1. Resched(c, cpu[c])
    BY <1>2 DEF Tick, NullLoop, Yield
  <2> QED
    BY <1>1, <2>1, SwitchNum
<1>3. CASE ReadyResched(c)
  <2> DEFINE saved == [cpu[c] EXCEPT !.pc = "user"]
  <2>1. cpu[c].pc = "ready_resched" /\ Resched(c, saved) /\ saved.pc = "user"
    BY <1>1, <1>3 DEF ReadyResched, At, Contexts
  <2> HIDE DEF saved
  <2>2. cpu[c].pc \notin KillLabels \cup FillLabels /\ saved.pc \notin FillLabels
    BY <2>1 DEF KillLabels, FillLabels
  <2> QED
    BY <1>1, <2>1, <2>2, SwitchNum
<1>4. CASE KillResched(c)
  <2> DEFINE saved == [cpu[c] EXCEPT !.pc = "kill_remove"]
  <2>1. cpu[c].pc = "kill_resched" /\ Resched(c, saved) /\ saved.pc = "kill_remove"
    BY <1>1, <1>4 DEF KillResched, At, Contexts
  <2> HIDE DEF saved
  <2>2. cpu[c].pc \notin KillLabels \cup FillLabels /\ saved.pc \notin FillLabels
    BY <2>1 DEF KillLabels, FillLabels
  <2> QED
    BY <1>1, <2>1, <2>2, SwitchNum
<1> QED
  BY <1>2, <1>3, <1>4

(* Every step keeps the count.                                             *)
LEMMA NextNum ==
  ASSUME KillOthers = {}
  PROVE  SchedInv /\ SchedInv' /\ NumInv /\ [Next]_vars => NumInv'
<1> SUFFICES ASSUME SchedInv, SchedInv', NumInv, [Next]_vars PROVE NumInv'
  OBVIOUS
<1>1. CASE UNCHANGED <<state, regs, cpu, currpid, numproc>>
  BY <1>1 DEF NumInv, NumprocAccounts, OwnKills, Busy, Context, CoresOf
<1>2. CASE UNCHANGED vars \/ Stopped
  BY <1>1, <1>2 DEF Stopped, vars, pcbVars, schedVars, counters
<1>3. CASE \E c \in Cores : Tick(c) \/ NullLoop(c) \/ KernelStep(c) \/ Program(c) \/ Meet(c)
  <2> PICK c \in Cores : Tick(c) \/ NullLoop(c) \/ KernelStep(c) \/ Program(c) \/ Meet(c)
    BY <1>3
  <2>1. CASE (preempt[c] - 1 = 0 /\ Tick(c)) \/ NullLoop(c) \/ Yield(c) \/ ReadyResched(c) \/ KillResched(c)
    BY <2>1, SwitchesNum
  <2>2. CASE \/ Tick(c) /\ ~(preempt[c] - 1 = 0)
             \/ Enable(c) \/ Create(c) \/ (\E pid \in Procs : Kill(c, pid))
             \/ NewpidNext(c) \/ NewpidCheck(c) \/ NewpidReturn(c) \/ CreateFill(c)
             \/ ReadyMark(c) \/ ReadyEnqueue(c)
    BY <2>2, MoveNum
  <2>3. CASE CreateCount(c) \/ KillCount(c)
    BY <2>3, CountNum
  <2>4. CASE CreateSuspend(c) \/ KillSwitch(c)
    BY <2>4, SuspendNum, FreeNum
  <2>5. CASE KillRemove(c) \/ KillClear(c)
    BY <2>5 DEF KillRemove, KillClear, At, NumInv, OwnKills
  <2>6. CASE Meet(c)
    BY <1>1, <2>6 DEF Meet, pcbVars, counters
  <2> QED
    BY <2>1, <2>2, <2>3, <2>4, <2>5, <2>6 DEF KernelStep, Program
<1> QED
  BY <1>2, <1>3 DEF Next

(* numproc is the number of slots in use, up to the calls of create and    *)
(* kill that are between their change of it and their change of the slot,  *)
(* on any number of cores and across every preemption in between, until    *)
(* two cores meet in a ready list.                                         *)
(* Processes kill themselves only: one that is killed inside its own kill  *)
(* is discounted twice, and one inside create leaves a slot counted that   *)
(* nobody fills.                                                           *)
THEOREM SlotsCounted == ASSUME Separated, KillOthers = {} PROVE Spec => []NumprocAccounts
<1>1. Init => NumInv
  BY InitNum
<1>2. SchedInv /\ SchedInv' /\ NumInv /\ [Next]_vars => NumInv'
  BY NextNum
<1>3. Spec => []SchedInv
  BY SchedInvariance
<1>4. NumInv => NumprocAccounts
  BY DEF NumInv
<1> QED
  BY <1>1, <1>2, <1>3, <1>4, PTL DEF Spec
==============================================================================
