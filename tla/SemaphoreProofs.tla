--------------------------- MODULE SemaphoreProofs --------------------------
(***************************************************************************)
(* Theorems about Semaphore, for any number of cores, processes and        *)
(* semaphores: its types, that no process is lost or in two places until   *)
(* two cores meet in a ready list, and that the calls implement            *)
(* CountingSemaphores - wait and signaln on several cores, all of them on  *)
(* one core.                                                               *)
(***************************************************************************)
EXTENDS Semaphore, ReadyListsProofs

States == {"PRCURR", "PRREADY", "PRSUSP"}

(* Outside a call on a semaphore.                                          *)
Outside == {"user", "next", "look", "mark", "fill"}

(* Calls are about semaphores that semcreate has returned.                 *)
OnKnown == \A p \in Procs : ctx[p].at \notin Outside => ctx[p].sem \in known

(* q has dequeued p and not put it into a ready list yet.                  *)
Holds(q, p) == ctx[q].at \in {"ready", "enlist"} /\ ctx[q].pid = p
Held(p) == \E q \in Procs : Holds(q, p)

(* Between calls a process may have any place; in a call it has its core,  *)
(* but for the sleep in wait, and is PRCURR until it suspends itself.  A   *)
(* call that enlists has dequeued a process.                               *)
Called ==
  \A p \in Procs :
    /\ ~Running(p) => ctx[p].at \in {"user", "asleep"}
    /\ Running(p) /\ ctx[p].at \notin {"enqueue", "resched"} => state[p] = "PRCURR"
    /\ ctx[p].at \in {"enqueue", "resched"} => state[p] # "PRCURR"
    /\ ctx[p].at = "enlist" => ctx[p].pid \in Procs

(* The places a process may have exclude each other.                       *)
Exclusive ==
  /\ Apart(queue)
  /\ \A p \in Procs : \A q, r \in Procs : Holds(q, p) /\ Holds(r, p) => q = r
  /\ \A p \in Procs : ~(In(p, queue) /\ In(p, readylist))
  /\ \A p \in Procs : Held(p) => ~In(p, queue) /\ ~In(p, readylist)

(* A process has a place if and only if it does not go on running.         *)
Placed ==
  \A p \in Procs : (In(p, queue) \/ In(p, readylist) \/ Held(p))
                   <=> ~(Running(p) /\ ctx[p].at # "resched")

Placement == SchedOK(States) /\ Called /\ Exclusive /\ Placed

(* What a step of a call does to its context.                              *)
Others(p) == \A q \in Procs \ {p} : ctx'[q] = ctx[q]

(* The fields of a context.                                                *)
LEMMA ContextFields ==
  ASSUME NEW x \in Contexts
  PROVE  /\ x.at \in Steps /\ x.sem \in Sems \cup {SYSERR} /\ x.n \in Nat /\ x.left \in Nat
         /\ x.pid \in Procs \cup {EMPTY}
         /\ x.op \in {"none", "wait", "signal", "signaln", "semcreate", "semfree"}
         /\ DOMAIN x = {"op", "at", "sem", "n", "left", "pid"}
BY DEF Contexts

(* Goto, Return and the turns of the loops, one field at a time.           *)
LEMMA GotoMoves ==
  ASSUME ctx \in [Procs -> Contexts], NEW p \in Procs, NEW step, Goto(p, step)
  PROVE  /\ Others(p)
         /\ step \in Steps => ctx' \in [Procs -> Contexts]
         /\ ctx'[p].at = step /\ ctx'[p].sem = ctx[p].sem /\ ctx'[p].op = ctx[p].op
         /\ ctx'[p].n = ctx[p].n /\ ctx'[p].left = ctx[p].left /\ ctx'[p].pid = ctx[p].pid
BY DEF Goto, Contexts, Others

(* A call that returns.                                                    *)
LEMMA ReturnMoves ==
  ASSUME ctx \in [Procs -> Contexts], NEW p \in Procs, Return(p)
  PROVE  /\ Others(p)
         /\ ctx' \in [Procs -> Contexts]
         /\ ctx'[p] = User
         /\ ctx'[p].at = "user" /\ ctx'[p].op = "none"
<1>1. User \in Contexts
  BY DEF User, Contexts, Steps
<1> QED
  BY <1>1 DEF Return, User, Others

(* Another round of a loop with a counter.                                 *)
Again(p, step) ==
  /\ Others(p)
  /\ ctx'[p].at = step /\ ctx'[p].sem = ctx[p].sem /\ ctx'[p].op = ctx[p].op
  /\ ctx'[p].n = ctx[p].n /\ ctx'[p].left = ctx[p].left - 1 /\ ctx'[p].pid = ctx[p].pid

(* A loop with a counter that goes on.                                     *)
LEMMA AgainMoves ==
  ASSUME ctx \in [Procs -> Contexts], NEW p \in Procs, NEW step,
         ctx' = [ctx EXCEPT ![p].left = @ - 1, ![p].at = step]
  PROVE  /\ Again(p, step)
         /\ ctx[p].left # 0 /\ step \in Steps => ctx' \in [Procs -> Contexts]
<1> DEFINE m == ctx[p].left - 1
           x == [ctx[p] EXCEPT !.left = m, !.at = step]
<1>1. ctx' = [ctx EXCEPT ![p] = x]
  OBVIOUS
<1>2. /\ x.at = step /\ x.sem = ctx[p].sem /\ x.op = ctx[p].op
      /\ x.n = ctx[p].n /\ x.left = m /\ x.pid = ctx[p].pid
  <2> HIDE DEF m
  <2> QED
    BY DEF Contexts
<1>3. ctx[p].left # 0 /\ step \in Steps => x \in Contexts
  <2>1. ctx[p] \in Contexts /\ (ctx[p].left # 0 => m \in Nat)
    BY ContextFields
  <2> HIDE DEF m
  <2> QED
    BY <2>1 DEF Contexts
<1> HIDE DEF x
<1> QED
  BY <1>1, <1>2, <1>3 DEF Again, Others

(* The three ways a turn of a loop ends.                                   *)
LEMMA TurnedMoves ==
  ASSUME ctx \in [Procs -> Contexts], NEW p \in Procs, Turned(p)
  PROVE  /\ Others(p)
         /\ ctx' \in [Procs -> Contexts]
         /\ \/ ctx[p].op = "semfree" /\ Goto(p, "nonempty")
            \/ ctx[p].op # "semfree" /\ ctx[p].left > 1 /\ Again(p, "count")
            \/ ctx[p].op # "semfree" /\ ctx[p].left <= 1 /\ Return(p)
<1>1. ctx[p].left \in Nat
  BY ContextFields
<1>2. CASE ctx[p].op = "semfree"
  BY <1>2, GotoMoves DEF Turned, Steps
<1>3. CASE ctx[p].op # "semfree" /\ ctx[p].left > 1
  BY <1>1, <1>3, AgainMoves DEF Turned, Steps, Again
<1>4. CASE ctx[p].op # "semfree" /\ ~(ctx[p].left > 1)
  BY <1>1, <1>4, ReturnMoves DEF Turned
<1> QED
  BY <1>2, <1>3, <1>4

(* A call that begins.                                                     *)
LEMMA CallMoves ==
  ASSUME ctx \in [Procs -> Contexts], NEW p \in Procs,
         NEW op, NEW s, NEW n, NEW left, NEW step, Call(p, op, s, n, left, step)
  PROVE  /\ Others(p)
         /\ ctx'[p].at = step /\ ctx'[p].sem = s /\ ctx'[p].op = op
         /\ ctx'[p].n = n /\ ctx'[p].left = left /\ ctx'[p].pid = EMPTY
         /\ (/\ op \in {"wait", "signal", "signaln", "semcreate", "semfree"} /\ step \in Steps
             /\ s \in Sems \cup {SYSERR} /\ n \in Nat /\ left \in Nat)
            => ctx' \in [Procs -> Contexts]
<1> DEFINE x == [User EXCEPT !.op = op, !.at = step, !.sem = s, !.n = n, !.left = left]
<1>1. ctx' = [ctx EXCEPT ![p] = x]
  BY DEF Call
<1>2. x.at = step /\ x.sem = s /\ x.op = op /\ x.n = n /\ x.left = left /\ x.pid = EMPTY
  BY DEF User
<1>3. (/\ op \in {"wait", "signal", "signaln", "semcreate", "semfree"} /\ step \in Steps
       /\ s \in Sems \cup {SYSERR} /\ n \in Nat /\ left \in Nat)
      => x \in Contexts
  BY DEF User, Contexts
<1> HIDE DEF x
<1> QED
  BY <1>1, <1>2, <1>3 DEF Others

(* The process that a call has dequeued stays in its hands.                *)
LEMMA DequeuedMoves ==
  ASSUME ctx \in [Procs -> Contexts], NEW p \in Procs, NEW q \in Procs \cup {EMPTY},
         ctx' = [ctx EXCEPT ![p].at = "ready", ![p].pid = q]
  PROVE  /\ Others(p)
         /\ ctx' \in [Procs -> Contexts]
         /\ ctx'[p].at = "ready" /\ ctx'[p].sem = ctx[p].sem /\ ctx'[p].op = ctx[p].op
         /\ ctx'[p].n = ctx[p].n /\ ctx'[p].left = ctx[p].left /\ ctx'[p].pid = q
<1> DEFINE x == [ctx[p] EXCEPT !.at = "ready", !.pid = q]
<1>1. ctx' = [ctx EXCEPT ![p] = x]
  OBVIOUS
<1>2. /\ x.at = "ready" /\ x.sem = ctx[p].sem /\ x.op = ctx[p].op
      /\ x.n = ctx[p].n /\ x.left = ctx[p].left /\ x.pid = q
  BY DEF Contexts
<1>3. x \in Contexts
  <2>1. "ready" \in Steps
    BY DEF Steps
  <2> QED
    BY <2>1 DEF Contexts
<1> HIDE DEF x
<1> QED
  BY <1>1, <1>2, <1>3 DEF Others

-----------------------------------------------------------------------------
(* Every process has one place *)

(* A step of a call of p, or a call p makes, that leaves lists and hands.  *)
Listless == {"enqueue", "resched", "ready", "enlist"}
Local(p) ==
  /\ Running(p) /\ ctx[p].at \notin Listless
  /\ Others(p) /\ ctx'[p].at \notin Listless
  /\ UNCHANGED <<sched, queue>>

(* A step that is local to a call moves no process.                        *)
LEMMA LocalStep ==
  ASSUME TypeOK, Placement, NEW p \in Procs, Local(p)
  PROVE  Placement'
<1>1. \A q : Running(q)' <=> Running(q)
  BY DEF Local, Running, sched
<1>2. /\ \A q \in Procs : q # p => ctx'[q] = ctx[q]
      /\ ctx[p].at \notin Listless /\ ctx'[p].at \notin Listless
      /\ Running(p)
  BY DEF Local, Others
<1>3. \A q, r \in Procs : Holds(q, r)' <=> Holds(q, r)
  BY <1>2 DEF Holds, Listless
<1>4. \A q \in Procs :
        /\ In(q, queue)' <=> In(q, queue)
        /\ In(q, readylist)' <=> In(q, readylist)
        /\ Held(q)' <=> Held(q)
  BY <1>3 DEF Local, sched, Held
<1>5. SchedOK(States)'
  BY DEF Placement, Local, SchedOK, SchedTypeOK, Apart, AtHome, OwnRuns, sched
<1>6. Called'
  <2> SUFFICES ASSUME NEW q \in Procs
               PROVE  /\ ~Running(q) => ctx'[q].at \in {"user", "asleep"}
                      /\ Running(q) /\ ctx'[q].at \notin {"enqueue", "resched"} => state'[q] = "PRCURR"
                      /\ ctx'[q].at \in {"enqueue", "resched"} => state'[q] # "PRCURR"
                      /\ ctx'[q].at = "enlist" => ctx'[q].pid \in Procs
    BY <1>1 DEF Called
  <2>1. state' = state
    BY DEF Local, sched
  <2> QED
    BY <2>1, <1>2 DEF Placement, Called, Listless
<1>7. Apart(queue)'
  BY DEF Local, Placement, Exclusive
<1>8. Exclusive'
  BY <1>3, <1>4, <1>7 DEF Placement, Exclusive
<1>9. Placed'
  <2> SUFFICES ASSUME NEW q \in Procs
               PROVE  (In(q, queue) \/ In(q, readylist) \/ Held(q))
                      <=> ~(Running(q) /\ ctx'[q].at # "resched")
    BY <1>1, <1>4 DEF Placed
  <2> QED
    BY <1>2 DEF Placement, Placed, Listless
<1> QED
  BY <1>5, <1>6, <1>8, <1>9 DEF Placement

(* Most of the steps are local.                                            *)
LEMMA LocalMoves ==
  ASSUME TypeOK, NEW p \in Procs,
         \/ Calling(p) \/ CountDown(p) \/ CountUp(p) \/ Awake(p)
         \/ Nonempty(p) \/ Zero(p) \/ Free(p)
         \/ SemallocNext(p) \/ SemallocLook(p) \/ SemallocMark(p) \/ SemcreateFill(p)
  PROVE  Local(p)
<1>0. ctx \in [Procs -> Contexts]
  BY DEF TypeOK
<1> USE <1>0 DEF Local, Listless
<1>a. ASSUME NEW step, At(p, step), step \notin Listless, UNCHANGED <<sched, queue>>,
             \/ Return(p) \/ Again(p, "look") \/ Turned(p)
             \/ \E next \in {"suspend", "dequeue", "zero", "mark", "next", "free", "fill"} : Goto(p, next)
      PROVE  Local(p)
  <2>1. CASE Return(p)
    BY <1>a, <2>1, ReturnMoves DEF At
  <2>2. CASE Again(p, "look")
    BY <1>a, <2>2 DEF Again, At
  <2>3. ASSUME NEW next, next \notin Listless, Goto(p, next) PROVE Local(p)
    BY <1>a, <2>3, GotoMoves DEF At
  <2>4. CASE Turned(p)
    <3>1. CASE Goto(p, "nonempty")
      BY <3>1, <2>3
    <3>2. CASE Again(p, "count")
      BY <1>a, <3>2 DEF Again, At
    <3> QED
      BY <2>1, <2>4, <3>1, <3>2, TurnedMoves
  <2> QED
    BY <1>a, <2>1, <2>2, <2>3, <2>4
<1>1. CASE Calling(p)
  <2>0. At(p, "user") /\ UNCHANGED <<sched, queue>>
    BY <1>1 DEF Calling, Wait, Signal, Signaln, Semfree, Semcreate, OnSem, Calls, semtab
  <2>1. \/ UNCHANGED ctx
        \/ \E op, s, n, left : \E step \in {"count", "nonempty", "next"} : Call(p, op, s, n, left, step)
    BY <1>1 DEF Calling, Wait, Signal, Signaln, Semfree, Semcreate, OnSem
  <2>2. ASSUME NEW op, NEW s, NEW n, NEW left, NEW step \in {"count", "nonempty", "next"},
               Call(p, op, s, n, left, step)
        PROVE  Local(p)
    BY <2>0, <2>2, CallMoves DEF At
  <2>3. CASE UNCHANGED ctx
    BY <2>0, <2>3 DEF At, Others
  <2> QED
    BY <2>1, <2>2, <2>3
<1>2. CASE CountDown(p)
  <2>1. Goto(p, "suspend") \/ Return(p)
    BY <1>2 DEF CountDown
  <2> QED
    BY <1>2, <2>1, <1>a DEF CountDown
<1>3. CASE CountUp(p)
  <2>1. Goto(p, "dequeue") \/ Turned(p)
    BY <1>3 DEF CountUp
  <2> QED
    BY <1>3, <2>1, <1>a DEF CountUp
<1>4. CASE Awake(p)
  BY <1>4, <1>a DEF Awake, semtab
<1>5. CASE Nonempty(p)
  <2>1. Goto(p, "dequeue") \/ Goto(p, "zero")
    BY <1>5 DEF Nonempty
  <2> QED
    BY <1>5, <2>1, <1>a DEF Nonempty, semtab
<1>6. CASE Zero(p)
  BY <1>6, <1>a DEF Zero
<1>7. CASE Free(p)
  BY <1>7, <1>a DEF Free
<1>8. CASE SemallocNext(p)
  <2>1. Return(p) \/ Again(p, "look")
    BY <1>8, AgainMoves DEF SemallocNext
  <2> QED
    BY <1>8, <2>1, <1>a DEF SemallocNext, semtab
<1>9. CASE SemallocLook(p)
  <2>1. Goto(p, "mark") \/ Goto(p, "next")
    BY <1>9 DEF SemallocLook
  <2> QED
    BY <1>9, <2>1, <1>a DEF SemallocLook, semtab
<1>10. CASE SemallocMark(p)
  BY <1>10, <1>a DEF SemallocMark
<1>11. CASE SemcreateFill(p)
  BY <1>11, <1>a DEF SemcreateFill
<1> QED
  BY <1>1, <1>2, <1>3, <1>4, <1>5, <1>6, <1>7, <1>8, <1>9, <1>10, <1>11

(* wait makes its process PRSUSP while the core still runs it.             *)
LEMMA SuspendPlaces ==
  ASSUME TypeOK, Placement, NEW p \in Procs, Suspend(p)
  PROVE  Placement'
<1>1. /\ ctx \in [Procs -> Contexts] /\ state \in [Procs -> States]
      /\ Running(p) /\ ctx[p].at = "suspend"
      /\ state' = [state EXCEPT ![p] = "PRSUSP"]
      /\ UNCHANGED <<queue, currpid, readylist, torn>>
  BY DEF TypeOK, SchedTypeOK, Suspend, At, semtab, States
<1>2. Others(p) /\ ctx'[p].at = "enqueue"
  BY <1>1, GotoMoves DEF Suspend
<1>3. \A q : Running(q)' <=> Running(q)
  BY <1>1 DEF Running
<1>4. \A q, r \in Procs : Holds(q, r)' <=> Holds(q, r)
  BY <1>1, <1>2 DEF Holds, Others
<1>5. \A q \in Procs :
        /\ In(q, queue)' <=> In(q, queue)
        /\ In(q, readylist)' <=> In(q, readylist)
        /\ Held(q)' <=> Held(q)
  BY <1>1, <1>4 DEF Held
<1>6. SchedOK(States)'
  BY <1>1 DEF Placement, SchedOK, SchedTypeOK, Apart, AtHome, OwnRuns, States
<1>7. Called'
  <2> SUFFICES ASSUME NEW q \in Procs
               PROVE  /\ ~Running(q) => ctx'[q].at \in {"user", "asleep"}
                      /\ Running(q) /\ ctx'[q].at \notin {"enqueue", "resched"} => state'[q] = "PRCURR"
                      /\ ctx'[q].at \in {"enqueue", "resched"} => state'[q] # "PRCURR"
                      /\ ctx'[q].at = "enlist" => ctx'[q].pid \in Procs
    BY <1>3 DEF Called
  <2> QED
    BY <1>1, <1>2 DEF Placement, Called, Others
<1>8. Exclusive'
  <2>1. Apart(queue)'
    BY <1>1 DEF Placement, Exclusive
  <2> QED
    BY <2>1, <1>4, <1>5 DEF Placement, Exclusive
<1>9. Placed'
  <2> SUFFICES ASSUME NEW q \in Procs
               PROVE  (In(q, queue) \/ In(q, readylist) \/ Held(q))
                      <=> ~(Running(q) /\ ctx'[q].at # "resched")
    BY <1>3, <1>5 DEF Placed
  <2> QED
    BY <1>1, <1>2 DEF Placement, Placed, Others
<1> QED
  BY <1>6, <1>7, <1>8, <1>9 DEF Placement

(* wait puts its process into the queue of the semaphore.                  *)
LEMMA EnqueuePlaces ==
  ASSUME TypeOK, Placement, NEW p \in Procs, Enqueue(p), ctx[p].sem \in Sems
  PROVE  Placement'
<1>1. /\ ctx \in [Procs -> Contexts] /\ Family(queue, Sems)
      /\ Running(p) /\ ctx[p].at = "enqueue"
      /\ queue' = [queue EXCEPT ![ctx[p].sem] = Append(@, p)]
      /\ UNCHANGED <<state, currpid, readylist, torn>>
  BY DEF TypeOK, Enqueue, At, sched, Family
<1>2. Others(p) /\ ctx'[p].at = "resched"
  BY <1>1, GotoMoves DEF Enqueue
<1>3. \A q : Running(q)' <=> Running(q)
  BY <1>1 DEF Running
<1>4. \A q, r \in Procs : Holds(q, r)' <=> Holds(q, r)
  BY <1>1, <1>2 DEF Holds, Others
<1>0. ~In(p, queue) /\ ~In(p, readylist) /\ ~Held(p)
  BY <1>1 DEF Placement, Placed
<1>5. /\ \A q : In(q, queue') <=> In(q, queue) \/ q = p
      /\ Apart(queue')
  <2>1. Apart(queue)
    BY DEF Placement, Exclusive
  <2> DEFINE s == ctx[p].sem
  <2>2. queue' = [queue EXCEPT ![s] = Append(@, p)] /\ s \in Sems
    BY <1>1
  <2> HIDE DEF s
  <2>3. \A q : In(q, [queue EXCEPT ![s] = Append(@, p)]) <=> In(q, queue) \/ q = p
    BY <2>2, <1>1, AppendIn
  <2>4. Apart([queue EXCEPT ![s] = Append(@, p)])
    BY <2>1, <2>2, <1>0, <1>1, AppendApart
  <2> QED
    BY <2>2, <2>3, <2>4
<1>6. \A q \in Procs :
        /\ In(q, readylist)' <=> In(q, readylist)
        /\ Held(q)' <=> Held(q)
  BY <1>1, <1>4 DEF Held
<1>7. SchedOK(States)'
  BY <1>1 DEF Placement, SchedOK, SchedTypeOK, Apart, AtHome, OwnRuns
<1>8. Called'
  <2> SUFFICES ASSUME NEW q \in Procs
               PROVE  /\ ~Running(q) => ctx'[q].at \in {"user", "asleep"}
                      /\ Running(q) /\ ctx'[q].at \notin {"enqueue", "resched"} => state'[q] = "PRCURR"
                      /\ ctx'[q].at \in {"enqueue", "resched"} => state'[q] # "PRCURR"
                      /\ ctx'[q].at = "enlist" => ctx'[q].pid \in Procs
    BY <1>3 DEF Called
  <2> QED
    BY <1>1, <1>2 DEF Placement, Called, Others
<1>9. Exclusive'
  BY <1>0, <1>4, <1>5, <1>6 DEF Placement, Exclusive
<1>10. Placed'
  <2> SUFFICES ASSUME NEW q \in Procs
               PROVE  (In(q, queue') \/ In(q, readylist) \/ Held(q))
                      <=> ~(Running(q) /\ ctx'[q].at # "resched")
    BY <1>3, <1>6 DEF Placed
  <2> QED
    BY <1>1, <1>2, <1>5 DEF Placement, Placed, Others
<1> QED
  BY <1>7, <1>8, <1>9, <1>10 DEF Placement

(* The head of a queue goes into the hands of the call that dequeued it.   *)
LEMMA DequeuePlaces ==
  ASSUME TypeOK, Placement, NEW p \in Procs, Dequeue(p), ctx[p].sem \in Sems
  PROVE  Placement'
<1> DEFINE s == ctx[p].sem
           h == Head(queue[s])
<1>1. /\ ctx \in [Procs -> Contexts] /\ Family(queue, Sems) /\ Apart(queue)
      /\ Running(p) /\ ctx[p].at = "dequeue"
      /\ UNCHANGED <<state, currpid, readylist, torn>>
  BY DEF TypeOK, Dequeue, At, sched, Family, Placement, Exclusive
<1>2. Others(p) /\ ctx'[p].at = "ready" /\ ctx'[p].pid = IF queue[s] = <<>> THEN EMPTY ELSE h
  BY <1>1 DEF Dequeue, Others, Contexts
<1>3. \A q : Running(q)' <=> Running(q)
  BY <1>1 DEF Running
<1>4. /\ \A q \in Procs : In(q, queue') <=> In(q, queue) /\ ~(queue[s] # <<>> /\ q = h)
      /\ Apart(queue')
      /\ queue[s] # <<>> => h \in Procs /\ In(h, queue)
  <2>1. CASE queue[s] = <<>>
    BY <2>1, <1>1 DEF Dequeue
  <2>2. CASE queue[s] # <<>>
    <3>1. queue' = [queue EXCEPT ![s] = Tail(@)]
      BY <2>2 DEF Dequeue
    <3> HIDE DEF s
    <3> QED
      BY <3>1, <2>2, <1>1, TailIn DEF s
  <2> QED
    BY <2>1, <2>2
<1> HIDE DEF s, h
<1>5. \A q, r \in Procs : Holds(q, r)' <=> Holds(q, r) \/ (q = p /\ queue[s] # <<>> /\ r = h)
  BY <1>1, <1>2, ReadyListsAssumption DEF Holds, Others
<1>6. \A r \in Procs : /\ In(r, readylist)' <=> In(r, readylist)
                       /\ Held(r)' <=> Held(r) \/ (queue[s] # <<>> /\ r = h)
  BY <1>1, <1>5 DEF Held
<1>7. SchedOK(States)'
  BY <1>1 DEF Placement, SchedOK, SchedTypeOK, Apart, AtHome, OwnRuns
<1>8. Called'
  <2> SUFFICES ASSUME NEW q \in Procs
               PROVE  /\ ~Running(q) => ctx'[q].at \in {"user", "asleep"}
                      /\ Running(q) /\ ctx'[q].at \notin {"enqueue", "resched"} => state'[q] = "PRCURR"
                      /\ ctx'[q].at \in {"enqueue", "resched"} => state'[q] # "PRCURR"
                      /\ ctx'[q].at = "enlist" => ctx'[q].pid \in Procs
    BY <1>3 DEF Called
  <2> QED
    BY <1>1, <1>2 DEF Placement, Called, Others
<1>9. Exclusive'
  <2>1. ASSUME NEW r \in Procs, NEW q1 \in Procs, NEW q2 \in Procs, Holds(q1, r)', Holds(q2, r)'
        PROVE  q1 = q2
    <3>1. CASE queue[s] # <<>> /\ r = h
      <4>1. ~Held(r)
        BY <3>1, <1>4 DEF Placement, Exclusive
      <4> QED
        BY <4>1, <2>1, <1>5 DEF Held
    <3>2. CASE ~(queue[s] # <<>> /\ r = h)
      BY <3>2, <2>1, <1>5 DEF Placement, Exclusive
    <3> QED
      BY <3>1, <3>2
  <2>2. \A r \in Procs : /\ ~(In(r, queue') /\ In(r, readylist'))
                         /\ Held(r)' => ~In(r, queue') /\ ~In(r, readylist')
    BY <1>4, <1>6 DEF Placement, Exclusive
  <2> QED
    BY <2>1, <2>2, <1>4 DEF Exclusive
<1>10. Placed'
  <2> SUFFICES ASSUME NEW q \in Procs
               PROVE  (In(q, queue') \/ In(q, readylist') \/ Held(q)')
                      <=> ~(Running(q) /\ ctx'[q].at # "resched")
    BY <1>3 DEF Placed
  <2> QED
    BY <1>1, <1>2, <1>4, <1>6 DEF Placement, Placed, Others
<1> QED
  BY <1>7, <1>8, <1>9, <1>10 DEF Placement

(* Where a turn of a loop leaves the call.                                 *)
LEMMA TurnedAt ==
  ASSUME ctx \in [Procs -> Contexts], NEW p \in Procs, Turned(p)
  PROVE  Others(p) /\ ctx'[p].at \in {"user", "count", "nonempty"}
<1>1. Return(p) => ctx'[p].at = "user"
  BY ReturnMoves
<1>2. Goto(p, "nonempty") => ctx'[p].at = "nonempty"
  BY GotoMoves
<1>3. Again(p, "count") => ctx'[p].at = "count"
  BY DEF Again
<1> QED
  BY <1>1, <1>2, <1>3, TurnedMoves

(* A call marks the process in its hands, or has none and goes on.         *)
LEMMA ReadyPlaces ==
  ASSUME TypeOK, Placement, NEW p \in Procs, Ready(p)
  PROVE  Placement'
<1> DEFINE h == ctx[p].pid
<1>1. /\ ctx \in [Procs -> Contexts] /\ h \in Procs \cup {EMPTY}
      /\ Running(p) /\ ctx[p].at = "ready" /\ Holds(p, h)
      /\ UNCHANGED queue
      /\ SchedOK(States) /\ state \in [Procs -> States]
  BY ContextFields DEF TypeOK, Ready, At, Placement, semtab, SchedTypeOK, States, Holds
<1>2. /\ Others(p) /\ ctx'[p].at \in {"user", "count", "nonempty", "enlist"}
      /\ h \in Procs <=> ctx'[p].at = "enlist"
      /\ h \in Procs => ctx'[p].pid = h
  <2>1. CASE h = EMPTY
    <3>1. Turned(p) /\ h \notin Procs
      BY <2>1, ReadyListsAssumption DEF Ready
    <3> QED
      BY <1>1, <3>1, TurnedAt
  <2>2. CASE h # EMPTY
    <3>1. Goto(p, "enlist") /\ h \in Procs
      BY <2>2, <1>1 DEF Ready
    <3> QED
      BY <1>1, <3>1, GotoMoves
  <2> QED
    BY <2>1, <2>2
<1>3. /\ currpid' = currpid /\ readylist' = readylist
      /\ \A q \in Procs : state'[q] = IF q = h THEN "PRREADY" ELSE state[q]
      /\ SchedOK(States)'
  <2>1. CASE h = EMPTY
    <3>1. UNCHANGED <<state, currpid, readylist, torn>> /\ h \notin Procs
      BY <2>1, ReadyListsAssumption DEF Ready, sched
    <3> QED
      BY <3>1, <1>1 DEF SchedOK, SchedTypeOK, Apart, AtHome, OwnRuns
  <2>2. CASE h \in Procs
    <3>1. MarkReady(h) /\ "PRREADY" \in States
      BY <2>2, ReadyListsAssumption DEF Ready, States
    <3> HIDE DEF h
    <3> QED
      BY <3>1, <2>2, <1>1, MarkMoves
  <2> QED
    BY <2>1, <2>2, <1>1
<1>4. h \in Procs => Held(h) /\ ~(Running(h) /\ ctx[h].at # "resched")
  BY <1>1 DEF Held, Placement, Placed
<1> HIDE DEF h
<1>5. \A q : Running(q)' <=> Running(q)
  BY <1>3 DEF Running
<1>6. \A q, r \in Procs : Holds(q, r)' <=> Holds(q, r)
  <2>1. \A q, r \in Procs : q # p => (Holds(q, r)' <=> Holds(q, r))
    BY <1>2 DEF Holds, Others
  <2>2. \A r \in Procs : Holds(p, r)' <=> Holds(p, r)
    BY <1>1, <1>2 DEF Holds, h
  <2> QED
    BY <2>1, <2>2
<1>7. \A q \in Procs :
        /\ In(q, queue)' <=> In(q, queue)
        /\ In(q, readylist)' <=> In(q, readylist)
        /\ Held(q)' <=> Held(q)
  BY <1>1, <1>3, <1>6 DEF Held
<1>8. Called'
  <2> SUFFICES ASSUME NEW q \in Procs
               PROVE  /\ ~Running(q) => ctx'[q].at \in {"user", "asleep"}
                      /\ Running(q) /\ ctx'[q].at \notin {"enqueue", "resched"} => state'[q] = "PRCURR"
                      /\ ctx'[q].at \in {"enqueue", "resched"} => state'[q] # "PRCURR"
                      /\ ctx'[q].at = "enlist" => ctx'[q].pid \in Procs
    BY <1>5 DEF Called
  <2>1. CASE q = p
    BY <2>1, <1>1, <1>2, <1>3, <1>4 DEF Placement, Called
  <2>2. CASE q # p
    <3>1. ctx'[q] = ctx[q]
      BY <2>2, <1>2 DEF Others
    <3>2. CASE q = h
      BY <3>1, <3>2, <1>3, <1>4 DEF Placement, Called
    <3>3. CASE q # h
      BY <3>1, <3>3, <1>3 DEF Placement, Called
    <3> QED
      BY <3>2, <3>3
  <2> QED
    BY <2>1, <2>2
<1>9. Exclusive'
  <2>1. Apart(queue)'
    BY <1>1 DEF Placement, Exclusive
  <2> QED
    BY <2>1, <1>6, <1>7 DEF Placement, Exclusive
<1>10. Placed'
  <2> SUFFICES ASSUME NEW q \in Procs
               PROVE  (In(q, queue) \/ In(q, readylist) \/ Held(q))
                      <=> ~(Running(q) /\ ctx'[q].at # "resched")
    BY <1>5, <1>7 DEF Placed
  <2> QED
    BY <1>1, <1>2 DEF Placement, Placed, Others
<1> QED
  BY <1>3, <1>8, <1>9, <1>10 DEF Placement

(* A process in the hands of a call goes to a ready list.                  *)
LEMMA EnlistPlaces ==
  ASSUME TypeOK, Placement, NEW p \in Procs, Enlist(p)
  PROVE  Placement'
<1> DEFINE h == ctx[p].pid
<1>1. /\ ctx \in [Procs -> Contexts] /\ h \in Procs
      /\ Running(p) /\ ctx[p].at = "enlist" /\ Holds(p, h)
      /\ UNCHANGED queue
      /\ Turned(p)
      /\ SchedOK(States)
  BY DEF TypeOK, Enlist, At, Placement, Called, semtab, Holds
<1>2. Others(p) /\ ctx'[p].at \in {"user", "count", "nonempty"}
  BY <1>1, TurnedAt
<1>3. Held(h)
  BY <1>1 DEF Held
<1>4. /\ currpid' = currpid /\ state' = state
      /\ \A q \in Procs : In(q, readylist') <=> In(q, readylist) \/ q = h
      /\ SchedOK(States)'
  <2>1. ListReady(h) /\ ~In(h, readylist)
    BY <1>1, <1>3 DEF Enlist, Placement, Exclusive
  <2> HIDE DEF h
  <2> QED
    BY <2>1, <1>1, ListMoves
<1> HIDE DEF h
<1>5. \A q : Running(q)' <=> Running(q)
  BY <1>4 DEF Running
<1>6. \A q, r \in Procs : Holds(q, r)' <=> Holds(q, r) /\ q # p
  BY <1>1, <1>2 DEF Holds, Others
<1>7. \A r \in Procs : Held(r)' <=> Held(r) /\ r # h
  <2>1. \A q, r \in Procs : Holds(q, r) => (q = p <=> r = h)
    <3>1. \A r \in Procs : Holds(p, r) <=> r = h
      BY <1>1 DEF Holds, h
    <3> QED
      BY <3>1 DEF Placement, Exclusive
  <2> QED
    BY <2>1, <1>6 DEF Held
<1>8. Called'
  <2> SUFFICES ASSUME NEW q \in Procs
               PROVE  /\ ~Running(q) => ctx'[q].at \in {"user", "asleep"}
                      /\ Running(q) /\ ctx'[q].at \notin {"enqueue", "resched"} => state'[q] = "PRCURR"
                      /\ ctx'[q].at \in {"enqueue", "resched"} => state'[q] # "PRCURR"
                      /\ ctx'[q].at = "enlist" => ctx'[q].pid \in Procs
    BY <1>5 DEF Called
  <2> QED
    BY <1>1, <1>2, <1>4 DEF Placement, Called, Others
<1>9. Exclusive'
  <2>1. Apart(queue)'
    BY <1>1 DEF Placement, Exclusive
  <2>2. \A r \in Procs : /\ ~(In(r, queue') /\ In(r, readylist'))
                         /\ Held(r)' => ~In(r, queue') /\ ~In(r, readylist')
    BY <1>1, <1>3, <1>4, <1>7 DEF Placement, Exclusive
  <2> QED
    BY <2>1, <2>2, <1>6 DEF Placement, Exclusive
<1>10. Placed'
  <2> SUFFICES ASSUME NEW q \in Procs
               PROVE  (In(q, queue') \/ In(q, readylist') \/ Held(q)')
                      <=> ~(Running(q) /\ ctx'[q].at # "resched")
    BY <1>5 DEF Placed
  <2> QED
    BY <1>1, <1>2, <1>3, <1>4, <1>7 DEF Placement, Placed, Others
<1> QED
  BY <1>4, <1>8, <1>9, <1>10 DEF Placement

(* A core gives itself up: a process that waits, or a tick.                *)
LEMMA ReschedPlaces ==
  ASSUME TypeOK, Placement, NEW c \in Cores, Resched(c), UNCHANGED queue,
         \/ UNCHANGED ctx /\ (currpid[c] # NullProc => ctx[currpid[c]].at = "user")
         \/ /\ currpid[c] \in Procs /\ ctx[currpid[c]].at = "resched"
            /\ Goto(currpid[c], "asleep")
  PROVE  Placement' /\ SchedTypeOK(States)'
<1> DEFINE old == currpid[c]
           new == currpid'[c]
           waits == old # NullProc /\ ctx[old].at = "resched"
<1>1. /\ ctx \in [Procs -> Contexts] /\ state \in [Procs -> States]
      /\ Family(readylist, Cores) /\ Apart(readylist) /\ AtHome(readylist) /\ OwnRuns
      /\ currpid \in [Cores -> Procs \cup {NullProc}]
      /\ SchedOK(States)
      /\ Affinity \in [Procs -> Cores] /\ NullProc \notin Procs
  BY ReadyListsAssumption DEF TypeOK, SchedTypeOK, Placement, SchedOK, Family, States, Resched
<1>2. /\ old \in Procs \cup {NullProc}
      /\ old # NullProc => Affinity[old] = c /\ Running(old)
      /\ \A q \in Procs : Affinity[q] = c => (Running(q) <=> q = old)
  BY <1>1 DEF OwnRuns, Running
<1>3. /\ old # NullProc /\ ~waits => ctx[old].at = "user" /\ state[old] = "PRCURR"
      /\ waits => state[old] # "PRCURR"
      /\ \A q \in Procs : q # old => ctx'[q] = ctx[q]
      /\ waits => ctx'[old].at = "asleep"
      /\ old # NullProc /\ ~waits => ctx'[old] = ctx[old]
      /\ \A q, r \in Procs : Holds(q, r)' <=> Holds(q, r)
  <2>1. CASE UNCHANGED ctx /\ (old # NullProc => ctx[old].at = "user")
    BY <2>1, <1>2 DEF Placement, Called, Holds
  <2>2. CASE old \in Procs /\ ctx[old].at = "resched" /\ Goto(old, "asleep")
    <3>1. Others(old) /\ ctx'[old].at = "asleep"
      BY <2>2, <1>1, GotoMoves
    <3> QED
      BY <2>2, <3>1, <1>1, <1>2 DEF Placement, Called, Holds, Others
  <2> QED
    BY <2>1, <2>2
<1>4. Goes(c) <=> old # NullProc /\ ~waits
  BY <1>3 DEF Goes
<1>5. Goes(c) => ~In(old, readylist)
  BY <1>2, <1>3, <1>4 DEF Placement, Placed
<1>6. /\ SchedOK(States)'
      /\ new \in Procs \cup {NullProc}
      /\ new # NullProc => Affinity[new] = c
      /\ \A q \in Procs : Running(q)' <=> IF Affinity[q] = c THEN q = new ELSE Running(q)
      /\ \A q \in Procs : In(q, readylist') <=>
           (In(q, readylist) \/ (Goes(c) /\ q = old)) /\ q # new
      /\ new = NullProc \/ In(new, readylist) \/ (Goes(c) /\ new = old)
      /\ \A q \in Procs : state'[q] = IF q = new THEN "PRCURR"
              ELSE IF Goes(c) /\ q = old THEN "PRREADY" ELSE state[q]
  <2>1. "PRCURR" \in States /\ "PRREADY" \in States
    BY DEF States
  <2> QED
    BY <2>1, <1>1, <1>5, ReschedMoves
<1>11. \A q \in Procs : q # NullProc /\ (Affinity[q] # c => q # old /\ q # new)
  BY <1>1, <1>2, <1>6
<1> HIDE DEF old, new, waits
<1>7. \A r \in Procs : Held(r)' <=> Held(r)
  BY <1>3 DEF Held
<1>8. Called'
  <2> SUFFICES ASSUME NEW q \in Procs
               PROVE  /\ ~Running(q)' => ctx'[q].at \in {"user", "asleep"}
                      /\ Running(q)' /\ ctx'[q].at \notin {"enqueue", "resched"} => state'[q] = "PRCURR"
                      /\ ctx'[q].at \in {"enqueue", "resched"} => state'[q] # "PRCURR"
                      /\ ctx'[q].at = "enlist" => ctx'[q].pid \in Procs
    BY DEF Called
  <2>1. CASE Affinity[q] # c
    BY <2>1, <1>3, <1>6, <1>11 DEF Placement, Called
  <2>2. CASE Affinity[q] = c
    <3>1. ctx'[q].at \in {"user", "asleep"}
      BY <2>2, <1>2, <1>3, <1>11 DEF Placement, Called
    <3> QED
      BY <2>2, <3>1, <1>6
  <2> QED
    BY <2>1, <2>2
<1>9. Exclusive'
  <2>1. Apart(queue)'
    BY DEF Placement, Exclusive
  <2>2. Goes(c) => ~In(old, queue) /\ ~Held(old)
    BY <1>2, <1>3, <1>4 DEF Placement, Placed
  <2>3. \A r \in Procs : /\ ~(In(r, queue') /\ In(r, readylist'))
                         /\ Held(r)' => ~In(r, queue') /\ ~In(r, readylist')
    BY <2>2, <1>6, <1>7 DEF Placement, Exclusive
  <2> QED
    BY <2>1, <2>3, <1>3 DEF Placement, Exclusive
<1>10. Placed'
  <2> SUFFICES ASSUME NEW q \in Procs
               PROVE  (In(q, queue) \/ In(q, readylist') \/ Held(q))
                      <=> ~(Running(q)' /\ ctx'[q].at # "resched")
    BY <1>7 DEF Placed
  <2>1. CASE Affinity[q] # c
    BY <2>1, <1>3, <1>6, <1>11 DEF Placement, Placed
  <2>2. CASE q = new
    <3>1. In(q, readylist) \/ (Goes(c) /\ q = old)
      BY <2>2, <1>6, <1>1
    <3>2. ~In(q, queue) /\ ~Held(q)
      BY <3>1, <1>2, <1>3, <1>4 DEF Placement, Exclusive, Placed
    <3>3. ctx'[q].at # "resched"
      BY <2>2, <1>1, <1>2, <1>3, <1>6 DEF Placement, Called
    <3> QED
      BY <2>2, <3>2, <3>3, <1>1, <1>6
  <2>3. CASE Affinity[q] = c /\ q # new /\ q # old
    BY <2>3, <1>2, <1>6 DEF Placement, Placed
  <2>4. CASE q = old /\ q # new
    <3>1. ~Running(q)'
      BY <2>4, <1>1, <1>2, <1>6
    <3>2. In(q, queue) \/ In(q, readylist) \/ Held(q) \/ Goes(c)
      BY <2>4, <1>1, <1>2, <1>4 DEF Placement, Placed, waits
    <3> QED
      BY <2>4, <3>1, <3>2, <1>6
  <2> QED
    BY <2>1, <2>2, <2>3, <2>4
<1> QED
  BY <1>6, <1>8, <1>9, <1>10 DEF Placement, SchedOK

(* The indices of semtab.                                                  *)
LEMMA SemFacts ==
  /\ NSEM \in Nat /\ NSEM > 0 /\ Counts \subseteq Nat /\ Batches \subseteq Nat
  /\ MaxCalls \in Nat /\ SYSERR \notin Sems /\ 0 \in Sems
  /\ \A s \in Sems : (s + 1) % NSEM \in Sems
  /\ SYSERR = -1
<1>1. NSEM \in Nat /\ NSEM > 0 /\ Counts \subseteq Nat /\ Batches \subseteq Nat /\ MaxCalls \in Nat
  BY SemaphoreAssumption
<1>2. Sems = 0 .. NSEM - 1
  BY DEF Sems
<1> QED
  BY <1>1, <1>2 DEF SYSERR

(* What the kernel steps of Placement need.                                *)
LEMMA CallSem ==
  ASSUME TypeOK, OnKnown, NEW p \in Procs, ctx[p].at \notin Outside
  PROVE  ctx[p].sem \in known /\ ctx[p].sem \in Sems
BY DEF TypeOK, OnKnown

(* Every step keeps the places.                                            *)
LEMMA PlacementStep ==
  ASSUME TypeOK, OnKnown, Placement, [Next]_vars
  PROVE  Placement'
<1>1. ASSUME NEW p \in Procs, Calling(p) PROVE Placement'
  BY <1>1, LocalMoves, LocalStep
<1>2. ASSUME NEW p \in Procs,
             \/ CountDown(p) \/ CountUp(p) \/ Awake(p) \/ Nonempty(p) \/ Zero(p) \/ Free(p)
             \/ SemallocNext(p) \/ SemallocLook(p) \/ SemallocMark(p) \/ SemcreateFill(p)
      PROVE  Placement'
  BY <1>2, LocalMoves, LocalStep
<1>3. ASSUME NEW p \in Procs, Suspend(p) PROVE Placement'
  BY <1>3, SuspendPlaces
<1>4. ASSUME NEW p \in Procs, Enqueue(p) PROVE Placement'
  <2>1. ctx[p].sem \in Sems
    BY <1>4, CallSem DEF Enqueue, At, Outside
  <2> QED
    BY <1>4, <2>1, EnqueuePlaces
<1>5. ASSUME NEW p \in Procs, Dequeue(p) PROVE Placement'
  <2>1. ctx[p].sem \in Sems
    BY <1>5, CallSem DEF Dequeue, At, Outside
  <2> QED
    BY <1>5, <2>1, DequeuePlaces
<1>6. ASSUME NEW p \in Procs, Ready(p) \/ Enlist(p) PROVE Placement'
  BY <1>6, ReadyPlaces, EnlistPlaces
<1>7. ASSUME NEW p \in Procs, WaitResched(p) PROVE Placement'
  <2>1. /\ Affinity[p] \in Cores /\ currpid[Affinity[p]] = p /\ ctx[p].at = "resched"
        /\ Resched(Affinity[p]) /\ Goto(p, "asleep") /\ UNCHANGED queue
    BY <1>7, ReadyListsAssumption DEF WaitResched, At, Running, semtab
  <2> QED
    BY <2>1, ReschedPlaces
<1>8. ASSUME NEW c \in Cores, Preempt(c) PROVE Placement'
  <2>1. /\ Resched(c) /\ UNCHANGED <<queue, ctx>>
        /\ currpid[c] # NullProc => ctx[currpid[c]].at = "user"
    BY <1>8 DEF Preempt, semtab
  <2> QED
    BY <2>1, ReschedPlaces
<1>9. ASSUME \/ UNCHANGED vars \/ Stopped
             \/ \E p \in Procs : Meet(p)
      PROVE  Placement'
  <2>1. UNCHANGED <<queue, ctx, state, currpid, readylist>> /\ (torn' = torn \/ torn' = TRUE)
    BY <1>9 DEF vars, semtab, sched, Stopped, Meet, Meets
  <2>2. SchedOK(States)'
    <3>1. torn' \in BOOLEAN
      BY <2>1 DEF TypeOK, SchedTypeOK
    <3> QED
      BY <2>1, <3>1 DEF Placement, SchedOK, SchedTypeOK, Apart, AtHome, OwnRuns
  <2> QED
    BY <2>1, <2>2 DEF Placement, Called, Exclusive, Placed, Held, Holds, In, Running, Apart
<1> QED
  BY <1>1, <1>2, <1>3, <1>4, <1>5, <1>6, <1>7, <1>8, <1>9 DEF Next, Kernel

-----------------------------------------------------------------------------
(* Types *)

(* The call of p stays on its semaphore, or leaves it.                     *)
Keeps(p) ==
  /\ Others(p) /\ ctx' \in [Procs -> Contexts] /\ known \subseteq known'
  /\ \/ ctx'[p].at \in Outside
     \/ ctx'[p].sem \in known
     \/ ctx[p].at \notin Outside /\ ctx'[p].sem = ctx[p].sem

(* A call that keeps its semaphore keeps it known.                         *)
LEMMA KeepsKnown ==
  ASSUME OnKnown, NEW p \in Procs, Keeps(p)
  PROVE  OnKnown'
<1> SUFFICES ASSUME NEW q \in Procs, ctx'[q].at \notin Outside
             PROVE  ctx'[q].sem \in known'
  BY DEF OnKnown
<1>1. CASE q = p
  BY <1>1 DEF Keeps, OnKnown
<1>2. CASE q # p
  BY <1>2 DEF Keeps, OnKnown, Others
<1> QED
  BY <1>1, <1>2

(* Goto keeps the semaphore of the call.                                   *)
LEMMA KeepsGoto ==
  ASSUME ctx \in [Procs -> Contexts], NEW p \in Procs, NEW next \in Steps, Goto(p, next),
         next \in Outside \/ ctx[p].at \notin Outside, known \subseteq known'
  PROVE  Keeps(p)
<1>1. Others(p) /\ ctx' \in [Procs -> Contexts] /\ ctx'[p].at = next /\ ctx'[p].sem = ctx[p].sem
  BY GotoMoves
<1> QED
  BY <1>1 DEF Keeps

(* Return leaves it.                                                       *)
LEMMA KeepsReturn ==
  ASSUME ctx \in [Procs -> Contexts], NEW p \in Procs, Return(p), known \subseteq known'
  PROVE  Keeps(p)
<1>1. Others(p) /\ ctx' \in [Procs -> Contexts] /\ ctx'[p].at = "user"
  BY ReturnMoves
<1> QED
  BY <1>1 DEF Keeps, Outside

(* A turn of a loop keeps or leaves it.                                    *)
LEMMA KeepsTurned ==
  ASSUME ctx \in [Procs -> Contexts], NEW p \in Procs, Turned(p),
         ctx[p].at \notin Outside, known \subseteq known'
  PROVE  Keeps(p)
<1>1. CASE Goto(p, "nonempty")
  <2>1. "nonempty" \in Steps
    BY DEF Steps
  <2> QED
    BY <1>1, <2>1, KeepsGoto
<1>2. CASE Again(p, "count")
  BY <1>2, TurnedMoves DEF Keeps, Again
<1> QED
  BY <1>1, <1>2, KeepsReturn, TurnedMoves

(* Every step of a call keeps or leaves its semaphore.                     *)
LEMMA KeepsMoves ==
  ASSUME TypeOK, OnKnown, NEW p \in Procs, Kernel(p)
  PROVE  Keeps(p)
<1>0. ctx \in [Procs -> Contexts]
  BY DEF TypeOK
<1> USE <1>0 DEF At, Outside, Steps
<1>1. CASE CountDown(p)
  <2>1. /\ ctx[p].at = "count" /\ known \subseteq known'
        /\ Goto(p, "suspend") \/ Return(p)
    BY <1>1 DEF CountDown
  <2> QED
    BY <2>1, KeepsGoto, KeepsReturn
<1>2. CASE Suspend(p)
  <2>1. /\ ctx[p].at = "suspend" /\ known \subseteq known'
        /\ Goto(p, "enqueue")
    BY <1>2 DEF Suspend
  <2> QED
    BY <2>1, KeepsGoto
<1>3. CASE Enqueue(p)
  <2>1. /\ ctx[p].at = "enqueue" /\ known \subseteq known'
        /\ Goto(p, "resched")
    BY <1>3 DEF Enqueue
  <2> QED
    BY <2>1, KeepsGoto
<1>4. CASE WaitResched(p)
  <2>1. /\ ctx[p].at = "resched" /\ known \subseteq known'
        /\ Goto(p, "asleep")
    BY <1>4 DEF WaitResched
  <2> QED
    BY <2>1, KeepsGoto
<1>5. CASE Awake(p)
  <2>1. /\ ctx[p].at = "asleep" /\ known \subseteq known'
        /\ Return(p)
    BY <1>5 DEF Awake
  <2> QED
    BY <2>1, KeepsReturn
<1>6. CASE CountUp(p)
  <2>1. /\ ctx[p].at = "count" /\ known \subseteq known'
        /\ Goto(p, "dequeue") \/ Turned(p)
    BY <1>6 DEF CountUp
  <2> QED
    BY <2>1, KeepsGoto, KeepsTurned
<1>7. CASE Dequeue(p)
  <2>1. /\ ctx[p].at = "dequeue" /\ known \subseteq known'
        /\ \E x \in Procs \cup {EMPTY} : ctx' = [ctx EXCEPT ![p].at = "ready", ![p].pid = x]
    <3>1. queue[ctx[p].sem] # <<>> => Head(queue[ctx[p].sem]) \in Procs
      <4>1. ctx[p].sem \in Sems /\ queue \in [Sems -> Seq(Procs)]
        BY <1>7, CallSem DEF TypeOK, Dequeue
      <4> QED
        BY <4>1
    <3> QED
      BY <1>7, <3>1 DEF Dequeue
  <2>2. Others(p) /\ ctx' \in [Procs -> Contexts] /\ ctx'[p].sem = ctx[p].sem
    <3>1. PICK x \in Procs \cup {EMPTY} : ctx' = [ctx EXCEPT ![p].at = "ready", ![p].pid = x]
      BY <2>1
    <3> QED
      BY <3>1, DequeuedMoves
  <2> QED
    BY <2>1, <2>2 DEF Keeps
<1>8. CASE Ready(p) \/ Enlist(p)
  <2>1. /\ ctx[p].at \in {"ready", "enlist"} /\ known \subseteq known'
        /\ Goto(p, "enlist") \/ Turned(p)
    BY <1>8 DEF Ready, Enlist
  <2> QED
    BY <2>1, KeepsGoto, KeepsTurned
<1>9. CASE Nonempty(p)
  <2>1. /\ ctx[p].at = "nonempty" /\ known \subseteq known'
        /\ Goto(p, "dequeue") \/ Goto(p, "zero")
    BY <1>9 DEF Nonempty
  <2> QED
    BY <2>1, KeepsGoto
<1>10. CASE Zero(p)
  <2>1. /\ ctx[p].at = "zero" /\ known \subseteq known'
        /\ Goto(p, "free")
    BY <1>10 DEF Zero
  <2> QED
    BY <2>1, KeepsGoto
<1>11. CASE Free(p)
  <2>1. /\ ctx[p].at = "free" /\ known \subseteq known'
        /\ Return(p)
    BY <1>11 DEF Free
  <2> QED
    BY <2>1, KeepsReturn
<1>12. CASE SemallocNext(p)
  <2>1. CASE Return(p)
    BY <1>12, <2>1, KeepsReturn DEF SemallocNext
  <2>2. CASE ~Return(p)
    <3>1. ctx[p].left # 0 /\ known \subseteq known' /\ ctx[p].at = "next"
          /\ ctx' = [ctx EXCEPT ![p].left = @ - 1, ![p].at = "look"]
      BY <1>12, <2>2 DEF SemallocNext
    <3>2. Again(p, "look") /\ ctx' \in [Procs -> Contexts]
      BY <3>1, AgainMoves
    <3> QED
      BY <3>1, <3>2 DEF Keeps, Again
  <2> QED
    BY <2>1, <2>2
<1>13. CASE SemallocLook(p)
  <2>1. /\ ctx[p].at = "look" /\ known \subseteq known'
        /\ Goto(p, "mark") \/ Goto(p, "next")
    BY <1>13 DEF SemallocLook
  <2> QED
    BY <2>1, KeepsGoto
<1>14. CASE SemallocMark(p)
  <2>1. /\ ctx[p].at = "mark" /\ known \subseteq known'
        /\ Goto(p, "fill")
    BY <1>14 DEF SemallocMark
  <2> QED
    BY <2>1, KeepsGoto
<1>15. CASE SemcreateFill(p)
  <2>1. /\ ctx[p].at = "fill" /\ known \subseteq known'
        /\ Return(p)
    BY <1>15 DEF SemcreateFill
  <2> QED
    BY <2>1, KeepsReturn
<1> QED
  BY <1>1, <1>2, <1>3, <1>4, <1>5, <1>6, <1>7, <1>8, <1>9, <1>10, <1>11, <1>12, <1>13, <1>14, <1>15
     DEF Kernel

(* A call is made on a known semaphore.                                    *)
LEMMA CallingKeeps ==
  ASSUME TypeOK, OnKnown, NEW p \in Procs, Calling(p)
  PROVE  /\ Keeps(p)
         /\ calls' \in 0 .. MaxCalls
         /\ UNCHANGED <<semstate, count, queue, nextsem, known, guessed, sched>>
<1>0. ctx \in [Procs -> Contexts] /\ calls \in Nat
  BY SemFacts DEF TypeOK
<1>1. /\ calls < MaxCalls /\ calls' = calls + 1
      /\ UNCHANGED <<semstate, count, queue, nextsem, known, guessed, sched>>
  BY DEF Calling, Wait, Signal, Signaln, Semfree, Semcreate, OnSem, Calls, semtab
<1>2. \/ UNCHANGED ctx /\ ctx[p].at = "user"
      \/ \E op \in {"wait", "signal", "signaln", "semfree"}, s \in known,
            n \in Nat, left \in Nat, step \in {"count", "nonempty"} : Call(p, op, s, n, left, step)
      \/ \E n \in Nat, left \in Nat : Call(p, "semcreate", SYSERR, n, left, "next")
  <2>1. \A x \in Counts \cup Batches : x \in Nat
    BY SemFacts
  <2>2. ASSUME NEW op \in {"wait", "signal", "signaln", "semfree"}, NEW s \in known,
               NEW left \in Nat, NEW step \in {"count", "nonempty"}, OnSem(p, op, s, left, step)
        PROVE  (UNCHANGED ctx /\ ctx[p].at = "user") \/ Call(p, op, s, 0, left, step)
    BY <2>2 DEF OnSem, Calls, At
  <2>3. ASSUME NEW n \in Counts, Semcreate(p, n)
        PROVE  Call(p, "semcreate", SYSERR, n, NSEM, "next")
    BY <2>3 DEF Semcreate
  <2>4. ASSUME NEW s \in Sems, NEW n, NEW op, NEW step, OnSem(p, op, s, n, step)
        PROVE  s \in known
    BY <2>4 DEF OnSem
  <2> QED
    BY <2>1, <2>2, <2>3, <2>4, SemFacts DEF Calling, Wait, Signal, Signaln, Semfree
<1>3. Keeps(p)
  <2>1. CASE UNCHANGED ctx /\ ctx[p].at = "user"
    BY <2>1, <1>0, <1>1 DEF Keeps, Others, Outside
  <2>2. ASSUME NEW op \in {"wait", "signal", "signaln", "semfree"}, NEW s \in known,
               NEW n \in Nat, NEW left \in Nat, NEW step \in {"count", "nonempty"},
               Call(p, op, s, n, left, step)
        PROVE  Keeps(p)
    <3>1. s \in Sems \cup {SYSERR} /\ step \in Steps
      BY DEF TypeOK, Steps
    <3>2. Others(p) /\ ctx'[p].sem = s /\ ctx' \in [Procs -> Contexts]
      BY <3>1, <2>2, <1>0, CallMoves
    <3> QED
      BY <3>2, <1>1 DEF Keeps
  <2>3. ASSUME NEW n \in Nat, NEW left \in Nat, Call(p, "semcreate", SYSERR, n, left, "next")
        PROVE  Keeps(p)
    <3>1. "next" \in Steps
      BY DEF Steps
    <3>2. Others(p) /\ ctx'[p].at = "next" /\ ctx' \in [Procs -> Contexts]
      BY <3>1, <2>3, <1>0, CallMoves
    <3> QED
      BY <3>2, <1>1 DEF Keeps, Outside
  <2> QED
    BY <1>2, <2>1, <2>2, <2>3
<1> QED
  BY <1>0, <1>1, <1>3, SemFacts

(* The steps of calls keep semtab typed.                                   *)
LEMMA KernelTypes ==
  ASSUME TypeOK, OnKnown, NEW p \in Procs, Kernel(p)
  PROVE  /\ semstate' \in [Sems -> {"SFREE", "SUSED"}]
         /\ count' \in [Sems -> Int]
         /\ queue' \in [Sems -> Seq(Procs)]
         /\ nextsem' \in Sems
         /\ known' \subseteq Sems /\ guessed' \subseteq known'
         /\ calls' = calls
<1>0. /\ semstate \in [Sems -> {"SFREE", "SUSED"}]
      /\ count \in [Sems -> Int]
      /\ queue \in [Sems -> Seq(Procs)]
      /\ nextsem \in Sems
      /\ known \subseteq Sems /\ guessed \subseteq known
      /\ ctx[p].n \in Nat
  BY ContextFields DEF TypeOK
<1> DEFINE s == ctx[p].sem
<1>s. ctx[p].at \notin Outside => s \in Sems /\ s \in known
  BY CallSem
<1> HIDE DEF s
<1> USE DEF At
<1>1. CASE CountDown(p)
  <2>1. s \in Sems /\ count' = [count EXCEPT ![s] = @ - 1]
        /\ UNCHANGED <<semstate, queue, nextsem, known, guessed, calls>>
    BY <1>1, <1>s DEF CountDown, Outside, s
  <2> QED
    BY <2>1, <1>0
<1>2. CASE Suspend(p)
  BY <1>2, <1>0 DEF Suspend, semtab
<1>3. CASE Enqueue(p)
  <2>1. s \in Sems /\ queue' = [queue EXCEPT ![s] = Append(@, p)]
        /\ UNCHANGED <<semstate, count, nextsem, known, guessed, calls>>
    BY <1>3, <1>s DEF Enqueue, Outside, s
  <2> QED
    BY <2>1, <1>0
<1>4. CASE WaitResched(p)
  BY <1>4, <1>0 DEF WaitResched, semtab
<1>5. CASE Awake(p)
  BY <1>5, <1>0 DEF Awake, semtab
<1>6. CASE CountUp(p)
  <2>1. /\ s \in Sems /\ s \in known /\ count' = [count EXCEPT ![s] = @ + 1]
        /\ guessed' = guessed \cup {s} \/ guessed' = guessed
        /\ UNCHANGED <<semstate, queue, nextsem, known, calls>>
    BY <1>6, <1>s DEF CountUp, Outside, s
  <2> QED
    BY <2>1, <1>0
<1>7. CASE Dequeue(p)
  <2>1. /\ s \in Sems
        /\ UNCHANGED queue \/ (queue[s] # <<>> /\ queue' = [queue EXCEPT ![s] = Tail(@)])
        /\ UNCHANGED <<semstate, count, nextsem, known, guessed, calls>>
    BY <1>7, <1>s DEF Dequeue, Outside, s
  <2>2. queue[s] # <<>> => Tail(queue[s]) \in Seq(Procs)
    BY <2>1, <1>0
  <2> QED
    BY <2>1, <2>2, <1>0
<1>8. CASE Ready(p) \/ Enlist(p)
  BY <1>8, <1>0 DEF Ready, Enlist, semtab
<1>9. CASE Nonempty(p)
  BY <1>9, <1>0 DEF Nonempty, semtab
<1>10. CASE Zero(p)
  <2>1. s \in Sems /\ count' = [count EXCEPT ![s] = 0]
        /\ UNCHANGED <<semstate, queue, nextsem, known, guessed, calls>>
    BY <1>10, <1>s DEF Zero, Outside, s
  <2> QED
    BY <2>1, <1>0
<1>11. CASE Free(p)
  <2>1. s \in Sems /\ semstate' = [semstate EXCEPT ![s] = "SFREE"] /\ guessed' = guessed \ {s}
        /\ UNCHANGED <<count, queue, nextsem, known, calls>>
    BY <1>11, <1>s DEF Free, Outside, s
  <2> QED
    BY <2>1, <1>0
<1>12. CASE SemallocNext(p)
  <2>1. /\ nextsem' = nextsem \/ nextsem' = (nextsem + 1) % NSEM
        /\ UNCHANGED <<semstate, count, queue, known, guessed, calls>>
    BY <1>12 DEF SemallocNext, semtab
  <2> QED
    BY <2>1, <1>0, SemFacts
<1>13. CASE SemallocLook(p)
  BY <1>13, <1>0 DEF SemallocLook, semtab
<1>14. CASE SemallocMark(p)
  BY <1>14, <1>0 DEF SemallocMark
<1>15. CASE SemcreateFill(p)
  BY <1>15, <1>0 DEF SemcreateFill
<1> QED
  BY <1>1, <1>2, <1>3, <1>4, <1>5, <1>6, <1>7, <1>8, <1>9, <1>10, <1>11, <1>12, <1>13, <1>14, <1>15
     DEF Kernel

(* Every step keeps the types.                                             *)
LEMMA TypeStep ==
  ASSUME TypeOK, OnKnown, SchedTypeOK(States)', [Next]_vars
  PROVE  TypeOK' /\ OnKnown'
<1>1. ASSUME NEW p \in Procs, Calling(p) PROVE TypeOK' /\ OnKnown'
  <2>1. ctx' \in [Procs -> Contexts]
    BY <1>1, CallingKeeps DEF Keeps
  <2> QED
    BY <1>1, <2>1, CallingKeeps, KeepsKnown DEF TypeOK, States
<1>2. ASSUME NEW p \in Procs, Kernel(p) PROVE TypeOK' /\ OnKnown'
  <2>1. ctx' \in [Procs -> Contexts]
    BY <1>2, KeepsMoves DEF Keeps
  <2>2. OnKnown'
    BY <1>2, KeepsMoves, KeepsKnown
  <2>3. calls' \in 0 .. MaxCalls
    BY <1>2, KernelTypes DEF TypeOK
  <2> QED
    BY <1>2, <2>1, <2>2, <2>3, KernelTypes DEF TypeOK, States
<1>3. ASSUME NEW c \in Cores, Preempt(c) PROVE TypeOK' /\ OnKnown'
  BY <1>3 DEF Preempt, TypeOK, OnKnown, States, semtab
<1>4. ASSUME \/ UNCHANGED vars \/ Stopped
             \/ \E p \in Procs : Meet(p)
      PROVE  TypeOK' /\ OnKnown'
  BY <1>4 DEF vars, Stopped, Meet, TypeOK, OnKnown, semtab, States
<1> QED
  BY <1>1, <1>2, <1>3, <1>4 DEF Next

PlaceInv == TypeOK /\ OnKnown /\ Placement

(* The initial state.                                                      *)
LEMMA PlaceStart == Init => PlaceInv
<1> SUFFICES ASSUME Init PROVE PlaceInv
  OBVIOUS
<1>1. SchedOK(States) /\ \A q \in Procs : In(q, readylist) /\ ~Running(q)
  BY SchedStart DEF Init, States
<1>2. ctx = [p \in Procs |-> User] /\ User.at = "user" /\ User.pid = EMPTY /\ User \in Contexts
  BY DEF Init, User, Contexts, Steps
<1>3. TypeOK
  BY <1>1, <1>2, SemFacts DEF Init, TypeOK, SchedOK, States
<1>4. OnKnown
  BY <1>2 DEF OnKnown, Outside
<1>5. /\ \A q : ~In(q, queue)
      /\ Apart(queue)
  BY DEF Init, In, Apart
<1>6. \A q, r \in Procs : ~Holds(q, r)
  BY <1>2 DEF Holds
<1>7. Called /\ Exclusive /\ Placed
  BY <1>1, <1>2, <1>5, <1>6 DEF Called, Exclusive, Placed, Held
<1> QED
  BY <1>1, <1>3, <1>4, <1>7 DEF PlaceInv, Placement

(* Every step keeps types and places.                                      *)
LEMMA PlaceStep == PlaceInv /\ [Next]_vars => PlaceInv'
<1> SUFFICES ASSUME PlaceInv, [Next]_vars PROVE PlaceInv'
  OBVIOUS
<1>1. Placement'
  BY PlacementStep DEF PlaceInv
<1>2. SchedTypeOK(States)'
  BY <1>1 DEF Placement, SchedOK
<1> QED
  BY <1>1, <1>2, TypeStep DEF PlaceInv

(* Types and places hold in every behaviour of wait, signal, signaln,      *)
(* semcreate and semfree, for any number of cores, processes and           *)
(* semaphores.                                                             *)
THEOREM PlaceInvariance == Spec => []PlaceInv
BY PlaceStart, PlaceStep, PTL DEF Spec

(* No call takes an index out of semtab or a process id out of thrtab.     *)
THEOREM TypeCorrect == Spec => []TypeOK
<1>1. PlaceInv => TypeOK
  BY DEF PlaceInv
<1> QED
  BY <1>1, PlaceInvariance, PTL

(* The places as OnePlace counts them.                                     *)
LEMMA PlacesCount == PlaceInv => OnePlace
<1> SUFFICES ASSUME PlaceInv, NEW p \in Procs
             PROVE  Places(p) = IF Running(p) /\ ctx[p].at # "resched" THEN 0 ELSE 1
  BY DEF OnePlace
<1> DEFINE Hands == {q \in Procs : ctx[q].at \in {"ready", "enlist"} /\ ctx[q].pid = p}
<1>1. Cardinality(Spots(p, queue)) = IF In(p, queue) THEN 1 ELSE 0
  BY SpotsCount DEF PlaceInv, Placement, Exclusive
<1>2. Cardinality(Spots(p, readylist)) = IF In(p, readylist) THEN 1 ELSE 0
  BY SpotsCount DEF PlaceInv, Placement, SchedOK
<1>3. Cardinality(Hands) = IF Held(p) THEN 1 ELSE 0
  <2>1. CASE Held(p)
    <3>1. PICK q \in Procs : Holds(q, p)
      BY <2>1 DEF Held
    <3>2. Hands = {q}
      BY <3>1 DEF PlaceInv, Placement, Exclusive, Holds
    <3> QED
      BY <2>1, <3>2, FS_Singleton
  <2>2. CASE ~Held(p)
    <3>1. Hands = {}
      BY <2>2 DEF Held, Holds
    <3> QED
      BY <2>2, <3>1, FS_EmptySet
  <2> QED
    BY <2>1, <2>2
<1>4. Places(p) = Cardinality(Spots(p, queue)) + Cardinality(Spots(p, readylist)) + Cardinality(Hands)
  BY DEF Places
<1> HIDE DEF Hands
<1>5. /\ ~(In(p, queue) /\ In(p, readylist))
      /\ Held(p) => ~In(p, queue) /\ ~In(p, readylist)
      /\ (In(p, queue) \/ In(p, readylist) \/ Held(p)) <=> ~(Running(p) /\ ctx[p].at # "resched")
  BY DEF PlaceInv, Placement, Exclusive, Placed
<1> QED
  BY <1>1, <1>2, <1>3, <1>4, <1>5

(* A process that wait puts to sleep is in one list only, or in the hands  *)
(* of the one call that wakes it, whatever the cores do to semtab          *)
(* (wait.c, signaln.c), until two cores meet in one unlocked ready list    *)
(* (ready.c:48).                                                           *)
THEOREM Conserved == Spec => []OnePlace
BY PlacesCount, PlaceInvariance, PTL

-----------------------------------------------------------------------------
(* What the actions do *)

Creating == {"next", "look", "mark", "fill"}

(* Which steps a call goes through, and who makes it.                      *)
Matching ==
  \A p \in Procs :
    LET at == ctx[p].at
        op == ctx[p].op
    IN  /\ at = "user" <=> op = "none"
        /\ at \in {"suspend", "enqueue", "resched", "asleep"} => op = "wait"
        /\ at \in {"nonempty", "zero", "free"} => op = "semfree"
        /\ at \in Creating <=> op = "semcreate"
        /\ at = "count" => op \in {"wait", "signal", "signaln"}
        /\ at \in {"dequeue", "ready", "enlist"} => op \in {"signal", "signaln", "semfree"}
        /\ op = "signal" => p \in Signallers
        /\ op = "semfree" => p \in Freers
        /\ op = "semcreate" => p \in Creators

(* The call of p goes from one step to the next, or returns.               *)
From(p, step) ==
  /\ p \in Procs /\ Running(p) /\ ctx[p].at = step
  /\ \A q \in Procs : q # p => ctx'[q] = ctx[q]
To(p, step) ==
  /\ ctx'[p].at = step /\ ctx'[p].sem = ctx[p].sem
  /\ ctx'[p].op = ctx[p].op /\ ctx'[p].n = ctx[p].n
Back(p) == ctx'[p].at = "user" /\ ctx'[p].op = "none"
Around(p) ==
  \/ ctx[p].op = "semfree" /\ To(p, "nonempty")
  \/ ctx[p].op # "semfree" /\ To(p, "count")
  \/ ctx[p].op # "semfree" /\ Back(p)

(* Goto as From and To.                                                    *)
LEMMA GotoTo ==
  ASSUME ctx \in [Procs -> Contexts], NEW p \in Procs, NEW step, NEW next,
         At(p, step), Goto(p, next)
  PROVE  From(p, step) /\ To(p, next)
BY GotoMoves DEF From, To, At, Others

(* Return as From and Back.                                                *)
LEMMA ReturnBack ==
  ASSUME ctx \in [Procs -> Contexts], NEW p \in Procs, NEW step,
         At(p, step), Return(p)
  PROVE  From(p, step) /\ Back(p)
BY ReturnMoves DEF From, Back, At, Others

(* A turn of a loop as From and Around.                                    *)
LEMMA TurnedAround ==
  ASSUME ctx \in [Procs -> Contexts], NEW p \in Procs, NEW step,
         At(p, step), Turned(p)
  PROVE  From(p, step) /\ Around(p)
<1>1. CASE Goto(p, "nonempty") /\ ctx[p].op = "semfree"
  BY <1>1, GotoTo DEF Around
<1>2. CASE Again(p, "count") /\ ctx[p].op # "semfree"
  BY <1>2 DEF Around, Again, From, To, At, Others
<1>3. CASE Return(p) /\ ctx[p].op # "semfree"
  BY <1>3, ReturnBack DEF Around
<1> QED
  BY <1>1, <1>2, <1>3, TurnedMoves

(* The actions, as the invariants below see them.                          *)
LEMMA Does ==
  ASSUME TypeOK, OnKnown, NEW p \in Procs
  PROVE  LET s == ctx[p].sem IN
    /\ CountDown(p) =>
         /\ From(p, "count") /\ ctx[p].op = "wait" /\ s \in Sems /\ s \in known
         /\ count' = [count EXCEPT ![s] = @ - 1]
         /\ IF count[s] - 1 < 0 THEN To(p, "suspend") ELSE Back(p)
         /\ UNCHANGED <<semstate, queue, nextsem, known, guessed>>
    /\ Suspend(p) => /\ From(p, "suspend") /\ To(p, "enqueue") /\ s \in Sems
                     /\ UNCHANGED <<semtab, nextsem, known, guessed>>
    /\ Enqueue(p) => /\ From(p, "enqueue") /\ To(p, "resched") /\ s \in Sems
                     /\ queue' = [queue EXCEPT ![s] = Append(@, p)]
                     /\ UNCHANGED <<semstate, count, nextsem, known, guessed>>
    /\ WaitResched(p) => /\ From(p, "resched") /\ To(p, "asleep")
                         /\ UNCHANGED <<semtab, nextsem, known, guessed>>
    /\ Awake(p) => /\ From(p, "asleep") /\ Back(p)
                   /\ UNCHANGED <<semtab, nextsem, known, guessed>>
    /\ CountUp(p) =>
         /\ From(p, "count") /\ ctx[p].op # "wait" /\ s \in Sems /\ s \in known
         /\ count' = [count EXCEPT ![s] = @ + 1]
         /\ guessed' = IF ctx[p].op = "signal" THEN guessed \cup {s} ELSE guessed
         /\ To(p, "dequeue") \/ Around(p)
         /\ ctx[p].op # "signal" => IF count[s] + 1 <= 0 THEN To(p, "dequeue") ELSE Around(p)
         /\ UNCHANGED <<semstate, queue, nextsem, known>>
    /\ Dequeue(p) =>
         /\ From(p, "dequeue") /\ To(p, "ready") /\ s \in Sems
         /\ queue[s] = <<>> => UNCHANGED queue
         /\ queue[s] # <<>> => queue' = [queue EXCEPT ![s] = Tail(@)]
         /\ UNCHANGED <<semstate, count, nextsem, known, guessed>>
    /\ Ready(p) => /\ From(p, "ready") /\ (Around(p) \/ To(p, "enlist"))
                   /\ UNCHANGED <<semtab, nextsem, known, guessed>>
    /\ Enlist(p) => /\ From(p, "enlist") /\ Around(p)
                    /\ UNCHANGED <<semtab, nextsem, known, guessed>>
    /\ Nonempty(p) => /\ From(p, "nonempty") /\ s \in Sems
                      /\ IF queue[s] # <<>> THEN To(p, "dequeue") ELSE To(p, "zero")
                      /\ UNCHANGED <<semtab, nextsem, known, guessed>>
    /\ Zero(p) => /\ From(p, "zero") /\ To(p, "free") /\ s \in Sems
                  /\ count' = [count EXCEPT ![s] = 0]
                  /\ UNCHANGED <<semstate, queue, nextsem, known, guessed>>
    /\ Free(p) => /\ From(p, "free") /\ Back(p) /\ s \in Sems
                  /\ semstate' = [semstate EXCEPT ![s] = "SFREE"]
                  /\ guessed' = guessed \ {s}
                  /\ UNCHANGED <<count, queue, nextsem, known>>
    /\ SemallocNext(p) => /\ From(p, "next") /\ (To(p, "look") \/ (Back(p) /\ UNCHANGED nextsem))
                          /\ UNCHANGED <<semtab, known, guessed>>
    /\ SemallocLook(p) =>
         /\ From(p, "look")
         /\ IF semstate[nextsem] = "SFREE" THEN To(p, "mark") ELSE To(p, "next")
         /\ UNCHANGED <<semtab, nextsem, known, guessed>>
    /\ SemallocMark(p) => /\ From(p, "mark") /\ To(p, "fill")
                          /\ semstate' = [semstate EXCEPT ![nextsem] = "SUSED"]
                          /\ UNCHANGED <<count, queue, nextsem, known, guessed>>
    /\ SemcreateFill(p) => /\ From(p, "fill") /\ Back(p)
                           /\ ctx[p].n \in Nat
                           /\ count' = [count EXCEPT ![nextsem] = ctx[p].n]
                           /\ known' = known \cup {nextsem}
                           /\ UNCHANGED <<semstate, queue, nextsem, guessed>>
<1> DEFINE s == ctx[p].sem
<1>0. ctx \in [Procs -> Contexts] /\ ctx[p].n \in Nat /\ count \in [Sems -> Int]
  BY ContextFields DEF TypeOK
<1>s. \A step : At(p, step) /\ step \notin Outside => s \in Sems /\ s \in known
  BY CallSem DEF At
<1> HIDE DEF s
<1> USE <1>0
<1>1. ASSUME CountDown(p)
      PROVE  /\ From(p, "count") /\ ctx[p].op = "wait" /\ s \in Sems /\ s \in known
             /\ count' = [count EXCEPT ![s] = @ - 1]
             /\ IF count[s] - 1 < 0 THEN To(p, "suspend") ELSE Back(p)
             /\ UNCHANGED <<semstate, queue, nextsem, known, guessed>>
  <2>1. /\ At(p, "count") /\ ctx[p].op = "wait" /\ s \in Sems /\ s \in known
        /\ count' = [count EXCEPT ![s] = @ - 1]
        /\ IF count'[s] < 0 THEN Goto(p, "suspend") ELSE Return(p)
        /\ UNCHANGED <<semstate, queue, nextsem, known, guessed>>
    BY <1>1, <1>s DEF CountDown, Outside, s
  <2>2. count'[s] = count[s] - 1
    BY <2>1
  <2> QED
    BY <2>1, <2>2, GotoTo, ReturnBack
<1>2. ASSUME Suspend(p)
      PROVE  /\ From(p, "suspend") /\ To(p, "enqueue") /\ s \in Sems
             /\ UNCHANGED <<semtab, nextsem, known, guessed>>
  <2>1. At(p, "suspend") /\ Goto(p, "enqueue") /\ UNCHANGED <<semtab, nextsem, known, guessed>>
    BY <1>2 DEF Suspend, semtab
  <2> QED
    BY <2>1, <1>s, GotoTo DEF Outside
<1>3. ASSUME Enqueue(p)
      PROVE  /\ From(p, "enqueue") /\ To(p, "resched") /\ s \in Sems
             /\ queue' = [queue EXCEPT ![s] = Append(@, p)]
             /\ UNCHANGED <<semstate, count, nextsem, known, guessed>>
  <2>1. /\ At(p, "enqueue") /\ Goto(p, "resched") /\ queue' = [queue EXCEPT ![s] = Append(@, p)]
        /\ UNCHANGED <<semstate, count, nextsem, known, guessed>>
    BY <1>3 DEF Enqueue, s
  <2> QED
    BY <2>1, <1>s, GotoTo DEF Outside
<1>4. ASSUME WaitResched(p)
      PROVE  From(p, "resched") /\ To(p, "asleep") /\ UNCHANGED <<semtab, nextsem, known, guessed>>
  <2>1. At(p, "resched") /\ Goto(p, "asleep") /\ UNCHANGED <<semtab, nextsem, known, guessed>>
    BY <1>4 DEF WaitResched, semtab
  <2> QED
    BY <2>1, GotoTo
<1>5. ASSUME Awake(p)
      PROVE  From(p, "asleep") /\ Back(p) /\ UNCHANGED <<semtab, nextsem, known, guessed>>
  <2>1. At(p, "asleep") /\ Return(p) /\ UNCHANGED <<semtab, nextsem, known, guessed>>
    BY <1>5 DEF Awake, semtab
  <2> QED
    BY <2>1, ReturnBack
<1>6. ASSUME CountUp(p)
      PROVE  /\ From(p, "count") /\ ctx[p].op # "wait" /\ s \in Sems /\ s \in known
             /\ count' = [count EXCEPT ![s] = @ + 1]
             /\ guessed' = IF ctx[p].op = "signal" THEN guessed \cup {s} ELSE guessed
             /\ To(p, "dequeue") \/ Around(p)
             /\ ctx[p].op # "signal" => IF count[s] + 1 <= 0 THEN To(p, "dequeue") ELSE Around(p)
             /\ UNCHANGED <<semstate, queue, nextsem, known>>
  <2>1. /\ At(p, "count") /\ ctx[p].op # "wait" /\ s \in Sems /\ s \in known
        /\ count' = [count EXCEPT ![s] = @ + 1]
        /\ guessed' = IF ctx[p].op = "signal" THEN guessed \cup {s} ELSE guessed
        /\ UNCHANGED <<semstate, queue, nextsem, known>>
    BY <1>6, <1>s DEF CountUp, Outside, s
  <2>2. Goto(p, "dequeue") \/ Turned(p)
    BY <1>6 DEF CountUp
  <2>3. ASSUME ctx[p].op # "signal"
        PROVE  IF count[s] + 1 <= 0 THEN Goto(p, "dequeue") ELSE Turned(p)
    <3>1. Wakes(p) = {count[s] + 1 <= 0}
      BY <2>3 DEF Wakes, s
    <3>2. \E wakes \in {count[s] + 1 <= 0} : IF wakes THEN Goto(p, "dequeue") ELSE Turned(p)
      BY <1>6, <3>1, Zenon DEF CountUp
    <3> QED
      BY <3>2, Zenon
  <2>4. /\ To(p, "dequeue") \/ Around(p)
        /\ ctx[p].op # "signal" => IF count[s] + 1 <= 0 THEN To(p, "dequeue") ELSE Around(p)
    BY <2>1, <2>2, <2>3, GotoTo, TurnedAround
  <2>5. From(p, "count")
    BY <2>1, <2>2, GotoTo, TurnedAround
  <2> QED
    BY <2>1, <2>4, <2>5
<1>7. ASSUME Dequeue(p)
      PROVE  /\ From(p, "dequeue") /\ To(p, "ready") /\ s \in Sems
             /\ queue[s] = <<>> => UNCHANGED queue
             /\ queue[s] # <<>> => queue' = [queue EXCEPT ![s] = Tail(@)]
             /\ UNCHANGED <<semstate, count, nextsem, known, guessed>>
  <2>1. /\ At(p, "dequeue") /\ s \in Sems /\ queue \in [Sems -> Seq(Procs)]
        /\ \E q : /\ q = IF queue[s] = <<>> THEN EMPTY ELSE Head(queue[s])
                  /\ ctx' = [ctx EXCEPT ![p].at = "ready", ![p].pid = q]
        /\ queue[s] = <<>> => UNCHANGED queue
        /\ queue[s] # <<>> => queue' = [queue EXCEPT ![s] = Tail(@)]
        /\ UNCHANGED <<semstate, count, nextsem, known, guessed>>
    BY <1>7, <1>s DEF Dequeue, s, Outside, TypeOK
  <2>2. PICK q \in Procs \cup {EMPTY} : ctx' = [ctx EXCEPT ![p].at = "ready", ![p].pid = q]
    <3>1. queue[s] # <<>> => Head(queue[s]) \in Procs
      BY <2>1
    <3> QED
      BY <2>1, <3>1
  <2>3. From(p, "dequeue") /\ To(p, "ready")
    BY <2>1, <2>2, DequeuedMoves DEF From, To, At, Others
  <2> QED
    BY <2>1, <2>3
<1>8. ASSUME Ready(p)
      PROVE  /\ From(p, "ready") /\ (Around(p) \/ To(p, "enlist"))
             /\ UNCHANGED <<semtab, nextsem, known, guessed>>
  <2>1. /\ At(p, "ready") /\ (Turned(p) \/ Goto(p, "enlist"))
        /\ UNCHANGED <<semtab, nextsem, known, guessed>>
    BY <1>8 DEF Ready, semtab
  <2> QED
    BY <2>1, TurnedAround, GotoTo
<1>16. ASSUME Enlist(p)
       PROVE  From(p, "enlist") /\ Around(p) /\ UNCHANGED <<semtab, nextsem, known, guessed>>
  <2>1. At(p, "enlist") /\ Turned(p) /\ UNCHANGED <<semtab, nextsem, known, guessed>>
    BY <1>16 DEF Enlist, semtab
  <2> QED
    BY <2>1, TurnedAround
<1>9. ASSUME Nonempty(p)
      PROVE  /\ From(p, "nonempty") /\ s \in Sems
             /\ IF queue[s] # <<>> THEN To(p, "dequeue") ELSE To(p, "zero")
             /\ UNCHANGED <<semtab, nextsem, known, guessed>>
  <2>1. /\ At(p, "nonempty") /\ Goto(p, IF queue[s] # <<>> THEN "dequeue" ELSE "zero")
        /\ UNCHANGED <<semtab, nextsem, known, guessed>>
    BY <1>9 DEF Nonempty, semtab, s
  <2>2. IF queue[s] # <<>> THEN Goto(p, "dequeue") ELSE Goto(p, "zero")
    BY <2>1
  <2> QED
    BY <2>1, <2>2, <1>s, GotoTo DEF Outside
<1>10. ASSUME Zero(p)
       PROVE  /\ From(p, "zero") /\ To(p, "free") /\ s \in Sems
              /\ count' = [count EXCEPT ![s] = 0]
              /\ UNCHANGED <<semstate, queue, nextsem, known, guessed>>
  <2>1. /\ At(p, "zero") /\ Goto(p, "free") /\ count' = [count EXCEPT ![s] = 0]
        /\ UNCHANGED <<semstate, queue, nextsem, known, guessed>>
    BY <1>10 DEF Zero, s
  <2> QED
    BY <2>1, <1>s, GotoTo DEF Outside
<1>11. ASSUME Free(p)
       PROVE  /\ From(p, "free") /\ Back(p) /\ s \in Sems
              /\ semstate' = [semstate EXCEPT ![s] = "SFREE"]
              /\ guessed' = guessed \ {s}
              /\ UNCHANGED <<count, queue, nextsem, known>>
  <2>1. /\ At(p, "free") /\ Return(p) /\ semstate' = [semstate EXCEPT ![s] = "SFREE"]
        /\ guessed' = guessed \ {s}
        /\ UNCHANGED <<count, queue, nextsem, known>>
    BY <1>11 DEF Free, s
  <2> QED
    BY <2>1, <1>s, ReturnBack DEF Outside
<1>12. ASSUME SemallocNext(p)
       PROVE  /\ From(p, "next") /\ (To(p, "look") \/ (Back(p) /\ UNCHANGED nextsem))
              /\ UNCHANGED <<semtab, known, guessed>>
  <2>1. At(p, "next") /\ UNCHANGED <<semtab, known, guessed>>
    BY <1>12 DEF SemallocNext
  <2>2. CASE ctx[p].left = 0
    <3>1. Return(p) /\ UNCHANGED nextsem
      BY <1>12, <2>2 DEF SemallocNext
    <3> QED
      BY <2>1, <3>1, ReturnBack
  <2>3. CASE ctx[p].left # 0
    <3>1. ctx' = [ctx EXCEPT ![p].left = @ - 1, ![p].at = "look"]
      BY <1>12, <2>3 DEF SemallocNext
    <3>2. Again(p, "look")
      BY <3>1, AgainMoves
    <3> QED
      BY <2>1, <3>2 DEF Again, From, To, At, Others
  <2> QED
    BY <2>2, <2>3
<1>13. ASSUME SemallocLook(p)
       PROVE  /\ From(p, "look")
              /\ IF semstate[nextsem] = "SFREE" THEN To(p, "mark") ELSE To(p, "next")
              /\ UNCHANGED <<semtab, nextsem, known, guessed>>
  <2>1. /\ At(p, "look") /\ Goto(p, IF semstate[nextsem] = "SFREE" THEN "mark" ELSE "next")
        /\ UNCHANGED <<semtab, nextsem, known, guessed>>
    BY <1>13 DEF SemallocLook, semtab
  <2>2. IF semstate[nextsem] = "SFREE" THEN Goto(p, "mark") ELSE Goto(p, "next")
    BY <2>1
  <2> QED
    BY <2>1, <2>2, GotoTo
<1>14. ASSUME SemallocMark(p)
       PROVE  /\ From(p, "mark") /\ To(p, "fill")
              /\ semstate' = [semstate EXCEPT ![nextsem] = "SUSED"]
              /\ UNCHANGED <<count, queue, nextsem, known, guessed>>
  <2>1. /\ At(p, "mark") /\ Goto(p, "fill") /\ semstate' = [semstate EXCEPT ![nextsem] = "SUSED"]
        /\ UNCHANGED <<count, queue, nextsem, known, guessed>>
    BY <1>14 DEF SemallocMark
  <2> QED
    BY <2>1, GotoTo
<1>15. ASSUME SemcreateFill(p)
       PROVE  /\ From(p, "fill") /\ Back(p) /\ ctx[p].n \in Nat
              /\ count' = [count EXCEPT ![nextsem] = ctx[p].n]
              /\ known' = known \cup {nextsem}
              /\ UNCHANGED <<semstate, queue, nextsem, guessed>>
  <2>1. /\ At(p, "fill") /\ Return(p) /\ count' = [count EXCEPT ![nextsem] = ctx[p].n]
        /\ known' = known \cup {nextsem}
        /\ UNCHANGED <<semstate, queue, nextsem, guessed>>
    BY <1>15 DEF SemcreateFill
  <2> QED
    BY <2>1, ReturnBack
<1> QED
  BY <1>1, <1>2, <1>3, <1>4, <1>5, <1>6, <1>7, <1>8, <1>9, <1>10, <1>11, <1>12, <1>13, <1>14, <1>15,
     <1>16 DEF s

(* A call of p has begun.                                                  *)
Begun(p, op, step) ==
  /\ ctx'[p].op = op /\ ctx'[p].at = step
  /\ step # "next" => ctx'[p].sem \in known /\ semstate[ctx'[p].sem] = "SUSED"

(* The calls, as the invariants below see them.                            *)
LEMMA CallingDoes ==
  ASSUME TypeOK, NEW p \in Procs, Calling(p)
  PROVE  /\ From(p, "user")
         /\ UNCHANGED <<semtab, nextsem, known, guessed, sched>>
         /\ \/ ctx' = ctx
            \/ Begun(p, "wait", "count") \/ Begun(p, "signaln", "count")
            \/ Begun(p, "signal", "count") /\ p \in Signallers
            \/ Begun(p, "semfree", "nonempty") /\ p \in Freers
            \/ Begun(p, "semcreate", "next") /\ p \in Creators
<1>0. ctx \in [Procs -> Contexts] /\ known \subseteq Sems /\ semstate \in [Sems -> {"SFREE", "SUSED"}]
  BY DEF TypeOK
<1>1. ASSUME NEW op, NEW s, NEW left, NEW step, OnSem(p, op, s, left, step)
      PROVE  /\ From(p, "user") /\ UNCHANGED <<semtab, nextsem, known, guessed, sched>>
             /\ ctx' = ctx \/ Begun(p, op, step)
  <2>1. /\ At(p, "user") /\ s \in known /\ UNCHANGED <<semtab, nextsem, known, guessed, sched>>
        /\ IF isbadsem(s) THEN UNCHANGED ctx ELSE Call(p, op, s, 0, left, step)
    BY <1>1 DEF OnSem, Calls, semtab
  <2>2. CASE isbadsem(s)
    BY <2>1, <2>2 DEF From, At
  <2>3. CASE ~isbadsem(s)
    <3>1. semstate[s] = "SUSED"
      BY <2>1, <2>3, <1>0 DEF isbadsem
    <3>2. Call(p, op, s, 0, left, step)
      BY <2>1, <2>3
    <3>3. Others(p) /\ ctx'[p].at = step /\ ctx'[p].op = op /\ ctx'[p].sem = s
      BY <3>2, <1>0, CallMoves
    <3> QED
      BY <2>1, <3>1, <3>3 DEF From, At, Others, Begun
  <2> QED
    BY <2>2, <2>3
<1>2. ASSUME NEW n, Semcreate(p, n)
      PROVE  /\ From(p, "user") /\ UNCHANGED <<semtab, nextsem, known, guessed, sched>>
             /\ Begun(p, "semcreate", "next") /\ p \in Creators
  <2>1. /\ At(p, "user") /\ UNCHANGED <<semtab, nextsem, known, guessed, sched>> /\ p \in Creators
        /\ Call(p, "semcreate", SYSERR, n, NSEM, "next")
    BY <1>2 DEF Semcreate, Calls, semtab
  <2>2. Others(p) /\ ctx'[p].at = "next" /\ ctx'[p].op = "semcreate"
    BY <2>1, <1>0, CallMoves
  <2> QED
    BY <2>1, <2>2 DEF From, At, Others, Begun
<1> QED
  BY <1>1, <1>2 DEF Calling, Wait, Signal, Signaln, Semfree

(* Every step keeps them matched.                                          *)
LEMMA MatchingStep ==
  ASSUME TypeOK, OnKnown, Matching, [Next]_vars
  PROVE  Matching'
<1>a. ASSUME NEW p \in Procs, NEW step, From(p, step),
             LET at == ctx'[p].at
                 op == ctx'[p].op
             IN  /\ at = "user" <=> op = "none"
                 /\ at \in {"suspend", "enqueue", "resched", "asleep"} => op = "wait"
                 /\ at \in {"nonempty", "zero", "free"} => op = "semfree"
                 /\ at \in Creating <=> op = "semcreate"
                 /\ at = "count" => op \in {"wait", "signal", "signaln"}
                 /\ at \in {"dequeue", "ready", "enlist"} => op \in {"signal", "signaln", "semfree"}
                 /\ op = "signal" => p \in Signallers
                 /\ op = "semfree" => p \in Freers
                 /\ op = "semcreate" => p \in Creators
      PROVE  Matching'
  <2> SUFFICES ASSUME NEW q \in Procs
               PROVE  LET at == ctx'[q].at
                          op == ctx'[q].op
                      IN  /\ at = "user" <=> op = "none"
                          /\ at \in {"suspend", "enqueue", "resched", "asleep"} => op = "wait"
                          /\ at \in {"nonempty", "zero", "free"} => op = "semfree"
                          /\ at \in Creating <=> op = "semcreate"
                          /\ at = "count" => op \in {"wait", "signal", "signaln"}
                          /\ at \in {"dequeue", "ready", "enlist"} => op \in {"signal", "signaln", "semfree"}
                          /\ op = "signal" => q \in Signallers
                          /\ op = "semfree" => q \in Freers
                          /\ op = "semcreate" => q \in Creators
    BY DEF Matching
  <2>1. CASE q = p
    BY <1>a, <2>1
  <2>2. CASE q # p
    <3>1. ctx'[q] = ctx[q]
      BY <1>a, <2>2 DEF From
    <3> QED
      BY <3>1 DEF Matching
  <2> QED
    BY <2>1, <2>2
<1>1. ASSUME NEW p \in Procs, Calling(p) PROVE Matching'
  <2>1. CASE ctx' = ctx
    BY <2>1 DEF Matching
  <2>2. CASE ctx' # ctx
    BY <1>1, <2>2, CallingDoes, <1>a DEF Begun, Creating
  <2> QED
    BY <2>1, <2>2
<1>2. ASSUME NEW p \in Procs, Kernel(p) PROVE Matching'
  <2> DEFINE at == ctx[p].at
             op == ctx[p].op
  <2>0. /\ at = "user" <=> op = "none"
        /\ at \in {"suspend", "enqueue", "resched", "asleep"} => op = "wait"
        /\ at \in {"nonempty", "zero", "free"} => op = "semfree"
        /\ at \in Creating <=> op = "semcreate"
        /\ at = "count" => op \in {"wait", "signal", "signaln"}
        /\ at \in {"dequeue", "ready", "enlist"} => op \in {"signal", "signaln", "semfree"}
        /\ op = "signal" => p \in Signallers
        /\ op = "semfree" => p \in Freers
        /\ op = "semcreate" => p \in Creators
    BY DEF Matching
  <2>1. CASE CountDown(p) \/ Suspend(p) \/ Enqueue(p) \/ WaitResched(p) \/ Awake(p)
    BY <2>0, <2>1, Does, <1>a DEF From, To, Back, Creating
  <2>2. CASE CountUp(p) \/ Dequeue(p) \/ Ready(p) \/ Enlist(p)
    BY <2>0, <2>2, Does, <1>a DEF From, To, Back, Around, Creating
  <2>3. CASE Nonempty(p) \/ Zero(p) \/ Free(p)
    BY <2>0, <2>3, Does, <1>a DEF From, To, Back, Creating
  <2>4. CASE SemallocNext(p) \/ SemallocLook(p) \/ SemallocMark(p) \/ SemcreateFill(p)
    BY <2>0, <2>4, Does, <1>a DEF From, To, Back, Creating
  <2> QED
    BY <1>2, <2>1, <2>2, <2>3, <2>4 DEF Kernel
<1>3. ASSUME NEW c \in Cores, Preempt(c) PROVE Matching'
  BY <1>3 DEF Preempt, Matching
<1>4. ASSUME UNCHANGED vars \/ Stopped \/ \E p \in Procs : Meet(p) PROVE Matching'
  BY <1>4 DEF vars, Stopped, Meet, Matching
<1> QED
  BY <1>1, <1>2, <1>3, <1>4 DEF Next

-----------------------------------------------------------------------------
(* Who waits and who is about to dequeue *)

(* The calls that are about to take a process from the queue of s, other   *)
(* than those that free it.                                                *)
Dequeuers(s) == {p \in Procs : /\ ctx[p].at = "dequeue" /\ ctx[p].op # "semfree"
                               /\ ctx[p].sem = s}

(* The sets are finite, so their elements can be counted.                  *)
LEMMA WaitingFinite ==
  ASSUME TypeOK, NEW s \in Sems
  PROVE  /\ Waiting(s) \subseteq Procs /\ IsFiniteSet(Waiting(s)) /\ Cardinality(Waiting(s)) \in Nat
         /\ Dequeuers(s) \subseteq Procs /\ IsFiniteSet(Dequeuers(s))
         /\ Cardinality(Dequeuers(s)) \in Nat
<1>1. queue[s] \in Seq(Procs)
  BY DEF TypeOK
<1>2. Waiting(s) \subseteq Procs
  BY <1>1 DEF Waiting, ToSet
<1>3. Dequeuers(s) \subseteq Procs
  BY DEF Dequeuers
<1> QED
  BY <1>2, <1>3, ReadyListsAssumption, FS_Subset, FS_CardinalityType

(* What a queue holds after an append.                                     *)
LEMMA ToSetAppend ==
  ASSUME NEW S, NEW seq \in Seq(S), NEW x \in S
  PROVE  ToSet(Append(seq, x)) = ToSet(seq) \cup {x}
<1>1. /\ Len(seq) \in Nat
      /\ DOMAIN seq = 1 .. Len(seq) /\ DOMAIN Append(seq, x) = 1 .. Len(seq) + 1
      /\ \A i \in 1 .. Len(seq) : Append(seq, x)[i] = seq[i]
      /\ Append(seq, x)[Len(seq) + 1] = x
  OBVIOUS
<1>2. ASSUME NEW y \in ToSet(Append(seq, x)) PROVE y \in ToSet(seq) \cup {x}
  BY <1>1 DEF ToSet
<1>3. ASSUME NEW y \in ToSet(seq) PROVE y \in ToSet(Append(seq, x))
  <2>1. PICK i \in 1 .. Len(seq) : seq[i] = y
    BY <1>1 DEF ToSet
  <2>2. i \in DOMAIN Append(seq, x) /\ Append(seq, x)[i] = y
    BY <1>1, <2>1
  <2> QED
    BY <2>2 DEF ToSet
<1>4. x \in ToSet(Append(seq, x))
  <2>1. Len(seq) + 1 \in DOMAIN Append(seq, x)
    BY <1>1
  <2> QED
    BY <1>1, <2>1 DEF ToSet
<1> QED
  BY <1>2, <1>3, <1>4

(* What a queue without duplicates holds after its head has left.          *)
LEMMA ToSetTail ==
  ASSUME NEW S, NEW seq \in Seq(S), seq # <<>>,
         \A i, j \in DOMAIN seq : seq[i] = seq[j] => i = j
  PROVE  /\ ToSet(Tail(seq)) = ToSet(seq) \ {Head(seq)}
         /\ Head(seq) \in ToSet(seq)
<1>1. /\ Len(seq) \in Nat \ {0}
      /\ DOMAIN seq = 1 .. Len(seq) /\ DOMAIN Tail(seq) = 1 .. Len(seq) - 1
      /\ \A i \in 1 .. Len(seq) - 1 : Tail(seq)[i] = seq[i + 1]
      /\ Head(seq) = seq[1]
  OBVIOUS
<1>2. ASSUME NEW y \in ToSet(Tail(seq)) PROVE y \in ToSet(seq) /\ y # Head(seq)
  <2>1. PICK i \in 1 .. Len(seq) - 1 : Tail(seq)[i] = y
    BY <1>1 DEF ToSet
  <2>2. i + 1 \in DOMAIN seq /\ seq[i + 1] = y /\ i + 1 # 1 /\ 1 \in DOMAIN seq
    BY <1>1, <2>1
  <2> QED
    BY <1>1, <2>2 DEF ToSet
<1>3. ASSUME NEW y \in ToSet(seq), y # Head(seq) PROVE y \in ToSet(Tail(seq))
  <2>1. PICK i \in 1 .. Len(seq) : seq[i] = y
    BY <1>1 DEF ToSet
  <2>2. i - 1 \in DOMAIN Tail(seq) /\ Tail(seq)[i - 1] = y
    <3>1. i # 1
      BY <1>1, <1>3, <2>1
    <3>2. i - 1 \in 1 .. Len(seq) - 1 /\ (i - 1) + 1 = i
      BY <1>1, <2>1, <3>1
    <3> QED
      BY <1>1, <2>1, <3>2
  <2> QED
    BY <2>2 DEF ToSet
<1>4. Head(seq) \in ToSet(seq)
  BY <1>1 DEF ToSet
<1> QED
  BY <1>2, <1>3, <1>4

(* A step that does not touch queues or waiters leaves the waiters alone.  *)
LEMMA SameWaiting ==
  ASSUME NEW p, NEW step, From(p, step),
         step \in {"suspend", "enqueue"} <=> ctx'[p].at \in {"suspend", "enqueue"},
         step \in {"suspend", "enqueue"} => ctx'[p].sem = ctx[p].sem,
         UNCHANGED queue, NEW s
  PROVE  Waiting(s)' = Waiting(s)
<1>1. \A q \in Procs : ctx'[q].sem = s /\ ctx'[q].at \in {"suspend", "enqueue"}
                       <=> ctx[q].sem = s /\ ctx[q].at \in {"suspend", "enqueue"}
  BY DEF From
<1> QED
  BY <1>1 DEF Waiting

(* Nor do dequeuers change but by a dequeue.                               *)
LEMMA SameDequeuers ==
  ASSUME NEW p, NEW step, From(p, step),
         step = "dequeue" => ctx[p].op = "semfree",
         ctx'[p].at = "dequeue" => ctx'[p].op = "semfree", NEW s
  PROVE  Dequeuers(s)' = Dequeuers(s)
BY DEF From, Dequeuers

(* A process waits from the moment its wait has counted down.              *)
LEMMA WaitSuspends ==
  ASSUME NEW p, From(p, "count"), To(p, "suspend"), UNCHANGED queue, NEW s
  PROVE  Waiting(s)' = IF s = ctx[p].sem THEN Waiting(s) \cup {p} ELSE Waiting(s)
<1>1. \A q \in Procs : ctx'[q].sem = s /\ ctx'[q].at \in {"suspend", "enqueue"}
                       <=> \/ ctx[q].sem = s /\ ctx[q].at \in {"suspend", "enqueue"}
                           \/ q = p /\ s = ctx[p].sem
  BY DEF From, To
<1>2. p \in Procs
  BY DEF From
<1> QED
  BY <1>1, <1>2 DEF Waiting

(* Entering the queue changes nothing about who waits.                     *)
LEMMA WaitEnqueues ==
  ASSUME TypeOK, NEW p, From(p, "enqueue"), To(p, "resched"), ctx[p].sem \in Sems,
         queue' = [queue EXCEPT ![ctx[p].sem] = Append(@, p)], NEW s \in Sems
  PROVE  Waiting(s)' = Waiting(s)
<1>0. queue \in [Sems -> Seq(Procs)] /\ p \in Procs
  BY DEF TypeOK, From
<1>1. \A q \in Procs : ctx[q].sem = s /\ ctx[q].at \in {"suspend", "enqueue"}
                       <=> \/ ctx'[q].sem = s /\ ctx'[q].at \in {"suspend", "enqueue"}
                           \/ q = p /\ s = ctx[p].sem
  BY DEF From, To
<1>2. CASE s = ctx[p].sem
  <2>1. queue'[s] = Append(queue[s], p) /\ queue[s] \in Seq(Procs)
    BY <1>0, <1>2
  <2>2. ToSet(queue'[s]) = ToSet(queue[s]) \cup {p}
    BY <2>1, <1>0, ToSetAppend
  <2> QED
    BY <1>0, <1>1, <1>2, <2>2 DEF Waiting
<1>3. CASE s # ctx[p].sem
  <2>1. queue'[s] = queue[s]
    BY <1>0, <1>3
  <2> QED
    BY <1>1, <1>3, <2>1 DEF Waiting
<1> QED
  BY <1>2, <1>3

(* A dequeue takes the head from the waiters.                              *)
LEMMA WaiterLeaves ==
  ASSUME TypeOK, Placement, NEW p, From(p, "dequeue"), To(p, "ready"), NEW t \in Sems,
         queue[t] # <<>>,
         queue' = [queue EXCEPT ![t] = Tail(@)], NEW s \in Sems
  PROVE  /\ Waiting(s)' = IF s = t THEN Waiting(s) \ {Head(queue[t])} ELSE Waiting(s)
         /\ Head(queue[t]) \in Waiting(t) /\ Head(queue[t]) \in Procs
<1> DEFINE h == Head(queue[t])
<1>0. /\ queue \in [Sems -> Seq(Procs)] /\ Family(queue, Sems) /\ Apart(queue)
  BY DEF TypeOK, Family, Placement, Exclusive
<1>1. h \in Procs /\ In(h, queue)
  BY <1>0, TailIn
<1>2. ctx[h].at \notin {"suspend", "enqueue"}
  BY <1>1 DEF Placement, Placed, Called
<1>3. \A q \in Procs : ctx[q].sem = s /\ ctx[q].at \in {"suspend", "enqueue"}
                       <=> ctx'[q].sem = s /\ ctx'[q].at \in {"suspend", "enqueue"}
  BY DEF From, To
<1>4. ToSet(Tail(queue[t])) = ToSet(queue[t]) \ {h} /\ h \in ToSet(queue[t])
  <2>1. queue[t] \in Seq(Procs) /\ \A i, j \in DOMAIN queue[t] : queue[t][i] = queue[t][j] => i = j
    BY <1>0 DEF Apart
  <2> QED
    BY <2>1, ToSetTail
<1>5. queue'[s] = IF s = t THEN Tail(queue[t]) ELSE queue[s]
  BY <1>0
<1> HIDE DEF h
<1>6. h \in Waiting(t)
  BY <1>4 DEF Waiting
<1>7. CASE s = t
  <2>1. ToSet(queue'[s]) = ToSet(queue[s]) \ {h}
    BY <1>4, <1>5, <1>7
  <2> QED
    BY <1>1, <1>2, <1>3, <1>6, <1>7, <2>1 DEF Waiting, h
<1>8. CASE s # t
  BY <1>1, <1>3, <1>5, <1>6, <1>8 DEF Waiting, h
<1> QED
  BY <1>7, <1>8

(* A call that has counted up may be about to dequeue.                     *)
LEMMA DequeuerJoins ==
  ASSUME NEW p, From(p, "count"), To(p, "dequeue"), ctx[p].op # "semfree", NEW s
  PROVE  Dequeuers(s)' = IF s = ctx[p].sem THEN Dequeuers(s) \cup {p} ELSE Dequeuers(s)
BY DEF From, To, Dequeuers

(* It has dequeued.                                                        *)
LEMMA DequeuerLeaves ==
  ASSUME NEW p, From(p, "dequeue"), To(p, "ready"), ctx[p].op # "semfree", NEW s
  PROVE  /\ Dequeuers(s)' = IF s = ctx[p].sem THEN Dequeuers(s) \ {p} ELSE Dequeuers(s)
         /\ p \in Dequeuers(ctx[p].sem)
BY DEF From, To, Dequeuers

(* A process that calls wait does not wait yet.                            *)
LEMMA CallerWaitsNowhere ==
  ASSUME TypeOK, Placement, NEW p, From(p, "count"), NEW s \in Sems
  PROVE  p \notin Waiting(s) /\ p \notin Dequeuers(s)
<1>1. ~In(p, queue) /\ p \in Procs /\ ctx[p].at = "count"
  BY DEF From, Placement, Placed
<1>2. p \notin ToSet(queue[s])
  BY <1>1 DEF In, ToSet, TypeOK
<1> QED
  BY <1>1, <1>2 DEF Waiting, Dequeuers

-----------------------------------------------------------------------------
(* The counts on several cores *)

Owed(s) == IF count[s] < 0 THEN -count[s] ELSE 0
Waits(s) == Cardinality(Waiting(s))
Grants(s) == Cardinality(Dequeuers(s))

(* Several cores: nobody calls signal or semfree, and one core creates.    *)
ManyCores ==
  /\ Signallers = {} /\ Freers = {}
  /\ \A p, q \in Creators : Affinity[p] = Affinity[q]

SmpInv ==
  /\ \A s \in known : semstate[s] = "SUSED"
  /\ \A p \in Procs : ctx[p].at = "mark" => semstate[nextsem] = "SFREE"
  /\ \A p \in Procs : ctx[p].at = "fill" => semstate[nextsem] = "SUSED" /\ nextsem \notin known
  /\ \A s \in Sems \ known : queue[s] = <<>>
  /\ \A s \in known : Grants(s) + Owed(s) <= Waits(s)

(* Of the processes of one core, one is in semcreate.                      *)
LEMMA OneCreator ==
  ASSUME Placement, Matching, ManyCores, NEW p \in Procs, NEW q \in Procs,
         ctx[p].at \in Creating, ctx[q].at \in Creating
  PROVE  p = q
<1>1. Running(p) /\ Running(q)
  BY DEF Placement, Called, Creating
<1>2. p \in Creators /\ q \in Creators
  BY DEF Matching
<1> QED
  BY <1>1, <1>2 DEF ManyCores, Running

(* How the actions change who waits and who dequeues.                      *)
LEMMA SetsStay ==
  ASSUME TypeOK, OnKnown, Matching, NEW p \in Procs,
         \/ Suspend(p) \/ Enqueue(p) \/ WaitResched(p) \/ Awake(p) \/ Ready(p) \/ Enlist(p)
         \/ Nonempty(p) \/ Zero(p) \/ Free(p)
         \/ SemallocNext(p) \/ SemallocLook(p) \/ SemallocMark(p) \/ SemcreateFill(p)
         \/ Calling(p),
         NEW s \in Sems
  PROVE  Waiting(s)' = Waiting(s) /\ Dequeuers(s)' = Dequeuers(s)
<1>0. /\ ctx[p].at \in {"nonempty", "zero", "free"} => ctx[p].op = "semfree"
      /\ ctx[p].at = "ready" /\ ctx[p].op # "semfree" => ctx[p].op \in {"signal", "signaln"}
  BY DEF Matching
<1>1. CASE Suspend(p)
  BY <1>1, Does, SameWaiting, SameDequeuers DEF To, semtab
<1>2. CASE Enqueue(p)
  BY <1>2, Does, WaitEnqueues, SameDequeuers DEF To
<1>3. CASE WaitResched(p)
  BY <1>3, Does, SameWaiting, SameDequeuers DEF To, semtab
<1>4. CASE Awake(p)
  BY <1>4, Does, SameWaiting, SameDequeuers DEF Back, semtab
<1>5. CASE Ready(p) \/ Enlist(p)
  BY <1>5, Does, SameWaiting, SameDequeuers DEF Around, To, Back, semtab
<1>6. CASE Nonempty(p)
  <2>1. /\ From(p, "nonempty") /\ ctx'[p].op = "semfree" /\ UNCHANGED queue
        /\ ctx'[p].at \in {"dequeue", "zero"}
    BY <1>6, <1>0, Does DEF To, From, semtab
  <2> QED
    BY <2>1, SameWaiting, SameDequeuers
<1>7. CASE Zero(p)
  BY <1>7, Does, SameWaiting, SameDequeuers DEF To
<1>8. CASE Free(p)
  BY <1>8, Does, SameWaiting, SameDequeuers DEF Back
<1>9. CASE SemallocNext(p)
  BY <1>9, Does, SameWaiting, SameDequeuers DEF To, Back, semtab
<1>10. CASE SemallocLook(p)
  BY <1>10, Does, SameWaiting, SameDequeuers DEF To, semtab
<1>11. CASE SemallocMark(p)
  BY <1>11, Does, SameWaiting, SameDequeuers DEF To
<1>12. CASE SemcreateFill(p)
  BY <1>12, Does, SameWaiting, SameDequeuers DEF Back
<1>13. CASE Calling(p)
  <2>1. CASE ctx' = ctx
    BY <1>13, <2>1, CallingDoes DEF Waiting, Dequeuers, semtab
  <2>2. CASE ctx' # ctx
    <3>1. From(p, "user") /\ ctx'[p].at \in {"count", "nonempty", "next"} /\ UNCHANGED queue
      BY <1>13, <2>2, CallingDoes DEF Begun, semtab
    <3> QED
      BY <3>1, SameWaiting, SameDequeuers
  <2> QED
    BY <2>1, <2>2
<1> QED
  BY <1>1, <1>2, <1>3, <1>4, <1>5, <1>6, <1>7, <1>8, <1>9, <1>10, <1>11, <1>12, <1>13

(* What wait does to the counts.                                           *)
LEMMA CountDownSets ==
  ASSUME TypeOK, OnKnown, Placement, NEW p \in Procs, CountDown(p), NEW s \in Sems
  PROVE  /\ Dequeuers(s)' = Dequeuers(s) /\ Grants(s)' = Grants(s)
         /\ Waiting(s)' = IF s = ctx[p].sem /\ count[s] - 1 < 0 THEN Waiting(s) \cup {p} ELSE Waiting(s)
         /\ Waits(s)' = IF s = ctx[p].sem /\ count[s] - 1 < 0 THEN Waits(s) + 1 ELSE Waits(s)
         /\ count'[s] = IF s = ctx[p].sem THEN count[s] - 1 ELSE count[s]
<1>1. count \in [Sems -> Int] /\ From(p, "count") /\ UNCHANGED queue
      /\ count' = [count EXCEPT ![ctx[p].sem] = @ - 1]
  BY Does DEF TypeOK
<1>2. Dequeuers(s)' = Dequeuers(s)
  <2>1. ctx'[p].at # "dequeue"
    BY Does DEF To, Back
  <2> QED
    BY <1>1, <2>1, SameDequeuers
<1>3. Waiting(s)' = IF s = ctx[p].sem /\ count[s] - 1 < 0 THEN Waiting(s) \cup {p} ELSE Waiting(s)
  <2>1. CASE count[ctx[p].sem] - 1 < 0
    BY <2>1, <1>1, Does, WaitSuspends
  <2>2. CASE ~(count[ctx[p].sem] - 1 < 0)
    BY <2>2, <1>1, Does, SameWaiting DEF Back
  <2> QED
    BY <2>1, <2>2
<1>4. p \notin Waiting(s)
  BY <1>1, CallerWaitsNowhere
<1>5. IsFiniteSet(Waiting(s))
  BY WaitingFinite
<1>6. Cardinality(Waiting(s) \cup {p}) = Cardinality(Waiting(s)) + 1
  BY <1>4, <1>5, FS_AddElement
<1>7. Waits(s)' = IF s = ctx[p].sem /\ count[s] - 1 < 0 THEN Waits(s) + 1 ELSE Waits(s)
  BY <1>3, <1>6 DEF Waits
<1> QED
  BY <1>1, <1>2, <1>3, <1>7 DEF Grants

(* What signal and signaln do to the counts.                               *)
LEMMA CountUpSets ==
  ASSUME TypeOK, OnKnown, Placement, Matching, NEW p \in Procs, CountUp(p), NEW s \in Sems
  PROVE  /\ Waiting(s)' = Waiting(s) /\ Waits(s)' = Waits(s)
         /\ Grants(s)' = IF s = ctx[p].sem /\ ctx'[p].at = "dequeue" THEN Grants(s) + 1 ELSE Grants(s)
         /\ count'[s] = IF s = ctx[p].sem THEN count[s] + 1 ELSE count[s]
<1>1. /\ count \in [Sems -> Int] /\ From(p, "count") /\ UNCHANGED queue
      /\ count' = [count EXCEPT ![ctx[p].sem] = @ + 1]
      /\ To(p, "dequeue") \/ Around(p)
      /\ ctx[p].op # "semfree" /\ ctx[p].op # "wait"
  <2>1. ctx[p].at = "count"
    BY Does DEF From
  <2> QED
    BY <2>1, Does DEF TypeOK, Matching
<1>2. Waiting(s)' = Waiting(s)
  <2>1. ctx'[p].at \notin {"suspend", "enqueue"}
    BY <1>1 DEF To, Around, Back
  <2> QED
    BY <1>1, <2>1, SameWaiting
<1>3. Grants(s)' = IF s = ctx[p].sem /\ ctx'[p].at = "dequeue" THEN Grants(s) + 1 ELSE Grants(s)
  <2>1. CASE To(p, "dequeue")
    <3>1. Dequeuers(s)' = IF s = ctx[p].sem THEN Dequeuers(s) \cup {p} ELSE Dequeuers(s)
      BY <1>1, <2>1, DequeuerJoins
    <3>2. p \notin Dequeuers(s)
      BY <1>1, CallerWaitsNowhere
    <3>3. IsFiniteSet(Dequeuers(s))
      BY WaitingFinite
    <3>4. Cardinality(Dequeuers(s) \cup {p}) = Cardinality(Dequeuers(s)) + 1
      BY <3>2, <3>3, FS_AddElement
    <3> QED
      BY <2>1, <3>1, <3>4 DEF Grants, To
  <2>2. CASE ~To(p, "dequeue")
    <3>1. ctx'[p].at # "dequeue"
      BY <1>1, <2>2 DEF Around, To, Back
    <3>2. Dequeuers(s)' = Dequeuers(s)
      BY <1>1, <3>1, SameDequeuers
    <3> QED
      BY <3>1, <3>2 DEF Grants
  <2> QED
    BY <2>1, <2>2
<1> QED
  BY <1>1, <1>2, <1>3 DEF Waits

(* What a dequeue does to the counts.                                      *)
LEMMA DequeueSets ==
  ASSUME TypeOK, OnKnown, Placement, Matching, NEW p \in Procs, Dequeue(p), NEW s \in Sems
  PROVE  LET t == ctx[p].sem
             h == Head(queue[t])
             takes == queue[t] # <<>> IN
    /\ t \in Sems
    /\ Waiting(s)' = IF s = t /\ takes THEN Waiting(s) \ {h} ELSE Waiting(s)
    /\ Waits(s)' = IF s = t /\ takes THEN Waits(s) - 1 ELSE Waits(s)
    /\ Grants(s)' = IF s = t /\ ctx[p].op # "semfree" THEN Grants(s) - 1 ELSE Grants(s)
    /\ takes => h \in Waiting(t) /\ h \in Procs
    /\ ctx[p].op # "semfree" => p \in Dequeuers(t)
<1> DEFINE t == ctx[p].sem
           h == Head(queue[t])
           takes == queue[t] # <<>>
<1>1. /\ From(p, "dequeue") /\ To(p, "ready") /\ t \in Sems
      /\ ~takes => UNCHANGED queue
      /\ takes => queue' = [queue EXCEPT ![t] = Tail(@)]
  BY Does
<1>f. IsFiniteSet(Waiting(s)) /\ IsFiniteSet(Dequeuers(s))
  BY WaitingFinite
<1>2. /\ Waiting(s)' = IF s = t /\ takes THEN Waiting(s) \ {h} ELSE Waiting(s)
      /\ takes => h \in Waiting(t) /\ h \in Procs
  <2>1. CASE takes
    <3>1. queue[t] # <<>> /\ queue' = [queue EXCEPT ![t] = Tail(@)] /\ t \in Sems
      BY <1>1, <2>1
    <3> HIDE DEF t
    <3>2. /\ Waiting(s)' = IF s = t THEN Waiting(s) \ {Head(queue[t])} ELSE Waiting(s)
          /\ Head(queue[t]) \in Waiting(t) /\ Head(queue[t]) \in Procs
      BY <1>1, <3>1, WaiterLeaves
    <3> QED
      BY <2>1, <3>2
  <2>2. CASE ~takes
    <3>1. ctx'[p].at = "ready" /\ UNCHANGED queue
      BY <1>1, <2>2 DEF To
    <3>2. Waiting(s)' = Waiting(s)
      BY <1>1, <3>1, SameWaiting
    <3> QED
      BY <2>2, <3>2
  <2> QED
    BY <2>1, <2>2
<1>3. Waits(s)' = IF s = t /\ takes THEN Waits(s) - 1 ELSE Waits(s)
  <2>1. CASE s = t /\ takes
    <3>1. Cardinality(Waiting(s) \ {h}) = Cardinality(Waiting(s)) - 1
      BY <2>1, <1>2, <1>f, FS_RemoveElement
    <3> QED
      BY <2>1, <3>1, <1>2 DEF Waits
  <2>2. CASE ~(s = t /\ takes)
    BY <2>2, <1>2 DEF Waits
  <2> QED
    BY <2>1, <2>2
<1>4. /\ Grants(s)' = IF s = t /\ ctx[p].op # "semfree" THEN Grants(s) - 1 ELSE Grants(s)
      /\ ctx[p].op # "semfree" => p \in Dequeuers(t)
  <2>1. CASE ctx[p].op # "semfree"
    <3>1. /\ Dequeuers(s)' = IF s = t THEN Dequeuers(s) \ {p} ELSE Dequeuers(s)
          /\ p \in Dequeuers(t)
      BY <1>1, <2>1, DequeuerLeaves
    <3>2. s = t => Cardinality(Dequeuers(s) \ {p}) = Cardinality(Dequeuers(s)) - 1
      BY <3>1, <1>f, FS_RemoveElement
    <3> QED
      BY <2>1, <3>1, <3>2 DEF Grants
  <2>2. CASE ctx[p].op = "semfree"
    <3>1. ctx'[p].at # "dequeue"
      BY <1>1 DEF To
    <3>2. Dequeuers(s)' = Dequeuers(s)
      BY <1>1, <2>2, <3>1, SameDequeuers
    <3> QED
      BY <2>2, <3>2 DEF Grants
  <2> QED
    BY <2>1, <2>2
<1> HIDE DEF t, h, takes
<1> QED
  BY <1>1, <1>2, <1>3, <1>4 DEF t, h, takes

-----------------------------------------------------------------------------
(* The counts on one core *)

(* No semfree has s in its hands.                                          *)
Quiet(s) == \A p \in Procs : ~(ctx[p].op = "semfree" /\ ctx[p].sem = s)

(* The units that dequeues are about to hand out are there, and as long as *)
(* no signal guesses, each is owed to a waiter.                            *)
Balanced(s) ==
  /\ Grants(s) <= count[s] + Waits(s)
  /\ s \notin guessed => Waits(s) = Owed(s) + Grants(s)

UniInv ==
  /\ \A p \in Procs : ctx[p].at \notin Outside \cup {"asleep"} => semstate[ctx[p].sem] = "SUSED"
  /\ \A p \in Procs : ctx[p].at = "mark" => semstate[nextsem] = "SFREE"
  /\ \A p \in Procs : ctx[p].at = "fill" => semstate[nextsem] = "SUSED" /\ Waiting(nextsem) = {}
  /\ \A p \in Procs : ctx[p].at \in {"zero", "free"} => Waiting(ctx[p].sem) = {}
  /\ \A p \in Procs : ctx[p].at = "free" => count[ctx[p].sem] = 0
  /\ \A s \in Sems : semstate[s] = "SFREE" => Waiting(s) = {}
  /\ \A s \in Sems : Quiet(s) => Balanced(s)

(* The initial state.                                                      *)
LEMMA MatchingStart == Init => Matching
BY DEF Init, Matching, User, Creating

(* Nobody has dealings with a semaphore that semcreate has not returned.   *)
LEMMA UnknownIsFree ==
  ASSUME TypeOK, OnKnown, NEW s \in Sems, s \notin known
  PROVE  /\ Waiting(s) = ToSet(queue[s])
         /\ Grants(s) = 0
<1>1. \A p \in Procs : ctx[p].sem = s => ctx[p].at \in Outside
  BY DEF OnKnown
<1>2. Dequeuers(s) = {}
  BY <1>1 DEF Dequeuers, Outside
<1>3. {p \in Procs : ctx[p].sem = s /\ ctx[p].at \in {"suspend", "enqueue"}} = {}
  BY <1>1 DEF Outside
<1> QED
  BY <1>2, <1>3, FS_EmptySet DEF Grants, Waiting

(* The counts are numbers.                                                 *)
LEMMA TallyTypes ==
  ASSUME TypeOK, NEW s \in Sems
  PROVE  /\ Grants(s) \in Nat /\ Waits(s) \in Nat /\ count[s] \in Int /\ Owed(s) \in Nat
         /\ Owed(s) = IF count[s] < 0 THEN -count[s] ELSE 0
BY WaitingFinite DEF Grants, Waits, Owed, TypeOK

(* An empty queue holds nobody.                                            *)
LEMMA Empty == ToSet(<<>>) = {}
BY DEF ToSet

(* The initial state.                                                      *)
LEMMA SmpStart == Init => SmpInv
<1> SUFFICES ASSUME Init PROVE SmpInv
  OBVIOUS
<1>1. known = {} /\ \A p \in Procs : ctx[p].at = "user"
  BY DEF Init, User
<1>2. \A s \in Sems : queue[s] = <<>>
  BY DEF Init
<1> QED
  BY <1>1, <1>2 DEF SmpInv

(* Every step, on several cores.                                           *)
LEMMA SmpStep ==
  ASSUME TypeOK, OnKnown, Placement, Matching, ManyCores, SmpInv, [Next]_vars, TypeOK'
  PROVE  SmpInv'
<1>t. /\ semstate \in [Sems -> {"SFREE", "SUSED"}] /\ count \in [Sems -> Int]
      /\ queue \in [Sems -> Seq(Procs)] /\ nextsem \in Sems /\ known \subseteq Sems
      /\ known' \subseteq Sems /\ nextsem' \in Sems
  BY DEF TypeOK
<1>s. /\ \A s \in known : semstate[s] = "SUSED"
      /\ \A p \in Procs : ctx[p].at = "mark" => semstate[nextsem] = "SFREE"
      /\ \A p \in Procs : ctx[p].at = "fill" => semstate[nextsem] = "SUSED" /\ nextsem \notin known
      /\ \A s \in Sems \ known : queue[s] = <<>>
      /\ \A s \in known : Grants(s) + Owed(s) <= Waits(s)
  BY DEF SmpInv
(* A step that leaves the semaphores and the sets of processes alone.      *)
<1>a. ASSUME NEW p \in Procs, NEW step, From(p, step), step # "fill",
             UNCHANGED <<semstate, nextsem, known>>,
             ctx'[p].at # "fill", ctx'[p].at = "mark" => semstate[nextsem] = "SFREE",
             \A s \in Sems \ known : queue'[s] = queue[s],
             \A s \in known : Grants(s)' + Owed(s)' <= Waits(s)'
      PROVE  SmpInv'
  BY <1>a, <1>s, <1>t DEF SmpInv, From
<1>b. ASSUME NEW s \in Sems, Waiting(s)' = Waiting(s), Dequeuers(s)' = Dequeuers(s),
             count'[s] = count[s]
      PROVE  Grants(s)' = Grants(s) /\ Waits(s)' = Waits(s) /\ Owed(s)' = Owed(s)
  BY <1>b DEF Grants, Waits, Owed
<1>1. ASSUME NEW p \in Procs, Calling(p) PROVE SmpInv'
  <2>1. /\ From(p, "user") /\ UNCHANGED <<semstate, count, queue, nextsem, known>>
        /\ ctx' = ctx \/ ctx'[p].at \in {"count", "nonempty", "next"}
    BY <1>1, CallingDoes DEF Begun, semtab
  <2>2. \A s \in known : Grants(s)' + Owed(s)' <= Waits(s)'
    BY <1>1, <2>1, <1>s, <1>t, <1>b, SetsStay
  <2>3. ctx'[p].at \notin {"fill", "mark"}
    BY <2>1 DEF From
  <2> QED
    BY <2>1, <2>2, <2>3, <1>a
<1>2. ASSUME NEW p \in Procs, Kernel(p) PROVE SmpInv'
  <2>o. ctx[p].op # "semfree" /\ ctx[p].op # "signal"
    BY DEF Matching, ManyCores
  <2>m. ctx[p].at \notin {"nonempty", "zero", "free"}
    BY <2>o DEF Matching
  <2>1. CASE \/ Suspend(p) \/ WaitResched(p) \/ Awake(p) \/ Ready(p) \/ Enlist(p)
             \/ SemallocLook(p)
    <3>1. /\ UNCHANGED <<semstate, count, queue, nextsem, known>>
          /\ \E step : From(p, step) /\ step # "fill"
          /\ ctx'[p].at # "fill" /\ (ctx'[p].at = "mark" => semstate[nextsem] = "SFREE")
      BY <2>1, Does DEF semtab, To, Back, Around
    <3>2. \A s \in known : Grants(s)' + Owed(s)' <= Waits(s)'
      BY <2>1, <3>1, <1>s, <1>t, <1>b, SetsStay
    <3> QED
      BY <3>1, <3>2, <1>a
  <2>2. CASE Enqueue(p)
    <3>1. /\ UNCHANGED <<semstate, count, nextsem, known>> /\ From(p, "enqueue")
          /\ ctx'[p].at = "resched" /\ ctx[p].sem \in Sems
          /\ queue' = [queue EXCEPT ![ctx[p].sem] = Append(@, p)]
      BY <2>2, Does DEF To
    <3>2. ctx[p].sem \in known
      BY <3>1 DEF From, OnKnown, Outside
    <3>3. \A s \in Sems \ known : queue'[s] = queue[s]
      BY <3>1, <3>2, <1>t
    <3>4. \A s \in known : Grants(s)' + Owed(s)' <= Waits(s)'
      BY <2>2, <3>1, <1>s, <1>t, <1>b, SetsStay
    <3> QED
      BY <3>1, <3>3, <3>4, <1>a
  <2>3. CASE CountDown(p)
    <3>1. /\ UNCHANGED <<semstate, queue, nextsem, known>> /\ From(p, "count")
          /\ ctx'[p].at \in {"suspend", "user"}
      BY <2>3, Does DEF To, Back
    <3>2. ASSUME NEW s \in known PROVE Grants(s)' + Owed(s)' <= Waits(s)'
      <4>1. s \in Sems /\ Grants(s) + Owed(s) <= Waits(s)
        BY <1>s, <1>t
      <4>2. Grants(s)' = Grants(s)
        BY <2>3, <4>1, CountDownSets
      <4>3. Waits(s)' = IF s = ctx[p].sem /\ count[s] - 1 < 0 THEN Waits(s) + 1 ELSE Waits(s)
        BY <2>3, <4>1, CountDownSets
      <4>4. count'[s] = IF s = ctx[p].sem THEN count[s] - 1 ELSE count[s]
        BY <2>3, <4>1, CountDownSets
      <4>5. Owed(s)' = IF count'[s] < 0 THEN -count'[s] ELSE 0
        BY DEF Owed
      <4> QED
        BY <4>1, <4>2, <4>3, <4>4, <4>5, TallyTypes
    <3> QED
      BY <3>1, <3>2, <1>a
  <2>4. CASE CountUp(p)
    <3>1. /\ UNCHANGED <<semstate, queue, nextsem, known>> /\ From(p, "count")
          /\ ctx'[p].at \in {"dequeue", "count", "nonempty", "user"}
          /\ IF count[ctx[p].sem] + 1 <= 0 THEN ctx'[p].at = "dequeue" ELSE ctx'[p].at # "dequeue"
      BY <2>4, <2>o, Does DEF To, Back, Around
    <3>2. ASSUME NEW s \in known PROVE Grants(s)' + Owed(s)' <= Waits(s)'
      <4>1. s \in Sems /\ Grants(s) + Owed(s) <= Waits(s)
        BY <1>s, <1>t
      <4>2. Grants(s)' = IF s = ctx[p].sem /\ ctx'[p].at = "dequeue" THEN Grants(s) + 1 ELSE Grants(s)
        BY <2>4, <4>1, CountUpSets
      <4>3. Waits(s)' = Waits(s)
        BY <2>4, <4>1, CountUpSets
      <4>4. count'[s] = IF s = ctx[p].sem THEN count[s] + 1 ELSE count[s]
        BY <2>4, <4>1, CountUpSets
      <4>5. Owed(s)' = IF count'[s] < 0 THEN -count'[s] ELSE 0
        BY DEF Owed
      <4> QED
        BY <3>1, <4>1, <4>2, <4>3, <4>4, <4>5, TallyTypes
    <3> QED
      BY <3>1, <3>2, <1>a
  <2>5. CASE Dequeue(p)
    <3>1. /\ UNCHANGED <<semstate, count, nextsem, known>> /\ From(p, "dequeue")
          /\ ctx'[p].at = "ready" /\ ctx[p].sem \in Sems
          /\ queue' = queue \/ queue' = [queue EXCEPT ![ctx[p].sem] = Tail(@)]
      BY <2>5, Does DEF To
    <3>2. ctx[p].sem \in known
      BY <3>1 DEF From, OnKnown, Outside
    <3>3. \A s \in Sems \ known : queue'[s] = queue[s]
      BY <3>1, <3>2, <1>t
    <3>4. ASSUME NEW s \in known PROVE Grants(s)' + Owed(s)' <= Waits(s)'
      <4>1. s \in Sems /\ Grants(s) + Owed(s) <= Waits(s)
        BY <1>s, <1>t
      <4>2. Grants(s)' = IF s = ctx[p].sem THEN Grants(s) - 1 ELSE Grants(s)
        BY <2>5, <2>o, <4>1, DequeueSets
      <4>3. Waits(s)' = IF s = ctx[p].sem /\ queue[ctx[p].sem] # <<>> THEN Waits(s) - 1 ELSE Waits(s)
        BY <2>5, <4>1, DequeueSets
      <4>4. Owed(s)' = Owed(s)
        BY <3>1 DEF Owed
      <4> QED
        BY <4>1, <4>2, <4>3, <4>4, TallyTypes
    <3> QED
      BY <3>1, <3>3, <3>4, <1>a
  <2>6. CASE SemallocNext(p) \/ SemallocMark(p) \/ SemcreateFill(p)
    <3>0. \A q \in Procs : ctx[q].at \in Creating => q = p
      <4>1. ctx[p].at \in Creating
        BY <2>6, Does DEF From, Creating
      <4> QED
        BY <4>1, OneCreator
    <3>1. \A q \in Procs : q # p => ctx'[q] = ctx[q]
      BY <2>6, Does DEF From
    <3>2. \A q \in Procs : q # p => ctx'[q].at \notin {"mark", "fill"}
      BY <3>0, <3>1 DEF Creating
    <3>3. CASE SemallocNext(p)
      <4>1. /\ UNCHANGED <<semstate, count, queue, known>>
            /\ ctx'[p].at \in {"look", "user"}
        BY <3>3, Does DEF semtab, To, Back
      <4>2. \A s \in known : Grants(s)' + Owed(s)' <= Waits(s)'
        BY <3>3, <4>1, <1>s, <1>t, <1>b, SetsStay
      <4> QED
        BY <4>1, <4>2, <3>2, <1>s DEF SmpInv
    <3>4. CASE SemallocMark(p)
      <4>1. /\ UNCHANGED <<count, queue, known, nextsem>> /\ ctx[p].at = "mark"
            /\ ctx'[p].at = "fill" /\ semstate' = [semstate EXCEPT ![nextsem] = "SUSED"]
        BY <3>4, Does DEF semtab, To, From
      <4>2. nextsem \notin known
        BY <4>1, <1>s
      <4>3. \A s \in known : Grants(s)' + Owed(s)' <= Waits(s)'
        BY <3>4, <4>1, <1>s, <1>t, <1>b, SetsStay
      <4>4. /\ \A s \in known : semstate'[s] = "SUSED"
            /\ semstate'[nextsem] = "SUSED"
        BY <4>1, <1>s, <1>t
      <4> QED
        BY <4>1, <4>2, <4>3, <4>4, <3>2, <1>s DEF SmpInv
    <3>5. CASE SemcreateFill(p)
      <4>1. /\ UNCHANGED <<semstate, queue, nextsem>> /\ ctx[p].at = "fill"
            /\ ctx'[p].at = "user" /\ known' = known \cup {nextsem} /\ ctx[p].n \in Nat
            /\ count' = [count EXCEPT ![nextsem] = ctx[p].n]
        BY <3>5, Does DEF semtab, Back, From
      <4>2. nextsem \notin known /\ semstate[nextsem] = "SUSED"
        BY <4>1, <1>s
      <4>3. ASSUME NEW s \in known' PROVE Grants(s)' + Owed(s)' <= Waits(s)'
        <5>1. CASE s = nextsem
          <6>1. /\ Waits(s) = 0 /\ Grants(s) = 0
            BY <4>2, <5>1, <1>s, <1>t, UnknownIsFree, Empty, FS_EmptySet DEF Waits
          <6>2. Waits(s)' = Waits(s) /\ Grants(s)' = Grants(s)
            BY <5>1, <1>t, <3>5, SetsStay DEF Waits, Grants
          <6>3. Owed(s)' = 0
            BY <5>1, <4>1, <1>t DEF Owed
          <6> QED
            BY <6>1, <6>2, <6>3
        <5>2. CASE s # nextsem
          <6>1. s \in known /\ count'[s] = count[s]
            BY <5>2, <4>1, <1>t
          <6> QED
            BY <6>1, <3>5, <1>s, <1>t, <1>b, SetsStay
        <5> QED
          BY <5>1, <5>2
      <4> QED
        BY <4>1, <4>2, <4>3, <3>2, <1>s, <1>t DEF SmpInv
    <3> QED
      BY <2>6, <3>3, <3>4, <3>5
  <2>7. ~Nonempty(p) /\ ~Zero(p) /\ ~Free(p)
    BY <2>m, Does DEF From
  <2> QED
    BY <1>2, <2>1, <2>2, <2>3, <2>4, <2>5, <2>6, <2>7 DEF Kernel
<1>3. ASSUME NEW c \in Cores, Preempt(c) PROVE SmpInv'
  <2>1. UNCHANGED <<semstate, count, queue, nextsem, known, ctx>>
    BY <1>3 DEF Preempt, semtab
  <2>2. \A s \in known : Grants(s)' + Owed(s)' <= Waits(s)'
    BY <2>1, <1>s DEF Grants, Waits, Owed, Waiting, Dequeuers
  <2> QED
    BY <2>1, <2>2, <1>s DEF SmpInv
<1>4. ASSUME UNCHANGED vars \/ Stopped \/ \E p \in Procs : Meet(p) PROVE SmpInv'
  <2>1. UNCHANGED <<semstate, count, queue, nextsem, known, ctx>>
    BY <1>4 DEF vars, Stopped, Meet, semtab
  <2>2. \A s \in known : Grants(s)' + Owed(s)' <= Waits(s)'
    BY <2>1, <1>s DEF Grants, Waits, Owed, Waiting, Dequeuers
  <2> QED
    BY <2>1, <2>2, <1>s DEF SmpInv
<1> QED
  BY <1>1, <1>2, <1>3, <1>4 DEF Next

(* On one core, only the process that runs is in a call, but for sleepers. *)
LEMMA OthersIdle ==
  ASSUME NCORES = 1, Placement, NEW p, NEW step, From(p, step), NEW q \in Procs, q # p
  PROVE  ctx[q].at \in {"user", "asleep"} /\ ctx'[q] = ctx[q]
<1>1. ~Running(q)
  <2>1. Cores = {0} /\ Affinity[p] \in Cores /\ Affinity[q] \in Cores
    BY ReadyListsAssumption DEF Cores, From
  <2> QED
    BY <2>1 DEF From, Running
<1> QED
  BY <1>1 DEF Placement, Called, From

(* The initial state.                                                      *)
LEMMA UniStart == Init => UniInv
<1> SUFFICES ASSUME Init PROVE UniInv
  OBVIOUS
<1>1. \A p \in Procs : ctx[p].at = "user"
  BY DEF Init, User
<1>2. \A s \in Sems : Waiting(s) = {} /\ Dequeuers(s) = {} /\ count[s] = 0
  BY <1>1, Empty DEF Init, Waiting, Dequeuers
<1>3. \A s \in Sems : Balanced(s)
  BY <1>2, FS_EmptySet DEF Balanced, Grants, Waits, Owed
<1> QED
  BY <1>1, <1>2, <1>3 DEF UniInv, Outside

(* A semaphore that a step does not count stays balanced.                  *)
LEMMA BalancedStays ==
  ASSUME NEW s, Balanced(s), Grants(s)' = Grants(s), Waits(s)' = Waits(s), count'[s] = count[s],
         s \in guessed => s \in guessed'
  PROVE  Balanced(s)'
<1>1. Owed(s)' = Owed(s)
  BY DEF Owed
<1> QED
  BY <1>1 DEF Balanced

(* What UniInv says of the process that runs, the others being idle.       *)
Phase(p) ==
  LET at == ctx[p].at
      s  == ctx[p].sem
  IN  /\ at \notin Outside \cup {"asleep"} => semstate[s] = "SUSED"
      /\ at = "mark" => semstate[nextsem] = "SFREE"
      /\ at = "fill" => semstate[nextsem] = "SUSED" /\ Waiting(nextsem) = {}
      /\ at \in {"zero", "free"} => Waiting(s) = {}
      /\ at = "free" => count[s] = 0

(* So a step has to be checked for the process that makes it only.         *)
LEMMA PhaseSuffices ==
  ASSUME NCORES = 1, Placement, NEW p \in Procs, NEW step, From(p, step), Phase(p)',
         \A s \in Sems : semstate'[s] = "SFREE" => Waiting(s)' = {},
         \A s \in Sems : Quiet(s)' => Balanced(s)'
  PROVE  UniInv'
<1>1. \A q \in Procs : q # p => ctx'[q].at \in {"user", "asleep"}
  BY OthersIdle
<1>2. ASSUME NEW q \in Procs PROVE Phase(q)'
  <2>1. CASE q = p
    BY <2>1
  <2>2. CASE q # p
    BY <1>1, <2>2 DEF Phase, Outside
  <2> QED
    BY <2>1, <2>2
<1> QED
  BY <1>2 DEF UniInv, Phase

(* Every step, on one core.                                                *)
LEMMA UniStep ==
  ASSUME NCORES = 1, TypeOK, OnKnown, Placement, Matching, UniInv, [Next]_vars
  PROVE  UniInv'
<1>t. /\ semstate \in [Sems -> {"SFREE", "SUSED"}] /\ count \in [Sems -> Int]
      /\ queue \in [Sems -> Seq(Procs)] /\ nextsem \in Sems
  BY DEF TypeOK
<1>p. ASSUME NEW p \in Procs PROVE Phase(p)
  BY DEF UniInv, Phase
<1>s. /\ \A s \in Sems : semstate[s] = "SFREE" => Waiting(s) = {}
      /\ \A s \in Sems : Quiet(s) => Balanced(s)
  BY DEF UniInv
<1>i. ASSUME NEW p, NEW step, From(p, step), NEW q \in Procs, q # p
      PROVE  ctx[q].at \in {"user", "asleep"} /\ ctx'[q] = ctx[q] /\ ctx[q].op # "semfree"
  BY <1>i, OthersIdle DEF Matching
<1>q. ASSUME NEW p, NEW step, From(p, step), ctx[p].op # "semfree", NEW s PROVE Quiet(s)
  BY <1>q, <1>i DEF Quiet
<1>b. ASSUME NEW s \in Sems, Waiting(s)' = Waiting(s), Dequeuers(s)' = Dequeuers(s)
      PROVE  Grants(s)' = Grants(s) /\ Waits(s)' = Waits(s)
  BY <1>b DEF Grants, Waits
<1>1. ASSUME NEW p \in Procs, Calling(p) PROVE UniInv'
  <2>1. /\ From(p, "user") /\ UNCHANGED <<semstate, count, queue, nextsem, guessed>>
        /\ \/ ctx' = ctx
           \/ ctx'[p].at = "next"
           \/ ctx'[p].at \in {"count", "nonempty"} /\ semstate[ctx'[p].sem] = "SUSED"
    BY <1>1, CallingDoes DEF Begun, semtab
  <2>2. \A s \in Sems : Waiting(s)' = Waiting(s) /\ Dequeuers(s)' = Dequeuers(s)
    BY <1>1, SetsStay
  <2>3. \A s \in Sems : Balanced(s)'
    <3> SUFFICES ASSUME NEW s \in Sems PROVE Balanced(s)'
      OBVIOUS
    <3>1. Balanced(s)
      <4>1. ctx[p].op # "semfree"
        BY <2>1 DEF From, Matching
      <4> QED
        BY <2>1, <4>1, <1>q, <1>s
    <3> QED
      BY <3>1, <2>1, <2>2, <1>b, BalancedStays
  <2>4. Phase(p)'
    <3>1. ctx[p].at = "user"
      BY <2>1 DEF From
    <3> QED
      BY <2>1, <3>1 DEF Phase, Outside
  <2> QED
    BY <2>1, <2>2, <2>3, <2>4, <1>s, PhaseSuffices
<1>2. ASSUME NEW p \in Procs, Kernel(p) PROVE UniInv'
  <2> DEFINE s == ctx[p].sem
  <2>k. Phase(p)
    BY <1>p
  <2>1. CASE \/ Suspend(p) \/ Enqueue(p) \/ WaitResched(p) \/ Awake(p) \/ Ready(p) \/ Enlist(p)
             \/ SemallocNext(p) \/ SemallocLook(p)
    <3>1. /\ UNCHANGED <<semstate, count, guessed>>
          /\ \E step : From(p, step)
      BY <2>1, Does DEF semtab
    <3>2. \A t \in Sems : Waiting(t)' = Waiting(t) /\ Dequeuers(t)' = Dequeuers(t)
      BY <2>1, SetsStay
    <3>3. \A t \in Sems : Quiet(t)' => Balanced(t)'
      <4> SUFFICES ASSUME NEW t \in Sems, Quiet(t)' PROVE Balanced(t)'
        OBVIOUS
      <4>1. Balanced(t)
        <5>1. ctx[p].op = "semfree" => ctx'[p].op = ctx[p].op /\ ctx'[p].sem = ctx[p].sem
          BY <2>1, Does DEF To, Around, From, Matching, Creating
        <5>2. Quiet(t)
          BY <5>1, <3>1, <1>i DEF Quiet
        <5> QED
          BY <5>2, <1>s
      <4> QED
        BY <4>1, <3>1, <3>2, <1>b, BalancedStays
    <3>4. Phase(p)'
      <4>1. /\ ctx'[p].at = "mark" => UNCHANGED nextsem /\ semstate[nextsem] = "SFREE"
            /\ ctx'[p].at \notin {"fill", "zero", "free"}
        BY <2>1, Does DEF To, Back, Around, semtab
      <4>2. ctx'[p].at \notin Outside \cup {"asleep"} => semstate[ctx'[p].sem] = "SUSED"
        BY <2>1, <2>k, <1>t, Does DEF To, Back, Around, Phase, Outside, From
      <4> QED
        BY <4>1, <4>2, <3>1 DEF Phase
    <3> QED
      BY <3>1, <3>2, <3>3, <3>4, <1>s, PhaseSuffices
  <2>2. CASE CountDown(p)
    <3>1. /\ UNCHANGED <<semstate, queue, nextsem, guessed>> /\ From(p, "count")
          /\ ctx[p].op = "wait" /\ s \in Sems /\ ctx'[p].at \in {"suspend", "user"}
          /\ ctx'[p].at = "suspend" => ctx'[p].sem = s
      BY <2>2, Does DEF To, Back
    <3>2. semstate[s] = "SUSED"
      BY <2>k, <3>1 DEF Phase, From, Outside
    <3>3. ASSUME NEW t \in Sems PROVE Balanced(t)'
      <4>0. Balanced(t)
        BY <3>1, <1>q, <1>s
      <4>1. Grants(t)' = Grants(t)
        BY <2>2, CountDownSets
      <4>2. Waits(t)' = IF t = s /\ count[t] - 1 < 0 THEN Waits(t) + 1 ELSE Waits(t)
        BY <2>2, CountDownSets
      <4>3. count'[t] = IF t = s THEN count[t] - 1 ELSE count[t]
        BY <2>2, CountDownSets
      <4>4. Owed(t)' = IF count'[t] < 0 THEN -count'[t] ELSE 0
        BY DEF Owed
      <4>5. Grants(t) = 0
        <5>1. Dequeuers(t) = {}
          <6>1. \A q \in Procs : ctx[q].at # "dequeue"
            BY <3>1, <1>i DEF From
          <6> QED
            BY <6>1 DEF Dequeuers
        <5> QED
          BY <5>1, FS_EmptySet DEF Grants
      <4>6. /\ Grants(t) <= count[t] + Waits(t)
            /\ t \notin guessed => Waits(t) = Owed(t) + Grants(t)
        BY <4>0 DEF Balanced
      <4> HIDE DEF s
      <4>7. /\ Grants(t)' <= count'[t] + Waits(t)'
            /\ t \notin guessed => Waits(t)' = Owed(t)' + Grants(t)'
        BY <4>1, <4>2, <4>3, <4>4, <4>5, <4>6, TallyTypes
      <4> QED
        BY <4>7, <3>1 DEF Balanced
    <3>4. ASSUME NEW t \in Sems, semstate'[t] = "SFREE" PROVE Waiting(t)' = {}
      <4>1. t # s /\ Waiting(t) = {}
        BY <3>1, <3>2, <3>4, <1>s
      <4> QED
        BY <4>1, <2>2, CountDownSets
    <3>5. Phase(p)'
      BY <3>1, <3>2 DEF Phase, Outside
    <3> QED
      BY <3>1, <3>3, <3>4, <3>5, PhaseSuffices
  <2>3. CASE CountUp(p)
    <3>0. ctx[p].op # "semfree" /\ ctx[p].op # "wait"
      BY <2>3, Does DEF From, Matching
    <3>1. /\ UNCHANGED <<semstate, queue, nextsem>> /\ From(p, "count") /\ s \in Sems
          /\ guessed' = IF ctx[p].op = "signal" THEN guessed \cup {s} ELSE guessed
          /\ ctx'[p].at \in {"dequeue", "count", "user"}
          /\ ctx'[p].at # "user" => ctx'[p].sem = s
          /\ ctx[p].op # "signal" =>
               IF count[s] + 1 <= 0 THEN ctx'[p].at = "dequeue" ELSE ctx'[p].at # "dequeue"
      BY <2>3, <3>0, Does DEF To, Back, Around
    <3>2. semstate[s] = "SUSED"
      BY <2>k, <3>1 DEF Phase, From, Outside
    <3>3. ASSUME NEW t \in Sems PROVE Balanced(t)'
      <4>0. Balanced(t)
        BY <3>0, <3>1, <1>q, <1>s
      <4>1. Grants(t)' = IF t = s /\ ctx'[p].at = "dequeue" THEN Grants(t) + 1 ELSE Grants(t)
        BY <2>3, CountUpSets
      <4>2. Waits(t)' = Waits(t)
        BY <2>3, CountUpSets
      <4>3. count'[t] = IF t = s THEN count[t] + 1 ELSE count[t]
        BY <2>3, CountUpSets
      <4>4. Owed(t)' = IF count'[t] < 0 THEN -count'[t] ELSE 0
        BY DEF Owed
      <4>6. /\ Grants(t) <= count[t] + Waits(t)
            /\ t \notin guessed => Waits(t) = Owed(t) + Grants(t)
        BY <4>0 DEF Balanced
      <4> HIDE DEF s
      <4>7. t \notin guessed' => t \notin guessed /\ (t = s => ctx[p].op # "signal")
        BY <3>1
      <4>8. /\ Grants(t)' <= count'[t] + Waits(t)'
            /\ t \notin guessed' => Waits(t)' = Owed(t)' + Grants(t)'
        BY <3>1, <4>1, <4>2, <4>3, <4>4, <4>6, <4>7, TallyTypes
      <4> QED
        BY <4>8 DEF Balanced
    <3>4. ASSUME NEW t \in Sems, semstate'[t] = "SFREE" PROVE Waiting(t)' = {}
      BY <3>1, <3>4, <1>s, <2>3, CountUpSets
    <3>5. Phase(p)'
      BY <3>1, <3>2 DEF Phase, Outside
    <3> QED
      BY <3>1, <3>3, <3>4, <3>5, PhaseSuffices
  <2>4. CASE Dequeue(p)
    <3>1. /\ UNCHANGED <<semstate, count, nextsem, guessed>> /\ From(p, "dequeue") /\ s \in Sems
          /\ ctx'[p].at = "ready" /\ ctx'[p].sem = s /\ ctx'[p].op = ctx[p].op
      BY <2>4, Does DEF To
    <3>2. semstate[s] = "SUSED"
      BY <2>k, <3>1 DEF Phase, From, Outside
    <3>3. ASSUME NEW t \in Sems, Quiet(t)' PROVE Balanced(t)'
      <4>q. Quiet(t)
        BY <3>3, <3>1, <1>i DEF Quiet
      <4>0. Balanced(t)
        BY <4>q, <1>s
      <4>1. Grants(t)' = IF t = s /\ ctx[p].op # "semfree" THEN Grants(t) - 1 ELSE Grants(t)
        BY <2>4, DequeueSets
      <4>2. Waits(t)' = IF t = s /\ queue[s] # <<>> THEN Waits(t) - 1 ELSE Waits(t)
        BY <2>4, DequeueSets
      <4>4. Owed(t)' = Owed(t)
        BY <3>1 DEF Owed
      <4>5. t = s => ctx[p].op # "semfree"
        BY <4>q DEF Quiet
      <4>6. /\ Grants(t) <= count[t] + Waits(t)
            /\ t \notin guessed => Waits(t) = Owed(t) + Grants(t)
        BY <4>0 DEF Balanced
      <4>7. queue[s] = <<>> => Waits(s) = 0
        <5>1. {q \in Procs : ctx[q].sem = s /\ ctx[q].at \in {"suspend", "enqueue"}} = {}
          BY <3>1, <1>i DEF From
        <5> QED
          BY <5>1, Empty, FS_EmptySet DEF Waits, Waiting
      <4>8. t = s => Grants(t) >= 1
        <5> SUFFICES ASSUME t = s PROVE Grants(t) >= 1
          OBVIOUS
        <5>1. p \in Dequeuers(s)
          BY <2>4, <4>5, DequeueSets
        <5>2. IsFiniteSet(Dequeuers(s)) /\ Dequeuers(s) # {}
          BY <3>1, <5>1, WaitingFinite
        <5>3. Grants(s) # 0 /\ Grants(s) \in Nat
          BY <5>2, FS_EmptySet, <3>1, WaitingFinite DEF Grants
        <5> QED
          BY <5>3
      <4> HIDE DEF s
      <4>9. /\ Grants(t)' <= count[t] + Waits(t)'
            /\ t \notin guessed => Waits(t)' = Owed(t)' + Grants(t)'
        BY <3>1, <4>1, <4>2, <4>4, <4>5, <4>6, <4>7, <4>8, TallyTypes
      <4> QED
        BY <4>9, <3>1 DEF Balanced
    <3>4. ASSUME NEW t \in Sems, semstate'[t] = "SFREE" PROVE Waiting(t)' = {}
      <4>1. t # s /\ Waiting(t) = {}
        BY <3>1, <3>2, <3>4, <1>s
      <4> QED
        BY <4>1, <2>4, DequeueSets
    <3>5. Phase(p)'
      BY <3>1, <3>2 DEF Phase, Outside
    <3> QED
      BY <3>1, <3>3, <3>4, <3>5, PhaseSuffices
  <2>5. CASE Nonempty(p) \/ Zero(p)
    <3>1. /\ UNCHANGED <<semstate, queue, nextsem, guessed>> /\ s \in Sems
          /\ ctx[p].op = "semfree" /\ ctx'[p].op = "semfree" /\ ctx'[p].sem = s
          /\ ctx[p].at \in {"nonempty", "zero"} /\ ctx'[p].at \in {"dequeue", "zero", "free"}
          /\ ctx'[p].at = "zero" => queue[s] = <<>>
          /\ ctx'[p].at = "free" => ctx[p].at = "zero" /\ count'[s] = 0
          /\ \A t \in Sems : t # s => count'[t] = count[t]
          /\ \E step : From(p, step)
      BY <2>5, <1>t, Does DEF To, semtab, From, Matching
    <3>2. \A t \in Sems : Waiting(t)' = Waiting(t) /\ Dequeuers(t)' = Dequeuers(t)
      BY <2>5, SetsStay
    <3>3. ASSUME NEW t \in Sems, Quiet(t)' PROVE Balanced(t)'
      <4>1. t # s /\ Quiet(t)
        BY <3>3, <3>1, <1>i DEF Quiet
      <4> QED
        BY <4>1, <3>1, <3>2, <1>b, <1>s, BalancedStays
    <3>4. queue[s] = <<>> => Waiting(s) = {}
      <4>1. {q \in Procs : ctx[q].sem = s /\ ctx[q].at \in {"suspend", "enqueue"}} = {}
        BY <3>1, <1>i
      <4> QED
        BY <4>1, Empty DEF Waiting
    <3>5. Phase(p)'
      BY <3>1, <3>2, <3>4, <2>k DEF Phase, Outside
    <3> QED
      BY <3>1, <3>2, <3>3, <3>5, <1>s, PhaseSuffices
  <2>6. CASE Free(p)
    <3>1. /\ UNCHANGED <<count, queue, nextsem>> /\ s \in Sems /\ From(p, "free")
          /\ ctx'[p].at = "user" /\ semstate' = [semstate EXCEPT ![s] = "SFREE"]
          /\ guessed' = guessed \ {s}
      BY <2>6, Does DEF Back
    <3>2. \A t \in Sems : Waiting(t)' = Waiting(t) /\ Dequeuers(t)' = Dequeuers(t)
      BY <2>6, SetsStay
    <3>z. Waiting(s) = {} /\ count[s] = 0
      BY <2>k, <3>1 DEF Phase, From
    <3>3. ASSUME NEW t \in Sems, Quiet(t)' PROVE Balanced(t)'
      <4>1. CASE t = s
        <5>1. Dequeuers(s) = {}
          BY <3>1, <1>i DEF Dequeuers, From
        <5>2. Dequeuers(t)' = {} /\ Waiting(t)' = {} /\ count'[t] = 0
          BY <5>1, <4>1, <3>1, <3>2, <3>z
        <5>3. Grants(t)' = 0 /\ Waits(t)' = 0 /\ Owed(t)' = 0
          BY <5>2, FS_EmptySet DEF Grants, Waits, Owed
        <5> QED
          BY <5>2, <5>3 DEF Balanced
      <4>2. CASE t # s
        <5>1. Quiet(t)
          BY <3>1, <4>2, <1>i DEF Quiet
        <5> QED
          BY <5>1, <4>2, <3>1, <3>2, <1>b, <1>s, BalancedStays
      <4> QED
        BY <4>1, <4>2
    <3>4. ASSUME NEW t \in Sems, semstate'[t] = "SFREE" PROVE Waiting(t)' = {}
      BY <3>1, <3>2, <3>4, <3>z, <1>s, <1>t
    <3>5. Phase(p)'
      BY <3>1 DEF Phase, Outside
    <3> QED
      BY <3>1, <3>3, <3>4, <3>5, PhaseSuffices
  <2>7. CASE SemallocMark(p)
    <3>1. /\ UNCHANGED <<count, queue, nextsem, guessed>> /\ From(p, "mark")
          /\ ctx'[p].at = "fill" /\ semstate' = [semstate EXCEPT ![nextsem] = "SUSED"]
      BY <2>7, Does DEF To
    <3>0. ctx[p].op # "semfree"
      BY <3>1 DEF From, Matching, Creating
    <3>2. \A t \in Sems : Waiting(t)' = Waiting(t) /\ Dequeuers(t)' = Dequeuers(t)
      BY <2>7, SetsStay
    <3>3. ASSUME NEW t \in Sems PROVE Balanced(t)'
      BY <3>0, <3>1, <3>2, <1>b, <1>q, <1>s, BalancedStays
    <3>4. ASSUME NEW t \in Sems, semstate'[t] = "SFREE" PROVE Waiting(t)' = {}
      BY <3>1, <3>2, <3>4, <1>s, <1>t
    <3>5. Phase(p)'
      <4>1. semstate[nextsem] = "SFREE"
        BY <2>k, <3>1 DEF Phase, From
      <4>2. \A t \in Sems : t = nextsem => Waiting(t)' = {}
        BY <4>1, <3>2, <1>s
      <4> QED
        BY <4>2, <3>1, <1>t DEF Phase, Outside
    <3> QED
      BY <3>1, <3>3, <3>4, <3>5, PhaseSuffices
  <2>8. CASE SemcreateFill(p)
    <3>1. /\ UNCHANGED <<semstate, queue, nextsem, guessed>> /\ From(p, "fill")
          /\ ctx'[p].at = "user" /\ ctx[p].n \in Nat
          /\ count' = [count EXCEPT ![nextsem] = ctx[p].n]
      BY <2>8, Does DEF Back
    <3>0. ctx[p].op # "semfree"
      BY <3>1 DEF From, Matching, Creating
    <3>2. \A t \in Sems : Waiting(t)' = Waiting(t) /\ Dequeuers(t)' = Dequeuers(t)
      BY <2>8, SetsStay
    <3>z. Waiting(nextsem) = {}
      BY <2>k, <3>1 DEF Phase, From
    <3>3. ASSUME NEW t \in Sems PROVE Balanced(t)'
      <4>1. CASE t = nextsem
        <5>1. Dequeuers(t) = {}
          BY <3>1, <1>i DEF Dequeuers, From
        <5>2. Dequeuers(t)' = {} /\ Waiting(t)' = {} /\ count'[t] \in Nat
          BY <5>1, <4>1, <3>1, <3>2, <3>z, <1>t
        <5>3. Grants(t)' = 0 /\ Waits(t)' = 0 /\ Owed(t)' = 0
          BY <5>2, FS_EmptySet DEF Grants, Waits, Owed
        <5> QED
          BY <5>2, <5>3 DEF Balanced
      <4>2. CASE t # nextsem
        BY <4>2, <3>0, <3>1, <3>2, <1>b, <1>q, <1>s, BalancedStays
      <4> QED
        BY <4>1, <4>2
    <3>5. Phase(p)'
      BY <3>1 DEF Phase, Outside
    <3> QED
      BY <3>1, <3>2, <3>3, <3>5, <1>s, PhaseSuffices
  <2> QED
    BY <1>2, <2>1, <2>2, <2>3, <2>4, <2>5, <2>6, <2>7, <2>8 DEF Kernel
<1>3. ASSUME UNCHANGED <<semstate, count, queue, nextsem, guessed, ctx>> PROVE UniInv'
  <2>1. ASSUME NEW s \in Sems
        PROVE  Waiting(s)' = Waiting(s) /\ Grants(s)' = Grants(s) /\ Waits(s)' = Waits(s) /\ Owed(s)' = Owed(s)
    BY <1>3 DEF Grants, Waits, Owed, Waiting, Dequeuers
  <2>2. \A s \in Sems : Quiet(s)' => Balanced(s)'
    BY <2>1, <1>3, <1>s DEF Quiet, Balanced
  <2>3. /\ \A p \in Procs : ctx'[p].at = "fill" => semstate'[nextsem'] = "SUSED" /\ Waiting(nextsem)' = {}
        /\ \A p \in Procs : ctx'[p].at \in {"zero", "free"} => Waiting(ctx[p].sem)' = {}
    <3>1. \A s : Waiting(s)' = Waiting(s)
      BY <1>3 DEF Waiting
    <3> QED
      BY <3>1, <1>3 DEF UniInv
  <2> QED
    BY <2>1, <2>2, <2>3, <1>3 DEF UniInv
<1>4. ASSUME NEW c \in Cores, Preempt(c) PROVE UniInv'
  BY <1>3, <1>4 DEF Preempt, semtab
<1>5. ASSUME UNCHANGED vars \/ Stopped \/ \E p \in Procs : Meet(p) PROVE UniInv'
  BY <1>3, <1>5 DEF vars, Stopped, Meet, semtab
<1> QED
  BY <1>1, <1>2, <1>4, <1>5 DEF Next

-----------------------------------------------------------------------------
(* The calls implement CountingSemaphores *)

(* What either discipline, several cores without signal and semfree or one *)
(* core with them, gives the refinement.                                   *)
Disciplined ==
  /\ \A p, q \in Procs : ctx[p].at \in Creating /\ ctx[q].at \in Creating => p = q
  /\ \A p, q \in Procs : /\ p \in Freers /\ Running(p)
                         => q = p \/ ctx[q].at \in {"user", "asleep"}
  /\ \A p \in Procs : \/ ctx[p].at = "count"
                      \/ ctx[p].at = "dequeue" /\ ctx[p].op # "semfree"
                      => ctx[p].sem \in Open
  /\ \A p \in Procs : ctx[p].at = "mark" => semstate[nextsem] = "SFREE"
  /\ \A p \in Procs : ctx[p].at = "fill" =>
       semstate[nextsem] = "SUSED" /\ Waiting(nextsem) = {} /\ Quiet(nextsem)
  /\ \A s \in Open : Grants(s) <= count[s] + Waits(s)

(* Several cores.                                                          *)
LEMMA SmpDisciplined ==
  ASSUME TypeOK, OnKnown, Placement, Matching, ManyCores, SmpInv
  PROVE  Disciplined
<1>1. \A p, q \in Procs : ctx[p].at \in Creating /\ ctx[q].at \in Creating => p = q
  BY OneCreator
<1>2. \A p \in Procs : p \notin Freers /\ ctx[p].op # "semfree"
  BY DEF ManyCores, Matching
<1>3. \A s : Quiet(s)
  BY <1>2 DEF Quiet
<1>4. \A s \in known : s \in Open
  BY <1>2 DEF SmpInv, Open
<1>5. \A p \in Procs : ctx[p].at \in {"count", "dequeue"} => ctx[p].sem \in Open
  BY <1>4 DEF OnKnown, Outside
<1>6. ASSUME NEW p \in Procs, ctx[p].at = "fill"
      PROVE  semstate[nextsem] = "SUSED" /\ Waiting(nextsem) = {}
  <2>1. semstate[nextsem] = "SUSED" /\ nextsem \notin known /\ nextsem \in Sems /\ queue[nextsem] = <<>>
    BY <1>6 DEF SmpInv, TypeOK
  <2> QED
    BY <2>1, UnknownIsFree, Empty
<1>7. ASSUME NEW s \in Open PROVE Grants(s) <= count[s] + Waits(s)
  <2>1. s \in known /\ s \in Sems
    BY DEF Open, TypeOK
  <2>2. Grants(s) + Owed(s) <= Waits(s)
    BY <2>1 DEF SmpInv
  <2> QED
    BY <2>1, <2>2, TallyTypes
<1> QED
  BY <1>1, <1>2, <1>3, <1>5, <1>6, <1>7 DEF Disciplined, SmpInv

(* One core.                                                               *)
LEMMA UniDisciplined ==
  ASSUME NCORES = 1, TypeOK, OnKnown, Placement, Matching, UniInv
  PROVE  Disciplined
<1>0. ASSUME NEW p \in Procs, Running(p), NEW q \in Procs, q # p
      PROVE  ctx[q].at \in {"user", "asleep"} /\ ctx[q].op # "semfree"
  <2>1. ~Running(q)
    <3>1. Cores = {0} /\ Affinity[p] \in Cores /\ Affinity[q] \in Cores
      BY ReadyListsAssumption DEF Cores
    <3> QED
      BY <3>1, <1>0 DEF Running
  <2> QED
    BY <2>1 DEF Placement, Called, Matching
<1>1. ASSUME NEW p \in Procs, ctx[p].at \notin {"user", "asleep"} PROVE Running(p)
  BY <1>1 DEF Placement, Called
<1>2. ASSUME NEW p \in Procs, Running(p), ctx[p].op # "semfree", NEW s
      PROVE  Quiet(s)
  BY <1>2, <1>0 DEF Quiet
<1>3. \A p, q \in Procs : ctx[p].at \in Creating /\ ctx[q].at \in Creating => p = q
  BY <1>0, <1>1 DEF Creating
<1>4. ASSUME NEW p \in Procs, ctx[p].at = "count" \/ (ctx[p].at = "dequeue" /\ ctx[p].op # "semfree")
      PROVE  ctx[p].sem \in Open
  <2>1. ctx[p].sem \in known
    BY <1>4 DEF OnKnown, Outside
  <2>2. semstate[ctx[p].sem] = "SUSED"
    BY <1>4 DEF UniInv, Outside
  <2>3. Running(p) /\ ctx[p].op # "semfree" /\ ctx[p].at # "fill"
    BY <1>4, <1>1 DEF Matching
  <2>4. \A q \in Procs : ctx[q].op # "semfree" /\ ctx[q].at # "fill"
    BY <2>3, <1>0
  <2> QED
    BY <2>1, <2>2, <2>4 DEF Open
<1>5. ASSUME NEW p \in Procs, ctx[p].at = "fill"
      PROVE  semstate[nextsem] = "SUSED" /\ Waiting(nextsem) = {} /\ Quiet(nextsem)
  <2>1. Running(p) /\ ctx[p].op # "semfree"
    BY <1>5, <1>1 DEF Matching, Creating
  <2> QED
    BY <1>5, <2>1, <1>2 DEF UniInv
<1>6. ASSUME NEW s \in Open PROVE Grants(s) <= count[s] + Waits(s)
  <2>1. s \in Sems /\ Quiet(s)
    BY DEF Open, TypeOK, Quiet
  <2> QED
    BY <2>1 DEF UniInv, Balanced
<1>7. \A p \in Procs : ctx[p].at = "mark" => semstate[nextsem] = "SFREE"
  BY DEF UniInv
<1> QED
  BY <1>0, <1>3, <1>4, <1>5, <1>6, <1>7 DEF Disciplined

(* The units and the waiters that the abstract specification sees.         *)
Unit(s) == IF s \in Open THEN count[s] + Waits(s) ELSE 0
Units   == [s \in Sems |-> Unit(s)]
Waiters == [s \in Sems |-> Waiting(s)]

(* The initial state.                                                      *)
LEMMA AbstractStart == Init => Abstract!Init
<1> SUFFICES ASSUME Init PROVE Abstract!Init
  OBVIOUS
<1>1. \A p \in Procs : ctx[p].at = "user"
  BY DEF Init, User
<1>2. \A s \in Sems : Waiting(s) = {}
  BY <1>1, Empty DEF Init, Waiting
<1>3. Open = {}
  BY DEF Init, Open
<1> QED
  BY <1>2, <1>3 DEF Abstract!Init

(* What the users of a semaphore do not see.                               *)
LEMMA AbstractStutters ==
  ASSUME Open' = Open, \A s \in Sems : Waiting(s)' = Waiting(s),
         \A s \in Open : count'[s] = count[s]
  PROVE  UNCHANGED Abstract!vars
<1>1. Waiters' = Waiters
  BY DEF Waiters
<1>2. Units' = Units
  BY DEF Units, Unit, Waits
<1> QED
  BY <1>1, <1>2 DEF Abstract!vars, Waiters, Units, Unit, Waits

(* Steps that open and close no semaphore.                                 *)
LEMMA OpenStays ==
  ASSUME NEW p, NEW step, From(p, step), UNCHANGED <<semstate, known>>,
         step # "fill", ctx'[p].at # "fill",
         nextsem' = nextsem \/ \A q \in Procs : ctx[q].at # "fill",
         ctx'[p].op = "semfree" <=> ctx[p].op = "semfree",
         ctx'[p].op = "semfree" => ctx'[p].sem = ctx[p].sem
  PROVE  Open' = Open
<1>1. ASSUME NEW q \in Procs
      PROVE  /\ ctx'[q].op = "semfree" <=> ctx[q].op = "semfree"
             /\ ctx'[q].op = "semfree" => ctx'[q].sem = ctx[q].sem
             /\ ctx'[q].at = "fill" <=> ctx[q].at = "fill"
  BY DEF From
<1>2. ASSUME NEW s
      PROVE  s \in Open' <=> s \in Open
  BY <1>1 DEF Open
<1> QED
  BY <1>2

(* A semaphore that a step leaves alone stays open or closed.              *)
LEMMA SameOpen ==
  ASSUME UNCHANGED nextsem, NEW s, s \in known' <=> s \in known,
         s \in known => (semstate'[s] = "SUSED" <=> semstate[s] = "SUSED"),
         \A q \in Procs : /\ (ctx'[q].op = "semfree" /\ ctx'[q].sem = s)
                             <=> (ctx[q].op = "semfree" /\ ctx[q].sem = s)
                          /\ (ctx'[q].at = "fill" /\ nextsem = s)
                             <=> (ctx[q].at = "fill" /\ nextsem = s)
  PROVE  s \in Open' <=> s \in Open
<1> DEFINE Bars(q) == (ctx[q].op = "semfree" /\ ctx[q].sem = s) \/ (ctx[q].at = "fill" /\ nextsem = s)
<1>1. \A q \in Procs : Bars(q)' <=> Bars(q)
  OBVIOUS
<1>2. s \in Open <=> s \in known /\ semstate[s] = "SUSED" /\ \A q \in Procs : ~Bars(q)
  BY DEF Open
<1>3. s \in Open' <=> s \in known' /\ semstate'[s] = "SUSED" /\ \A q \in Procs : ~Bars(q)'
  BY DEF Open
<1> HIDE DEF Bars
<1> QED
  BY <1>1, <1>2, <1>3

(* The steps of calls by which no semaphore changes for its users.         *)
LEMMA KernelStutters ==
  ASSUME TypeOK, OnKnown, Placement, Matching, Disciplined, NEW p \in Procs,
         \/ Suspend(p) \/ Enqueue(p) \/ WaitResched(p) \/ Awake(p) \/ Ready(p) \/ Enlist(p)
         \/ Nonempty(p) \/ Zero(p) \/ Free(p)
         \/ SemallocNext(p) \/ SemallocLook(p) \/ SemallocMark(p)
  PROVE  UNCHANGED Abstract!vars
<1>w. \A s \in Sems : Waiting(s)' = Waiting(s)
  BY SetsStay
<1>t. semstate \in [Sems -> {"SFREE", "SUSED"}] /\ nextsem \in Sems /\ known \subseteq Sems
      /\ count \in [Sems -> Int]
  BY DEF TypeOK
<1>1. CASE Suspend(p) \/ Enqueue(p) \/ WaitResched(p) \/ Awake(p) \/ Ready(p) \/ Enlist(p)
           \/ Nonempty(p) \/ SemallocLook(p)
  <2>1. /\ UNCHANGED <<semstate, count, nextsem, known>> /\ ctx'[p].at # "fill"
        /\ \E step : From(p, step) /\ step # "fill"
    BY <1>1, Does DEF semtab, To, Back, Around
  <2>2. /\ ctx'[p].op = "semfree" <=> ctx[p].op = "semfree"
        /\ ctx'[p].op = "semfree" => ctx'[p].sem = ctx[p].sem
    BY <1>1, Does DEF To, Back, Around, From, Matching, Creating
  <2>3. Open' = Open
    BY <2>1, <2>2, OpenStays
  <2> QED
    BY <2>1, <2>3, <1>w, AbstractStutters
<1>2. CASE Zero(p)
  <2>1. /\ UNCHANGED <<semstate, nextsem, known>> /\ ctx'[p].at = "free" /\ From(p, "zero")
        /\ ctx'[p].op = ctx[p].op /\ ctx'[p].sem = ctx[p].sem
        /\ count' = [count EXCEPT ![ctx[p].sem] = 0]
    BY <1>2, Does DEF To
  <2>2. Open' = Open
    BY <2>1, OpenStays
  <2>3. ctx[p].sem \notin Open
    BY <2>1 DEF From, Matching, Open
  <2>4. \A s \in Open : count'[s] = count[s]
    BY <2>1, <2>3, <1>t DEF Open
  <2> QED
    BY <2>2, <2>4, <1>w, AbstractStutters
<1>3. CASE Free(p)
  <2>1. /\ UNCHANGED <<count, nextsem, known>> /\ ctx'[p].at = "user" /\ ctx'[p].op = "none"
        /\ From(p, "free") /\ semstate' = [semstate EXCEPT ![ctx[p].sem] = "SFREE"]
        /\ ctx[p].sem \in Sems
    BY <1>3, Does DEF Back
  <2>2. ctx[p].op = "semfree"
    BY <2>1 DEF From, Matching
  <2>3. ASSUME NEW s PROVE s \in Open' <=> s \in Open
    <3>1. CASE s = ctx[p].sem
      BY <3>1, <2>1, <2>2, <1>t DEF Open
    <3>2. CASE s # ctx[p].sem
      <4>1. \A q \in Procs : /\ (ctx'[q].op = "semfree" /\ ctx'[q].sem = s)
                                <=> (ctx[q].op = "semfree" /\ ctx[q].sem = s)
                             /\ (ctx'[q].at = "fill" /\ nextsem = s)
                                <=> (ctx[q].at = "fill" /\ nextsem = s)
        BY <2>1, <3>2 DEF From
      <4>2. s \in known => semstate'[s] = semstate[s]
        BY <2>1, <3>2, <1>t
      <4> QED
        BY <4>1, <4>2, <2>1, SameOpen
    <3> QED
      BY <3>1, <3>2
  <2>4. Open' = Open
    BY <2>3
  <2> QED
    BY <2>1, <2>4, <1>w, AbstractStutters
<1>4. CASE SemallocNext(p)
  <2>1. /\ UNCHANGED <<semstate, count, known>> /\ ctx'[p].at # "fill" /\ From(p, "next")
        /\ ctx'[p].op # "semfree" /\ ctx[p].op # "semfree"
    BY <1>4, Does DEF semtab, To, Back, From, Matching, Creating
  <2>2. \A q \in Procs : ctx[q].at # "fill"
    BY <2>1 DEF Disciplined, From, Creating
  <2>3. Open' = Open
    BY <2>1, <2>2, OpenStays
  <2> QED
    BY <2>1, <2>3, <1>w, AbstractStutters
<1>5. CASE SemallocMark(p)
  <2>1. /\ UNCHANGED <<count, nextsem, known>> /\ ctx'[p].at = "fill" /\ From(p, "mark")
        /\ ctx'[p].op # "semfree" /\ ctx[p].op # "semfree"
        /\ semstate' = [semstate EXCEPT ![nextsem] = "SUSED"]
    BY <1>5, Does DEF To, From, Matching, Creating
  <2>2. semstate[nextsem] = "SFREE"
    BY <2>1 DEF Disciplined, From
  <2>3. ASSUME NEW s PROVE s \in Open' <=> s \in Open
    <3>1. CASE s = nextsem
      BY <3>1, <2>1, <2>2 DEF Open
    <3>2. CASE s # nextsem
      <4>1. \A q \in Procs : (ctx'[q].op = "semfree" /\ ctx'[q].sem = s)
                            <=> (ctx[q].op = "semfree" /\ ctx[q].sem = s)
        BY <2>1 DEF From
      <4>2. s \in known => semstate'[s] = semstate[s]
        BY <2>1, <3>2, <1>t
      <4> QED
        BY <4>1, <4>2, <2>1, <3>2 DEF Open
    <3> QED
      BY <3>1, <3>2
  <2>4. Open' = Open
    BY <2>3
  <2> QED
    BY <2>1, <2>4, <1>w, AbstractStutters
<1> QED
  BY <1>1, <1>2, <1>3, <1>4, <1>5

(* The steps of calls that an abstract one stands for.                     *)
LEMMA CountDownImplements ==
  ASSUME TypeOK, OnKnown, Placement, Matching, Disciplined, NEW p \in Procs, CountDown(p)
  PROVE  \E s \in Sems : Abstract!Acquire(s) \/ Abstract!Block(s, p)
<1>0. PICK s \in Sems : s = ctx[p].sem
  BY Does
<1>1. /\ UNCHANGED <<semstate, nextsem, known>> /\ From(p, "count") /\ s \in Sems
      /\ ctx'[p].at \in {"suspend", "user"} /\ ctx[p].op = "wait" /\ ctx'[p].op # "semfree"
  BY <1>0, Does DEF To, Back
<1>2. Open' = Open
  BY <1>1, OpenStays
<1>3. s \in Open
  BY <1>0, <1>1 DEF Disciplined, From
<1>4. ASSUME NEW t \in Sems
      PROVE  /\ Waiting(t)' = IF t = s /\ count[t] - 1 < 0 THEN Waiting(t) \cup {p} ELSE Waiting(t)
             /\ Waits(t)' = IF t = s /\ count[t] - 1 < 0 THEN Waits(t) + 1 ELSE Waits(t)
             /\ count'[t] = IF t = s THEN count[t] - 1 ELSE count[t]
             /\ p \notin Waiting(t)
  BY <1>0, <1>1, CountDownSets, CallerWaitsNowhere
<1>5. CASE count[s] - 1 < 0
  <2>1. Waiters' = [Waiters EXCEPT ![s] = @ \cup {p}]
    BY <1>1, <1>4, <1>5 DEF Waiters
  <2>2. \A t \in Sems : Unit(t)' = Unit(t)
    BY <1>2, <1>4, <1>5, TallyTypes DEF Unit
  <2>3. Units' = Units
    BY <2>2 DEF Units
  <2>4. Abstract!Block(s, p)
    BY <1>2, <1>3, <1>4, <2>1, <2>3 DEF Abstract!Block, Waiters, Units, Unit, Waits
  <2> QED
    BY <2>4
<1>6. CASE ~(count[s] - 1 < 0)
  <2>1. Waiters' = Waiters
    BY <1>1, <1>4, <1>6 DEF Waiters
  <2>2. /\ \A t \in Sems : Unit(t)' = IF t = s THEN Unit(t) - 1 ELSE Unit(t)
        /\ Unit(s) > 0
    BY <1>2, <1>3, <1>4, <1>6, TallyTypes DEF Unit
  <2>3. Units' = [Units EXCEPT ![s] = @ - 1] /\ Units[s] > 0
    BY <2>2 DEF Units
  <2>4. Abstract!Acquire(s)
    BY <1>2, <1>3, <2>1, <2>3 DEF Abstract!Acquire, Abstract!Take, Waiters, Units, Unit, Waits
  <2> QED
    BY <2>4
<1> QED
  BY <1>5, <1>6

(* A unit is signalled when count goes up.                                 *)
LEMMA CountUpImplements ==
  ASSUME TypeOK, OnKnown, Placement, Matching, Disciplined, NEW p \in Procs, CountUp(p)
  PROVE  \E s \in Sems : Abstract!Signal(s)
<1>0. PICK s \in Sems : s = ctx[p].sem
  BY Does
<1>o. ctx[p].op # "semfree"
  BY Does DEF From, Matching
<1>1. /\ UNCHANGED <<semstate, nextsem, known>> /\ From(p, "count") /\ s \in Sems
      /\ ctx'[p].at # "fill" /\ ctx'[p].op # "semfree"
  BY <1>o, Does DEF To, Back, Around
<1>2. Open' = Open
  BY <1>o, <1>1, OpenStays
<1>3. s \in Open
  BY <1>0, <1>1 DEF Disciplined, From
<1>4. ASSUME NEW t \in Sems
      PROVE  /\ Waiting(t)' = Waiting(t)
             /\ count'[t] = IF t = s THEN count[t] + 1 ELSE count[t]
  BY <1>0, CountUpSets
<1>5. Waiters' = Waiters
  BY <1>4 DEF Waiters
<1>6. \A t \in Sems : Unit(t)' = IF t = s THEN Unit(t) + 1 ELSE Unit(t)
  <2>1. ASSUME NEW t \in Sems PROVE Waits(t)' = Waits(t)
    BY <1>4 DEF Waits
  <2> QED
    BY <1>2, <1>3, <1>4, <2>1, TallyTypes DEF Unit
<1>7. Units' = [Units EXCEPT ![s] = @ + 1]
  BY <1>6 DEF Units
<1>8. Abstract!Signal(s)
  BY <1>2, <1>3, <1>5, <1>7 DEF Abstract!Signal, Waiters, Units, Unit, Waits
<1> QED
  BY <1>8

(* A dequeue grants a unit to a waiter, or lets it go because of semfree.  *)
LEMMA DequeueImplements ==
  ASSUME TypeOK, OnKnown, Placement, Matching, Disciplined, NEW p \in Procs, Dequeue(p)
  PROVE  \/ UNCHANGED Abstract!vars
         \/ \E s \in Sems : \E q \in Procs : Abstract!Grant(s, q) \/ Abstract!Release(s, q)
<1>0. PICK s \in Sems : s = ctx[p].sem
  BY Does
<1> DEFINE h == Head(queue[s])
<1>1. /\ UNCHANGED <<semstate, nextsem, known, count>> /\ From(p, "dequeue") /\ s \in Sems
      /\ ctx'[p].at = "ready" /\ ctx'[p].op = ctx[p].op /\ ctx'[p].sem = s
  BY <1>0, Does DEF To
<1>2. Open' = Open
  BY <1>0, <1>1, OpenStays
<1>4. ASSUME NEW t \in Sems
      PROVE  /\ Waiting(t)' = IF t = s /\ queue[s] # <<>> THEN Waiting(t) \ {h} ELSE Waiting(t)
             /\ Waits(t)' = IF t = s /\ queue[s] # <<>> THEN Waits(t) - 1 ELSE Waits(t)
             /\ queue[s] # <<>> => h \in Waiting(s) /\ h \in Procs
             /\ ctx[p].op # "semfree" => p \in Dequeuers(s)
  BY <1>0, DequeueSets
<1>5. CASE queue[s] = <<>>
  BY <1>1, <1>2, <1>4, <1>5, AbstractStutters
<1>6. CASE queue[s] # <<>>
  <2>1. Waiters' = [Waiters EXCEPT ![s] = @ \ {h}] /\ h \in Waiters[s] /\ h \in Procs
    BY <1>1, <1>4, <1>6 DEF Waiters
  <2>2. CASE ctx[p].op = "semfree"
    <3>1. s \notin Open
      BY <2>2, <1>0 DEF Open
    <3> HIDE DEF h
    <3>2. Units' = Units
      <4>1. \A t \in Sems : Unit(t)' = Unit(t)
        BY <1>1, <1>2, <1>4, <3>1 DEF Unit
      <4> QED
        BY <4>1 DEF Units
    <3>3. Abstract!Release(s, h)
      BY <1>2, <2>1, <3>1, <3>2 DEF Abstract!Release, Abstract!Leave, Waiters, Units, Unit, Waits
    <3> QED
      BY <2>1, <3>3
  <2>3. CASE ctx[p].op # "semfree"
    <3>1. s \in Open
      BY <2>3, <1>0, <1>1 DEF Disciplined, From
    <3>2. Grants(s) <= count[s] + Waits(s)
      BY <3>1 DEF Disciplined
    <3>3. Grants(s) >= 1
      <4>1. IsFiniteSet(Dequeuers(s)) /\ Dequeuers(s) # {}
        BY <1>1, <1>4, <2>3, WaitingFinite
      <4>2. Grants(s) # 0 /\ Grants(s) \in Nat
        BY <4>1, FS_EmptySet, <1>1, WaitingFinite DEF Grants
      <4> QED
        BY <4>2
    <3>4. count[s] + Waits(s) > 0 /\ count[s] \in Int /\ Waits(s) \in Nat
      BY <1>1, <3>2, <3>3, TallyTypes
    <3> HIDE DEF h
    <3>5. Units' = [Units EXCEPT ![s] = @ - 1] /\ Units[s] > 0
      <4>1. /\ \A t \in Sems : Unit(t)' = IF t = s THEN Unit(t) - 1 ELSE Unit(t)
            /\ Unit(s) > 0
        BY <1>1, <1>2, <1>4, <1>6, <3>1, <3>4, TallyTypes DEF Unit
      <4> QED
        BY <4>1 DEF Units
    <3>6. Abstract!Grant(s, h)
      BY <1>2, <2>1, <3>1, <3>5
         DEF Abstract!Grant, Abstract!Leave, Abstract!Take, Waiters, Units, Unit, Waits
    <3> QED
      BY <2>1, <3>6
  <2> QED
    BY <2>2, <2>3
<1> QED
  BY <1>5, <1>6

(* semcreate creates when it has filled the entry.                         *)
LEMMA FillImplements ==
  ASSUME TypeOK, OnKnown, Placement, Matching, Disciplined, NEW p \in Procs, SemcreateFill(p)
  PROVE  \E s \in Sems : Abstract!Create(s)
<1>0. PICK new \in Sems : new = nextsem
  BY DEF TypeOK
<1>1. /\ UNCHANGED <<semstate, nextsem>> /\ From(p, "fill") /\ ctx[p].n \in Nat
      /\ ctx'[p].at = "user" /\ ctx'[p].op = "none" /\ known' = known \cup {nextsem}
      /\ count' = [count EXCEPT ![nextsem] = ctx[p].n]
  BY Does DEF Back
<1>2. /\ nextsem \in Sems /\ semstate[nextsem] = "SUSED" /\ Waiting(nextsem) = {} /\ Quiet(nextsem)
  BY <1>1 DEF Disciplined, From, TypeOK
<1>3. \A q \in Procs : q # p => ctx[q].at # "fill"
  BY <1>1 DEF Disciplined, From, Creating
<1>4. nextsem \notin Open
  BY <1>1 DEF Open, From
<1>5. ASSUME NEW s PROVE s \in Open' <=> (s \in Open \/ s = nextsem)
  <2>1. \A q \in Procs : /\ ctx'[q].at # "fill"
                         /\ (ctx'[q].op = "semfree" /\ ctx'[q].sem = s)
                            <=> (ctx[q].op = "semfree" /\ ctx[q].sem = s)
    BY <1>1, <1>3 DEF From, Matching, Creating
  <2>2. CASE s = nextsem
    <3>1. \A q \in Procs : /\ ctx'[q].at # "fill"
                           /\ ~(ctx'[q].op = "semfree" /\ ctx'[q].sem = s)
      <4>1. ASSUME NEW q \in Procs PROVE ~(ctx[q].op = "semfree" /\ ctx[q].sem = s)
        BY <1>2, <2>2 DEF Quiet
      <4> QED
        BY <2>1, <4>1
    <3>2. s \in known' /\ semstate'[s] = "SUSED"
      BY <1>1, <1>2, <2>2
    <3>3. s \in Open'
      BY <3>1, <3>2 DEF Open
    <3> QED
      BY <2>2, <3>3
  <2>3. CASE s # nextsem
    <3>1. s \in Open' <=> s \in Open
      BY <1>1, <2>1, <2>3, SameOpen
    <3> QED
      BY <2>3, <3>1
  <2> QED
    BY <2>2, <2>3
<1>6. Open' = Open \cup {nextsem}
  BY <1>5
<1>7. \A s \in Sems : Waiting(s)' = Waiting(s)
  BY SetsStay
<1>8. Waiters' = Waiters /\ Waiters[nextsem] = {}
  BY <1>2, <1>7 DEF Waiters
<1>9. Units' = [Units EXCEPT ![nextsem] = ctx[p].n] /\ Units'[nextsem] = ctx[p].n
  <2>1. \A s \in Sems : count'[s] = IF s = nextsem THEN ctx[p].n ELSE count[s]
    BY <1>1 DEF TypeOK
  <2>2. Units' = [s \in Sems |-> IF s = nextsem THEN ctx[p].n ELSE Units[s]]
    <3>1. Cardinality(Waiting(nextsem)) = 0 /\ ctx[p].n + 0 = ctx[p].n
      BY <1>1, <1>2, FS_EmptySet
    <3>2. \A s \in Sems : Unit(s)' = IF s = nextsem THEN ctx[p].n ELSE Unit(s)
      <4> SUFFICES ASSUME NEW s \in Sems
                   PROVE  Unit(s)' = IF s = nextsem THEN ctx[p].n ELSE Unit(s)
        OBVIOUS
      <4>1. Waits(s)' = Waits(s) /\ (s = nextsem => Waits(s) = 0)
        BY <1>7, <3>1 DEF Waits
      <4>2. s \in Open' <=> (s \in Open \/ s = nextsem)
        BY <1>6
      <4> QED
        BY <2>1, <3>1, <4>1, <4>2 DEF Unit
    <3> QED
      BY <3>2 DEF Units
  <2> QED
    BY <1>2, <2>2 DEF Units
<1> QED
  <2>1. Abstract!Create(new)
    BY <1>0, <1>1, <1>2, <1>4, <1>6, <1>8, <1>9 DEF Abstract!Create, Waiters, Units, Unit, Waits
  <2> QED
    BY <2>1

(* semfree frees when it is called.                                        *)
LEMMA CallImplements ==
  ASSUME TypeOK, OnKnown, Placement, Matching, Disciplined, NEW p \in Procs, Calling(p)
  PROVE  UNCHANGED Abstract!vars \/ \E s \in Sems : Abstract!Free(s)
<1>w. \A s \in Sems : Waiting(s)' = Waiting(s)
  BY SetsStay
<1>1. /\ From(p, "user") /\ UNCHANGED <<semstate, count, nextsem, known>>
      /\ \/ ctx' = ctx
         \/ ctx'[p].op # "semfree" /\ ctx'[p].at # "fill"
         \/ Begun(p, "semfree", "nonempty") /\ p \in Freers
  BY CallingDoes DEF semtab, Begun
<1>2. ctx[p].op # "semfree"
  BY <1>1 DEF From, Matching
<1>3. CASE ctx' = ctx
  <2>1. Open' = Open
    BY <1>1, <1>3 DEF Open
  <2> QED
    BY <1>1, <1>w, <2>1, AbstractStutters
<1>4. CASE ctx'[p].op # "semfree" /\ ctx'[p].at # "fill"
  <2>1. Open' = Open
    BY <1>1, <1>2, <1>4, OpenStays
  <2> QED
    BY <1>1, <1>w, <2>1, AbstractStutters
<1>5. CASE Begun(p, "semfree", "nonempty") /\ p \in Freers
  <2>1. PICK s : s = ctx'[p].sem
    OBVIOUS
  <2>2. s \in known /\ s \in Sems /\ semstate[s] = "SUSED" /\ ctx'[p].op = "semfree" /\ ctx'[p].at # "fill"
    BY <1>5, <2>1 DEF Begun, TypeOK
  <2>3. \A q \in Procs : ctx[q].op # "semfree" /\ ctx[q].at # "fill"
    BY <1>1, <1>2, <1>5 DEF Disciplined, From, Matching
  <2>4. s \in Open
    BY <2>2, <2>3 DEF Open
  <2>5. ASSUME NEW t PROVE t \in Open' <=> t \in Open /\ t # s
    BY <1>1, <2>1, <2>2, <2>3 DEF Open, From
  <2>6. Open' = Open \ {s}
    BY <2>5
  <2>7. Waiters' = Waiters
    BY <1>w DEF Waiters
  <2>8. Units' = [Units EXCEPT ![s] = 0]
    <3>1. \A t \in Sems : Unit(t)' = IF t = s THEN 0 ELSE Unit(t)
      BY <1>1, <1>w, <2>2, <2>6 DEF Unit, Waits
    <3> QED
      BY <3>1 DEF Units
  <2>9. Abstract!Free(s)
    BY <2>4, <2>6, <2>7, <2>8 DEF Abstract!Free, Waiters, Units, Unit, Waits
  <2> QED
    BY <2>2, <2>9
<1> QED
  BY <1>1, <1>3, <1>4, <1>5

(* Every step is a step of CountingSemaphores, or changes nothing in it.   *)
LEMMA AbstractStep ==
  ASSUME TypeOK, OnKnown, Placement, Matching, Disciplined, [Next]_vars
  PROVE  [Abstract!Next]_(Abstract!vars)
<1>1. ASSUME NEW p \in Procs, Calling(p) PROVE [Abstract!Next]_(Abstract!vars)
  BY <1>1, CallImplements DEF Abstract!Next
<1>2. ASSUME NEW p \in Procs, Kernel(p) PROVE [Abstract!Next]_(Abstract!vars)
  <2>1. CASE CountDown(p)
    BY <2>1, CountDownImplements DEF Abstract!Next
  <2>2. CASE CountUp(p)
    BY <2>2, CountUpImplements DEF Abstract!Next
  <2>3. CASE Dequeue(p)
    BY <2>3, DequeueImplements DEF Abstract!Next
  <2>4. CASE SemcreateFill(p)
    BY <2>4, FillImplements DEF Abstract!Next
  <2> QED
    BY <1>2, <2>1, <2>2, <2>3, <2>4, KernelStutters DEF Kernel
<1>3. ASSUME UNCHANGED <<semstate, count, queue, nextsem, known, ctx>>
      PROVE  UNCHANGED Abstract!vars
  <2>1. Open' = Open /\ \A s : Waiting(s)' = Waiting(s)
    BY <1>3 DEF Open, Waiting
  <2> QED
    BY <1>3, <2>1, AbstractStutters
<1>4. ASSUME NEW c \in Cores, Preempt(c) PROVE UNCHANGED Abstract!vars
  BY <1>3, <1>4 DEF Preempt, semtab
<1>5. ASSUME UNCHANGED vars \/ Stopped \/ \E p \in Procs : Meet(p) PROVE UNCHANGED Abstract!vars
  BY <1>3, <1>5 DEF vars, Stopped, Meet, semtab
<1> QED
  BY <1>1, <1>2, <1>4, <1>5 DEF Next

(* The length of a sequence without duplicates.                            *)
LEMMA LenIsCardinality ==
  ASSUME NEW S, NEW seq \in Seq(S), \A i, j \in DOMAIN seq : seq[i] = seq[j] => i = j
  PROVE  Cardinality(ToSet(seq)) = Len(seq)
<1>1. Len(seq) \in Nat /\ DOMAIN seq = 1 .. Len(seq) /\ seq \in [1 .. Len(seq) -> S]
  OBVIOUS
<1>2. seq \in Bijection(1 .. Len(seq), ToSet(seq))
  <2>1. seq \in [1 .. Len(seq) -> ToSet(seq)]
    BY <1>1 DEF ToSet
  <2>2. \A y \in ToSet(seq) : \E i \in 1 .. Len(seq) : seq[i] = y
    BY <1>1 DEF ToSet
  <2> QED
    BY <1>1, <2>1, <2>2 DEF Bijection, Injection, Surjection, IsInjective
<1>3. ExistsBijection(1 .. Len(seq), ToSet(seq))
  BY <1>2 DEF ExistsBijection
<1> QED
  BY <1>1, <1>3, FS_CountingElements

(* What UniInv says of a semaphore that no call is engaged with.           *)
LEMMA WaitersCount ==
  ASSUME TypeOK, Placement, Matching, UniInv
  PROVE  WaitersMatchCount /\ FreedKeepsNobody
<1>1. FreedKeepsNobody
  BY DEF UniInv, FreedKeepsNobody
<1>2. ASSUME NEW s \in known \ guessed, semstate[s] = "SUSED", ~Engaged(s)
      PROVE  Len(queue[s]) = Owed(s)
  <2>0. s \in Sems /\ queue[s] \in Seq(Procs)
    BY DEF TypeOK
  <2>1. \A p \in Procs : ctx[p].sem = s => ctx[p].at \in {"user", "resched", "asleep"}
    BY <1>2 DEF Engaged
  <2>2. Quiet(s)
    BY <2>1 DEF Quiet, Matching
  <2>3. Waits(s) = Owed(s) + Grants(s)
    BY <2>0, <2>2 DEF UniInv, Balanced
  <2>4. Grants(s) = 0
    <3>1. Dequeuers(s) = {}
      BY <2>1 DEF Dequeuers
    <3> QED
      BY <3>1, FS_EmptySet DEF Grants
  <2>5. Waits(s) = Len(queue[s])
    <3>1. {p \in Procs : ctx[p].sem = s /\ ctx[p].at \in {"suspend", "enqueue"}} = {}
      BY <2>1
    <3>2. Waiting(s) = ToSet(queue[s])
      BY <3>1 DEF Waiting
    <3>3. \A i, j \in DOMAIN queue[s] : queue[s][i] = queue[s][j] => i = j
      BY <2>0 DEF Placement, Exclusive, Apart, TypeOK
    <3> QED
      BY <2>0, <3>2, <3>3, LenIsCardinality DEF Waits
  <2> QED
    BY <2>0, <2>3, <2>4, <2>5, TallyTypes
<1> QED
  BY <1>1, <1>2 DEF WaitersMatchCount, Owed

(* Steps and operations match in every behaviour.                          *)
LEMMA MatchingAlways == Spec => []Matching
<1>1. Init => Matching
  BY MatchingStart
<1>2. PlaceInv /\ Matching /\ [Next]_vars => Matching'
  BY MatchingStep DEF PlaceInv
<1> QED
  BY <1>1, <1>2, PlaceInvariance, PTL DEF Spec

(* The inductive invariant of wait and signaln on several cores.           *)
THEOREM SmpInvariance == ASSUME ManyCores PROVE Spec => []SmpInv
<1>1. Init => SmpInv
  BY SmpStart
<1>2. PlaceInv /\ PlaceInv' /\ Matching /\ SmpInv /\ [Next]_vars => SmpInv'
  BY SmpStep DEF PlaceInv
<1> QED
  BY <1>1, <1>2, PlaceInvariance, MatchingAlways, PTL DEF Spec

(* The inductive invariant of all the calls on one core.                   *)
THEOREM UniInvariance == ASSUME NCORES = 1 PROVE Spec => []UniInv
<1>1. Init => UniInv
  BY UniStart
<1>2. PlaceInv /\ Matching /\ UniInv /\ [Next]_vars => UniInv'
  BY UniStep DEF PlaceInv
<1> QED
  BY <1>1, <1>2, PlaceInvariance, MatchingAlways, PTL DEF Spec

(* On several cores, wait and signaln hand out no unit that was not        *)
(* there, in whatever order their accesses to count and to the queue fall  *)
(* (wait.c, signaln.c).                                                    *)
THEOREM SmpNotOverdrawn == ASSUME ManyCores PROVE Spec => UnitsNotOverdrawn
<1>1. Init => Abstract!Init
  BY AbstractStart
<1>2. PlaceInv /\ Matching /\ SmpInv /\ [Next]_vars => [Abstract!Next]_(Abstract!vars)
  BY SmpDisciplined, AbstractStep DEF PlaceInv
<1> QED
  BY <1>1, <1>2, PlaceInvariance, MatchingAlways, SmpInvariance, PTL
     DEF Spec, UnitsNotOverdrawn, Abstract!Spec

(* On one core the same holds with signal and semfree, of a semaphore      *)
(* that is freed and created again included (signal.c, semfree.c).         *)
THEOREM UniNotOverdrawn == ASSUME NCORES = 1 PROVE Spec => UnitsNotOverdrawn
<1>1. Init => Abstract!Init
  BY AbstractStart
<1>2. PlaceInv /\ Matching /\ UniInv /\ [Next]_vars => [Abstract!Next]_(Abstract!vars)
  BY UniDisciplined, AbstractStep DEF PlaceInv
<1> QED
  BY <1>1, <1>2, PlaceInvariance, MatchingAlways, UniInvariance, PTL
     DEF Spec, UnitsNotOverdrawn, Abstract!Spec

(* On one core, between calls, a count below zero is the number of         *)
(* processes asleep in the queue, and nobody sleeps above (wait.c).        *)
THEOREM CountMatched == ASSUME NCORES = 1 PROVE Spec => []WaitersMatchCount
<1>1. PlaceInv /\ Matching /\ UniInv => WaitersMatchCount
  BY WaitersCount DEF PlaceInv
<1> QED
  BY <1>1, PlaceInvariance, MatchingAlways, UniInvariance, PTL

(* On one core semfree releases everybody before the entry is free again   *)
(* (semfree.c).                                                            *)
THEOREM FreedReleases == ASSUME NCORES = 1 PROVE Spec => []FreedKeepsNobody
<1>1. PlaceInv /\ Matching /\ UniInv => FreedKeepsNobody
  BY WaitersCount DEF PlaceInv
<1> QED
  BY <1>1, PlaceInvariance, MatchingAlways, UniInvariance, PTL
=============================================================================
