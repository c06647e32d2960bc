------------------------------ MODULE Semaphore ------------------------------
(***************************************************************************)
(* The semaphores of the xinu-hw9 kernel: wait.c, signal.c, signaln.c,     *)
(* semcreate.c and semfree.c, called by processes on several cores.        *)
(*                                                                         *)
(* The calls disable interrupts, so the process that makes one keeps its   *)
(* core until it returns or reschedules; nothing keeps the other cores off *)
(* semtab, so each access to it is a step of its own.  The operations on   *)
(* the queues of the semaphores, which have locks, are atomic (Queue opens *)
(* them up).                                                               *)
(***************************************************************************)
EXTENDS ReadyLists

CONSTANTS
  NSEM,
  Counts,      \* counts that programs pass to semcreate
  Batches,     \* counts that programs pass to signaln
  Creators, Signallers, Freers,  \* whose programs call semcreate, signal, semfree
  MaxCalls     \* bound: calls in a behaviour

Sems == 0 .. NSEM - 1

ASSUME SemaphoreAssumption ==
  /\ NSEM \in Nat \ {0}
  /\ Counts \subseteq Nat /\ Batches \subseteq Nat \ {0}
  /\ MaxCalls \in Nat

VARIABLES
  semstate, count, queue,      \* the fields of semtab
  nextsem,                     \* static variable of semalloc
  known,                       \* ids semcreate has returned
  guessed,                     \* history: semaphores that signal has counted up
  ctx,                         \* where each process is in its call
  calls                        \* calls so far (bounded)

semtab == <<semstate, count, queue>>
vars   == <<semtab, nextsem, known, guessed, sched, ctx, calls>>

Steps == {"user", "count", "suspend", "enqueue", "resched", "asleep", "dequeue", "ready", "enlist",
          "nonempty", "zero", "free", "next", "look", "mark", "fill"}

(* Where the call is, its semaphore, the count it was passed, how often its*)
(* loop may still run, and the process it dequeued.                        *)
Contexts == [op : {"none", "wait", "signal", "signaln", "semcreate", "semfree"}, at : Steps,
             sem : Sems \cup {SYSERR}, n : Nat, left : Nat, pid : Procs \cup {EMPTY}]
User     == [op |-> "none", at |-> "user", sem |-> SYSERR, n |-> 0, left |-> 0, pid |-> EMPTY]

Init ==
  /\ semstate = [s \in Sems |-> "SFREE"]
  /\ count = [s \in Sems |-> 0]
  /\ queue = [s \in Sems |-> <<>>]
  /\ nextsem = 0
  /\ known = {}
  /\ guessed = {}
  /\ SchedInit
  /\ ctx = [p \in Procs |-> User]
  /\ calls = 0

isbadsem(s) == s \notin Sems \/ semstate[s] = "SFREE"

-----------------------------------------------------------------------------
At(p, step) == ~torn /\ Running(p) /\ ctx[p].at = step
Goto(p, step) == ctx' = [ctx EXCEPT ![p].at = step]
Return(p) == ctx' = [ctx EXCEPT ![p] = User]

(* The clock ticks while a program runs, or the null process looks for one.*)
Preempt(c) ==
  /\ ~torn
  /\ currpid[c] # NullProc => ctx[currpid[c]].at = "user"
  /\ Resched(c)
  /\ UNCHANGED <<semtab, nextsem, known, guessed, ctx, calls>>

-----------------------------------------------------------------------------
(* Calls *)

Calls(p) == At(p, "user") /\ calls < MaxCalls /\ calls' = calls + 1

Call(p, op, s, n, left, step) ==
  ctx' = [ctx EXCEPT ![p] = [User EXCEPT !.op = op, !.at = step, !.sem = s, !.n = n, !.left = left]]

(* A bad semaphore makes these calls return SYSERR and change nothing.     *)
OnSem(p, op, s, left, step) ==
  /\ Calls(p)
  /\ s \in known
  /\ IF isbadsem(s) THEN UNCHANGED ctx ELSE Call(p, op, s, 0, left, step)
  /\ UNCHANGED <<semtab, nextsem, known, guessed, sched>>

Wait(p, s)       == OnSem(p, "wait", s, 0, "count")
Signal(p, s)     == p \in Signallers /\ OnSem(p, "signal", s, 1, "count")
Signaln(p, s, n) == OnSem(p, "signaln", s, n, "count")
Semfree(p, s)    == p \in Freers /\ OnSem(p, "semfree", s, 0, "nonempty")

Semcreate(p, n) ==
  /\ p \in Creators
  /\ Calls(p)
  /\ Call(p, "semcreate", SYSERR, n, NSEM, "next")
  /\ UNCHANGED <<semtab, nextsem, known, guessed, sched>>

-----------------------------------------------------------------------------
(* wait *)

CountDownLate(p) ==  \* mutant: one process more than there are units goes on
  /\ At(p, "count") /\ ctx[p].op = "wait"
  /\ count' = [count EXCEPT ![ctx[p].sem] = @ - 1]
  /\ IF count'[ctx[p].sem] < -1 THEN Goto(p, "suspend") ELSE Return(p)
  /\ UNCHANGED <<semstate, queue, nextsem, known, guessed, sched, calls>>

CountDown(p) ==
  /\ At(p, "count") /\ ctx[p].op = "wait"
  /\ count' = [count EXCEPT ![ctx[p].sem] = @ - 1]
  /\ IF count'[ctx[p].sem] < 0 THEN Goto(p, "suspend") ELSE Return(p)
  /\ UNCHANGED <<semstate, queue, nextsem, known, guessed, sched, calls>>

Suspend(p) ==
  /\ At(p, "suspend")
  /\ state' = [state EXCEPT ![p] = "PRSUSP"]
  /\ Goto(p, "enqueue")
  /\ UNCHANGED <<semtab, nextsem, known, guessed, currpid, readylist, torn, calls>>

Enqueue(p) ==
  /\ At(p, "enqueue")
  /\ queue' = [queue EXCEPT ![ctx[p].sem] = Append(@, p)]
  /\ Goto(p, "resched")
  /\ UNCHANGED <<semstate, count, nextsem, known, guessed, sched, calls>>

WaitResched(p) ==
  /\ At(p, "resched")
  /\ Resched(Affinity[p])
  /\ Goto(p, "asleep")
  /\ UNCHANGED <<semtab, nextsem, known, guessed, calls>>

Awake(p) ==
  /\ At(p, "asleep")
  /\ Return(p)
  /\ UNCHANGED <<semtab, nextsem, known, guessed, sched, calls>>

-----------------------------------------------------------------------------
(* signal, signaln *)

(* The loops of signaln and semfree after a turn that has woken a process  *)
(* or had none to wake; signal has no loop.                                *)
Turned(p) ==
  CASE ctx[p].op = "semfree" -> Goto(p, "nonempty")
    [] ctx[p].op # "semfree" /\ ctx[p].left > 1 ->
         ctx' = [ctx EXCEPT ![p].left = @ - 1, ![p].at = "count"]
    [] OTHER -> Return(p)

(* signal tests a variable it never assigned: either outcome is possible.  *)
Wakes(p) == IF ctx[p].op = "signal" THEN BOOLEAN ELSE {count[ctx[p].sem] + 1 <= 0}

CountUpStrict(p) ==  \* mutant: c < 0 in place of c <= 0
  /\ At(p, "count") /\ ctx[p].op # "wait"
  /\ count' = [count EXCEPT ![ctx[p].sem] = @ + 1]
  /\ IF count'[ctx[p].sem] < 0 THEN Goto(p, "dequeue") ELSE Turned(p)
  /\ guessed' = IF ctx[p].op = "signal" THEN guessed \cup {ctx[p].sem} ELSE guessed
  /\ UNCHANGED <<semstate, queue, nextsem, known, sched, calls>>

CountUp(p) ==
  /\ At(p, "count") /\ ctx[p].op # "wait"
  /\ count' = [count EXCEPT ![ctx[p].sem] = @ + 1]
  /\ \E wakes \in Wakes(p) : IF wakes THEN Goto(p, "dequeue") ELSE Turned(p)
  /\ guessed' = IF ctx[p].op = "signal" THEN guessed \cup {ctx[p].sem} ELSE guessed
  /\ UNCHANGED <<semstate, queue, nextsem, known, sched, calls>>

DequeueLeaves(p) ==  \* mutant: the process stays in the queue
  LET waiters == queue[ctx[p].sem]
  IN  /\ At(p, "dequeue")
      /\ ctx' = [ctx EXCEPT ![p].at = "ready",
                            ![p].pid = IF waiters = <<>> THEN EMPTY ELSE Head(waiters)]
      /\ UNCHANGED <<semtab, nextsem, known, guessed, sched, calls>>

Dequeue(p) ==
  LET waiters == queue[ctx[p].sem]
  IN  /\ At(p, "dequeue")
      /\ IF waiters = <<>>
         THEN ctx' = [ctx EXCEPT ![p].at = "ready", ![p].pid = EMPTY] /\ UNCHANGED queue
         ELSE /\ ctx' = [ctx EXCEPT ![p].at = "ready", ![p].pid = Head(waiters)]
              /\ queue' = [queue EXCEPT ![ctx[p].sem] = Tail(@)]
      /\ UNCHANGED <<semstate, count, nextsem, known, guessed, sched, calls>>

(* ready refuses EMPTY.                                                    *)
Ready(p) ==
  LET pid == ctx[p].pid
  IN  /\ At(p, "ready")
      /\ IF pid = EMPTY THEN Turned(p) /\ UNCHANGED sched
         ELSE Goto(p, "enlist") /\ MarkReady(pid)
      /\ UNCHANGED <<semtab, nextsem, known, guessed, calls>>

EnlistLost(p) ==  \* mutant: the woken process is not put on a ready list
  /\ At(p, "enlist")
  /\ Turned(p)
  /\ UNCHANGED <<semtab, nextsem, known, guessed, sched, calls>>

Enlist(p) ==
  /\ At(p, "enlist")
  /\ ListReady(ctx[p].pid)
  /\ Turned(p)
  /\ UNCHANGED <<semtab, nextsem, known, guessed, calls>>

Meet(p) ==
  /\ At(p, "enlist")
  /\ Meets(ctx[p].pid, Affinity[p])
  /\ UNCHANGED <<semtab, nextsem, known, guessed, ctx, calls>>

-----------------------------------------------------------------------------
(* semfree *)

NonemptyOnce(p) ==  \* mutant: an if in place of the while
  /\ At(p, "nonempty")
  /\ Goto(p, IF queue[ctx[p].sem] # <<>> /\ ctx[p].pid = EMPTY THEN "dequeue" ELSE "zero")
  /\ UNCHANGED <<semtab, nextsem, known, guessed, sched, calls>>

Nonempty(p) ==
  /\ At(p, "nonempty")
  /\ Goto(p, IF queue[ctx[p].sem] # <<>> THEN "dequeue" ELSE "zero")
  /\ UNCHANGED <<semtab, nextsem, known, guessed, sched, calls>>

Zero(p) ==
  /\ At(p, "zero")
  /\ count' = [count EXCEPT ![ctx[p].sem] = 0]
  /\ Goto(p, "free")
  /\ UNCHANGED <<semstate, queue, nextsem, known, guessed, sched, calls>>

Free(p) ==
  /\ At(p, "free")
  /\ semstate' = [semstate EXCEPT ![ctx[p].sem] = "SFREE"]
  /\ guessed' = guessed \ {ctx[p].sem}
  /\ Return(p)
  /\ UNCHANGED <<count, queue, nextsem, known, sched, calls>>

-----------------------------------------------------------------------------
(* semcreate, semalloc.  Each use of nextsem in the loop reads it anew.    *)

SemallocBeyond(p) ==  \* mutant: nextsem is not taken modulo NSEM
  /\ At(p, "next")
  /\ nextsem' = nextsem + 1
  /\ ctx' = [ctx EXCEPT ![p].left = @ - 1, ![p].at = "look"]
  /\ UNCHANGED <<semtab, known, guessed, sched, calls>>

SemallocNext(p) ==
  /\ At(p, "next")
  /\ IF ctx[p].left = 0 THEN Return(p) /\ UNCHANGED nextsem
     ELSE /\ nextsem' = (nextsem + 1) % NSEM
          /\ ctx' = [ctx EXCEPT ![p].left = @ - 1, ![p].at = "look"]
  /\ UNCHANGED <<semtab, known, guessed, sched, calls>>

SemallocAny(p) ==  \* mutant: the state of the entry is not looked at
  /\ At(p, "look")
  /\ Goto(p, "mark")
  /\ UNCHANGED <<semtab, nextsem, known, guessed, sched, calls>>

SemallocLook(p) ==
  /\ At(p, "look")
  /\ Goto(p, IF semstate[nextsem] = "SFREE" THEN "mark" ELSE "next")
  /\ UNCHANGED <<semtab, nextsem, known, guessed, sched, calls>>

SemallocMark(p) ==
  /\ At(p, "mark")
  /\ semstate' = [semstate EXCEPT ![nextsem] = "SUSED"]
  /\ Goto(p, "fill")
  /\ UNCHANGED <<count, queue, nextsem, known, guessed, sched, calls>>

SemcreateFill(p) ==
  /\ At(p, "fill")
  /\ count' = [count EXCEPT ![nextsem] = ctx[p].n]
  /\ known' = known \cup {nextsem}
  /\ Return(p)
  /\ UNCHANGED <<semstate, queue, nextsem, guessed, sched, calls>>

-----------------------------------------------------------------------------
Calling(p) ==
  \/ \E s \in Sems : \/ Wait(p, s) \/ Signal(p, s) \/ Semfree(p, s)
                    \/ \E n \in Batches : Signaln(p, s, n)
  \/ \E n \in Counts : Semcreate(p, n)

Kernel(p) ==
  \/ CountDown(p) \/ Suspend(p) \/ Enqueue(p) \/ WaitResched(p) \/ Awake(p)
  \/ CountUp(p) \/ Dequeue(p) \/ Ready(p) \/ Enlist(p)
  \/ Nonempty(p) \/ Zero(p) \/ Free(p)
  \/ SemallocNext(p) \/ SemallocLook(p) \/ SemallocMark(p) \/ SemcreateFill(p)

Stopped == torn /\ UNCHANGED vars

Next ==
  \/ \E p \in Procs : Calling(p) \/ Kernel(p) \/ Meet(p)
  \/ \E c \in Cores : Preempt(c)
  \/ Stopped

Spec == Init /\ [][Next]_vars

(* A masked call is not kept from its core, and the clock keeps ticking.   *)
FairSpec == /\ Spec
            /\ \A p \in Procs : WF_vars(Kernel(p))
            /\ \A c \in Cores : WF_vars(Preempt(c))

-----------------------------------------------------------------------------
(* Properties *)

TypeOK ==
  /\ semstate \in [Sems -> {"SFREE", "SUSED"}]
  /\ count \in [Sems -> Int]
  /\ queue \in [Sems -> Seq(Procs)]
  /\ nextsem \in Sems
  /\ known \subseteq Sems /\ guessed \subseteq known
  /\ SchedTypeOK({"PRCURR", "PRREADY", "PRSUSP"})
  /\ ctx \in [Procs -> Contexts]
  /\ calls \in 0 .. MaxCalls

(* Processes wait has turned away that nobody has dequeued yet.            *)
Waiting(s) == {p \in Procs : ctx[p].sem = s /\ ctx[p].at \in {"suspend", "enqueue"}}
              \cup ToSet(queue[s])

Engaged(s) == \E p \in Procs : ctx[p].sem = s /\ ctx[p].at \notin {"user", "resched", "asleep"}

(* "If the semaphore's count is positive, it will be decremented ...       *)
(* Otherwise, the currently running thread will be put to sleep until the  *)
(* semaphore is signaled" (wait.c): between calls, a count below zero is   *)
(* the number of processes that sleep, and none sleeps above.  Semaphores  *)
(* counted up by signal are left out: it does not know the count it tests. *)
WaitersMatchCount ==
  \A s \in known \ guessed : semstate[s] = "SUSED" /\ ~Engaged(s) =>
    Len(queue[s]) = IF count[s] < 0 THEN -count[s] ELSE 0

Places(p) ==
  Cardinality(Spots(p, queue)) + Cardinality(Spots(p, readylist))
  + Cardinality({q \in Procs : ctx[q].at \in {"ready", "enlist"} /\ ctx[q].pid = p})

(* A process that its core does not run, or that has queued itself to give *)
(* the core up, is in one list only, or in the hands of the one process    *)
(* that wakes it, until two cores meet in a ready list; a process that     *)
(* goes on running is in none.                                             *)
OnePlace ==
  \A p \in Procs : Places(p) = IF Running(p) /\ ctx[p].at # "resched" THEN 0 ELSE 1

(* "This can be done even if threads are waiting on it, in which case they *)
(* will be released" (semfree.c): a free semaphore keeps no process.       *)
FreedKeepsNobody == \A s \in Sems : semstate[s] = "SFREE" => Waiting(s) = {}

(* Whoever a signal or a semfree took from the queue returns from wait.    *)
WokenReturns ==
  \A p \in Procs : (ctx[p].at = "asleep" /\ \A s \in Sems : p \notin Waiting(s))
                  ~> ctx[p].at = "user"

-----------------------------------------------------------------------------
(* The semaphores implement CountingSemaphores.  A semaphore opens when    *)
(* semcreate has filled it and closes when semfree starts to empty it; a   *)
(* unit signalled is given at the dequeue, so until then count, which has  *)
(* charged the waiters in advance, is short by their number.               *)
Open == {s \in known : semstate[s] = "SUSED"
                       /\ \A p \in Procs : /\ ~(ctx[p].op = "semfree" /\ ctx[p].sem = s)
                                           /\ ~(ctx[p].at = "fill" /\ nextsem = s)}

Abstract == INSTANCE CountingSemaphores WITH
  open    <- Open,
  units   <- [s \in Sems |-> IF s \in Open THEN count[s] + Cardinality(Waiting(s)) ELSE 0],
  waiting <- [s \in Sems |-> Waiting(s)]

(* No process gets past wait without a unit of its own or a semfree, in    *)
(* whatever order the cores' accesses to semtab fall.                      *)
UnitsNotOverdrawn == Abstract!Spec
==============================================================================
