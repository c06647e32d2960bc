-------------------------------- MODULE Queue --------------------------------
(***************************************************************************)
(* The process queues of xinu-hw9 (queue.c) and the spinlocks that guard   *)
(* them (spinlock.c, spinlock_util.S), one store at a time.                *)
(*                                                                         *)
(* queuetab holds one entry for each process and two, head and tail, for   *)
(* each queue; a queue is the doubly linked list of entries from its head  *)
(* to its tail.  The cores call enqueue, dequeue and remove concurrently,  *)
(* as resched, ready, kill and the semaphore calls do: a core works on one *)
(* call at a time, and hands enqueue a process no other core works on.     *)
(***************************************************************************)
EXTENDS Integers, Sequences, FiniteSets

CONSTANTS
  NCORES,     \* cores
  NPROC,      \* process entries of queuetab
  NQUEUES,    \* calls of newqueue at boot
  NLOCK,      \* locks left for them: newqueue's lock_create fails once they are used
  Takers      \* per queue, the cores that take processes from it

ASSUME QueueAssumption ==
  /\ NCORES \in Nat \ {0} /\ NPROC \in Nat \ {0} /\ NQUEUES \in Nat /\ NLOCK \in Nat
  /\ Takers \in [0 .. NQUEUES - 1 -> SUBSET (0 .. NCORES - 1)]

VARIABLES
  next, prev,   \* the links of queuetab
  lock,         \* locktab of the queues' locks: the core that holds one, or NONE
  held,         \* the core that runs or handles a process, NONE while it is queued
  pc, frame     \* where each core is in a queue operation, and its local variables

links == <<next, prev>>
vars  == <<links, lock, held, pc, frame>>

Cores   == 0 .. NCORES - 1
Procs   == 0 .. NPROC - 1
Queues  == 0 .. NQUEUES - 1
NQENT   == NPROC + 2 * NQUEUES
Entries == 0 .. NQENT - 1
EMPTY   == -2
SYSERR  == -1
NONE    == -1
Pending == -3    \* result of a call that has not taken effect

queuehead(q) == NPROC + 2 * q
queuetail(q) == queuehead(q) + 1
HasLock(q)   == q < NLOCK

(* The queue whose head is entry e.                                        *)
QueueOf(e) == (e - NPROC) \div 2

Links  == {"enq_self", "enq_link", "enq_tail", "rem_unlink", "rem_back",
           "deq_first", "deq_unlink", "deq_back", "deq_self"}
Labels == Links \cup {"idle", "walk", "acquire", "release"}

Frames == [op : {"none", "enqueue", "dequeue", "remove"}, q : Queues \cup {EMPTY},
           pid : Procs \cup {EMPTY, SYSERR}, temp : Entries \cup {EMPTY},
           steps : 0 .. NQENT]
NoFrame == [op |-> "none", q |-> EMPTY, pid |-> EMPTY, temp |-> EMPTY, steps |-> 0]

(* newqueue has linked every head to its tail; the process entries are     *)
(* still zero, and the processes run or are about to be made ready.        *)
Init ==
  /\ next = [e \in Entries |-> IF e \in Procs THEN 0
                               ELSE IF e = queuehead(QueueOf(e)) THEN e + 1 ELSE EMPTY]
  /\ prev = [e \in Entries |-> IF e \in Procs THEN 0
                               ELSE IF e = queuehead(QueueOf(e)) THEN EMPTY ELSE e - 1]
  /\ lock = [q \in Queues |-> NONE]
  /\ held \in [Procs -> Cores]
  /\ pc = [c \in Cores |-> "idle"]
  /\ frame = [c \in Cores |-> NoFrame]

-----------------------------------------------------------------------------
At(c, label)   == pc[c] = label
Goto(c, label) == pc' = [pc EXCEPT ![c] = label]

Start(c, op, q, pid) ==
  /\ At(c, "idle")
  /\ frame' = [frame EXCEPT ![c] = [NoFrame EXCEPT !.op = op, !.q = q, !.pid = pid]]
  /\ Goto(c, "acquire")
  /\ UNCHANGED <<links, lock>>

Enqueue(c, pid, q) ==
  /\ held[pid] = c
  /\ Start(c, "enqueue", q, pid)
  /\ held' = [held EXCEPT ![pid] = NONE]

(* What the caller has seen of the queue before, as semfree its nonempty(q),*)
(* makes no difference to dequeue.                                         *)
Dequeue(c, q) ==
  /\ c \in Takers[q]
  /\ Start(c, "dequeue", q, EMPTY)
  /\ UNCHANGED held

-----------------------------------------------------------------------------
(* The lists: the processes from the head of q on, at most NPROC + 1 of    *)
(* them lest a damaged list be endless.                                    *)
Listed(q) ==
  LET hop[i \in 0 .. NPROC] ==
        IF i = 0 THEN next[queuehead(q)]
        ELSE LET e == hop[i - 1] IN IF e \in Procs THEN next[e] ELSE e
      length == Cardinality({i \in 0 .. NPROC : hop[i] \in Procs})
  IN  [i \in 1 .. length |-> hop[i - 1]]

(* The caller is sure of the process, as kill is on the core that alone    *)
(* takes from the list: no other core can take it meanwhile.               *)
Remove(c, pid) ==
  /\ \E q \in Queues : Takers[q] = {c} /\ \E i \in DOMAIN Listed(q) : Listed(q)[i] = pid
  /\ At(c, "idle")
  /\ frame' = [frame EXCEPT ![c] =
                 [NoFrame EXCEPT !.op = "remove", !.pid = pid, !.temp = pid]]
  /\ Goto(c, "walk")
  /\ UNCHANGED <<links, lock, held>>

(* One iteration of remove's walk back to the head, for at most NQENT.     *)
Walk(c) ==
  LET f    == frame[c]
      back == prev[f.temp]
  IN  /\ At(c, "walk")
      /\ IF f.steps + 1 >= NQENT
         THEN /\ frame' = [frame EXCEPT ![c] = [f EXCEPT !.pid = SYSERR]]
              /\ Goto(c, "release")
         ELSE IF prev[back] = EMPTY
         THEN /\ frame' = [frame EXCEPT ![c] = [f EXCEPT !.temp = back, !.q = QueueOf(back)]]
              /\ Goto(c, "acquire")
         ELSE /\ frame' = [frame EXCEPT ![c] = [f EXCEPT !.temp = back, !.steps = f.steps + 1]]
              /\ Goto(c, "walk")
      /\ UNCHANGED <<links, lock, held>>

-----------------------------------------------------------------------------
(* lock_acquire and lock_release *)

Body(op) == CASE op = "enqueue" -> "enq_self"
              [] op = "dequeue" -> "deq_first"
              [] op = "remove"  -> "rem_unlink"

AcquireBlind(c) ==  \* mutant: the lock word is not looked at
  /\ At(c, "acquire")
  /\ lock' = [lock EXCEPT ![frame[c].q] = c]
  /\ Goto(c, Body(frame[c].op))
  /\ UNCHANGED <<links, held, frame>>

(* ldrex and strex take the lock word only from unlocked to locked, and    *)
(* then the core writes its id beside it.  Of a lock that newqueue did not *)
(* get, lock_acquire returns SYSERR, and its callers go on regardless.     *)
Acquire(c) ==
  /\ At(c, "acquire")
  /\ IF HasLock(frame[c].q)
     THEN lock[frame[c].q] = NONE /\ lock' = [lock EXCEPT ![frame[c].q] = c]
     ELSE UNCHANGED lock
  /\ Goto(c, Body(frame[c].op))
  /\ UNCHANGED <<links, held, frame>>

ReleaseNotEmpty(c) ==  \* mutant: dequeue forgets the lock when it returns EMPTY
  LET f == frame[c]
  IN  /\ At(c, "release")
      /\ lock' = IF f.q \in Queues /\ f.pid # EMPTY THEN [lock EXCEPT ![f.q] = NONE] ELSE lock
      /\ held' = IF f.op \in {"dequeue", "remove"} /\ f.pid \in Procs
                 THEN [held EXCEPT ![f.pid] = c] ELSE held
      /\ frame' = [frame EXCEPT ![c] = NoFrame]
      /\ Goto(c, "idle")
      /\ UNCHANGED links

(* The call releases its lock, if it came to take one, and returns: what   *)
(* dequeue and remove return is then in the hands of the core.             *)
Release(c) ==
  LET f == frame[c]
  IN  /\ At(c, "release")
      /\ lock' = IF f.q \in Queues /\ HasLock(f.q) THEN [lock EXCEPT ![f.q] = NONE] ELSE lock
      /\ held' = IF f.op \in {"dequeue", "remove"} /\ f.pid \in Procs
                 THEN [held EXCEPT ![f.pid] = c] ELSE held
      /\ frame' = [frame EXCEPT ![c] = NoFrame]
      /\ Goto(c, "idle")
      /\ UNCHANGED links

-----------------------------------------------------------------------------
(* enqueue *)

EnqueueSelf(c) ==
  LET pid  == frame[c].pid
      tail == queuetail(frame[c].q)
  IN  /\ At(c, "enq_self")
      /\ next' = [next EXCEPT ![pid] = tail]
      /\ prev' = [prev EXCEPT ![pid] = prev[tail]]
      /\ Goto(c, "enq_link")
      /\ UNCHANGED <<lock, held, frame>>

EnqueueLinkHead(c) ==  \* mutant: linked in behind the head
  /\ At(c, "enq_link")
  /\ next' = [next EXCEPT ![queuehead(frame[c].q)] = frame[c].pid]
  /\ Goto(c, "enq_tail")
  /\ UNCHANGED <<prev, lock, held, frame>>

EnqueueLink(c) ==
  /\ At(c, "enq_link")
  /\ next' = [next EXCEPT ![prev[queuetail(frame[c].q)]] = frame[c].pid]
  /\ Goto(c, "enq_tail")
  /\ UNCHANGED <<prev, lock, held, frame>>

EnqueueTail(c) ==
  /\ At(c, "enq_tail")
  /\ prev' = [prev EXCEPT ![queuetail(frame[c].q)] = frame[c].pid]
  /\ Goto(c, "release")
  /\ UNCHANGED <<next, lock, held, frame>>

-----------------------------------------------------------------------------
(* dequeue *)

DequeueFirstUnchecked(c) ==  \* mutant: the tail entry passes as a process
  LET first == next[queuehead(frame[c].q)]
  IN  /\ At(c, "deq_first")
      /\ frame' = [frame EXCEPT ![c] = [@ EXCEPT !.pid = first]]
      /\ Goto(c, "deq_unlink")
      /\ UNCHANGED <<links, lock, held>>

DequeueFirst(c) ==
  LET first == next[queuehead(frame[c].q)]
  IN  /\ At(c, "deq_first")
      /\ IF first < NPROC
         THEN /\ frame' = [frame EXCEPT ![c] = [@ EXCEPT !.pid = first]]
              /\ Goto(c, "deq_unlink")
         ELSE /\ Goto(c, "release")
              /\ UNCHANGED frame
      /\ UNCHANGED <<links, lock, held>>

DequeueUnlink(c) ==
  /\ At(c, "deq_unlink")
  /\ next' = [next EXCEPT ![prev[frame[c].pid]] = next[frame[c].pid]]
  /\ Goto(c, "deq_back")
  /\ UNCHANGED <<prev, lock, held, frame>>

DequeueBackMissing(c) ==  \* mutant: the successor still points back to the process
  At(c, "deq_back") /\ Goto(c, "deq_self") /\ UNCHANGED <<links, lock, held, frame>>

DequeueBack(c) ==
  /\ At(c, "deq_back")
  /\ prev' = [prev EXCEPT ![next[frame[c].pid]] = prev[frame[c].pid]]
  /\ Goto(c, "deq_self")
  /\ UNCHANGED <<next, lock, held, frame>>

DequeueSelf(c) ==
  LET pid == frame[c].pid
  IN  /\ At(c, "deq_self")
      /\ prev' = [prev EXCEPT ![pid] = pid]
      /\ next' = [next EXCEPT ![pid] = pid]
      /\ Goto(c, "release")
      /\ UNCHANGED <<lock, held, frame>>

-----------------------------------------------------------------------------
(* remove, once the walk has found the head: the links of pid itself stay. *)

RemoveUnlinkRest(c) ==  \* mutant: what follows the process is cut off with it
  /\ At(c, "rem_unlink")
  /\ next' = [next EXCEPT ![prev[frame[c].pid]] = queuetail(frame[c].q)]
  /\ Goto(c, "rem_back")
  /\ UNCHANGED <<prev, lock, held, frame>>

RemoveUnlink(c) ==
  /\ At(c, "rem_unlink")
  /\ next' = [next EXCEPT ![prev[frame[c].pid]] = next[frame[c].pid]]
  /\ Goto(c, "rem_back")
  /\ UNCHANGED <<prev, lock, held, frame>>

RemoveBack(c) ==
  /\ At(c, "rem_back")
  /\ prev' = [prev EXCEPT ![next[frame[c].pid]] = prev[frame[c].pid]]
  /\ Goto(c, "release")
  /\ UNCHANGED <<next, lock, held, frame>>

-----------------------------------------------------------------------------
Call(c) ==
  \/ \E pid \in Procs, q \in Queues : Enqueue(c, pid, q)
  \/ \E q \in Queues : Dequeue(c, q)
  \/ \E pid \in Procs : Remove(c, pid)

Step(c) ==
  \/ Walk(c) \/ Acquire(c) \/ Release(c)
  \/ EnqueueSelf(c) \/ EnqueueLink(c) \/ EnqueueTail(c)
  \/ DequeueFirst(c) \/ DequeueUnlink(c) \/ DequeueBack(c) \/ DequeueSelf(c)
  \/ RemoveUnlink(c) \/ RemoveBack(c)

Next == \E c \in Cores : Call(c) \/ Step(c)

Spec == Init /\ [][Next]_vars

(* A call runs with interrupts disabled, so nothing keeps its core from it.*)
FairSpec == Spec /\ \A c \in Cores : WF_vars(Step(c))

-----------------------------------------------------------------------------
(* Properties *)

(* The links stay within queuetab, and a link is EMPTY only beyond a head  *)
(* or a tail, so no store ever goes through EMPTY.                         *)
TypeOK ==
  /\ next \in [Entries -> Entries \cup {EMPTY}]
  /\ prev \in [Entries -> Entries \cup {EMPTY}]
  /\ \A p \in Procs : next[p] # EMPTY /\ prev[p] # EMPTY
  /\ \A q \in Queues : next[queuehead(q)] # EMPTY /\ prev[queuetail(q)] # EMPTY
  /\ lock \in [Queues -> Cores \cup {NONE}]
  /\ held \in [Procs -> Cores \cup {NONE}]
  /\ pc \in [Cores -> Labels]
  /\ frame \in [Cores -> Frames]

(* Cores that are between lock_acquire and lock_release of q's lock.       *)
Inside(q) == {c \in Cores : frame[c].q = q /\ pc[c] \in Links \cup {"release"}}

(* "Spinlock allows for the usage of multiple cores with mutual exclusion" *)
(* (spinlock_util.S): no two cores are inside the same queue with a lock,  *)
(* and the core recorded in locktab is the one that is.                    *)
MutualExclusion ==
  \A q \in Queues : HasLock(q) => \A c \in Inside(q) : lock[q] = c

(* A queue no core is working on is the same list read in either direction:*)
(* every entry's successor points back to it, up to the queue's own tail.  *)
LinksMirror ==
  \A q \in Queues : (\A c \in Cores : frame[c].q # q \/ pc[c] \notin Links) =>
    LET list == <<queuehead(q)>> \o Listed(q)
    IN  /\ \A i \in 1 .. Len(list) - 1 : prev[list[i + 1]] = list[i]
        /\ next[list[Len(list)]] = queuetail(q)
        /\ prev[queuetail(q)] = list[Len(list)]

Occurrences(p) == {s \in Queues \X (1 .. NPROC + 1) :
                     s[2] \in DOMAIN Listed(s[1]) /\ Listed(s[1])[s[2]] = p}

(* A process that was handed to enqueue is in a queue, or some core's call *)
(* is about it: however the cores' stores interleave, wait and send never  *)
(* lose the process they put to sleep in a queue that has a lock.  (Of one *)
(* without a lock, as the ready lists are, it is false.)                   *)
NoneLost ==
  \A p \in Procs : held[p] = NONE =>
    \/ Occurrences(p) # {}
    \/ \E c \in Cores : pc[c] # "idle" /\ frame[c].pid = p

(* A lock is not held for ever: the cores that spin on it come free.       *)
LockReleased == \A q \in Queues : lock[q] # NONE ~> lock[q] = NONE

-----------------------------------------------------------------------------
(* The queues implement ProcessQueues.  An operation takes effect when the *)
(* store to a next link puts a process into the list or takes it out, or   *)
(* when dequeue reads that there is none.                                  *)
Done(c) == pc[c] \in {"enq_tail", "deq_back", "deq_self", "rem_back", "release"}

AbstractCall(c) ==
  IF pc[c] = "idle" THEN [op |-> "none", pid |-> EMPTY, q |-> EMPTY, result |-> EMPTY]
  ELSE [op     |-> frame[c].op,
        pid    |-> IF frame[c].op = "dequeue" THEN EMPTY ELSE frame[c].pid,
        q      |-> IF frame[c].op = "remove" THEN EMPTY ELSE frame[c].q,
        result |-> IF Done(c) THEN frame[c].pid ELSE Pending]

Abstract == INSTANCE ProcessQueues WITH
  queue <- [q \in Queues |-> Listed(q)],
  call  <- [c \in Cores |-> AbstractCall(c)]

(* Concurrent calls behave as if each took place at once, in FIFO queues.  *)
Linearizable == Abstract!Spec
==============================================================================
