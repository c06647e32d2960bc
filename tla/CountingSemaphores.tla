------------------------- MODULE CountingSemaphores -------------------------
(***************************************************************************)
(* What the semaphores of xinu-hw9 promise (semcreate.c, wait.c, signal.c, *)
(* signaln.c, semfree.c): a semaphore hands out the units it was created   *)
(* with and those signalled since, and no others; a process that finds     *)
(* none waits until it is granted one, or the semaphore is freed.          *)
(***************************************************************************)
EXTENDS Integers

CONSTANTS Sems, Procs

VARIABLES
  open,     \* semaphores that exist
  units,    \* units each of them has to give
  waiting   \* processes waiting on each
vars == <<open, units, waiting>>

Init ==
  /\ open = {}
  /\ units = [s \in Sems |-> 0]
  /\ waiting = [s \in Sems |-> {}]

(* A semaphore starts without waiters, with the units it is given.         *)
Create(s) ==
  /\ s \notin open /\ waiting[s] = {}
  /\ open' = open \cup {s}
  /\ units'[s] \in Nat /\ units' = [units EXCEPT ![s] = units'[s]]
  /\ UNCHANGED waiting

Take(s) ==
  /\ s \in open /\ units[s] > 0
  /\ units' = [units EXCEPT ![s] = @ - 1]

Acquire(s) == Take(s) /\ UNCHANGED <<open, waiting>>

Block(s, p) ==
  /\ s \in open /\ \A t \in Sems : p \notin waiting[t]
  /\ waiting' = [waiting EXCEPT ![s] = @ \cup {p}]
  /\ UNCHANGED <<open, units>>

Leave(s, p) == p \in waiting[s] /\ waiting' = [waiting EXCEPT ![s] = @ \ {p}]

Grant(s, p) == Leave(s, p) /\ Take(s) /\ UNCHANGED open

Signal(s) ==
  /\ s \in open
  /\ units' = [units EXCEPT ![s] = @ + 1]
  /\ UNCHANGED <<open, waiting>>

Free(s) ==
  /\ s \in open
  /\ open' = open \ {s}
  /\ units' = [units EXCEPT ![s] = 0]
  /\ UNCHANGED waiting

Release(s, p) == Leave(s, p) /\ s \notin open /\ UNCHANGED <<open, units>>

Next == \E s \in Sems :
  \/ Create(s) \/ Acquire(s) \/ Signal(s) \/ Free(s)
  \/ \E p \in Procs : Block(s, p) \/ Grant(s, p) \/ Release(s, p)

Spec == Init /\ [][Next]_vars
==============================================================================
