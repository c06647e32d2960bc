------------------------------- MODULE MCQueue -------------------------------
(* The instances of Queue that TLC checks.                                 *)
EXTENDS Queue

(* Any core dequeues from queue 0, as from a semaphore's; from queue 1 only *)
(* core 1 does, as the process on it from the queue of its senders (with a  *)
(* lock), or as resched from a ready list (without: QueueUnlocked.cfg).     *)
SharedAndOwn == [q \in 0 .. 1 |-> IF q = 0 THEN {0, 1} ELSE {1}]

(* What boot asks of the lock table before it comes to the ready lists: a  *)
(* lock for each semaphore's queue, the console's two, one for each core's *)
(* free list, and two for each process.                                    *)
LocksBeforeReadyLists(nsem, ncores, nproc) == nsem + 2 + ncores + 2 * nproc

ASSUME ReadyListsGetNoLock == LocksBeforeReadyLists(100, 4, 50) >= 150
==============================================================================
