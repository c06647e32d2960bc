----------------------------- MODULE MCSemaphore -----------------------------
(* The instances of Semaphore that TLC checks.                             *)
EXTENDS Semaphore

OneCore  == [p \in 1 .. 3 |-> 0]
TwoCores == [p \in 1 .. 4 |-> p % 2]
==============================================================================
