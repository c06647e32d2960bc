----------------------------- MODULE MCFreeMemory -----------------------------
(* The instances of FreeMemory that TLC checks.                            *)
EXTENDS FreeMemory

(* freelist not on a multiple of 8: no block lies where a list head ends.  *)
Misaligned == [c \in Cores |-> -1000]

(* freelist on a multiple of 8, right below the heap: one can lie there.   *)
Aligned == [c \in Cores |-> 0]
===============================================================================
