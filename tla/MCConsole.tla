------------------------------ MODULE MCConsole ------------------------------
(* The instances of Console that TLC checks.                               *)
EXTENDS Console

(* Writers on core 1, so that putc and the handler interleave; a reader on *)
(* core 0.                                                                 *)
Apart == [p \in Procs |-> IF p \in Writers THEN 1 ELSE 0]

Together == [p \in Procs |-> 0]
==============================================================================
