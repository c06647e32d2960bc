------------------------------ MODULE MCMessages ------------------------------
(* The instances of Messages that TLC checks.                              *)
EXTENDS Messages

Cores3 == [p \in 1 .. 3 |-> IF p = 3 THEN 1 ELSE 0]
Cores4 == [p \in 1 .. 4 |-> IF p \in {1, 2} THEN 0 ELSE 1]
To2    == {<<1, 2>>, <<3, 2>>, <<2, 1>>}
OneCore2 == [p \in 1 .. 2 |-> 0]
From1  == {<<1, 2>>}
From3  == {<<3, 1>>}
Now34  == {<<3, 4>>}
None   == {}

(* What the theorems of MessagesProofs assume of a program.                *)
ASSUME MCProgram == Guarded /\ Single
===============================================================================
