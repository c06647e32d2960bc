------------------------------ MODULE Mailboxes ------------------------------
(***************************************************************************)
(* What the message calls of the xinu-hw9 kernel promise: a message posted *)
(* to a process is kept until that process takes it, and is taken once.    *)
(***************************************************************************)
EXTENDS Naturals, SequencesExt

CONSTANTS
  Procs,
  Messages,
  Ordered     \* the processes that get their messages in the order of posting

VARIABLES mail, taken

Init == mail = [r \in Procs |-> <<>>] /\ taken = {}

(* A message is posted once, behind the others of an ordered mailbox.      *)
Post(r, m) ==
  /\ m \notin taken /\ \A q \in Procs : m \notin ToSet(mail[q])
  /\ \E i \in 1 .. Len(mail[r]) + 1 :
       /\ r \in Ordered => i = Len(mail[r]) + 1
       /\ mail' = [mail EXCEPT ![r] = InsertAt(@, i, m)]
  /\ UNCHANGED taken

Take(r) ==
  /\ mail[r] # <<>>
  /\ taken' = taken \cup {Head(mail[r])}
  /\ mail' = [mail EXCEPT ![r] = Tail(@)]

Next == \E r \in Procs : Take(r) \/ \E m \in Messages : Post(r, m)

Spec == Init /\ [][Next]_<<mail, taken>>
==============================================================================
