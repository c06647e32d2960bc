---------------------------- MODULE ProcessQueues ----------------------------
(***************************************************************************)
(* What enqueue, dequeue and remove of xinu-hw9 (queue.c) promise when the *)
(* cores call them concurrently: each takes effect at one instant between  *)
(* its call and its return, on FIFO queues of processes.                   *)
(***************************************************************************)
EXTENDS Integers, SequencesExt

CONSTANTS Cores, Queues, Procs

VARIABLES queue, call
vars == <<queue, call>>

EMPTY   == -2
Pending == -3     \* the operation has not taken effect yet
Idle    == [op |-> "none", pid |-> EMPTY, q |-> EMPTY, result |-> EMPTY]

Calls == {Idle}
         \cup [op : {"enqueue"}, pid : Procs, q : Queues, result : Procs \cup {Pending}]
         \cup [op : {"dequeue"}, pid : {EMPTY}, q : Queues, result : Procs \cup {EMPTY, Pending}]
         \cup [op : {"remove"}, pid : Procs, q : {EMPTY}, result : Procs \cup {Pending}]

Init ==
  /\ queue = [q \in Queues |-> <<>>]
  /\ call = [c \in Cores |-> Idle]

Begin(c) ==
  /\ call[c] = Idle
  /\ call' \in {[call EXCEPT ![c] = new] : new \in {k \in Calls : k.result = Pending}}
  /\ UNCHANGED queue

Effect(c, op) == call[c].op = op /\ call[c].result = Pending
Result(c, r)  == call' = [call EXCEPT ![c].result = r]

Enqueue(c) ==
  /\ Effect(c, "enqueue")
  /\ queue' = [queue EXCEPT ![call[c].q] = Append(@, call[c].pid)]
  /\ Result(c, call[c].pid)

Dequeue(c) ==
  LET first == queue[call[c].q]
  IN  /\ Effect(c, "dequeue")
      /\ IF first = <<>>
         THEN Result(c, EMPTY) /\ UNCHANGED queue
         ELSE Result(c, Head(first)) /\ queue' = [queue EXCEPT ![call[c].q] = Tail(@)]

RemoveFrom(c, q) ==
  LET pid == call[c].pid
  IN  /\ Effect(c, "remove")
      /\ \E i \in 1 .. Len(queue[q]) :
           queue[q][i] = pid /\ queue' = [queue EXCEPT ![q] = RemoveAt(@, i)]
      /\ Result(c, pid)

Return(c) ==
  /\ call[c] # Idle
  /\ call[c].result # Pending
  /\ call' = [call EXCEPT ![c] = Idle]
  /\ UNCHANGED queue

Next == \E c \in Cores : \/ Begin(c) \/ Enqueue(c) \/ Dequeue(c) \/ Return(c)
                         \/ \E q \in Queues : RemoveFrom(c, q)

Spec == Init /\ [][Next]_vars
==============================================================================
