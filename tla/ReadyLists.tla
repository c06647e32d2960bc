------------------------------ MODULE ReadyLists ------------------------------
(***************************************************************************)
(* The scheduler as the blocking calls of the kernel see it: which process *)
(* each core runs, and one FIFO ready list for each core (Scheduler has    *)
(* the priorities and the aging).  Semaphore and Messages build on it.     *)
(*                                                                         *)
(* The ready lists have no lock: as in Scheduler, an append to the list of *)
(* another core either has the list to itself, or the two cores meet there *)
(* and the behaviour stops (torn).                                         *)
(***************************************************************************)
EXTENDS Integers, FiniteSets, SequencesExt

CONSTANTS
  NCORES,
  Procs,       \* user processes
  Affinity     \* the core of each

EMPTY    == -2
SYSERR   == -1
Cores    == 0 .. NCORES - 1
NullProc == -3     \* stands for the null process of a core

ASSUME ReadyListsAssumption ==
  /\ NCORES \in Nat \ {0}
  /\ IsFiniteSet(Procs) /\ Procs \cap {SYSERR, EMPTY, NullProc} = {}
  /\ Affinity \in [Procs -> Cores]

VARIABLES
  state, currpid, readylist,
  torn         \* history: two cores have met in a ready list

sched == <<state, currpid, readylist, torn>>

(* The boot core has made the processes ready; the cores are about to      *)
(* leave their null loops.                                                 *)
SchedInit ==
  /\ state = [p \in Procs |-> "PRREADY"]
  /\ currpid = [c \in Cores |-> NullProc]
  /\ readylist = [c \in Cores |-> SetToSeq({p \in Procs : Affinity[p] = c})]
  /\ torn = FALSE

SchedTypeOK(states) ==
  /\ state \in [Procs -> states]
  /\ currpid \in [Cores -> Procs \cup {NullProc}]
  /\ readylist \in [Cores -> Seq(Procs)]
  /\ torn \in BOOLEAN

Running(p) == currpid[Affinity[p]] = p

(* The current process goes to the end of the list if its state is PRCURR; *)
(* the null process runs when the list is empty.                           *)
Resched(c) ==
  LET old  == currpid[c]
      goes == old # NullProc /\ state[old] = "PRCURR"
      list == IF goes THEN Append(readylist[c], old) ELSE readylist[c]
      new  == IF list = <<>> THEN NullProc ELSE Head(list)
  IN  /\ currpid' = [currpid EXCEPT ![c] = new]
      /\ readylist' = [readylist EXCEPT ![c] = IF list = <<>> THEN list ELSE Tail(list)]
      /\ state' = [p \in Procs |-> IF p = new THEN "PRCURR"
                                   ELSE IF goes /\ p = old THEN "PRREADY" ELSE state[p]]
      /\ UNCHANGED torn

(* The stores of ready: it marks the process, and then enqueues it on the  *)
(* list of its core.                                                       *)
MarkReady(pid) ==
  /\ state' = [state EXCEPT ![pid] = "PRREADY"]
  /\ UNCHANGED <<currpid, readylist, torn>>

ListReady(pid) ==
  /\ readylist' = [readylist EXCEPT ![Affinity[pid]] = Append(@, pid)]
  /\ UNCHANGED <<state, currpid, torn>>

(* An enqueue from core c meets the core that owns the list, or a third.   *)
Meets(pid, c) ==
  /\ Affinity[pid] # c
  /\ torn' = TRUE
  /\ UNCHANGED <<state, currpid, readylist>>

(* The positions process p has in the lists, one for each key.             *)
Spots(p, lists) == UNION {{k} \X {i \in DOMAIN lists[k] : lists[k][i] = p} : k \in DOMAIN lists}
===============================================================================
