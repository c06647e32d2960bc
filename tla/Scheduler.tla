------------------------------ MODULE Scheduler ------------------------------
(***************************************************************************)
(* The process table and the per-core scheduler of the xinu-hw9 kernel:    *)
(* resched.c, ready.c, create.c, kill.c, clkhandler.c and the loops of the *)
(* null processes in initialize.c.                                         *)
(*                                                                         *)
(* A core executes the context cpu[c] on behalf of process currpid[c];     *)
(* the contexts of the other processes rest in regs, their PCB save areas, *)
(* and only resched (through ctxsw) moves a context between the two.  Code *)
(* that runs with interrupts disabled is one step where other cores cannot *)
(* tell the difference, and several steps where they can; code that runs   *)
(* with interrupts enabled can be preempted between any two of its steps.  *)
(*                                                                         *)
(* The ready lists have no lock (the lock table is used up before they are *)
(* made), so an operation on a list is one step only while no other core is*)
(* at that list.  A core stays out of the lists of the others, but for the *)
(* append of ready and a remove: there the two cores may meet, and the     *)
(* behaviour stops (torn), as what the list then is depends on their stores*)
(* (Queue has them).  All that is said of several cores is said up to then.*)
(***************************************************************************)
EXTENDS Integers, FiniteSets, SequencesExt

CONSTANTS
  NCORES,           \* cores; core c runs null process c when nothing else is ready
  NPROC,            \* slots of the process table
  QUANTUM,          \* reset value of preempt, promote_medium and promote_low
  ChildPriorities,  \* priorities the programs pass to create
  Creators,         \* processes whose program calls create
  KillOthers,       \* the interrupt masks under which programs kill others
  Enablers,         \* processes whose program is sure to call enable
  MaxSpawn          \* bound: calls of create in a behaviour

ASSUME SchedulerAssumption ==
  /\ NCORES \in Nat \ {0}
  /\ NPROC \in Nat /\ NPROC > NCORES
  /\ QUANTUM \in Nat \ {0}
  /\ ChildPriorities \subseteq 0..2
  /\ KillOthers \subseteq BOOLEAN
  /\ MaxSpawn \in Nat

VARIABLES
  state, priority, core_affinity,  \* fields of the process table
  regs,                            \* saved context of each process
  currpid, cpu,                    \* process and context each core executes
  readylist,                       \* per core and priority
  torn,                            \* history: two cores have met in a ready list
  promote_medium, promote_low, preempt,  \* quantums of each core
  numproc, nextpid,
  spawned                          \* calls of create so far (bounded)

pcbVars   == <<state, priority, core_affinity>>
quantums  == <<promote_medium, promote_low, preempt>>
schedVars == <<currpid, readylist, torn, quantums>>
counters  == <<numproc, nextpid, spawned>>
vars      == <<pcbVars, regs, cpu, schedVars, counters>>

Cores     == 0 .. NCORES - 1
Procs     == 0 .. NPROC - 1
NullProcs == 0 .. NCORES - 1
Main      == NCORES
EMPTY     == -2
SYSERR    == -1

PRIORITY_LOW  == 0
PRIORITY_MED  == 1
PRIORITY_HIGH == 2
Priorities    == PRIORITY_LOW .. PRIORITY_HIGH

States == {"PRFREE", "PRCURR", "PRSUSP", "PRREADY"}

Labels == {"user", "newpid_next", "newpid_check", "newpid_return",
           "create_count", "create_suspend", "create_fill",
           "ready", "ready_enqueue", "ready_resched",
           "kill_count", "kill_switch", "kill_resched", "kill_remove", "kill_clear"}

(* Where a context is, the pid its kernel call is about, the iterations    *)
(* newpid has made, and the interrupt-enable bit of its CPSR.              *)
Contexts == [pc : Labels, arg : Procs \cup {SYSERR}, tries : Nat, irq : BOOLEAN]

(* ctxsw jumps to a new process without restoring a CPSR, from resched,    *)
(* which has disabled interrupts: they stay disabled until it enables them.*)
FreshContext == [pc |-> "user", arg |-> SYSERR, tries |-> 0, irq |-> FALSE]
NullContext  == [FreshContext EXCEPT !.irq = TRUE]

isbadpid(pid) == pid \notin Procs \/ state[pid] = "PRFREE"

(* The boot core has left sysinit, enabled interrupts and made MAIN ready. *)
Init ==
  /\ state = [p \in Procs |-> IF p \in NullProcs THEN "PRCURR"
                              ELSE IF p = Main THEN "PRREADY" ELSE "PRFREE"]
  /\ priority = [p \in Procs |-> PRIORITY_LOW]
  /\ core_affinity = [p \in Procs |-> IF p \in NullProcs THEN p
                                      ELSE IF p = Main THEN 0 ELSE -1]
  /\ regs = [p \in Procs |-> FreshContext]
  /\ currpid = [c \in Cores |-> c]
  /\ cpu = [c \in Cores |-> NullContext]
  /\ readylist = [c \in Cores |-> [q \in Priorities |->
                     IF c = 0 /\ q = PRIORITY_LOW THEN <<Main>> ELSE <<>>]]
  /\ torn = FALSE
  /\ promote_medium = [c \in Cores |-> QUANTUM]
  /\ promote_low = [c \in Cores |-> QUANTUM]
  /\ preempt = [c \in Cores |-> QUANTUM]
  /\ numproc = NCORES + 1
  /\ nextpid = Main
  /\ spawned = 0

-----------------------------------------------------------------------------
(* resched *)

(* enqueue refuses a pid that isbadpid.                                    *)
Enqueue(lists, q, pid) ==
  IF isbadpid(pid) THEN lists ELSE [lists EXCEPT ![q] = Append(@, pid)]

PromoteLost(lists, from, to) ==  \* mutant: the promoted process is not enqueued
  IF lists[from] = <<>> THEN lists ELSE [lists EXCEPT ![from] = Tail(@)]

Promote(lists, from, to) ==
  IF lists[from] = <<>> THEN lists
  ELSE Enqueue([lists EXCEPT ![from] = Tail(@)], to, Head(lists[from]))

MediumDueLate(c) == promote_medium[c] = 0  \* mutant: tested before the decrement

MediumDue(c) == promote_medium[c] - 1 = 0
LowLeft(c)   == promote_low[c] - (IF MediumDue(c) THEN 1 ELSE 0)

AgedListsMedium(c) ==  \* mutant: low priority processes are never promoted
  IF MediumDue(c) THEN Promote(readylist[c], PRIORITY_MED, PRIORITY_HIGH) ELSE readylist[c]

(* The ready lists of core c once aging has promoted what is due.          *)
AgedLists(c) ==
  LET once == IF MediumDue(c)
              THEN Promote(readylist[c], PRIORITY_MED, PRIORITY_HIGH)
              ELSE readylist[c]
  IN  IF LowLeft(c) = 0 THEN Promote(once, PRIORITY_LOW, PRIORITY_MED) ELSE once

RequeuedListsAlways(c) ==  \* mutant: the old process rejoins its list in any state
  [AgedLists(c) EXCEPT ![priority[currpid[c]]] = Append(@, currpid[c])]

RequeuedListsNone(c) == AgedLists(c)  \* mutant: the state is tested once it is PRREADY

(* ... and once a current process that may go on has rejoined its list.    *)
RequeuedLists(c) ==
  LET old == currpid[c]
  IN  IF state[old] = "PRCURR"
      THEN [AgedLists(c) EXCEPT ![priority[old]] = Append(@, old)]
      ELSE AgedLists(c)

Highest(lists) == IF lists[PRIORITY_HIGH] # <<>> THEN PRIORITY_HIGH
                  ELSE IF lists[PRIORITY_MED] # <<>> THEN PRIORITY_MED
                  ELSE PRIORITY_LOW

(* Core c leaves its process with the context "saved" and takes the first  *)
(* process of the highest nonempty list.  From an empty LOW list dequeue   *)
(* returns EMPTY and the core is lost: proctab[EMPTY] is no process.       *)
Resched(c, saved) ==
  LET old    == currpid[c]
      lists  == RequeuedLists(c)
      q      == Highest(lists)
      new    == IF lists[q] = <<>> THEN EMPTY ELSE Head(lists[q])
      parked == [state EXCEPT ![old] = IF @ = "PRCURR" THEN "PRREADY" ELSE @]
      kept   == [regs EXCEPT ![old] = saved]
  IN  /\ currpid' = [currpid EXCEPT ![c] = new]
      /\ readylist' = [readylist EXCEPT ![c] =
                         IF new = EMPTY THEN lists ELSE [lists EXCEPT ![q] = Tail(@)]]
      /\ state' = IF new = EMPTY THEN parked ELSE [parked EXCEPT ![new] = "PRCURR"]
      /\ regs' = kept
      /\ cpu' = IF new = EMPTY THEN cpu ELSE [cpu EXCEPT ![c] = kept[new]]
      /\ promote_medium' = [promote_medium EXCEPT ![c] =
                              IF MediumDue(c) THEN QUANTUM ELSE @ - 1]
      /\ promote_low' = [promote_low EXCEPT ![c] =
                           IF LowLeft(c) = 0 THEN QUANTUM ELSE LowLeft(c)]
      /\ preempt' = [preempt EXCEPT ![c] = QUANTUM]
      /\ UNCHANGED <<priority, core_affinity, torn, counters>>

-----------------------------------------------------------------------------
At(c, label) == ~torn /\ currpid[c] \in Procs /\ cpu[c].pc = label
Goto(c, label) == cpu' = [cpu EXCEPT ![c].pc = label]

(* Interrupts reach core c unless the process or the kernel masked them.   *)
Unmasked(c) == cpu[c].irq /\ cpu[c].pc \notin {"ready_enqueue", "ready_resched"}

(* clkhandler *)
Tick(c) ==
  /\ ~torn /\ currpid[c] \in Procs
  /\ Unmasked(c)
  /\ IF preempt[c] - 1 = 0
     THEN Resched(c, cpu[c])
     ELSE /\ preempt' = [preempt EXCEPT ![c] = @ - 1]
          /\ UNCHANGED <<pcbVars, regs, cpu, currpid, readylist, torn,
                         promote_medium, promote_low, counters>>

(* nulluser reschedules for ever, core_nulluser while numproc > 4.         *)
NullLoop(c) ==
  /\ At(c, "user")
  /\ currpid[c] \in NullProcs
  /\ currpid[c] = 0 \/ numproc > NCORES
  /\ Resched(c, cpu[c])

(* A program gives up the core (the loop at the end of testcases).         *)
Yield(c) ==
  /\ At(c, "user")
  /\ currpid[c] \notin NullProcs
  /\ Resched(c, cpu[c])

(* A program calls enable, as main does first.                             *)
Enable(c) ==
  /\ At(c, "user")
  /\ ~cpu[c].irq
  /\ cpu' = [cpu EXCEPT ![c].irq = TRUE]
  /\ UNCHANGED <<pcbVars, regs, schedVars, counters>>

-----------------------------------------------------------------------------
(* create *)

Create(c) ==
  /\ At(c, "user")
  /\ currpid[c] \in Creators
  /\ spawned < MaxSpawn
  /\ spawned' = spawned + 1
  /\ cpu' = [cpu EXCEPT ![c] = [@ EXCEPT !.pc = "newpid_next", !.tries = 0]]
  /\ UNCHANGED <<pcbVars, regs, schedVars, numproc, nextpid>>

(* newpid advances the shared nextpid atomically ...                       *)
NewpidNext(c) ==
  /\ At(c, "newpid_next")
  /\ nextpid' = (nextpid + 1) % NPROC
  /\ cpu' = [cpu EXCEPT ![c] = [@ EXCEPT !.pc = "newpid_check", !.tries = cpu[c].tries + 1]]
  /\ UNCHANGED <<pcbVars, regs, schedVars, numproc, spawned>>

NewpidCheckTaken(c) ==  \* mutant: a slot that waits on a ready list passes as free
  /\ At(c, "newpid_check")
  /\ cpu' = [cpu EXCEPT ![c] =
       IF state[nextpid] \in {"PRFREE", "PRREADY"} /\ nextpid \notin NullProcs
       THEN [@ EXCEPT !.pc = "newpid_return", !.arg = nextpid, !.tries = 0]
       ELSE IF @.tries < NPROC THEN [@ EXCEPT !.pc = "newpid_next"]
       ELSE [@ EXCEPT !.pc = "user", !.arg = SYSERR, !.tries = 0]]
  /\ UNCHANGED <<pcbVars, regs, schedVars, counters>>

(* ... and then reads it again, to look at a slot it does not reserve ...  *)
NewpidCheck(c) ==
  /\ At(c, "newpid_check")
  /\ cpu' = [cpu EXCEPT ![c] =
       IF state[nextpid] = "PRFREE"
       THEN [@ EXCEPT !.pc = "newpid_return", !.arg = nextpid, !.tries = 0]
       ELSE IF @.tries < NPROC THEN [@ EXCEPT !.pc = "newpid_next"]
       ELSE [@ EXCEPT !.pc = "user", !.arg = SYSERR, !.tries = 0]]
  /\ UNCHANGED <<pcbVars, regs, schedVars, counters>>

(* ... and a third time to return it, unless the compiler has kept what it *)
(* read for the look.                                                      *)
NewpidReturn(c) ==
  /\ At(c, "newpid_return")
  /\ \E pid \in {cpu[c].arg, nextpid} :
       cpu' = [cpu EXCEPT ![c] = [@ EXCEPT !.pc = "create_count", !.arg = pid]]
  /\ UNCHANGED <<pcbVars, regs, schedVars, counters>>

CreateCount(c) ==
  /\ At(c, "create_count")
  /\ numproc' = numproc + 1
  /\ Goto(c, "create_suspend")
  /\ UNCHANGED <<pcbVars, regs, schedVars, nextpid, spawned>>

(* The slot is in use from here on, and keeps the fields of its last       *)
(* process until they are filled in: a program can kill it meanwhile.      *)
CreateSuspend(c) ==
  /\ At(c, "create_suspend")
  /\ state' = [state EXCEPT ![cpu[c].arg] = "PRSUSP"]
  /\ Goto(c, "create_fill")
  /\ UNCHANGED <<priority, core_affinity, regs, schedVars, counters>>

CreateFillStale(c) ==  \* mutant: the saved registers are not set up
  LET pid == cpu[c].arg
  IN  /\ At(c, "create_fill")
      /\ core_affinity' = [core_affinity EXCEPT ![pid] = -1]
      /\ \E prio \in ChildPriorities : priority' = [priority EXCEPT ![pid] = prio]
      /\ Goto(c, "ready")
      /\ UNCHANGED <<state, regs, schedVars, counters>>

(* Nobody looks at these fields of a process that is in no list, but for a *)
(* kill at its core_affinity: their stores are one step.                   *)
CreateFill(c) ==
  LET pid == cpu[c].arg
  IN  /\ At(c, "create_fill")
      /\ core_affinity' = [core_affinity EXCEPT ![pid] = -1]
      /\ \E prio \in ChildPriorities : priority' = [priority EXCEPT ![pid] = prio]
      /\ regs' = [regs EXCEPT ![pid] = FreshContext]
      /\ Goto(c, "ready")
      /\ UNCHANGED <<state, schedVars, counters>>

-----------------------------------------------------------------------------
(* ready, which programs call on what create returned *)

ReadyMark(c) ==
  LET pid == cpu[c].arg
  IN  /\ At(c, "ready")
      /\ IF isbadpid(pid)
         THEN Goto(c, "user") /\ UNCHANGED <<state, core_affinity>>
         ELSE /\ state' = [state EXCEPT ![pid] = "PRREADY"]
              /\ \E core \in Cores :
                   core_affinity' = [core_affinity EXCEPT ![pid] =
                                       IF @ = -1 THEN core ELSE @]
              /\ Goto(c, "ready_enqueue")
      /\ UNCHANGED <<priority, regs, schedVars, counters>>

ReadyEnqueueHere(c) ==  \* mutant: enqueued on the caller's core
  LET pid == cpu[c].arg
  IN  /\ At(c, "ready_enqueue")
      /\ readylist' = [readylist EXCEPT ![c] = Enqueue(@, priority[pid], pid)]
      /\ Goto(c, "user")
      /\ UNCHANGED <<pcbVars, regs, currpid, torn, quantums, counters>>

(* With the list to itself, enqueue appends.                               *)
ReadyEnqueue(c) ==
  LET pid  == cpu[c].arg
      core == core_affinity[pid]
  IN  /\ At(c, "ready_enqueue")
      /\ readylist' = [readylist EXCEPT ![core] = Enqueue(@, priority[pid], pid)]
      /\ \/ core = c /\ Goto(c, "ready_resched")
         \/ Goto(c, "user")
      /\ UNCHANGED <<pcbVars, regs, currpid, torn, quantums, counters>>

ReadyResched(c) ==
  /\ At(c, "ready_resched")
  /\ Resched(c, [cpu[c] EXCEPT !.pc = "user"])

-----------------------------------------------------------------------------
(* kill, called on itself by a process that returns (userret) *)

Kill(c, pid) ==
  /\ At(c, "user")
  /\ currpid[c] \notin NullProcs
  /\ ~isbadpid(pid)
  /\ pid \notin NullProcs
  /\ core_affinity[pid] = c
  /\ pid = currpid[c] \/ cpu[c].irq \in KillOthers
  /\ cpu' = [cpu EXCEPT ![c] = [@ EXCEPT !.pc = "kill_count", !.arg = pid]]
  /\ UNCHANGED <<pcbVars, regs, schedVars, counters>>

KillCountMissing(c) ==  \* mutant: numproc is not decremented
  At(c, "kill_count") /\ Goto(c, "kill_switch") /\ UNCHANGED <<pcbVars, regs, schedVars, counters>>

KillCount(c) ==
  /\ At(c, "kill_count")
  /\ numproc' = numproc - 1
  /\ Goto(c, "kill_switch")
  /\ UNCHANGED <<pcbVars, regs, schedVars, nextpid, spawned>>

KillSwitch(c) ==
  LET pid == cpu[c].arg
  IN  /\ At(c, "kill_switch")
      /\ IF state[pid] = "PRREADY"
         THEN Goto(c, "kill_remove") /\ UNCHANGED state
         ELSE /\ state' = [state EXCEPT ![pid] = "PRFREE"]
              /\ Goto(c, IF state[pid] = "PRCURR" THEN "kill_resched" ELSE "user")
      /\ UNCHANGED <<priority, core_affinity, regs, schedVars, counters>>

(* The call of resched after PRCURR falls through to PRREADY if it returns.*)
KillResched(c) ==
  /\ At(c, "kill_resched")
  /\ Resched(c, [cpu[c] EXCEPT !.pc = "kill_remove"])

Unlink(list, pid) ==
  IF Contains(list, pid)
  THEN RemoveAt(list, CHOOSE i \in 1 .. Len(list) : list[i] = pid)
  ELSE list

InList(pid) == \E d \in Cores, q \in Priorities : Contains(readylist[d][q], pid)

(* remove refuses a bad pid, and walks from the process to its list,       *)
(* whichever that is.                                                      *)
KillRemove(c) ==
  LET pid == cpu[c].arg
  IN  /\ At(c, "kill_remove")
      /\ \/ isbadpid(pid) /\ UNCHANGED readylist
         \/ /\ ~isbadpid(pid) /\ InList(pid)
            /\ readylist' = [d \in Cores |-> [q \in Priorities |-> Unlink(readylist[d][q], pid)]]
      /\ Goto(c, "kill_clear")
      /\ UNCHANGED <<pcbVars, regs, currpid, torn, quantums, counters>>

KillClear(c) ==
  /\ At(c, "kill_clear")
  /\ state' = [state EXCEPT ![cpu[c].arg] = "PRFREE"]
  /\ Goto(c, "user")
  /\ UNCHANGED <<priority, core_affinity, regs, schedVars, counters>>

-----------------------------------------------------------------------------
(* Two cores meet in a ready list: an append comes to the list of another  *)
(* core while that core or a third one is at it, or a remove does so, or   *)
(* follows the links that a process which is in no list has left from its  *)
(* last one (zero, if it never was in any).                                *)
Meet(c) ==
  LET pid == cpu[c].arg
  IN  /\ \/ At(c, "ready_enqueue") /\ core_affinity[pid] # c
         \/ At(c, "kill_remove") /\ \A q \in Priorities : ~Contains(readylist[c][q], pid)
      /\ ~isbadpid(pid)
      /\ torn' = TRUE
      /\ UNCHANGED <<pcbVars, regs, cpu, currpid, readylist, quantums, counters>>

Stopped == torn /\ UNCHANGED vars

KernelStep(c) ==
  \/ NewpidNext(c) \/ NewpidCheck(c) \/ NewpidReturn(c)
  \/ CreateCount(c) \/ CreateSuspend(c) \/ CreateFill(c)
  \/ ReadyMark(c) \/ ReadyEnqueue(c) \/ ReadyResched(c)
  \/ KillCount(c) \/ KillSwitch(c) \/ KillResched(c) \/ KillRemove(c) \/ KillClear(c)

Program(c) == Enable(c) \/ Yield(c) \/ Create(c) \/ \E pid \in Procs : Kill(c, pid)

Next ==
  \/ \E c \in Cores : Tick(c) \/ NullLoop(c) \/ KernelStep(c) \/ Program(c) \/ Meet(c)
  \/ Stopped

Spec == Init /\ [][Next]_vars

(* The timer keeps interrupting, kernel code and the loops of the null     *)
(* processes run on while their core executes them.  Of a program nothing  *)
(* is assumed but that the Enablers call enable.                           *)
Fairness ==
  \A c \in Cores :
    /\ WF_vars(Tick(c))
    /\ WF_vars(NullLoop(c))
    /\ WF_vars(KernelStep(c))
    /\ WF_vars(Enable(c) /\ currpid[c] \in Enablers)

FairSpec == Spec /\ Fairness

-----------------------------------------------------------------------------
(* Properties *)

(* Every variable stays in its range; in particular no quantum, each an    *)
(* unsigned long that is decremented before it is tested, ever wraps.      *)
TypeOK ==
  /\ state \in [Procs -> States]
  /\ priority \in [Procs -> Priorities]
  /\ core_affinity \in [Procs -> Cores \cup {-1}]
  /\ regs \in [Procs -> Contexts]
  /\ currpid \in [Cores -> Procs \cup {EMPTY}]
  /\ cpu \in [Cores -> Contexts]
  /\ readylist \in [Cores -> [Priorities -> Seq(Procs)]]
  /\ torn \in BOOLEAN
  /\ promote_medium \in [Cores -> 1 .. QUANTUM]
  /\ promote_low \in [Cores -> 1 .. QUANTUM]
  /\ preempt \in [Cores -> 1 .. QUANTUM]
  /\ numproc \in Int
  /\ nextpid \in Procs
  /\ spawned \in 0 .. MaxSpawn

(* The positions process p has in ready lists, and the cores that run it.  *)
Slots(p) == {s \in Cores \X Priorities \X (1 .. NPROC) :
               s[3] <= Len(readylist[s[1]][s[2]]) /\ readylist[s[1]][s[2]][s[3]] = p}
CoresOf(p) == {c \in Cores : currpid[c] = p}

(* A process is in at most one ready list, once, and then runs on no core; *)
(* it never runs on two cores (queue.h: "in at most one queue at a time"). *)
OnePlace == \A p \in Procs : Cardinality(Slots(p)) + Cardinality(CoresOf(p)) <= 1

(* A ready process is in a ready list, unless a core is just about to      *)
(* enqueue it or has unlinked it to free its slot: no process is lost.     *)
ReadyMeansListed ==
  \A p \in Procs : state[p] = "PRREADY" =>
    \/ Slots(p) # {}
    \/ \E c \in Cores : cpu[c].pc \in {"ready_enqueue", "kill_clear"} /\ cpu[c].arg = p

(* Where a process is agrees with its state and its core affinity: what a  *)
(* core lists is ready and its own, and what it runs is current and its    *)
(* own, or has just freed itself in kill and is about to leave.            *)
PlaceMatchesState ==
  /\ \A p \in Procs : \A s \in Slots(p) : state[p] = "PRREADY" /\ core_affinity[p] = s[1]
  /\ \A c \in Cores :
       /\ currpid[c] \in Procs
       /\ core_affinity[currpid[c]] = c
       /\ state[currpid[c]] = IF cpu[c].pc = "kill_resched" THEN "PRFREE" ELSE "PRCURR"

(* "The null process is always eligible to run" (proc.h): each core's null *)
(* process runs on it or waits in one of its lists, through any number of  *)
(* promotions, so resched always finds a process and never takes EMPTY.    *)
Holds(lists, p) == \E q \in Priorities : Contains(lists[q], p)
NullEligible ==
  \A c \in Cores :
    /\ currpid[c] \in Procs
    /\ currpid[c] = c \/ Holds(readylist[c], c)

(* The context of a process, and those that run or are to, at a label.     *)
Context(p) == IF CoresOf(p) = {} THEN regs[p] ELSE cpu[CHOOSE c \in CoresOf(p) : TRUE]
Busy(labels) == {p \in Procs : /\ state[p] = "PRREADY" \/ CoresOf(p) # {}
                               /\ Context(p).pc \in labels}

(* numproc counts the slots in use, but for the creations that have        *)
(* counted a slot not yet taken and the kills that have discounted one     *)
(* not yet freed; the null processes of cores 1 up idle on this count.     *)
NumprocAccounts ==
  numproc = Cardinality({p \in Procs : state[p] # "PRFREE"})
            + Cardinality(Busy({"create_suspend"}))
            - Cardinality(Busy({"kill_switch", "kill_remove", "kill_clear"}))

(* The slot newpid returned ("a free process id", create.c) is still free  *)
(* when create takes it, whatever else creates processes meanwhile.        *)
FreePidStaysFree ==
  \A p \in Busy({"create_count", "create_suspend"}) : state[Context(p).arg] = "PRFREE"

(* "Process slot is free" (proc.h): a slot create has filled in is run by  *)
(* no core, and its registers still are the ones create set up, when its   *)
(* creator makes it ready, whatever ran, ended or was killed meanwhile.    *)
CreatedContextIntact ==
  \A p \in Busy({"ready"}) : LET pid == Context(p).arg IN
    state[pid] = "PRSUSP" => regs[pid] = FreshContext /\ CoresOf(pid) = {}

(* The saved context of a process that waits in a ready list is restored   *)
(* as it was saved: nothing writes it in between.                          *)
ContextKept ==
  [][\A p \in Procs : Slots(p) # {} => regs'[p] = regs[p]]_vars

(* "Queue aging prevents starvation" (kernel.h): a ready process, whatever *)
(* its priority, gets the core.                                            *)
NoStarvation ==
  \A p \in Procs : state[p] = "PRREADY" ~> state[p] \in {"PRCURR", "PRFREE"}
==============================================================================
