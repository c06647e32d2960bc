------------------------------- MODULE Messages -------------------------------
(***************************************************************************)
(* Message passing in the xinu-hw9 kernel: send.c, sendnow.c, recv.c and   *)
(* recvnow.c.  A process has one message slot, a queue of senders that     *)
(* found it full, and a spinlock, if it is one of the processes for which  *)
(* lock_create found one.                                                  *)
(*                                                                         *)
(* The calls do not touch the interrupt mask: a program that has enabled   *)
(* interrupts is preempted between any two steps, one that has not (every  *)
(* process starts so) keeps its core.  The cores interleave at every step. *)
(***************************************************************************)
EXTENDS ReadyLists

CONSTANTS
  HasLock,        \* processes whose core_com_lock exists
  Interruptible,  \* processes that have enabled interrupts
  Sends, Sendnows,     \* <<sender, receiver>>: who calls send, sendnow to whom
  Recvs, Recvnows,     \* who calls recv, recvnow
  MaxMessages     \* bound: messages sent in a behaviour

Free     == -4
NULL     == 0
Messages == 1 .. MaxMessages

ASSUME MessagesAssumption ==
  /\ HasLock \subseteq Procs /\ Interruptible \subseteq Procs
  /\ Free \notin Procs
  /\ Sends \subseteq Procs \X Procs /\ Sendnows \subseteq Procs \X Procs
  /\ Recvs \subseteq Procs /\ Recvnows \subseteq Procs
  /\ MaxMessages \in Nat

VARIABLES
  hasMessage, msgin, msgout, msgqueue,   \* msg_var of each process
  lock,     \* the holder of each core_com_lock
  ctx,      \* where each process is in its call
  sent,     \* messages sent so far (bounded)
  got       \* history: the messages received

box  == <<hasMessage, msgin, msgout, msgqueue>>
vars == <<box, lock, sched, ctx, sent, got>>

Steps == {"user", "look", "acquire", "test", "block", "enqueue", "unlock", "resched", "asleep",
          "deposit", "flag", "wake", "mark", "enlist", "yield", "sleep", "take", "clear", "dequeue",
          "refill", "wakesender", "reset", "release"}

(* Where the call is, whose slot it is about, the message, and the sender  *)
(* recv has dequeued.                                                      *)
Contexts == [op : {"none", "send", "sendnow", "recv", "recvnow"}, at : Steps,
             to : Procs \cup {EMPTY}, msg : Messages \cup {NULL}, pid : Procs \cup {EMPTY}]
User     == [op |-> "none", at |-> "user", to |-> EMPTY, msg |-> NULL, pid |-> EMPTY]

Init ==
  /\ hasMessage = [p \in Procs |-> FALSE]
  /\ msgin = [p \in Procs |-> NULL]
  /\ msgout = [p \in Procs |-> NULL]
  /\ msgqueue = [p \in Procs |-> <<>>]
  /\ lock = [p \in Procs |-> Free]
  /\ SchedInit
  /\ ctx = [p \in Procs |-> User]
  /\ sent = 0
  /\ got = {}

At(p, step) == ~torn /\ Running(p) /\ ctx[p].at = step
Goto(p, step) == ctx' = [ctx EXCEPT ![p].at = step]
Return(p) == ctx' = [ctx EXCEPT ![p] = User]
IsSend(p) == ctx[p].op \in {"send", "sendnow"}

(* The clock ticks: in a program, in a call of one that has enabled        *)
(* interrupts, or while the null process looks for work.  ready masks them.*)
Preempt(c) ==
  /\ ~torn
  /\ currpid[c] \in Procs \ Interruptible => ctx[currpid[c]].at = "user"
  /\ currpid[c] \in Procs => ctx[currpid[c]].at \notin {"enlist", "yield"}
  /\ Resched(c)
  /\ UNCHANGED <<box, lock, ctx, sent, got>>

-----------------------------------------------------------------------------
(* Calls.  The processes stay alive, so no call is refused a bad pid.      *)

Post(p, r, op, step) ==
  /\ At(p, "user") /\ sent < MaxMessages
  /\ sent' = sent + 1
  /\ ctx' = [ctx EXCEPT ![p] = [User EXCEPT !.op = op, !.at = step, !.to = r, !.msg = sent + 1]]
  /\ UNCHANGED <<box, lock, sched, got>>

Get(p, op) ==
  /\ At(p, "user")
  /\ ctx' = [ctx EXCEPT ![p] = [User EXCEPT !.op = op, !.at = "acquire", !.to = p]]
  /\ UNCHANGED <<box, lock, sched, sent, got>>

Send(p, r)    == <<p, r>> \in Sends /\ Post(p, r, "send", "acquire")
Sendnow(p, r) == <<p, r>> \in Sendnows /\ Post(p, r, "sendnow", "look")
Recv(p)       == p \in Recvs /\ Get(p, "recv")
Recvnow(p)    == p \in Recvnows /\ Get(p, "recvnow")

-----------------------------------------------------------------------------
(* The lock.  Without one lock_acquire and lock_release do nothing.        *)

Acquire(p) ==
  LET r == ctx[p].to
  IN  /\ At(p, "acquire")
      /\ r \in HasLock => lock[r] = Free
      /\ lock' = IF r \in HasLock THEN [lock EXCEPT ![r] = p] ELSE lock
      /\ Goto(p, IF ctx[p].op = "sendnow" THEN "deposit" ELSE "test")
      /\ UNCHANGED <<box, sched, sent, got>>

Unlock(r) == lock' = IF r \in HasLock THEN [lock EXCEPT ![r] = Free] ELSE lock

Release(p) ==
  /\ At(p, "release")
  /\ Unlock(ctx[p].to)
  /\ Return(p)
  /\ UNCHANGED <<box, sched, sent, got>>

-----------------------------------------------------------------------------
(* send, sendnow *)

(* sendnow looks at the slot before it has the lock.                       *)
Look(p) ==
  /\ At(p, "look")
  /\ IF hasMessage[ctx[p].to] THEN Return(p) ELSE Goto(p, "acquire")
  /\ UNCHANGED <<box, lock, sched, sent, got>>

TestBlind(p) ==  \* mutant: send deposits whether the slot is full or not
  /\ At(p, "test") /\ IsSend(p)
  /\ Goto(p, "deposit")
  /\ UNCHANGED <<box, lock, sched, sent, got>>

Test(p) ==
  /\ At(p, "test") /\ IsSend(p)
  /\ Goto(p, IF hasMessage[ctx[p].to] THEN "block" ELSE "deposit")
  /\ UNCHANGED <<box, lock, sched, sent, got>>

Block(p) ==
  /\ At(p, "block")
  /\ state' = [state EXCEPT ![p] = "PRSEND"]
  /\ Goto(p, "enqueue")
  /\ UNCHANGED <<box, lock, currpid, readylist, torn, sent, got>>

Enqueue(p) ==
  /\ At(p, "enqueue")
  /\ msgout' = [msgout EXCEPT ![p] = ctx[p].msg]
  /\ msgqueue' = [msgqueue EXCEPT ![ctx[p].to] = Append(@, p)]
  /\ Goto(p, "unlock")
  /\ UNCHANGED <<hasMessage, msgin, lock, sched, sent, got>>

SendUnlock(p) ==
  /\ At(p, "unlock")
  /\ Unlock(ctx[p].to)
  /\ Goto(p, "resched")
  /\ UNCHANGED <<box, sched, sent, got>>

CallResched(p) ==
  /\ At(p, "resched")
  /\ Resched(Affinity[p])
  /\ Goto(p, "asleep")
  /\ UNCHANGED <<box, lock, sent, got>>

Awake(p) ==
  /\ At(p, "asleep")
  /\ IF IsSend(p) THEN Return(p) ELSE Goto(p, "take")
  /\ UNCHANGED <<box, lock, sched, sent, got>>

Deposit(p) ==
  /\ At(p, "deposit")
  /\ msgin' = [msgin EXCEPT ![ctx[p].to] = ctx[p].msg]
  /\ Goto(p, "flag")
  /\ UNCHANGED <<hasMessage, msgout, msgqueue, lock, sched, sent, got>>

Flag(p) ==
  /\ At(p, "flag")
  /\ hasMessage' = [hasMessage EXCEPT ![ctx[p].to] = TRUE]
  /\ Goto(p, "wake")
  /\ UNCHANGED <<msgin, msgout, msgqueue, lock, sched, sent, got>>

WakeNever(p) ==  \* mutant: the receiver is not made ready
  /\ At(p, "wake")
  /\ Goto(p, "release")
  /\ UNCHANGED <<box, lock, sched, sent, got>>

Wake(p) ==
  /\ At(p, "wake")
  /\ Goto(p, IF state[ctx[p].to] = "PRRECV" THEN "mark" ELSE "release")
  /\ UNCHANGED <<box, lock, sched, sent, got>>

(* ready, of the receiver here and of the sender in recv: whatever has     *)
(* become of the process since, it is marked and enqueued.                 *)
Mark(p) ==
  /\ At(p, "mark")
  /\ MarkReady(ctx[p].to)
  /\ Goto(p, "enlist")
  /\ UNCHANGED <<box, lock, sent, got>>

Woken(p) == IF IsSend(p) THEN ctx[p].to ELSE ctx[p].pid

Enlist(p) ==
  /\ At(p, "enlist")
  /\ ListReady(Woken(p))
  /\ Goto(p, IF IsSend(p) /\ Affinity[ctx[p].to] = Affinity[p] THEN "yield" ELSE "release")
  /\ UNCHANGED <<box, lock, sent, got>>

Meet(p) ==
  /\ At(p, "enlist")
  /\ Meets(Woken(p), Affinity[p])
  /\ UNCHANGED <<box, lock, ctx, sent, got>>

(* Only the senders pass RESCHED_YES.                                      *)
Yield(p) ==
  /\ At(p, "yield")
  /\ Resched(Affinity[p])
  /\ Goto(p, "release")
  /\ UNCHANGED <<box, lock, sent, got>>

-----------------------------------------------------------------------------
(* recv, recvnow *)

GetTestEager(p) ==  \* mutant: an empty slot is read
  /\ At(p, "test") /\ ~IsSend(p)
  /\ Goto(p, "take")
  /\ UNCHANGED <<box, lock, sched, sent, got>>

GetTest(p) ==
  /\ At(p, "test") /\ ~IsSend(p)
  /\ Goto(p, CASE hasMessage[p] -> "take"
               [] ~hasMessage[p] /\ ctx[p].op = "recv" -> "sleep"
               [] OTHER -> "release")
  /\ UNCHANGED <<box, lock, sched, sent, got>>

Sleep(p) ==
  /\ At(p, "sleep")
  /\ state' = [state EXCEPT ![p] = "PRRECV"]
  /\ Goto(p, "resched")
  /\ UNCHANGED <<box, lock, currpid, readylist, torn, sent, got>>

TakeMessage(p) ==
  /\ At(p, "take")
  /\ ctx' = [ctx EXCEPT ![p].msg = msgin[p], ![p].at = "clear"]
  /\ UNCHANGED <<box, lock, sched, sent, got>>

Clear(p) ==
  /\ At(p, "clear")
  /\ hasMessage' = [hasMessage EXCEPT ![p] = FALSE]
  /\ got' = got \cup {ctx[p].msg}
  /\ Goto(p, IF ctx[p].op = "recv" THEN "dequeue" ELSE "release")
  /\ UNCHANGED <<msgin, msgout, msgqueue, lock, sched, sent>>

DequeueLeaves(p) ==  \* mutant: the sender stays in the queue
  /\ At(p, "dequeue")
  /\ IF msgqueue[p] = <<>> THEN Goto(p, "reset")
     ELSE ctx' = [ctx EXCEPT ![p].pid = Head(msgqueue[p]), ![p].at = "refill"]
  /\ UNCHANGED <<box, lock, sched, sent, got>>

Dequeue(p) ==
  /\ At(p, "dequeue")
  /\ IF msgqueue[p] = <<>> THEN Goto(p, "reset") /\ UNCHANGED msgqueue
     ELSE /\ ctx' = [ctx EXCEPT ![p].pid = Head(msgqueue[p]), ![p].at = "refill"]
          /\ msgqueue' = [msgqueue EXCEPT ![p] = Tail(@)]
  /\ UNCHANGED <<hasMessage, msgin, msgout, lock, sched, sent, got>>

RefillUnflagged(p) ==  \* mutant: hasMessage stays as it was cleared
  /\ At(p, "refill")
  /\ msgin' = [msgin EXCEPT ![p] = msgout[ctx[p].pid]]
  /\ msgout' = [msgout EXCEPT ![ctx[p].pid] = NULL]
  /\ Goto(p, "wakesender")
  /\ UNCHANGED <<hasMessage, msgqueue, lock, sched, sent, got>>

Refill(p) ==
  /\ At(p, "refill")
  /\ msgin' = [msgin EXCEPT ![p] = msgout[ctx[p].pid]]
  /\ hasMessage' = [hasMessage EXCEPT ![p] = TRUE]
  /\ msgout' = [msgout EXCEPT ![ctx[p].pid] = NULL]
  /\ Goto(p, "wakesender")
  /\ UNCHANGED <<msgqueue, lock, sched, sent, got>>

WakeSender(p) ==
  /\ At(p, "wakesender")
  /\ MarkReady(ctx[p].pid)
  /\ Goto(p, "enlist")
  /\ UNCHANGED <<box, lock, sent, got>>

Reset(p) ==
  /\ At(p, "reset")
  /\ hasMessage' = [hasMessage EXCEPT ![p] = FALSE]
  /\ Goto(p, "release")
  /\ UNCHANGED <<msgin, msgout, msgqueue, lock, sched, sent, got>>

-----------------------------------------------------------------------------
Calling(p) == Recv(p) \/ Recvnow(p) \/ \E r \in Procs : Send(p, r) \/ Sendnow(p, r)

Kernel(p) ==
  \/ Acquire(p) \/ Release(p)
  \/ Look(p) \/ Test(p) \/ Block(p) \/ Enqueue(p) \/ SendUnlock(p) \/ CallResched(p) \/ Awake(p)
  \/ Deposit(p) \/ Flag(p) \/ Wake(p) \/ Mark(p) \/ Enlist(p) \/ Yield(p)
  \/ GetTest(p) \/ Sleep(p) \/ TakeMessage(p) \/ Clear(p)
  \/ Dequeue(p) \/ Refill(p) \/ WakeSender(p) \/ Reset(p)

Stopped == torn /\ UNCHANGED vars

Next ==
  \/ \E p \in Procs : Calling(p) \/ Kernel(p) \/ Meet(p)
  \/ \E c \in Cores : Preempt(c)
  \/ Stopped

Spec == Init /\ [][Next]_vars

(* A running call goes on, except for a spin, and the clock keeps ticking. *)
FairSpec == /\ Spec
            /\ \A p \in Procs : WF_vars(Kernel(p))
            /\ \A c \in Cores : WF_vars(Preempt(c))

-----------------------------------------------------------------------------
(* Properties *)

TypeOK ==
  /\ hasMessage \in [Procs -> BOOLEAN]
  /\ msgin \in [Procs -> Messages \cup {NULL}]
  /\ msgout \in [Procs -> Messages \cup {NULL}]
  /\ msgqueue \in [Procs -> Seq(Procs)]
  /\ lock \in [Procs -> Procs \cup {Free}]
  /\ SchedTypeOK({"PRCURR", "PRREADY", "PRRECV", "PRSEND"})
  /\ ctx \in [Procs -> Contexts]
  /\ sent \in 0 .. MaxMessages
  /\ got \subseteq Messages

(* A process without a lock, and all that send to it, share a core and     *)
(* keep the interrupts masked.                                             *)
Guarded ==
  \A r \in Procs \ HasLock :
    /\ r \notin Interruptible
    /\ \A s \in Procs : <<s, r>> \in Sends \cup Sendnows =>
         s \notin Interruptible /\ Affinity[s] = Affinity[r]

(* sendnow looks at the slot before it has the lock: nobody else may send  *)
(* to a process that has a lock and to which sendnow is called.            *)
Single ==
  \A s, t, r \in Procs :
    r \in HasLock /\ <<s, r>> \in Sendnows /\ <<t, r>> \in Sends \cup Sendnows => s = t

(* "recv - wait for a mesage and return it" (recv.c): a receiver sleeps    *)
(* only while its slot is empty, or somebody is about to wake it.          *)
NoSleepWithMessage ==
  \A r \in Procs : state[r] = "PRRECV" /\ ctx[r].at = "asleep" /\ hasMessage[r] =>
    \E p \in Procs : ctx[p].at \in {"wake", "mark"} /\ ctx[p].to = r

(* "If receiving process has message, block sending process" (send.c): a   *)
(* sender sleeps only while the slot is full, or the receiver is at work   *)
(* on it.  A receiver that calls recvnow may empty the slot and leave the  *)
(* senders, so those are left out.                                         *)
SendersWaitForFullSlot ==
  \A r \in Procs \ Recvnows : msgqueue[r] # <<>> =>
    hasMessage[r] \/ ctx[r].at \in {"dequeue", "refill"}

(* Who calls send keeps the interrupts masked: a sender that is switched   *)
(* off before it has queued itself (send.c:49-53) is in no list for ever.  *)
MaskedSenders == \A s, r \in Procs : <<s, r>> \in Sends => s \notin Interruptible

(* The process r has taken from a queue or has made ready, unlisted yet.   *)
Hands(r) ==
  CASE ctx[r].at \in {"refill", "wakesender"} -> {ctx[r].pid}
    [] ctx[r].at = "enlist" -> {Woken(r)}
    [] OTHER -> {}

(* A ready process is on one ready list, a blocked sender in one queue,    *)
(* either of them maybe in the hands of who wakes it, until two cores meet *)
(* in a ready list.  A process that is current, or is just about to queue  *)
(* itself, and a blocked receiver, found by its state, are in no list.     *)
OnePlace ==
  \A p \in Procs :
    Cardinality(Spots(p, readylist)) + Cardinality(Spots(p, msgqueue))
    + Cardinality({r \in Procs : p \in Hands(r)})
    = IF state[p] \in {"PRCURR", "PRRECV"} \/ (Running(p) /\ ctx[p].at = "enqueue") THEN 0 ELSE 1

(* "recv - wait for a mesage and return it": a receiver that sleeps while  *)
(* somebody is sending to it returns.                                      *)
RecvReturns ==
  \A r \in Procs :
    (ctx[r].at = "asleep" /\ ctx[r].op = "recv" /\ \E p \in Procs : IsSend(p) /\ ctx[p].to = r)
    ~> ctx[r].at = "user"

-----------------------------------------------------------------------------
(* The slot and the queue of waiting senders behind it are a mailbox; the  *)
(* message that recv moves from one to the other stays in it.              *)
Mail(r) ==
  (IF hasMessage[r] THEN <<msgin[r]>> ELSE <<>>)
  \o (IF ctx[r].at = "refill" THEN <<msgout[ctx[r].pid]>> ELSE <<>>)
  \o [i \in DOMAIN msgqueue[r] |-> msgout[msgqueue[r][i]]]

Abstract == INSTANCE Mailboxes WITH
  Ordered <- Procs \ Recvnows,
  mail    <- [r \in Procs |-> Mail(r)],
  taken   <- got

(* No message is lost, received twice or overtaken on its way through slot *)
(* and queue, whatever the interleaving of senders and receiver.           *)
MailDelivered == Abstract!Spec
===============================================================================
