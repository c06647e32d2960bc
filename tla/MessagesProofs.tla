--------------------------- MODULE MessagesProofs ---------------------------
(***************************************************************************)
(* Theorems about Messages, for any number of cores and any set of         *)
(* processes, when the slots are guarded (Guarded): its types, that nobody *)
(* sleeps on a message or waits for an empty slot, that no process is lost *)
(* until two cores meet in a ready list (with MaskedSenders), and that the *)
(* calls implement Mailboxes (with Single).                                *)
(***************************************************************************)
EXTENDS Messages, ReadyListsProofs

States == {"PRCURR", "PRREADY", "PRRECV", "PRSEND"}

Gets(p) == ctx[p].op \in {"recv", "recvnow"}

(* Which steps a call goes through, and who makes it on which slot.        *)
MatchingAt(p) ==
  LET at == ctx[p].at
      op == ctx[p].op
  IN  /\ at = "user" <=> op = "none"
      /\ at = "look" => op = "sendnow"
      /\ at = "test" => op # "sendnow"
      /\ at \in {"block", "enqueue", "unlock"} => op = "send"
      /\ at \in {"deposit", "flag", "wake", "mark", "yield"} => IsSend(p)
      /\ at = "enlist" => op # "recvnow" /\ Woken(p) \in Procs
      /\ at \in {"resched", "asleep"} => op \in {"send", "recv"}
      /\ at \in {"take", "clear"} => Gets(p)
      /\ at \in {"sleep", "dequeue", "refill", "wakesender", "reset"} => op = "recv"
      /\ at \in {"refill", "wakesender"} => ctx[p].pid \in Procs
      /\ op = "send" => <<p, ctx[p].to>> \in Sends
      /\ op = "sendnow" => <<p, ctx[p].to>> \in Sendnows
      /\ op = "recv" => p \in Recvs
      /\ op = "recvnow" => p \in Recvnows
      /\ IsSend(p) => ctx[p].to \in Procs /\ ctx[p].msg \in 1 .. sent
      /\ Gets(p) => ctx[p].to = p
Matching == \A p \in Procs : MatchingAt(p)

(* r has taken p from its queue and not made it ready yet.                 *)
Holds(r, p) == ctx[r].at \in {"refill", "wakesender"} /\ ctx[r].pid = p
Held(p) == \E r \in Procs : Holds(r, p)

(* r has marked p as ready and not enqueued it yet.                        *)
Wakes(r, p) == ctx[r].at = "enlist" /\ Woken(r) = p
Marked == {p \in Procs : \E r \in Procs : Wakes(r, p)}

(* Blocked processes are in the calls that block them; a process that runs *)
(* is PRCURR unless it is about to give up its core.                       *)
Blocked ==
  \A p \in Procs :
    /\ state[p] = "PRSEND" => ctx[p].op = "send" /\ ctx[p].at \in {"enqueue", "unlock", "resched", "asleep"}
    /\ state[p] = "PRRECV" => ctx[p].op = "recv" /\ ctx[p].at \in {"resched", "asleep"}
    /\ ctx[p].at = "enqueue" => state[p] = "PRSEND"
    /\ Running(p) /\ ctx[p].at \notin {"enqueue", "unlock", "resched"} => state[p] = "PRCURR"

(* A sender that is blocked is in one queue, or in the hands of a receiver.*)
Queued ==
  /\ Family(msgqueue, Procs) /\ Apart(msgqueue)
  /\ \A p \in Procs : \A q, r \in Procs : Holds(q, p) /\ Holds(r, p) => q = r
  /\ \A p \in Procs : ~(In(p, msgqueue) /\ Held(p))
  /\ \A p \in Procs : In(p, msgqueue) \/ Held(p)
                      <=> (state[p] = "PRSEND" /\ ctx[p].at # "enqueue")

(* A process is woken once; the receiver that a sender found asleep sleeps *)
(* until the sender marks it.                                              *)
Once == /\ \A p, q, r \in Procs : Wakes(q, p) /\ Wakes(r, p) => q = r
        /\ \A p \in Procs : ctx[p].at = "mark" => state[ctx[p].to] = "PRRECV"

Placement == SchedOK(States) /\ Listing(Marked) /\ Blocked /\ Queued /\ Once

(* What is about to be read as a message is one.                           *)
Filled ==
  /\ \A r \in Procs : hasMessage[r] => msgin[r] # NULL
  /\ \A p \in Procs : /\ ctx[p].at \in {"flag", "wake", "mark"} => msgin[ctx[p].to] # NULL
                      /\ ctx[p].at = "take" => msgin[p] # NULL
                      /\ ctx[p].at = "clear" => ctx[p].msg # NULL
                      /\ (/\ ctx[p].op = "recv" /\ ctx[p].at \in {"resched", "asleep"}
                          /\ state[p] # "PRRECV") => msgin[p] # NULL
  /\ \A p \in Procs : \/ In(p, msgqueue)
                      \/ \E r \in Procs : ctx[r].at = "refill" /\ ctx[r].pid = p
                      => msgout[p] # NULL

PlaceInv == TypeOK /\ Matching /\ Placement /\ Filled

-----------------------------------------------------------------------------
(* What the actions do *)

(* The call of p goes from one step to the next, or returns.               *)
From(p, step) ==
  /\ p \in Procs /\ Running(p) /\ ctx[p].at = step
  /\ ctx' \in [Procs -> Contexts]
  /\ \A q \in Procs : q # p => ctx'[q] = ctx[q]
Stays(p) == ctx'[p].op = ctx[p].op /\ ctx'[p].to = ctx[p].to
To(p, step) == /\ ctx'[p].at = step /\ Stays(p)
               /\ ctx'[p].msg = ctx[p].msg /\ ctx'[p].pid = ctx[p].pid
Back(p) == ctx'[p].at = "user" /\ ctx'[p].op = "none"

(* Goto as From and To.                                                    *)
LEMMA GotoTo ==
  ASSUME ctx \in [Procs -> Contexts], NEW p \in Procs, NEW step, NEW next \in Steps,
         At(p, step), Goto(p, next)
  PROVE  From(p, step) /\ To(p, next)
BY DEF From, To, Stays, At, Goto, Contexts

(* Return as From and Back.                                                *)
LEMMA ReturnBack ==
  ASSUME ctx \in [Procs -> Contexts], NEW p \in Procs, NEW step, At(p, step), Return(p)
  PROVE  From(p, step) /\ Back(p)
<1>1. User \in Contexts /\ User.at = "user" /\ User.op = "none"
  BY DEF User, Contexts, Steps
<1> QED
  BY <1>1 DEF From, Back, At, Return

(* The receiver reads its message, or dequeues a sender.                   *)
LEMMA MsgRead ==
  ASSUME ctx \in [Procs -> Contexts], NEW p \in Procs, NEW m \in Messages \cup {NULL},
         At(p, "take"), ctx' = [ctx EXCEPT ![p].msg = m, ![p].at = "clear"]
  PROVE  From(p, "take") /\ Stays(p) /\ ctx'[p].at = "clear" /\ ctx'[p].msg = m
<1> DEFINE x == [ctx[p] EXCEPT !.msg = m, !.at = "clear"]
<1>1. ctx' = [ctx EXCEPT ![p] = x]
  OBVIOUS
<1>2. x \in Contexts /\ x.at = "clear" /\ x.msg = m /\ x.op = ctx[p].op /\ x.to = ctx[p].to
  BY DEF Contexts, Steps
<1> HIDE DEF x
<1> QED
  BY <1>1, <1>2 DEF From, Stays, At

(* The receiver dequeues a sender.                                         *)
LEMMA SenderDequeued ==
  ASSUME ctx \in [Procs -> Contexts], NEW p \in Procs, NEW q \in Procs,
         At(p, "dequeue"), ctx' = [ctx EXCEPT ![p].pid = q, ![p].at = "refill"]
  PROVE  From(p, "dequeue") /\ Stays(p) /\ ctx'[p].at = "refill" /\ ctx'[p].pid = q
<1> DEFINE x == [ctx[p] EXCEPT !.pid = q, !.at = "refill"]
<1>1. ctx' = [ctx EXCEPT ![p] = x]
  OBVIOUS
<1>2. x \in Contexts /\ x.at = "refill" /\ x.pid = q /\ x.op = ctx[p].op /\ x.to = ctx[p].to
  BY ZenonT(40) DEF Contexts, Steps
<1> HIDE DEF x
<1> QED
  BY ZenonT(40), <1>1, <1>2 DEF From, Stays, At

(* The calls, as the invariants below see them.                            *)
Begun(p, op, step, r) == ctx'[p].op = op /\ ctx'[p].at = step /\ ctx'[p].to = r

(* The calls, field by field.                                              *)
LEMMA CallingDoes ==
  ASSUME TypeOK, NEW p \in Procs, Calling(p)
  PROVE  /\ From(p, "user") /\ UNCHANGED <<box, lock, sched, got>>
         /\ sent' \in 0 .. MaxMessages /\ sent \in 0 .. MaxMessages
         /\ \/ p \in Recvs /\ Begun(p, "recv", "acquire", p) /\ sent' = sent
            \/ p \in Recvnows /\ Begun(p, "recvnow", "acquire", p) /\ sent' = sent
            \/ /\ sent' = sent + 1 /\ ctx'[p].msg = sent + 1
               /\ \E r \in Procs : \/ <<p, r>> \in Sends /\ Begun(p, "send", "acquire", r)
                                   \/ <<p, r>> \in Sendnows /\ Begun(p, "sendnow", "look", r)
<1>0. ctx \in [Procs -> Contexts] /\ sent \in 0 .. MaxMessages /\ MaxMessages \in Nat
  BY MessagesAssumption DEF TypeOK
<1>1. ASSUME NEW op \in {"recv", "recvnow"}, Get(p, op)
      PROVE  /\ From(p, "user") /\ UNCHANGED <<box, lock, sched, sent, got>>
             /\ Begun(p, op, "acquire", p)
  <2> DEFINE x == [User EXCEPT !.op = op, !.at = "acquire", !.to = p]
  <2>1. At(p, "user") /\ ctx' = [ctx EXCEPT ![p] = x] /\ UNCHANGED <<box, lock, sched, sent, got>>
    BY <1>1 DEF Get
  <2>2. x \in Contexts /\ x.op = op /\ x.at = "acquire" /\ x.to = p
    BY DEF User, Contexts, Steps
  <2> HIDE DEF x
  <2> QED
    BY <2>1, <2>2, <1>0 DEF From, Begun, At
<1>2. ASSUME NEW op \in {"send", "sendnow"}, NEW r \in Procs, NEW step \in Steps, Post(p, r, op, step)
      PROVE  /\ From(p, "user") /\ UNCHANGED <<box, lock, sched, got>>
             /\ Begun(p, op, step, r) /\ sent' = sent + 1 /\ ctx'[p].msg = sent + 1
             /\ sent' \in 0 .. MaxMessages
  <2> DEFINE m == sent + 1
             x == [User EXCEPT !.op = op, !.at = step, !.to = r, !.msg = m]
  <2>1. /\ At(p, "user") /\ ctx' = [ctx EXCEPT ![p] = x] /\ UNCHANGED <<box, lock, sched, got>>
        /\ sent' = m /\ sent < MaxMessages
    BY <1>2 DEF Post
  <2>2. m \in Messages /\ m \in 0 .. MaxMessages
    BY <2>1, <1>0 DEF Messages
  <2> HIDE DEF m
  <2>3. x \in Contexts /\ x.op = op /\ x.at = step /\ x.to = r /\ x.msg = m
    BY <2>2 DEF User, Contexts, Steps
  <2> HIDE DEF x
  <2> QED
    BY <2>1, <2>2, <2>3, <1>0 DEF From, Begun, At, m
<1>3. {"look", "acquire"} \subseteq Steps
  BY DEF Steps
<1>4. CASE Recv(p) \/ Recvnow(p)
  BY <1>1, <1>4, <1>0 DEF Recv, Recvnow
<1>5. CASE \E r \in Procs : Send(p, r) \/ Sendnow(p, r)
  <2>1. PICK r \in Procs : Send(p, r) \/ Sendnow(p, r)
    BY <1>5
  <2> QED
    BY <1>2, <1>3, <1>0, <2>1 DEF Send, Sendnow
<1> QED
  BY <1>4, <1>5 DEF Calling

(* The actions, as the invariants below see them.                          *)
LEMMA Does ==
  ASSUME TypeOK, Matching, NEW p \in Procs
  PROVE  LET r == ctx[p].to IN
    /\ Acquire(p) =>
         /\ From(p, "acquire") /\ r \in Procs
         /\ r \in HasLock => lock[r] = Free
         /\ lock' = IF r \in HasLock THEN [lock EXCEPT ![r] = p] ELSE lock
         /\ IF ctx[p].op = "sendnow" THEN To(p, "deposit") ELSE To(p, "test")
         /\ UNCHANGED <<box, sched, sent, got>>
    /\ Release(p) =>
         /\ From(p, "release") /\ r \in Procs
         /\ Unlock(r)
         /\ Back(p)
         /\ UNCHANGED <<box, sched, sent, got>>
    /\ Look(p) =>
         /\ From(p, "look") /\ r \in Procs
         /\ ctx[p].op = "sendnow"
         /\ IF hasMessage[r] THEN Back(p) ELSE To(p, "acquire")
         /\ UNCHANGED <<box, lock, sched, sent, got>>
    /\ Test(p) =>
         /\ From(p, "test") /\ r \in Procs
         /\ ctx[p].op = "send"
         /\ IF hasMessage[r] THEN To(p, "block") ELSE To(p, "deposit")
         /\ UNCHANGED <<box, lock, sched, sent, got>>
    /\ Block(p) =>
         /\ From(p, "block") /\ r \in Procs
         /\ To(p, "enqueue")
         /\ state' = [state EXCEPT ![p] = "PRSEND"]
         /\ UNCHANGED <<box, lock, currpid, readylist, torn, sent, got>>
    /\ Enqueue(p) =>
         /\ From(p, "enqueue") /\ r \in Procs
         /\ To(p, "unlock")
         /\ msgout' = [msgout EXCEPT ![p] = ctx[p].msg]
         /\ msgqueue' = [msgqueue EXCEPT ![r] = Append(@, p)]
         /\ UNCHANGED <<hasMessage, msgin, lock, sched, sent, got>>
    /\ SendUnlock(p) =>
         /\ From(p, "unlock") /\ r \in Procs
         /\ Unlock(r)
         /\ To(p, "resched")
         /\ UNCHANGED <<box, sched, sent, got>>
    /\ CallResched(p) =>
         /\ From(p, "resched") /\ r \in Procs
         /\ Resched(Affinity[p])
         /\ To(p, "asleep")
         /\ UNCHANGED <<box, lock, sent, got>>
    /\ Awake(p) =>
         /\ From(p, "asleep") /\ r \in Procs
         /\ IF ctx[p].op = "send" THEN Back(p) ELSE ctx[p].op = "recv" /\ To(p, "take")
         /\ UNCHANGED <<box, lock, sched, sent, got>>
    /\ Deposit(p) =>
         /\ From(p, "deposit") /\ r \in Procs
         /\ IsSend(p)
         /\ To(p, "flag")
         /\ msgin' = [msgin EXCEPT ![r] = ctx[p].msg]
         /\ UNCHANGED <<hasMessage, msgout, msgqueue, lock, sched, sent, got>>
    /\ Flag(p) =>
         /\ From(p, "flag") /\ r \in Procs
         /\ IsSend(p)
         /\ To(p, "wake")
         /\ hasMessage' = [hasMessage EXCEPT ![r] = TRUE]
         /\ UNCHANGED <<msgin, msgout, msgqueue, lock, sched, sent, got>>
    /\ Wake(p) =>
         /\ From(p, "wake") /\ r \in Procs
         /\ IsSend(p)
         /\ IF state[r] = "PRRECV" THEN To(p, "mark") ELSE To(p, "release")
         /\ UNCHANGED <<box, lock, sched, sent, got>>
    /\ Mark(p) =>
         /\ From(p, "mark") /\ r \in Procs
         /\ IsSend(p)
         /\ To(p, "enlist")
         /\ MarkReady(r)
         /\ UNCHANGED <<box, lock, sent, got>>
    /\ Enlist(p) =>
         /\ From(p, "enlist") /\ r \in Procs
         /\ Woken(p) \in Procs
         /\ IF IsSend(p) /\ Affinity[r] = Affinity[p] THEN To(p, "yield") ELSE To(p, "release")
         /\ ListReady(Woken(p))
         /\ UNCHANGED <<box, lock, sent, got>>
    /\ Yield(p) =>
         /\ From(p, "yield") /\ r \in Procs
         /\ IsSend(p)
         /\ To(p, "release")
         /\ Resched(Affinity[p])
         /\ UNCHANGED <<box, lock, sent, got>>
    /\ GetTest(p) =>
         /\ From(p, "test") /\ r \in Procs
         /\ Gets(p) /\ r = p
         /\ \/ hasMessage[p] /\ To(p, "take")
            \/ ~hasMessage[p] /\ ctx[p].op = "recv" /\ To(p, "sleep")
            \/ ~hasMessage[p] /\ ctx[p].op = "recvnow" /\ To(p, "release")
         /\ UNCHANGED <<box, lock, sched, sent, got>>
    /\ Sleep(p) =>
         /\ From(p, "sleep") /\ r \in Procs
         /\ ctx[p].op = "recv" /\ r = p
         /\ To(p, "resched")
         /\ state' = [state EXCEPT ![p] = "PRRECV"]
         /\ UNCHANGED <<box, lock, currpid, readylist, torn, sent, got>>
    /\ TakeMessage(p) =>
         /\ From(p, "take") /\ r \in Procs
         /\ Gets(p) /\ r = p
         /\ Stays(p) /\ ctx'[p].at = "clear" /\ ctx'[p].msg = msgin[p]
         /\ UNCHANGED <<box, lock, sched, sent, got>>
    /\ Clear(p) =>
         /\ From(p, "clear") /\ r \in Procs
         /\ Gets(p) /\ r = p
         /\ IF ctx[p].op = "recv" THEN To(p, "dequeue") ELSE To(p, "release")
         /\ hasMessage' = [hasMessage EXCEPT ![p] = FALSE]
         /\ got' = got \cup {ctx[p].msg}
         /\ UNCHANGED <<msgin, msgout, msgqueue, lock, sched, sent>>
    /\ Dequeue(p) =>
         /\ From(p, "dequeue") /\ r \in Procs
         /\ ctx[p].op = "recv" /\ r = p
         /\ IF msgqueue[p] = <<>> THEN To(p, "reset") /\ UNCHANGED msgqueue
            ELSE /\ Stays(p) /\ ctx'[p].at = "refill" /\ ctx'[p].pid = Head(msgqueue[p])
                 /\ msgqueue' = [msgqueue EXCEPT ![p] = Tail(@)]
         /\ UNCHANGED <<hasMessage, msgin, msgout, lock, sched, sent, got>>
    /\ Refill(p) =>
         /\ From(p, "refill") /\ r \in Procs
         /\ ctx[p].op = "recv" /\ r = p /\ ctx[p].pid \in Procs
         /\ To(p, "wakesender")
         /\ msgin' = [msgin EXCEPT ![p] = msgout[ctx[p].pid]]
         /\ hasMessage' = [hasMessage EXCEPT ![p] = TRUE]
         /\ msgout' = [msgout EXCEPT ![ctx[p].pid] = NULL]
         /\ UNCHANGED <<msgqueue, lock, sched, sent, got>>
    /\ WakeSender(p) =>
         /\ From(p, "wakesender") /\ r \in Procs
         /\ ctx[p].op = "recv" /\ r = p /\ ctx[p].pid \in Procs
         /\ To(p, "enlist")
         /\ MarkReady(ctx[p].pid)
         /\ UNCHANGED <<box, lock, sent, got>>
    /\ Reset(p) =>
         /\ From(p, "reset") /\ r \in Procs
         /\ ctx[p].op = "recv" /\ r = p
         /\ To(p, "release")
         /\ hasMessage' = [hasMessage EXCEPT ![p] = FALSE]
         /\ UNCHANGED <<msgin, msgout, msgqueue, lock, sched, sent, got>>
<1> DEFINE r == ctx[p].to
<1>0. /\ ctx \in [Procs -> Contexts] /\ MatchingAt(p)
      /\ ctx[p].op \in {"none", "send", "sendnow", "recv", "recvnow"}
  BY DEF TypeOK, Matching, Contexts
<1>r. ctx[p].at # "user" => r \in Procs
  BY <1>0 DEF MatchingAt, IsSend, Gets
<1> HIDE DEF r
<1>s. Steps = {"user", "look", "acquire", "test", "block", "enqueue", "unlock", "resched", "asleep",
          "deposit", "flag", "wake", "mark", "enlist", "yield", "sleep", "take", "clear", "dequeue", "refill", "wakesender",
          "reset", "release"}
  BY DEF Steps
<1>1. ASSUME Acquire(p)
      PROVE  /\ From(p, "acquire") /\ r \in Procs
             /\ r \in HasLock => lock[r] = Free
             /\ lock' = IF r \in HasLock THEN [lock EXCEPT ![r] = p] ELSE lock
             /\ IF ctx[p].op = "sendnow" THEN To(p, "deposit") ELSE To(p, "test")
             /\ UNCHANGED <<box, sched, sent, got>>
  <2>1. At(p, "acquire") /\ UNCHANGED <<box, sched, sent, got>>
    BY <1>1 DEF Acquire, sched, box
  <2>2. MatchingAt(p) /\ ctx[p].at = "acquire" /\ r \in Procs
    BY <2>1, <1>0, <1>r DEF At
  <2> QED
    BY <1>1, <2>1, <2>2, <1>0, <1>s, GotoTo DEF Acquire, MatchingAt, IsSend, Gets, r
<1>2. ASSUME Release(p)
      PROVE  /\ From(p, "release") /\ r \in Procs
             /\ Unlock(r)
             /\ Back(p)
             /\ UNCHANGED <<box, sched, sent, got>>
  <2>1. At(p, "release") /\ UNCHANGED <<box, sched, sent, got>>
    BY <1>2 DEF Release, sched, box
  <2>2. MatchingAt(p) /\ ctx[p].at = "release" /\ r \in Procs
    BY <2>1, <1>0, <1>r DEF At
  <2> QED
    BY <1>2, <2>1, <2>2, <1>0, <1>s, ReturnBack DEF Release, MatchingAt, IsSend, Gets, r, Unlock
<1>3. ASSUME Look(p)
      PROVE  /\ From(p, "look") /\ r \in Procs
             /\ ctx[p].op = "sendnow"
             /\ IF hasMessage[r] THEN Back(p) ELSE To(p, "acquire")
             /\ UNCHANGED <<box, lock, sched, sent, got>>
  <2>1. At(p, "look") /\ UNCHANGED <<box, lock, sched, sent, got>>
    BY <1>3 DEF Look, sched, box
  <2>2. MatchingAt(p) /\ ctx[p].at = "look" /\ r \in Procs
    BY <2>1, <1>0, <1>r DEF At
  <2> QED
    BY <1>3, <2>1, <2>2, <1>0, <1>s, GotoTo, ReturnBack DEF Look, MatchingAt, IsSend, Gets, r
<1>4. ASSUME Test(p)
      PROVE  /\ From(p, "test") /\ r \in Procs
             /\ ctx[p].op = "send"
             /\ IF hasMessage[r] THEN To(p, "block") ELSE To(p, "deposit")
             /\ UNCHANGED <<box, lock, sched, sent, got>>
  <2>1. At(p, "test") /\ UNCHANGED <<box, lock, sched, sent, got>>
    BY <1>4 DEF Test, sched, box
  <2>2. MatchingAt(p) /\ ctx[p].at = "test" /\ r \in Procs
    BY <2>1, <1>0, <1>r DEF At
  <2> QED
    BY <1>4, <2>1, <2>2, <1>0, <1>s, GotoTo DEF Test, MatchingAt, IsSend, Gets, r
<1>5. ASSUME Block(p)
      PROVE  /\ From(p, "block") /\ r \in Procs
             /\ To(p, "enqueue")
             /\ state' = [state EXCEPT ![p] = "PRSEND"]
             /\ UNCHANGED <<box, lock, currpid, readylist, torn, sent, got>>
  <2>1. At(p, "block") /\ UNCHANGED <<box, lock, currpid, readylist, torn, sent, got>>
    BY <1>5 DEF Block, sched, box
  <2>2. MatchingAt(p) /\ ctx[p].at = "block" /\ r \in Procs
    BY <2>1, <1>0, <1>r DEF At
  <2> QED
    BY <1>5, <2>1, <2>2, <1>0, <1>s, GotoTo DEF Block, MatchingAt, IsSend, Gets, r
<1>6. ASSUME Enqueue(p)
      PROVE  /\ From(p, "enqueue") /\ r \in Procs
             /\ To(p, "unlock")
             /\ msgout' = [msgout EXCEPT ![p] = ctx[p].msg]
             /\ msgqueue' = [msgqueue EXCEPT ![r] = Append(@, p)]
             /\ UNCHANGED <<hasMessage, msgin, lock, sched, sent, got>>
  <2>1. At(p, "enqueue") /\ UNCHANGED <<hasMessage, msgin, lock, sched, sent, got>>
    BY <1>6 DEF Enqueue, sched, box
  <2>2. MatchingAt(p) /\ ctx[p].at = "enqueue" /\ r \in Procs
    BY <2>1, <1>0, <1>r DEF At
  <2> QED
    BY <1>6, <2>1, <2>2, <1>0, <1>s, GotoTo DEF Enqueue, MatchingAt, IsSend, Gets, r
<1>7. ASSUME SendUnlock(p)
      PROVE  /\ From(p, "unlock") /\ r \in Procs
             /\ Unlock(r)
             /\ To(p, "resched")
             /\ UNCHANGED <<box, sched, sent, got>>
  <2>1. At(p, "unlock") /\ UNCHANGED <<box, sched, sent, got>>
    BY <1>7 DEF SendUnlock, sched, box
  <2>2. MatchingAt(p) /\ ctx[p].at = "unlock" /\ r \in Procs
    BY <2>1, <1>0, <1>r DEF At
  <2> QED
    BY <1>7, <2>1, <2>2, <1>0, <1>s, GotoTo DEF SendUnlock, MatchingAt, IsSend, Gets, r, Unlock
<1>8. ASSUME CallResched(p)
      PROVE  /\ From(p, "resched") /\ r \in Procs
             /\ Resched(Affinity[p])
             /\ To(p, "asleep")
             /\ UNCHANGED <<box, lock, sent, got>>
  <2>1. At(p, "resched") /\ UNCHANGED <<box, lock, sent, got>>
    BY <1>8 DEF CallResched, sched, box
  <2>2. MatchingAt(p) /\ ctx[p].at = "resched" /\ r \in Procs
    BY <2>1, <1>0, <1>r DEF At
  <2> QED
    BY <1>8, <2>1, <2>2, <1>0, <1>s, GotoTo DEF CallResched, MatchingAt, IsSend, Gets, r
<1>9. ASSUME Awake(p)
      PROVE  /\ From(p, "asleep") /\ r \in Procs
             /\ IF ctx[p].op = "send" THEN Back(p) ELSE ctx[p].op = "recv" /\ To(p, "take")
             /\ UNCHANGED <<box, lock, sched, sent, got>>
  <2>1. At(p, "asleep") /\ UNCHANGED <<box, lock, sched, sent, got>>
    BY <1>9 DEF Awake, sched, box
  <2>2. MatchingAt(p) /\ ctx[p].at = "asleep" /\ r \in Procs
    BY <2>1, <1>0, <1>r DEF At
  <2> QED
    BY <1>9, <2>1, <2>2, <1>0, <1>s, GotoTo, ReturnBack DEF Awake, MatchingAt, IsSend, Gets, r
<1>10. ASSUME Deposit(p)
       PROVE  /\ From(p, "deposit") /\ r \in Procs
              /\ IsSend(p)
              /\ To(p, "flag")
              /\ msgin' = [msgin EXCEPT ![r] = ctx[p].msg]
              /\ UNCHANGED <<hasMessage, msgout, msgqueue, lock, sched, sent, got>>
  <2>1. At(p, "deposit") /\ UNCHANGED <<hasMessage, msgout, msgqueue, lock, sched, sent, got>>
    BY <1>10 DEF Deposit, sched, box
  <2>2. MatchingAt(p) /\ ctx[p].at = "deposit" /\ r \in Procs
    BY <2>1, <1>0, <1>r DEF At
  <2> QED
    BY <1>10, <2>1, <2>2, <1>0, <1>s, GotoTo DEF Deposit, MatchingAt, IsSend, Gets, r
<1>11. ASSUME Flag(p)
       PROVE  /\ From(p, "flag") /\ r \in Procs
              /\ IsSend(p)
              /\ To(p, "wake")
              /\ hasMessage' = [hasMessage EXCEPT ![r] = TRUE]
              /\ UNCHANGED <<msgin, msgout, msgqueue, lock, sched, sent, got>>
  <2>1. At(p, "flag") /\ UNCHANGED <<msgin, msgout, msgqueue, lock, sched, sent, got>>
    BY <1>11 DEF Flag, sched, box
  <2>2. MatchingAt(p) /\ ctx[p].at = "flag" /\ r \in Procs
    BY <2>1, <1>0, <1>r DEF At
  <2> QED
    BY <1>11, <2>1, <2>2, <1>0, <1>s, GotoTo DEF Flag, MatchingAt, IsSend, Gets, r
<1>12. ASSUME Wake(p)
       PROVE  /\ From(p, "wake") /\ r \in Procs
              /\ IsSend(p)
              /\ IF state[r] = "PRRECV" THEN To(p, "mark") ELSE To(p, "release")
              /\ UNCHANGED <<box, lock, sched, sent, got>>
  <2>1. At(p, "wake") /\ UNCHANGED <<box, lock, sched, sent, got>>
    BY <1>12 DEF Wake, sched, box
  <2>2. MatchingAt(p) /\ ctx[p].at = "wake" /\ r \in Procs
    BY <2>1, <1>0, <1>r DEF At
  <2> QED
    BY <1>12, <2>1, <2>2, <1>0, <1>s, GotoTo DEF Wake, MatchingAt, IsSend, Gets, r
<1>13. ASSUME GetTest(p)
       PROVE  /\ From(p, "test") /\ r \in Procs
              /\ Gets(p) /\ r = p
              /\ \/ hasMessage[p] /\ To(p, "take")
                 \/ ~hasMessage[p] /\ ctx[p].op = "recv" /\ To(p, "sleep")
                 \/ ~hasMessage[p] /\ ctx[p].op = "recvnow" /\ To(p, "release")
              /\ UNCHANGED <<box, lock, sched, sent, got>>
  <2>1. At(p, "test") /\ UNCHANGED <<box, lock, sched, sent, got>>
    BY <1>13 DEF GetTest, sched, box
  <2>2. MatchingAt(p) /\ ctx[p].at = "test" /\ r \in Procs
    BY <2>1, <1>0, <1>r DEF At
  <2> QED
    BY <1>13, <2>1, <2>2, <1>0, <1>s, GotoTo DEF GetTest, MatchingAt, IsSend, Gets, r
<1>14. ASSUME Sleep(p)
       PROVE  /\ From(p, "sleep") /\ r \in Procs
              /\ ctx[p].op = "recv" /\ r = p
              /\ To(p, "resched")
              /\ state' = [state EXCEPT ![p] = "PRRECV"]
              /\ UNCHANGED <<box, lock, currpid, readylist, torn, sent, got>>
  <2>1. At(p, "sleep") /\ UNCHANGED <<box, lock, currpid, readylist, torn, sent, got>>
    BY <1>14 DEF Sleep, sched, box
  <2>2. MatchingAt(p) /\ ctx[p].at = "sleep" /\ r \in Procs
    BY <2>1, <1>0, <1>r DEF At
  <2> QED
    BY <1>14, <2>1, <2>2, <1>0, <1>s, GotoTo DEF Sleep, MatchingAt, IsSend, Gets, r
<1>15. ASSUME TakeMessage(p)
       PROVE  /\ From(p, "take") /\ r \in Procs
              /\ Gets(p) /\ r = p
              /\ Stays(p) /\ ctx'[p].at = "clear" /\ ctx'[p].msg = msgin[p]
              /\ UNCHANGED <<box, lock, sched, sent, got>>
  <2>1. /\ At(p, "take") /\ msgin[p] \in Messages \cup {NULL}
        /\ ctx' = [ctx EXCEPT ![p].msg = msgin[p], ![p].at = "clear"]
        /\ UNCHANGED <<box, lock, sched, sent, got>>
    BY <1>15 DEF TakeMessage, TypeOK
  <2>2. Gets(p) /\ r = p /\ r \in Procs
    BY <2>1, <1>0, <1>r DEF At, MatchingAt, Gets, r
  <2> QED
    BY <2>1, <2>2, <1>0, MsgRead
<1>16. ASSUME Clear(p)
       PROVE  /\ From(p, "clear") /\ r \in Procs
              /\ Gets(p) /\ r = p
              /\ IF ctx[p].op = "recv" THEN To(p, "dequeue") ELSE To(p, "release")
              /\ hasMessage' = [hasMessage EXCEPT ![p] = FALSE]
              /\ got' = got \cup {ctx[p].msg}
              /\ UNCHANGED <<msgin, msgout, msgqueue, lock, sched, sent>>
  <2>1. At(p, "clear") /\ UNCHANGED <<msgin, msgout, msgqueue, lock, sched, sent>>
    BY <1>16 DEF Clear, sched, box
  <2>2. MatchingAt(p) /\ ctx[p].at = "clear" /\ r \in Procs
    BY <2>1, <1>0, <1>r DEF At
  <2> QED
    BY <1>16, <2>1, <2>2, <1>0, <1>s, GotoTo DEF Clear, MatchingAt, IsSend, Gets, r
<1>17. ASSUME Dequeue(p)
       PROVE  /\ From(p, "dequeue") /\ r \in Procs
              /\ ctx[p].op = "recv" /\ r = p
              /\ IF msgqueue[p] = <<>> THEN To(p, "reset") /\ UNCHANGED msgqueue
                 ELSE /\ Stays(p) /\ ctx'[p].at = "refill" /\ ctx'[p].pid = Head(msgqueue[p])
                      /\ msgqueue' = [msgqueue EXCEPT ![p] = Tail(@)]
              /\ UNCHANGED <<hasMessage, msgin, msgout, lock, sched, sent, got>>
  <2>1. /\ At(p, "dequeue") /\ msgqueue \in [Procs -> Seq(Procs)]
        /\ IF msgqueue[p] = <<>> THEN Goto(p, "reset") /\ UNCHANGED msgqueue
           ELSE /\ ctx' = [ctx EXCEPT ![p].pid = Head(msgqueue[p]), ![p].at = "refill"]
                /\ msgqueue' = [msgqueue EXCEPT ![p] = Tail(@)]
        /\ UNCHANGED <<hasMessage, msgin, msgout, lock, sched, sent, got>>
    BY <1>17 DEF Dequeue, TypeOK
  <2>2. ctx[p].op = "recv" /\ r = p /\ r \in Procs
    BY <2>1, <1>0, <1>r DEF At, MatchingAt, Gets, r
  <2>3. CASE msgqueue[p] = <<>>
    BY <2>1, <2>2, <2>3, <1>0, <1>s, GotoTo
  <2>4. CASE msgqueue[p] # <<>>
    <3>1. Head(msgqueue[p]) \in Procs
      BY <2>1, <2>4
    <3> QED
      BY <2>1, <2>2, <2>4, <3>1, <1>0, SenderDequeued
  <2> QED
    BY <2>3, <2>4
<1>18. ASSUME Refill(p)
       PROVE  /\ From(p, "refill") /\ r \in Procs
              /\ ctx[p].op = "recv" /\ r = p /\ ctx[p].pid \in Procs
              /\ To(p, "wakesender")
              /\ msgin' = [msgin EXCEPT ![p] = msgout[ctx[p].pid]]
              /\ hasMessage' = [hasMessage EXCEPT ![p] = TRUE]
              /\ msgout' = [msgout EXCEPT ![ctx[p].pid] = NULL]
              /\ UNCHANGED <<msgqueue, lock, sched, sent, got>>
  <2>1. At(p, "refill") /\ UNCHANGED <<msgqueue, lock, sched, sent, got>>
    BY <1>18 DEF Refill, sched, box
  <2>2. MatchingAt(p) /\ ctx[p].at = "refill" /\ r \in Procs
    BY <2>1, <1>0, <1>r DEF At
  <2> QED
    BY <1>18, <2>1, <2>2, <1>0, <1>s, GotoTo DEF Refill, MatchingAt, IsSend, Gets, r
<1>19. ASSUME WakeSender(p)
       PROVE  /\ From(p, "wakesender") /\ r \in Procs
              /\ ctx[p].op = "recv" /\ r = p /\ ctx[p].pid \in Procs
              /\ To(p, "enlist")
              /\ MarkReady(ctx[p].pid)
              /\ UNCHANGED <<box, lock, sent, got>>
  <2>1. At(p, "wakesender") /\ UNCHANGED <<box, lock, sent, got>>
    BY <1>19 DEF WakeSender, sched, box
  <2>2. MatchingAt(p) /\ ctx[p].at = "wakesender" /\ r \in Procs
    BY <2>1, <1>0, <1>r DEF At
  <2> QED
    BY <1>19, <2>1, <2>2, <1>0, <1>s, GotoTo DEF WakeSender, MatchingAt, IsSend, Gets, r
<1>20. ASSUME Reset(p)
       PROVE  /\ From(p, "reset") /\ r \in Procs
              /\ ctx[p].op = "recv" /\ r = p
              /\ To(p, "release")
              /\ hasMessage' = [hasMessage EXCEPT ![p] = FALSE]
              /\ UNCHANGED <<msgin, msgout, msgqueue, lock, sched, sent, got>>
  <2>1. At(p, "reset") /\ UNCHANGED <<msgin, msgout, msgqueue, lock, sched, sent, got>>
    BY <1>20 DEF Reset, sched, box
  <2>2. MatchingAt(p) /\ ctx[p].at = "reset" /\ r \in Procs
    BY <2>1, <1>0, <1>r DEF At
  <2> QED
    BY <1>20, <2>1, <2>2, <1>0, <1>s, GotoTo DEF Reset, MatchingAt, IsSend, Gets, r
<1>21. ASSUME Mark(p)
       PROVE  /\ From(p, "mark") /\ r \in Procs
              /\ IsSend(p)
              /\ To(p, "enlist")
              /\ MarkReady(r)
              /\ UNCHANGED <<box, lock, sent, got>>
  <2>1. At(p, "mark") /\ UNCHANGED <<box, lock, sent, got>>
    BY <1>21 DEF Mark, box
  <2>2. MatchingAt(p) /\ ctx[p].at = "mark" /\ r \in Procs
    BY <2>1, <1>0, <1>r DEF At
  <2> QED
    BY <1>21, <2>1, <2>2, <1>0, <1>s, GotoTo DEF Mark, MatchingAt, IsSend, Gets, r
<1>22. ASSUME Enlist(p)
       PROVE  /\ From(p, "enlist") /\ r \in Procs
              /\ Woken(p) \in Procs
              /\ IF IsSend(p) /\ Affinity[r] = Affinity[p] THEN To(p, "yield") ELSE To(p, "release")
              /\ ListReady(Woken(p))
              /\ UNCHANGED <<box, lock, sent, got>>
  <2>1. At(p, "enlist") /\ UNCHANGED <<box, lock, sent, got>>
    BY <1>22 DEF Enlist, box
  <2>2. MatchingAt(p) /\ ctx[p].at = "enlist" /\ r \in Procs
    BY <2>1, <1>0, <1>r DEF At
  <2> QED
    BY <1>22, <2>1, <2>2, <1>0, <1>s, GotoTo DEF Enlist, MatchingAt, r
<1>23. ASSUME Yield(p)
       PROVE  /\ From(p, "yield") /\ r \in Procs
              /\ IsSend(p)
              /\ To(p, "release")
              /\ Resched(Affinity[p])
              /\ UNCHANGED <<box, lock, sent, got>>
  <2>1. At(p, "yield") /\ UNCHANGED <<box, lock, sent, got>>
    BY <1>23 DEF Yield, box
  <2>2. MatchingAt(p) /\ ctx[p].at = "yield" /\ r \in Procs
    BY <2>1, <1>0, <1>r DEF At
  <2> QED
    BY <1>23, <2>1, <2>2, <1>0, <1>s, GotoTo DEF Yield, MatchingAt, IsSend, Gets, r
<1> QED
  BY <1>1, <1>2, <1>3, <1>4, <1>5, <1>6, <1>7, <1>8, <1>9, <1>10, <1>11, <1>12, <1>13, <1>14, <1>15,
     <1>16, <1>17, <1>18, <1>19, <1>20, <1>21, <1>22, <1>23
     DEF r

(* A step that stops the behaviour, or stutters.                           *)
LEMMA Halts ==
  ASSUME UNCHANGED vars \/ Stopped \/ \E p \in Procs : Meet(p)
  PROVE  UNCHANGED <<box, lock, state, currpid, readylist, ctx, sent, got>>
         /\ (torn \in BOOLEAN => torn' \in BOOLEAN)
BY DEF vars, sched, Stopped, Meet, Meets

(* The fields of a context.                                                *)
LEMMA ContextFields ==
  ASSUME ctx \in [Procs -> Contexts], NEW p \in Procs
  PROVE  /\ ctx[p].at \in Steps
         /\ ctx[p].op \in {"none", "send", "sendnow", "recv", "recvnow"}
         /\ ctx[p].msg \in Messages \cup {NULL} /\ ctx[p].pid \in Procs \cup {EMPTY}
         /\ ctx[p].to \in Procs \cup {EMPTY}
BY DEF Contexts

(* Every step keeps them matched.                                          *)
LEMMA MatchingStep ==
  ASSUME TypeOK, Matching, [Next]_vars
  PROVE  Matching'
<1>0. sent \in Nat /\ ctx \in [Procs -> Contexts]
  BY MessagesAssumption DEF TypeOK
<1>a. ASSUME NEW p \in Procs, NEW step, From(p, step), sent' \in {sent, sent + 1}, MatchingAt(p)'
      PROVE  Matching'
  <2> SUFFICES ASSUME NEW q \in Procs PROVE MatchingAt(q)'
    BY DEF Matching
  <2>1. CASE q = p
    BY <1>a, <2>1
  <2>2. CASE q # p
    <3>1. ctx'[q] = ctx[q] /\ MatchingAt(q)
      BY <1>a, <2>2 DEF From, Matching
    <3>2. \A m : m \in 1 .. sent => m \in 1 .. sent'
      BY <1>a, <1>0
    <3> QED
      BY <3>1, <3>2 DEF MatchingAt, IsSend, Gets, Woken
  <2> QED
    BY <2>1, <2>2
<1>1. ASSUME NEW p \in Procs, Calling(p) PROVE Matching'
  <2>1. sent' \in {sent, sent + 1} /\ From(p, "user")
    BY <1>1, CallingDoes
  <2>2. MatchingAt(p)'
    <3>1. CASE \/ p \in Recvs /\ Begun(p, "recv", "acquire", p)
               \/ p \in Recvnows /\ Begun(p, "recvnow", "acquire", p)
      BY <3>1 DEF Begun, MatchingAt, IsSend, Gets
    <3>2. ASSUME sent' = sent + 1, ctx'[p].msg = sent + 1,
                 NEW r \in Procs, \/ <<p, r>> \in Sends /\ Begun(p, "send", "acquire", r)
                                  \/ <<p, r>> \in Sendnows /\ Begun(p, "sendnow", "look", r)
          PROVE  MatchingAt(p)'
      <4>1. ctx'[p].msg \in 1 .. sent'
        BY <3>2, <1>0
      <4> QED
        BY <4>1, <3>2 DEF Begun, MatchingAt, IsSend, Gets
    <3> QED
      BY <1>1, <3>1, <3>2, CallingDoes
  <2> QED
    BY <2>1, <2>2, <1>a
<1>2. ASSUME NEW p \in Procs, Kernel(p) PROVE Matching'
  <2>1. MatchingAt(p)
    BY DEF Matching
  <2> DEFINE r == ctx[p].to
  <2>2. ctx[p].op \in {"none", "send", "sendnow", "recv", "recvnow"}
    BY <1>0, ContextFields
  <2>s. ASSUME NEW step, From(p, step), sent' = sent, MatchingAt(p)' PROVE Matching'
    BY <2>s, <1>a
  <2>t. ASSUME NEW step, From(p, step), sent' = sent, NEW next, To(p, next),
               next # "user" /\ ctx[p].op # "none" /\ next # "look"
               /\ (next = "test" => ctx[p].op # "sendnow")
               /\ (next \in {"block", "enqueue", "unlock"} => ctx[p].op = "send")
               /\ (next \in {"deposit", "flag", "wake", "mark", "yield"} => IsSend(p))
               /\ (next = "enlist" => ctx[p].op # "recvnow" /\ Woken(p) \in Procs)
               /\ (next \in {"resched", "asleep"} => ctx[p].op \in {"send", "recv"})
               /\ (next \in {"take", "clear"} => Gets(p))
               /\ (next \in {"sleep", "dequeue", "refill", "wakesender", "reset"} => ctx[p].op = "recv")
               /\ (next \in {"refill", "wakesender"} => ctx[p].pid \in Procs)
        PROVE  Matching'
    <3>1. MatchingAt(p)'
      BY <2>t, <2>1 DEF To, Stays, MatchingAt, IsSend, Gets, Woken
    <3> QED
      BY <3>1, <2>t, <2>s
  <2>b. ASSUME NEW step, From(p, step), sent' = sent, Back(p) PROVE Matching'
    <3>1. MatchingAt(p)'
      BY <2>b DEF Back, MatchingAt, IsSend, Gets
    <3> QED
      BY <3>1, <2>b, <2>s
  <2>f. ASSUME NEW step, From(p, step)
        PROVE  ctx[p].at = step
    BY <2>f DEF From
  <2>3. CASE Acquire(p) \/ Release(p) \/ Look(p) \/ Test(p) \/ Block(p) \/ Enqueue(p) \/ SendUnlock(p)
    <3>1. CASE Acquire(p)
      BY <3>1, <2>1, <2>2, <2>f, <2>t, Does DEF MatchingAt, IsSend, Gets
    <3>2. CASE Release(p) \/ Look(p)
      BY <3>2, <2>1, <2>2, <2>f, <2>t, <2>b, Does DEF MatchingAt, IsSend, Gets
    <3>3. CASE Test(p) \/ Block(p) \/ Enqueue(p) \/ SendUnlock(p)
      BY <3>3, <2>1, <2>2, <2>f, <2>t, Does DEF MatchingAt, IsSend, Gets
    <3> QED
      BY <2>3, <3>1, <3>2, <3>3
  <2>4. CASE CallResched(p) \/ Awake(p) \/ Deposit(p) \/ Flag(p) \/ Wake(p)
    <3>1. CASE CallResched(p) \/ Awake(p)
      BY <3>1, <2>1, <2>2, <2>f, <2>t, <2>b, Does DEF MatchingAt, IsSend, Gets
    <3>2. CASE Deposit(p) \/ Flag(p) \/ Wake(p)
      BY <3>2, <2>1, <2>2, <2>f, <2>t, Does DEF MatchingAt, IsSend, Gets
    <3> QED
      BY <2>4, <3>1, <3>2
  <2>9. CASE Mark(p) \/ Enlist(p) \/ Yield(p)
    BY <2>9, <2>1, <2>2, <2>f, <2>t, Does DEF MatchingAt, IsSend, Gets, Woken
  <2>5. CASE GetTest(p) \/ Sleep(p) \/ Clear(p)
    BY <2>5, <2>1, <2>2, <2>f, <2>t, Does DEF MatchingAt, IsSend, Gets
  <2>6. CASE Refill(p) \/ WakeSender(p) \/ Reset(p)
    BY <2>6, <2>1, <2>2, <2>f, <2>t, Does DEF MatchingAt, IsSend, Gets, Woken
  <2>7. CASE TakeMessage(p)
    <3>1. From(p, "take") /\ Gets(p) /\ Stays(p) /\ ctx'[p].at = "clear" /\ sent' = sent
      BY <2>7, Does
    <3>2. MatchingAt(p)'
      BY <3>1, <2>1 DEF Stays, MatchingAt, IsSend, Gets
    <3> QED
      BY <3>1, <3>2, <2>s
  <2>8. CASE Dequeue(p)
    <3>1. /\ From(p, "dequeue") /\ ctx[p].op = "recv" /\ sent' = sent
          /\ msgqueue[p] = <<>> => To(p, "reset")
          /\ msgqueue[p] # <<>> => Stays(p) /\ ctx'[p].at = "refill" /\ ctx'[p].pid = Head(msgqueue[p])
      BY <2>8, Does
    <3>2. CASE msgqueue[p] = <<>>
      BY <3>1, <3>2, <2>1, <2>f, <2>t DEF MatchingAt, IsSend, Gets
    <3>3. CASE msgqueue[p] # <<>>
      <4>1. Head(msgqueue[p]) \in Procs
        BY <3>3 DEF TypeOK
      <4>2. MatchingAt(p)'
        BY <4>1, <3>1, <3>3, <2>1 DEF Stays, MatchingAt, IsSend, Gets
      <4> QED
        BY <3>1, <4>2, <2>s
    <3> QED
      BY <3>2, <3>3
  <2> QED
    BY <1>2, <2>3, <2>4, <2>5, <2>6, <2>7, <2>8, <2>9 DEF Kernel
<1>3. ASSUME NEW c \in Cores, Preempt(c) PROVE Matching'
  <2>1. ctx' = ctx /\ sent' = sent
    BY <1>3 DEF Preempt
  <2> QED
    BY <2>1 DEF Matching, MatchingAt, IsSend, Gets, Woken
<1>4. CASE UNCHANGED vars \/ Stopped \/ \E p \in Procs : Meet(p)
  <2>1. ctx' = ctx /\ sent' = sent
    BY <1>4, Halts DEF box, sched
  <2> QED
    BY <2>1 DEF Matching, MatchingAt, IsSend, Gets, Woken
<1> QED
  BY <1>1, <1>2, <1>3, <1>4 DEF Next

-----------------------------------------------------------------------------
(* Every process has one place *)

BlockedAt(p) ==
  /\ state[p] = "PRSEND" => ctx[p].op = "send" /\ ctx[p].at \in {"enqueue", "unlock", "resched", "asleep"}
  /\ state[p] = "PRRECV" => ctx[p].op = "recv" /\ ctx[p].at \in {"resched", "asleep"}
  /\ ctx[p].at = "enqueue" => state[p] = "PRSEND"
  /\ Running(p) /\ ctx[p].at \notin {"enqueue", "unlock", "resched"} => state[p] = "PRCURR"

(* p waits for room: it is in one queue or in the hands of one receiver.   *)
Waits(p) == state[p] = "PRSEND" /\ ctx[p].at # "enqueue"

(* A step of a call that does not go through mark, enlist or WakeSender.   *)
LEMMA MarkedStays ==
  ASSUME NEW p \in Procs, \A q \in Procs : q # p => ctx'[q] = ctx[q],
         ctx[p].at # "enlist", ctx'[p].at # "enlist"
  PROVE  Marked' = Marked /\ \A q, r \in Procs : Wakes(r, q)' <=> Wakes(r, q)
<1>1. \A r \in Procs : Woken(r)' = Woken(r) \/ r = p
  BY DEF Woken, IsSend
<1>2. \A q, r \in Procs : Wakes(r, q)' <=> Wakes(r, q)
  BY <1>1 DEF Wakes
<1> QED
  BY <1>2 DEF Marked

(* A step that leaves scheduler, queues and hands alone.                   *)
LEMMA PlacesStay ==
  ASSUME Placement, NEW p \in Procs, NEW step, From(p, step), UNCHANGED <<sched, msgqueue>>,
         step \notin {"enqueue", "resched", "enlist"}, ctx'[p].at \notin {"enqueue", "enlist"},
         step = "unlock" => To(p, "resched"),
         ctx'[p].at = "mark" => state[ctx'[p].to] = "PRRECV",
         \A q \in Procs : Holds(p, q)' <=> Holds(p, q)
  PROVE  Placement'
<1>1. /\ \A q : Running(q)' <=> Running(q)
      /\ Running(p) /\ ctx[p].at = step
      /\ \A q \in Procs : q # p => ctx'[q] = ctx[q]
      /\ state' = state /\ readylist' = readylist /\ currpid' = currpid /\ msgqueue' = msgqueue
  BY DEF From, Running, sched
<1>2. SchedOK(States)' /\ Listing(Marked)' /\ Once'
  <2>1. Marked' = Marked /\ \A q, r \in Procs : Wakes(r, q)' <=> Wakes(r, q)
    BY <1>1, MarkedStays
  <2>2. torn' = torn
    BY DEF sched
  <2> QED
    BY <1>1, <2>1, <2>2 DEF Placement, SchedOK, SchedTypeOK, Apart, AtHome, OwnRuns, Listing, States, Once
<1>3. Blocked'
  <2> SUFFICES ASSUME NEW q \in Procs PROVE BlockedAt(q)'
    BY DEF Blocked, BlockedAt
  <2>1. BlockedAt(q)
    BY DEF Placement, Blocked, BlockedAt
  <2>2. CASE q # p
    BY <1>1, <2>1, <2>2 DEF BlockedAt
  <2>3. CASE q = p
    BY <1>1, <2>1, <2>3 DEF BlockedAt, To, Stays
  <2> QED
    BY <2>2, <2>3
<1>4. \A q, r \in Procs : Holds(r, q)' <=> Holds(r, q)
  BY <1>1 DEF Holds
<1>5. \A q \in Procs : Held(q)' <=> Held(q)
  BY <1>4 DEF Held
<1>6. Queued'
  <2>1. \A q \in Procs : state[q] = "PRSEND" => (ctx'[q].at # "enqueue" <=> ctx[q].at # "enqueue")
    BY <1>1
  <2>2. \A q \in Procs : In(q, msgqueue)' <=> In(q, msgqueue)
    BY <1>1
  <2>3. Family(msgqueue, Procs)' /\ Apart(msgqueue)'
    BY <1>1 DEF Placement, Queued, Apart, Family
  <2> QED
    BY <1>1, <1>4, <1>5, <2>1, <2>2, <2>3 DEF Placement, Queued
<1> QED
  BY <1>2, <1>3, <1>6 DEF Placement

(* A reschedule, by the call of a process or by the clock.                 *)
LEMMA PlacesResched ==
  ASSUME TypeOK, Matching, Placement, NEW c \in Cores, Resched(c), UNCHANGED msgqueue,
         \/ ctx' = ctx
         \/ \E p \in Procs : Affinity[p] = c /\ From(p, "resched") /\ To(p, "asleep")
         \/ \E p \in Procs : Affinity[p] = c /\ From(p, "yield") /\ To(p, "release")
  PROVE  Placement'
<1>2. \A q \in Procs : \/ ctx'[q] = ctx[q]
                       \/ /\ Affinity[q] = c /\ Running(q) /\ ctx'[q].op = ctx[q].op /\ ctx'[q].pid = ctx[q].pid
                          /\ \/ ctx[q].at = "resched" /\ ctx'[q].at = "asleep"
                             \/ ctx[q].at = "yield" /\ ctx'[q].at = "release"
  BY DEF From, To, Stays
<1>m. Marked' = Marked /\ \A q, r \in Procs : Wakes(r, q)' <=> Wakes(r, q)
  <2>1. \A q, r \in Procs : Wakes(r, q)' <=> Wakes(r, q)
    BY <1>2 DEF Wakes, Woken, IsSend
  <2> QED
    BY <2>1 DEF Marked
<1>1. /\ SchedOK(States)' /\ Listing(Marked)' /\ Turn
      /\ \A q \in Procs : Affinity[q] = c /\ Running(q)' => state'[q] = "PRCURR"
  <2> PICK marked : marked = Marked
    OBVIOUS
  <2>1. "PRCURR" \in States /\ "PRREADY" \in States /\ SchedOK(States) /\ Listing(marked)
    BY DEF Placement, States, Listing
  <2>2. /\ SchedOK(States)' /\ Listing(marked)' /\ Turn
        /\ \A q \in Procs : IF Affinity[q] = c THEN Running(q)' => state'[q] = "PRCURR"
                            ELSE state'[q] = state[q] /\ (Running(q)' <=> Running(q))
    BY <2>1, ListedResched
  <2> QED
    BY <1>m, <2>2 DEF Listing
<1>3. \A q, r \in Procs : Holds(r, q)' <=> Holds(r, q)
  BY <1>2 DEF Holds
<1>4. \A q \in Procs : Held(q)' <=> Held(q)
  BY <1>3 DEF Held
<1>5. Blocked'
  <2> SUFFICES ASSUME NEW q \in Procs PROVE BlockedAt(q)'
    BY DEF Blocked, BlockedAt
  <2>1. BlockedAt(q)
    BY DEF Placement, Blocked, BlockedAt
  <2> QED
    BY <1>1, <1>2, <2>1 DEF BlockedAt, Turn
<1>7. Once'
  <2>1. ASSUME NEW q \in Procs, ctx'[q].at = "mark"
        PROVE  state'[ctx'[q].to] = "PRRECV"
    <3>0. ctx'[q] = ctx[q] /\ MatchingAt(q)
      BY <1>2, <2>1 DEF Matching
    <3>1. ctx'[q] = ctx[q] /\ state[ctx[q].to] = "PRRECV" /\ ctx[q].to \in Procs
      BY <2>1, <3>0 DEF Placement, Once, MatchingAt
    <3> QED
      BY <1>1, <3>1 DEF Turn
  <2> QED
    BY <1>m, <2>1 DEF Placement, Once
<1>6. Queued'
  <2>1. \A q \in Procs : state'[q] = "PRSEND" <=> state[q] = "PRSEND"
    BY <1>1 DEF Turn
  <2>2. \A q \in Procs : ctx'[q].at # "enqueue" <=> ctx[q].at # "enqueue"
    BY <1>2
  <2>3. Family(msgqueue, Procs)' /\ Apart(msgqueue)' /\ \A q \in Procs : In(q, msgqueue)' <=> In(q, msgqueue)
    BY DEF Placement, Queued, Apart, Family
  <2> QED
    BY <1>3, <1>4, <2>1, <2>2, <2>3 DEF Placement, Queued
<1> QED
  BY <1>1, <1>5, <1>6, <1>7 DEF Placement

(* Block and Sleep: the process is about to give up its core.              *)
LEMMA PlacesBlock ==
  ASSUME TypeOK, Matching, Placement, NEW p \in Procs, UNCHANGED <<currpid, readylist, torn, msgqueue>>,
         \/ From(p, "block") /\ To(p, "enqueue") /\ state' = [state EXCEPT ![p] = "PRSEND"]
            /\ ctx[p].op = "send"
         \/ From(p, "sleep") /\ To(p, "resched") /\ state' = [state EXCEPT ![p] = "PRRECV"]
            /\ ctx[p].op = "recv"
  PROVE  Placement'
<1>1. /\ \A q : Running(q)' <=> Running(q)
      /\ Running(p) /\ ctx[p].at \in {"block", "sleep"} /\ ctx'[p].at \in {"enqueue", "resched"}
      /\ \A q \in Procs : q # p => ctx'[q] = ctx[q] /\ state'[q] = state[q]
      /\ state \in [Procs -> States] /\ state' \in [Procs -> States]
      /\ state'[p] = IF ctx'[p].at = "enqueue" THEN "PRSEND" ELSE "PRRECV"
      /\ ctx'[p].op = IF ctx'[p].at = "enqueue" THEN "send" ELSE "recv"
  BY DEF From, To, Stays, Running, TypeOK, SchedTypeOK, States
<1>2. state[p] = "PRCURR"
  BY <1>1 DEF Placement, Blocked
<1>3. SchedOK(States)'
  BY <1>1 DEF Placement, SchedOK, SchedTypeOK, Apart, AtHome, OwnRuns
<1>m. Marked' = Marked /\ \A q, r \in Procs : Wakes(r, q)' <=> Wakes(r, q)
  BY <1>1, MarkedStays
<1>4. Listing(Marked)'
  <2>1. ASSUME NEW q \in Procs
        PROVE  /\ In(q, readylist) <=> state'[q] = "PRREADY" /\ q \notin Marked
               /\ state'[q] = "PRCURR" => Running(q)
               /\ q \in Marked => state'[q] = "PRREADY"
    BY <1>1, <1>2 DEF Placement, Listing
  <2>2. Marked \subseteq Procs
    BY DEF Marked
  <2> QED
    BY <2>1, <2>2, <1>1, <1>m DEF Listing
<1>9. Once'
  <2>1. ASSUME NEW q \in Procs, ctx'[q].at = "mark"
        PROVE  state'[ctx'[q].to] = "PRRECV"
    <3>0. ctx'[q] = ctx[q] /\ MatchingAt(q)
      BY <1>1, <2>1 DEF Matching
    <3>1. ctx'[q] = ctx[q] /\ state[ctx[q].to] = "PRRECV" /\ ctx[q].to \in Procs
      BY <2>1, <3>0 DEF Placement, Once, MatchingAt
    <3> QED
      BY <1>1, <1>2, <3>1
  <2> QED
    BY <1>m, <2>1 DEF Placement, Once
<1>5. Blocked'
  <2> SUFFICES ASSUME NEW q \in Procs PROVE BlockedAt(q)'
    BY DEF Blocked, BlockedAt
  <2>1. BlockedAt(q)
    BY DEF Placement, Blocked, BlockedAt
  <2> QED
    BY <1>1, <2>1 DEF BlockedAt
<1>6. \A q, r \in Procs : Holds(r, q)' <=> Holds(r, q)
  BY <1>1 DEF Holds
<1>7. \A q \in Procs : Held(q)' <=> Held(q)
  BY <1>6 DEF Held
<1>8. Queued'
  <2>1. \A q \in Procs : Waits(q)' <=> Waits(q)
    BY <1>1, <1>2 DEF Waits
  <2>2. Family(msgqueue, Procs)' /\ Apart(msgqueue)' /\ \A q \in Procs : In(q, msgqueue)' <=> In(q, msgqueue)
    BY DEF Placement, Queued, Apart, Family
  <2> QED
    BY <1>6, <1>7, <2>1, <2>2 DEF Placement, Queued, Waits
<1> QED
  BY <1>3, <1>4, <1>5, <1>8, <1>9 DEF Placement

(* Enqueue: a blocked sender enters a queue.                               *)
LEMMA PlacesEnqueue ==
  ASSUME Placement, NEW p \in Procs, NEW r \in Procs, From(p, "enqueue"), To(p, "unlock"),
         UNCHANGED sched, msgqueue' = [msgqueue EXCEPT ![r] = Append(@, p)]
  PROVE  Placement'
<1>1. /\ \A q : Running(q)' <=> Running(q)
      /\ Running(p) /\ ctx[p].at = "enqueue" /\ ctx'[p].at = "unlock" /\ ctx'[p].op = ctx[p].op
      /\ \A q \in Procs : q # p => ctx'[q] = ctx[q]
      /\ state' = state /\ readylist' = readylist /\ currpid' = currpid
  BY DEF From, To, Stays, Running, sched
<1>2. /\ state[p] = "PRSEND" /\ ~In(p, msgqueue) /\ ~Held(p)
      /\ Family(msgqueue, Procs) /\ Apart(msgqueue)
  BY <1>1 DEF Placement, Blocked, Queued
<1>3. SchedOK(States)' /\ Listing(Marked)' /\ Once'
  <2>1. Marked' = Marked /\ \A q, s \in Procs : Wakes(s, q)' <=> Wakes(s, q)
    BY <1>1, MarkedStays
  <2>2. /\ torn' = torn /\ state' = state /\ readylist' = readylist /\ currpid' = currpid
        /\ \A q : Running(q)' <=> Running(q)
    BY <1>1 DEF sched
  <2>3. \A q \in Procs : ctx'[q].at = "mark" => ctx'[q] = ctx[q]
    BY <1>1
  <2> QED
    BY <2>1, <2>2, <2>3 DEF Placement, SchedOK, SchedTypeOK, Apart, AtHome, OwnRuns, Listing, States, Once
<1>4. Blocked'
  <2> SUFFICES ASSUME NEW q \in Procs PROVE BlockedAt(q)'
    BY DEF Blocked, BlockedAt
  <2>1. BlockedAt(q)
    BY DEF Placement, Blocked, BlockedAt
  <2> QED
    BY <1>1, <2>1 DEF BlockedAt
<1>5. \A q, s \in Procs : Holds(s, q)' <=> Holds(s, q)
  BY <1>1 DEF Holds
<1>6. \A q \in Procs : Held(q)' <=> Held(q)
  BY <1>5 DEF Held
<1>7. Family(msgqueue, Procs)' /\ Apart(msgqueue)' /\ \A q : In(q, msgqueue)' <=> In(q, msgqueue) \/ q = p
  <2>1. Family([msgqueue EXCEPT ![r] = Append(@, p)], Procs)
        /\ \A q : In(q, [msgqueue EXCEPT ![r] = Append(@, p)]) <=> In(q, msgqueue) \/ q = p
    BY ZenonT(40), <1>2, AppendIn
  <2>2. Apart([msgqueue EXCEPT ![r] = Append(@, p)])
    BY <1>2, AppendApart
  <2> QED
    BY <2>1, <2>2
<1>8. Queued'
  BY <1>1, <1>2, <1>5, <1>6, <1>7 DEF Placement, Queued
<1> QED
  BY <1>3, <1>4, <1>8 DEF Placement

(* Dequeue: the head of the queue goes into the hands of the receiver.     *)
LEMMA PlacesDequeue ==
  ASSUME Placement, NEW p \in Procs, From(p, "dequeue"), UNCHANGED sched,
         msgqueue[p] # <<>>, ctx'[p].at = "refill", Stays(p), ctx'[p].pid = Head(msgqueue[p]),
         msgqueue' = [msgqueue EXCEPT ![p] = Tail(@)]
  PROVE  Placement'
<1> DEFINE h == Head(msgqueue[p])
<1>1. /\ \A q : Running(q)' <=> Running(q)
      /\ Running(p) /\ ctx[p].at = "dequeue" /\ ctx'[p].at = "refill" /\ ctx'[p].op = ctx[p].op
      /\ ctx'[p].pid = h
      /\ \A q \in Procs : q # p => ctx'[q] = ctx[q]
      /\ state' = state /\ readylist' = readylist /\ currpid' = currpid
  BY DEF From, Stays, Running, sched
<1>2. Family(msgqueue, Procs) /\ Apart(msgqueue)
  BY DEF Placement, Queued
<1>3. SchedOK(States)' /\ Listing(Marked)' /\ Once'
  <2>1. Marked' = Marked /\ \A q, s \in Procs : Wakes(s, q)' <=> Wakes(s, q)
    BY <1>1, MarkedStays
  <2>2. /\ torn' = torn /\ state' = state /\ readylist' = readylist /\ currpid' = currpid
        /\ \A q : Running(q)' <=> Running(q)
    BY <1>1 DEF sched
  <2>3. \A q \in Procs : ctx'[q].at = "mark" => ctx'[q] = ctx[q]
    BY <1>1
  <2> QED
    BY <2>1, <2>2, <2>3 DEF Placement, SchedOK, SchedTypeOK, Apart, AtHome, OwnRuns, Listing, States, Once
<1>4. Blocked'
  <2> SUFFICES ASSUME NEW q \in Procs PROVE BlockedAt(q)'
    BY DEF Blocked, BlockedAt
  <2>1. BlockedAt(q)
    BY DEF Placement, Blocked, BlockedAt
  <2> QED
    BY <1>1, <2>1 DEF BlockedAt
<1>5. /\ Family(msgqueue, Procs)' /\ Apart(msgqueue)' /\ h \in Procs /\ In(h, msgqueue)
      /\ \A q : In(q, msgqueue)' <=> In(q, msgqueue) /\ q # h
  BY <1>2, TailIn
<1> HIDE DEF h
<1>6. \A q, s \in Procs : Holds(s, q)' <=> Holds(s, q) \/ (s = p /\ q = h)
  BY <1>1 DEF Holds
<1>7. \A q \in Procs : Held(q)' <=> Held(q) \/ q = h
  BY <1>6 DEF Held
<1>8. ~Held(h)
  BY <1>5 DEF Placement, Queued
<1>9. \A q \in Procs : Waits(q)' <=> Waits(q)
  BY <1>1 DEF Waits
<1>10. Queued'
  <2>1. ASSUME NEW q \in Procs, NEW s \in Procs, NEW t \in Procs, Holds(s, q)', Holds(t, q)'
        PROVE  s = t
    <3>1. CASE q = h
      BY <1>6, <1>8, <2>1, <3>1 DEF Held
    <3>2. CASE q # h
      BY <1>6, <2>1, <3>2 DEF Placement, Queued
    <3> QED
      BY <3>1, <3>2
  <2>2. \A q \in Procs : ~(In(q, msgqueue)' /\ Held(q)')
    BY <1>5, <1>7 DEF Placement, Queued
  <2>3. \A q \in Procs : In(q, msgqueue)' \/ Held(q)' <=> Waits(q)'
    BY <1>5, <1>7, <1>9 DEF Placement, Queued, Waits
  <2> QED
    BY <1>5, <2>1, <2>2, <2>3 DEF Queued, Waits
<1> QED
  BY <1>3, <1>4, <1>10 DEF Placement

(* ready marks a process that is not current, nor ready yet.               *)
LEMMA PlacesMark ==
  ASSUME TypeOK, Matching, Placement, NEW p \in Procs, NEW h \in Procs,
         state[h] \notin {"PRCURR", "PRREADY"}, MarkReady(h),
         \A q \in Procs : q # p => ctx'[q] = ctx[q], ctx'[p].at = "enlist",
         \A q \in Procs : q # p /\ ctx[q].at = "mark" => ctx[q].to # h,
         \A q, s \in Procs : Wakes(s, q)' <=> Wakes(s, q) \/ (s = p /\ q = h)
  PROVE  /\ SchedOK(States)' /\ Listing(Marked)' /\ Once'
         /\ \A q \in Procs : Running(q)' <=> Running(q)
         /\ \A q \in Procs : state'[q] = IF q = h THEN "PRREADY" ELSE state[q]
<1> PICK marked : marked = Marked
  OBVIOUS
<1>1. "PRREADY" \in States /\ SchedOK(States) /\ Listing(marked)
  BY DEF Placement, States, Listing
<1>2. /\ SchedOK(States)' /\ Listing(marked \cup {h})'
      /\ \A q \in Procs : Running(q)' <=> Running(q)
      /\ \A q \in Procs : state'[q] = IF q = h THEN "PRREADY" ELSE state[q]
  BY <1>1, ListedMark
<1>3. Marked' = marked \cup {h}
  BY DEF Marked
<1>4. ~(\E s \in Procs : Wakes(s, h))
  BY DEF Placement, Listing, Marked
<1>5. \A q, s, t \in Procs : Wakes(s, q)' /\ Wakes(t, q)' => s = t
  BY <1>4 DEF Placement, Once
<1>6. ASSUME NEW q \in Procs, ctx'[q].at = "mark"
      PROVE  state'[ctx'[q].to] = "PRRECV"
  <2>1. /\ ctx'[q] = ctx[q] /\ state[ctx[q].to] = "PRRECV" /\ ctx[q].to \in Procs
        /\ ctx[q].to # h
    BY <1>6 DEF Placement, Once, Matching, MatchingAt, IsSend
  <2> QED
    BY <1>2, <2>1
<1> QED
  BY <1>2, <1>3, <1>5, <1>6 DEF Listing, Once

(* Mark: a process that waits for a message is made ready.                 *)
LEMMA PlacesWake ==
  ASSUME TypeOK, Matching, Placement, NEW p \in Procs, NEW r \in Procs, ctx[p].to = r, IsSend(p),
         From(p, "mark"), To(p, "enlist"), UNCHANGED msgqueue, MarkReady(r),
         \A q \in Procs : q # p /\ ctx[q].at = "mark" => ctx[q].to # r
  PROVE  Placement'
<1>1. /\ Running(p) /\ ctx[p].at = "mark" /\ ctx'[p].at = "enlist" /\ ctx'[p].op = ctx[p].op
      /\ ctx'[p].to = r /\ \A q \in Procs : q # p => ctx'[q] = ctx[q]
      /\ state[r] = "PRRECV"
  BY DEF From, To, Stays, Placement, Once
<1>2. state[p] = "PRCURR" /\ p # r /\ ctx[r].op = "recv" /\ ctx[r].at \in {"resched", "asleep"}
  BY <1>1 DEF Placement, Blocked
<1>3. /\ SchedOK(States)' /\ Listing(Marked)' /\ Once'
      /\ \A q \in Procs : Running(q)' <=> Running(q)
      /\ \A q \in Procs : state'[q] = IF q = r THEN "PRREADY" ELSE state[q]
  <2>1. \A s \in Procs : s # p => Woken(s)' = Woken(s)
    BY <1>1 DEF Woken, IsSend
  <2>2. Woken(p)' = r
    BY <1>1 DEF Woken, IsSend
  <2>3. \A q, s \in Procs : Wakes(s, q)' <=> Wakes(s, q) \/ (s = p /\ q = r)
    BY <1>1, <2>1, <2>2 DEF Wakes
  <2> QED
    BY <1>1, <2>3, PlacesMark
<1>5. Blocked'
  <2> SUFFICES ASSUME NEW q \in Procs PROVE BlockedAt(q)'
    BY DEF Blocked, BlockedAt
  <2>1. BlockedAt(q)
    BY DEF Placement, Blocked, BlockedAt
  <2> QED
    BY <1>1, <1>2, <1>3, <2>1 DEF BlockedAt
<1>6. \A q, s \in Procs : Holds(s, q)' <=> Holds(s, q)
  BY <1>1 DEF Holds
<1>7. \A q \in Procs : Held(q)' <=> Held(q)
  BY <1>6 DEF Held
<1>8. \A q \in Procs : Waits(q)' <=> Waits(q)
  BY <1>1, <1>2, <1>3 DEF Waits
<1>9. Queued'
  <2>1. Family(msgqueue, Procs)' /\ Apart(msgqueue)' /\ \A q \in Procs : In(q, msgqueue)' <=> In(q, msgqueue)
    BY DEF Placement, Queued, Apart, Family
  <2> QED
    BY <1>6, <1>7, <1>8, <2>1 DEF Placement, Queued, Waits
<1> QED
  BY <1>3, <1>5, <1>9 DEF Placement

(* Enlist: the process that has been marked enters its ready list.         *)
LEMMA PlacesEnlist ==
  ASSUME TypeOK, Matching, Placement, NEW p \in Procs, NEW h \in Procs, Woken(p) = h,
         From(p, "enlist"), To(p, "yield") \/ To(p, "release"), UNCHANGED msgqueue, ListReady(h)
  PROVE  Placement'
<1>1. /\ Running(p) /\ ctx[p].at = "enlist" /\ ctx'[p].at \in {"yield", "release"} /\ ctx'[p].op = ctx[p].op
      /\ \A q \in Procs : q # p => ctx'[q] = ctx[q]
  BY DEF From, To, Stays
<1>2. h \in Marked /\ \A s \in Procs : Wakes(s, h) => s = p
  BY <1>1 DEF Marked, Wakes, Placement, Once
<1>3. \A q, s \in Procs : Wakes(s, q)' <=> Wakes(s, q) /\ s # p
  <2>1. \A s \in Procs : s # p => Woken(s)' = Woken(s)
    BY <1>1 DEF Woken, IsSend
  <2> QED
    BY <1>1, <2>1 DEF Wakes
<1>4. /\ SchedOK(States)' /\ Listing(Marked)' /\ state' = state
      /\ \A q \in Procs : Running(q)' <=> Running(q)
  <2> PICK marked : marked = Marked
    OBVIOUS
  <2>1. SchedOK(States) /\ Listing(marked)
    BY DEF Placement, Listing
  <2>2. /\ SchedOK(States)' /\ Listing(marked \ {h})' /\ state' = state
        /\ \A q \in Procs : Running(q)' <=> Running(q)
    BY <1>2, <2>1, ListedEnlist
  <2>3. \A q \in Procs : Wakes(p, q) <=> q = h
    BY <1>1 DEF Wakes
  <2>4. Marked' = marked \ {h}
    BY <1>2, <1>3, <2>3 DEF Marked
  <2> QED
    BY <2>2, <2>4 DEF Listing
<1>5. Blocked'
  <2> SUFFICES ASSUME NEW q \in Procs PROVE BlockedAt(q)'
    BY DEF Blocked, BlockedAt
  <2>1. BlockedAt(q)
    BY DEF Placement, Blocked, BlockedAt
  <2> QED
    BY <1>1, <1>4, <2>1 DEF BlockedAt
<1>6. \A q, s \in Procs : Holds(s, q)' <=> Holds(s, q)
  BY <1>1 DEF Holds
<1>7. \A q \in Procs : Held(q)' <=> Held(q)
  BY <1>6 DEF Held
<1>8. \A q \in Procs : Waits(q)' <=> Waits(q)
  BY <1>1, <1>4 DEF Waits
<1>9. Queued'
  <2>1. Family(msgqueue, Procs)' /\ Apart(msgqueue)' /\ \A q \in Procs : In(q, msgqueue)' <=> In(q, msgqueue)
    BY DEF Placement, Queued, Apart, Family
  <2> QED
    BY <1>6, <1>7, <1>8, <2>1 DEF Placement, Queued, Waits
<1>10. Once'
  <2>1. \A q \in Procs : ctx'[q].at = "mark" => ctx'[q] = ctx[q]
    BY <1>1
  <2> QED
    BY <1>3, <1>4, <2>1 DEF Placement, Once
<1> QED
  BY <1>4, <1>5, <1>9, <1>10 DEF Placement

(* WakeSender: the sender whose message has been moved to the slot.        *)
LEMMA PlacesWakeSender ==
  ASSUME TypeOK, Matching, Placement, NEW p \in Procs, NEW h \in Procs, ctx[p].pid = h,
         ctx[p].op = "recv", From(p, "wakesender"), To(p, "enlist"),
         UNCHANGED msgqueue, MarkReady(h)
  PROVE  Placement'
<1>1. /\ ctx[p].at = "wakesender" /\ ctx'[p].at = "enlist" /\ ctx'[p].op = ctx[p].op /\ ctx'[p].pid = h
      /\ \A q \in Procs : q # p => ctx'[q] = ctx[q]
      /\ state \in [Procs -> States]
  BY DEF From, To, Stays, TypeOK, SchedTypeOK, States
<1>2. Holds(p, h)
  BY <1>1 DEF Holds
<1>3. Held(h) /\ state[h] = "PRSEND" /\ ctx[h].at # "enqueue" /\ p # h
  <2>1. Held(h) /\ state[h] = "PRSEND" /\ ctx[h].at # "enqueue"
    BY <1>2 DEF Held, Placement, Queued
  <2> QED
    BY <2>1, <1>1 DEF Placement, Blocked
<1>4. /\ SchedOK(States)' /\ Listing(Marked)' /\ Once'
      /\ \A q \in Procs : Running(q)' <=> Running(q)
      /\ \A q \in Procs : state'[q] = IF q = h THEN "PRREADY" ELSE state[q]
  <2>1. state[h] \notin {"PRCURR", "PRREADY"}
    BY <1>3
  <2>2. \A s \in Procs : s # p => Woken(s)' = Woken(s)
    BY <1>1 DEF Woken, IsSend
  <2>3. Woken(p)' = h
    BY <1>1 DEF Woken, IsSend
  <2>4. \A q, s \in Procs : Wakes(s, q)' <=> Wakes(s, q) \/ (s = p /\ q = h)
    BY <1>1, <2>2, <2>3 DEF Wakes
  <2>5. \A q \in Procs : ctx[q].at = "mark" => ctx[q].to # h
    BY <1>3 DEF Placement, Once
  <2> QED
    BY <1>1, <2>1, <2>4, <2>5, PlacesMark
<1>5. \A q \in Procs : Running(q)' <=> Running(q)
  BY <1>4
<1>6. state'[h] = "PRREADY" /\ \A q \in Procs \ {h} : state'[q] = state[q]
  BY <1>4
<1>7. Blocked'
  <2> SUFFICES ASSUME NEW q \in Procs PROVE BlockedAt(q)'
    BY DEF Blocked, BlockedAt
  <2>1. BlockedAt(q)
    BY DEF Placement, Blocked, BlockedAt
  <2>2. CASE q = h
    BY <1>1, <1>3, <1>5, <1>6, <2>1, <2>2 DEF BlockedAt
  <2>3. CASE q # h
    BY <1>1, <1>5, <1>6, <2>1, <2>3 DEF BlockedAt
  <2> QED
    BY <2>2, <2>3
<1>8. \A q, s \in Procs : Holds(s, q)' <=> Holds(s, q) /\ s # p
  BY <1>1 DEF Holds
<1>9. \A q \in Procs : Held(q)' <=> Held(q) /\ q # h
  <2>1. \A s \in Procs : Holds(s, h) => s = p
    BY <1>2 DEF Placement, Queued
  <2>2. \A q \in Procs : Holds(p, q) <=> q = h
    BY <1>1 DEF Holds
  <2> QED
    BY <1>8, <2>1, <2>2 DEF Held
<1>10. \A q \in Procs : Waits(q)' <=> Waits(q) /\ q # h
  BY <1>1, <1>6, <1>3 DEF Waits
<1>11. Queued'
  <2>1. /\ Family(msgqueue, Procs)' /\ Apart(msgqueue)'
        /\ \A q \in Procs : In(q, msgqueue)' <=> In(q, msgqueue)
    BY DEF Placement, Queued, Apart, Family
  <2>2. ~In(h, msgqueue)
    BY <1>3 DEF Placement, Queued
  <2> QED
    BY <1>8, <1>9, <1>10, <2>1, <2>2 DEF Placement, Queued, Waits
<1> QED
  BY <1>4, <1>7, <1>11 DEF Placement

(* No two senders are about to mark one receiver.                          *)
MarksAlone ==
  \A p, q \in Procs : ctx[p].at = "mark" /\ ctx[q].at = "mark" /\ ctx[p].to = ctx[q].to => p = q

(* Every step keeps the places.                                            *)
LEMMA PlacementStep ==
  ASSUME TypeOK, Matching, Placement, [Next]_vars, MarksAlone
  PROVE  Placement'
<1>a. ASSUME NEW p \in Procs, NEW step, From(p, step), UNCHANGED <<sched, msgqueue>>,
             step \notin {"enqueue", "resched", "refill", "wakesender", "enlist"},
             ctx'[p].at \notin {"enqueue", "refill", "wakesender", "enlist"},
             step = "unlock" => To(p, "resched"),
             ctx'[p].at = "mark" => state[ctx'[p].to] = "PRRECV"
      PROVE  Placement'
  <2>1. \A q \in Procs : Holds(p, q)' <=> Holds(p, q)
    BY <1>a DEF From, Holds
  <2> QED
    BY <1>a, <2>1, PlacesStay
<1>1. ASSUME NEW p \in Procs, Calling(p) PROVE Placement'
  <2>1. From(p, "user") /\ UNCHANGED <<sched, msgqueue>> /\ ctx'[p].at \in {"acquire", "look"}
    BY <1>1, CallingDoes DEF Begun, box
  <2> QED
    BY <2>1, <1>a
<1>2. ASSUME NEW p \in Procs, Kernel(p) PROVE Placement'
  <2> DEFINE r == ctx[p].to
  <2>1. CASE Acquire(p) \/ Release(p) \/ Look(p) \/ Test(p)
    BY <2>1, Does, <1>a DEF To, Back, box
  <2>2. CASE Block(p)
    <3>1. /\ From(p, "block") /\ To(p, "enqueue") /\ state' = [state EXCEPT ![p] = "PRSEND"]
          /\ UNCHANGED <<currpid, readylist, torn, msgqueue>>
      BY <2>2, Does DEF box
    <3>2. ctx[p].op = "send"
      BY <3>1 DEF From, Matching, MatchingAt
    <3> QED
      BY <3>1, <3>2, PlacesBlock
  <2>3. CASE Enqueue(p)
    <3>1. /\ From(p, "enqueue") /\ To(p, "unlock") /\ UNCHANGED sched
          /\ r \in Procs /\ msgqueue' = [msgqueue EXCEPT ![r] = Append(@, p)]
      BY <2>3, Does
    <3>2. \E q \in Procs : msgqueue' = [msgqueue EXCEPT ![q] = Append(@, p)]
      BY <3>1
    <3> QED
      BY <3>1, <3>2, PlacesEnqueue
  <2>4. CASE SendUnlock(p) \/ Awake(p) \/ Deposit(p) \/ Flag(p)
    BY <2>4, Does, <1>a DEF To, Back, box
  <2>5. CASE CallResched(p)
    <3>1. From(p, "resched") /\ To(p, "asleep") /\ Resched(Affinity[p]) /\ UNCHANGED msgqueue
      BY <2>5, Does DEF box
    <3>2. Affinity[p] \in Cores
      BY ReadyListsAssumption
    <3> QED
      BY <3>1, <3>2, PlacesResched
  <2>6. CASE Wake(p)
    <3>1. /\ From(p, "wake") /\ UNCHANGED <<sched, msgqueue>>
          /\ IF state[r] = "PRRECV" THEN To(p, "mark") ELSE To(p, "release")
      BY <2>6, Does DEF box
    <3> QED
      BY <3>1, <1>a DEF To, Stays
  <2>12. CASE Mark(p)
    <3>1. /\ From(p, "mark") /\ To(p, "enlist") /\ UNCHANGED msgqueue /\ IsSend(p)
          /\ \E q \in Procs : ctx[p].to = q /\ MarkReady(q)
      BY <2>12, Does DEF box
    <3>2. PICK q \in Procs : ctx[p].to = q /\ MarkReady(q)
      BY <3>1
    <3>3. \A t \in Procs : t # p /\ ctx[t].at = "mark" => ctx[t].to # q
      BY <3>1, <3>2 DEF MarksAlone, From
    <3> QED
      BY <3>1, <3>2, <3>3, PlacesWake
  <2>13. CASE Enlist(p)
    <3>1. /\ From(p, "enlist") /\ (To(p, "yield") \/ To(p, "release")) /\ UNCHANGED msgqueue
          /\ \E q \in Procs : Woken(p) = q /\ ListReady(q)
      BY <2>13, Does DEF box
    <3> QED
      BY <3>1, PlacesEnlist
  <2>14. CASE Yield(p)
    <3>1. From(p, "yield") /\ To(p, "release") /\ Resched(Affinity[p]) /\ UNCHANGED msgqueue
      BY <2>14, Does DEF box
    <3>2. Affinity[p] \in Cores
      BY ReadyListsAssumption
    <3> QED
      BY <3>1, <3>2, PlacesResched
  <2>7. CASE GetTest(p) \/ TakeMessage(p) \/ Clear(p) \/ Reset(p)
    BY <2>7, Does, <1>a DEF To, Back, box
  <2>8. CASE Sleep(p)
    BY ZenonT(40), <2>8, Does, PlacesBlock DEF box
  <2>9. CASE Dequeue(p)
    <3>1. CASE msgqueue[p] = <<>>
      BY <2>9, <3>1, Does, <1>a DEF To, box
    <3>2. CASE msgqueue[p] # <<>>
      BY <2>9, <3>2, Does, PlacesDequeue DEF box
    <3> QED
      BY <3>1, <3>2
  <2>10. CASE Refill(p)
    <3>1. From(p, "refill") /\ To(p, "wakesender") /\ UNCHANGED <<sched, msgqueue>>
      BY <2>10, Does
    <3>2. \A q \in Procs : Holds(p, q)' <=> Holds(p, q)
      BY <3>1 DEF From, To, Holds
    <3> QED
      BY <3>1, <3>2, PlacesStay DEF To
  <2>11. CASE WakeSender(p)
    <3>1. /\ From(p, "wakesender") /\ To(p, "enlist") /\ UNCHANGED msgqueue /\ ctx[p].op = "recv"
          /\ \E h \in Procs : ctx[p].pid = h /\ MarkReady(h)
      BY <2>11, Does DEF box
    <3> QED
      BY <3>1, PlacesWakeSender
  <2> QED
    BY <1>2, <2>1, <2>2, <2>3, <2>4, <2>5, <2>6, <2>7, <2>8, <2>9, <2>10, <2>11, <2>12, <2>13, <2>14
       DEF Kernel
<1>3. ASSUME NEW c \in Cores, Preempt(c) PROVE Placement'
  BY <1>3, PlacesResched DEF Preempt, box
<1>4. CASE UNCHANGED vars \/ Stopped \/ \E p \in Procs : Meet(p)
  <2>1. /\ ctx' = ctx /\ state' = state /\ readylist' = readylist /\ currpid' = currpid /\ msgqueue' = msgqueue
        /\ (torn \in BOOLEAN => torn' \in BOOLEAN)
    BY <1>4, Halts DEF box
  <2>2. SchedOK(States)'
    BY <2>1 DEF Placement, SchedOK, SchedTypeOK, Apart, AtHome, OwnRuns
  <2>3. Marked' = Marked /\ \A q, r \in Procs : Wakes(r, q)' <=> Wakes(r, q)
    BY <2>1 DEF Marked, Wakes, Woken, IsSend
  <2> QED
    BY <2>1, <2>2, <2>3 DEF Placement, Listing, Blocked, Queued, Once, Running, Holds, Held, Family, In, Apart
<1> QED
  BY <1>1, <1>2, <1>3, <1>4 DEF Next

(* Who changes state, and who runs.                                        *)
Same(q) == \/ state'[q] = state[q]
           \/ {state'[q], state[q]} \subseteq {"PRCURR", "PRREADY"}

(* What a reschedule does to the states.                                   *)
LEMMA ReschedStates ==
  ASSUME Placement, NEW c \in Cores, Resched(c)
  PROVE  \A q \in Procs : Same(q) /\ (Affinity[q] # c => (Running(q)' <=> Running(q)))
<1> PICK marked : marked = Marked
  OBVIOUS
<1>1. SchedOK(States) /\ Listing(marked) /\ "PRCURR" \in States /\ "PRREADY" \in States
  BY DEF Placement, States, Listing
<1>2. Turn /\ \A q \in Procs : Affinity[q] # c => (Running(q)' <=> Running(q))
  BY <1>1, ListedResched
<1> QED
  BY <1>2 DEF Turn, Same

(* What the two halves of ready do to the states.                          *)
LEMMA ReadyStates ==
  ASSUME TypeOK, Matching, Placement, NEW p \in Procs
  PROVE  /\ Mark(p) => /\ UNCHANGED currpid
                       /\ \A q \in Procs : state'[q] = IF q = ctx[p].to THEN "PRREADY" ELSE state[q]
         /\ WakeSender(p) => /\ UNCHANGED currpid /\ state[ctx[p].pid] = "PRSEND"
                             /\ \A q \in Procs : state'[q] = IF q = ctx[p].pid THEN "PRREADY" ELSE state[q]
         /\ Enlist(p) => UNCHANGED <<currpid, state>>
<1>0. state \in [Procs -> States]
  BY DEF TypeOK, SchedTypeOK, States
<1>1. CASE Mark(p)
  <2>1. MarkReady(ctx[p].to) /\ From(p, "mark")
    BY <1>1, Does
  <2> QED
    BY <1>0, <2>1 DEF MarkReady, From, WakeSender, Enlist, At
<1>2. CASE WakeSender(p)
  <2>1. MarkReady(ctx[p].pid) /\ ctx[p].pid \in Procs /\ From(p, "wakesender")
    BY <1>2, Does
  <2>2. PICK h \in Procs : h = ctx[p].pid
    BY <2>1
  <2>3. Holds(p, h)
    BY <2>1, <2>2 DEF Holds, From
  <2>4. state[h] = "PRSEND"
    BY <2>3 DEF Placement, Queued, Held
  <2> QED
    BY <1>0, <2>1, <2>2, <2>4 DEF MarkReady, From, Mark, Enlist, At
<1>3. CASE Enlist(p)
  BY <1>3 DEF Enlist, ListReady, Mark, WakeSender, At
<1> QED
  BY <1>1, <1>2, <1>3

-----------------------------------------------------------------------------
(* What is read as a message is one *)

FilledAt(p) ==
  /\ hasMessage[p] => msgin[p] # NULL
  /\ ctx[p].at \in {"flag", "wake", "mark"} => msgin[ctx[p].to] # NULL
  /\ ctx[p].at = "take" => msgin[p] # NULL
  /\ ctx[p].at = "clear" => ctx[p].msg # NULL
  /\ (/\ ctx[p].op = "recv" /\ ctx[p].at \in {"resched", "asleep"}
      /\ state[p] # "PRRECV") => msgin[p] # NULL
Pends(p) == In(p, msgqueue) \/ \E r \in Procs : ctx[r].at = "refill" /\ ctx[r].pid = p

(* Filled, one process at a time.                                          *)
LEMMA FilledParts == Filled <=> \A p \in Procs : FilledAt(p) /\ (Pends(p) => msgout[p] # NULL)
BY DEF Filled, FilledAt, Pends

(* What the sleepers find: no step but Mark makes a receiver ready.        *)
LEMMA ReceiverSleeps ==
  ASSUME TypeOK, Matching, Placement, NEW p \in Procs, Kernel(p),
         NEW q \in Procs, state[q] = "PRRECV", state'[q] # "PRRECV"
  PROVE  Mark(p) /\ q = ctx[p].to
<1>0. state \in [Procs -> States] /\ Affinity[p] \in Cores
  BY ReadyListsAssumption DEF TypeOK, SchedTypeOK, States
<1>1. CASE Block(p) \/ Sleep(p)
  <2>1. /\ \/ state' = [state EXCEPT ![p] = "PRSEND"] /\ From(p, "block")
           \/ state' = [state EXCEPT ![p] = "PRRECV"] /\ From(p, "sleep")
    BY <1>1, Does
  <2>2. state[p] = "PRCURR"
    BY <2>1 DEF From, Placement, Blocked
  <2> QED
    BY <2>1, <2>2, <1>0
<1>2. CASE CallResched(p) \/ Yield(p)
  <2>1. Resched(Affinity[p])
    BY <1>2, Does
  <2> QED
    BY <1>0, <2>1, ReschedStates DEF Same
<1>3. CASE Mark(p) \/ WakeSender(p) \/ Enlist(p)
  BY <1>3, ReadyStates
<1>5. CASE ~(Block(p) \/ Sleep(p) \/ CallResched(p) \/ Yield(p) \/ Mark(p) \/ WakeSender(p) \/ Enlist(p))
  <2>1. UNCHANGED sched
    BY <1>5, Does DEF Kernel
  <2> QED
    BY <2>1 DEF sched
<1> QED
  BY <1>1, <1>2, <1>3, <1>5

(* Every step keeps NULL out of what is read as a message.                 *)
LEMMA FilledStep ==
  ASSUME TypeOK, Matching, Placement, Filled, [Next]_vars
  PROVE  Filled'
<1>0. /\ ctx \in [Procs -> Contexts] /\ hasMessage \in [Procs -> BOOLEAN]
      /\ msgin \in [Procs -> Messages \cup {NULL}] /\ msgout \in [Procs -> Messages \cup {NULL}]
      /\ Family(msgqueue, Procs) /\ Apart(msgqueue)
      /\ sent \in Nat
  BY MessagesAssumption DEF TypeOK, Family, Placement, Queued
<1>f. \A q \in Procs : FilledAt(q) /\ (Pends(q) => msgout[q] # NULL)
  BY FilledParts
<1>a. ASSUME NEW p \in Procs, NEW step, From(p, step), FilledAt(p)',
             \A q \in Procs : /\ hasMessage'[q] => hasMessage[q] \/ msgin'[q] # NULL
                              /\ msgin[q] # NULL => msgin'[q] # NULL
                              /\ state'[q] # "PRRECV" => state[q] # "PRRECV" \/ msgin[q] # NULL,
             \A q \in Procs : Pends(q)' => msgout'[q] # NULL
      PROVE  Filled'
  <2> SUFFICES ASSUME NEW q \in Procs PROVE FilledAt(q)'
    BY <1>a DEF Filled, FilledAt, Pends
  <2>1. CASE q = p
    BY <1>a, <2>1
  <2>2. CASE q # p
    <3>1. FilledAt(q) /\ ctx'[q] = ctx[q]
      BY <1>a, <1>f, <2>2 DEF From
    <3>2. ctx[q].at \in {"flag", "wake", "mark"} => ctx[q].to \in Procs
      BY DEF Matching, MatchingAt
    <3> QED
      BY <3>1, <3>2, <1>a DEF FilledAt
  <2> QED
    BY <2>1, <2>2
(* the common case: only the flag or the context changes                   *)
<1>b. ASSUME NEW p \in Procs, Kernel(p) \/ Calling(p), NEW step, From(p, step), FilledAt(p)',
             UNCHANGED <<msgin, msgout>>, ~Mark(p),
             \A q \in Procs : hasMessage'[q] => hasMessage[q] \/ msgin[q] # NULL,
             \A q \in Procs : Pends(q)' => Pends(q)
      PROVE  Filled'
  <2>1. \A q \in Procs : state'[q] # "PRRECV" => state[q] # "PRRECV"
    BY <1>b, ReceiverSleeps, CallingDoes DEF sched
  <2> QED
    BY <1>a, <1>b, <1>f, <2>1
<1>c. ASSUME NEW p \in Procs, NEW step, From(p, step), step # "refill", ctx'[p].at # "refill",
             UNCHANGED msgqueue
      PROVE  \A q \in Procs : Pends(q)' <=> Pends(q)
  BY <1>c DEF From, Pends
<1>1. ASSUME NEW p \in Procs, Calling(p) PROVE Filled'
  <2>1. /\ From(p, "user") /\ UNCHANGED box /\ ctx'[p].at \in {"acquire", "look"}
    BY <1>1, CallingDoes DEF Begun
  <2>2. FilledAt(p)'
    BY <2>1, <1>f DEF FilledAt, box
  <2> QED
    BY <1>1, <2>1, <2>2, <1>b, <1>c, ReceiverSleeps DEF box, Mark, From, At
<1>2. ASSUME NEW p \in Procs, Kernel(p) PROVE Filled'
  <2>f. FilledAt(p)
    BY <1>f
  <2>m. MatchingAt(p)
    BY DEF Matching
  <2>r. ctx[p].at # "user" => ctx[p].to \in Procs
    BY <1>0, <2>m, ContextFields DEF MatchingAt, IsSend, Gets
  <2>w. \A step : From(p, step) /\ step # "mark" => ~Mark(p)
    BY DEF From, Mark, At
  <2>1. CASE Acquire(p) \/ Release(p) \/ Look(p) \/ Test(p) \/ SendUnlock(p)
    <3>1. PICK step : /\ From(p, step) /\ step \notin {"mark", "refill"}
                      /\ ctx'[p].at \in {"user", "acquire", "deposit", "test", "block", "resched"}
                      /\ ctx'[p].at # "resched" \/ ctx'[p].op # "recv"
                      /\ UNCHANGED box
      <4>1. CASE SendUnlock(p)
        BY <4>1, <2>m, Does DEF To, Stays, From, MatchingAt
      <4>2. CASE ~SendUnlock(p)
        BY <2>1, <4>2, Does DEF To, Back
      <4> QED
        BY <4>1, <4>2
    <3>2. FilledAt(p)'
      BY <3>1, <2>f DEF FilledAt, box
    <3> QED
      BY <1>2, <3>1, <3>2, <2>w, <1>b, <1>c DEF box
  <2>2. CASE Block(p) \/ Sleep(p)
    <3>1. PICK step : /\ From(p, step) /\ step \notin {"mark", "refill"}
                      /\ ctx'[p].at \in {"enqueue", "resched"}
                      /\ ctx'[p].at = "enqueue" \/ state'[p] = "PRRECV"
                      /\ UNCHANGED box
      <4>1. state \in [Procs -> States]
        BY DEF TypeOK, SchedTypeOK, States
      <4> QED
        BY <2>2, <4>1, Does DEF To
    <3>2. FilledAt(p)'
      BY <3>1, <2>f DEF FilledAt, box
    <3> QED
      BY <1>2, <3>1, <3>2, <2>w, <1>b, <1>c DEF box
  <2>3. CASE Enqueue(p)
    <3>1. /\ From(p, "enqueue") /\ To(p, "unlock") /\ UNCHANGED <<hasMessage, msgin, sched>>
          /\ msgout' = [msgout EXCEPT ![p] = ctx[p].msg]
          /\ ctx[p].to \in Procs
          /\ msgqueue' = [msgqueue EXCEPT ![ctx[p].to] = Append(@, p)]
      BY <2>3, Does
    <3>2. ctx[p].msg # NULL
      BY <3>1, <2>m, <1>0 DEF From, MatchingAt, IsSend, NULL
    <3>3. PICK r \in Procs : msgqueue' = [msgqueue EXCEPT ![r] = Append(@, p)]
      BY <3>1
    <3>4. \A q \in Procs : In(q, msgqueue)' <=> In(q, msgqueue) \/ q = p
      BY <3>3, <1>0, AppendIn
    <3>5. \A q \in Procs : Pends(q)' => Pends(q) \/ q = p
      BY <3>1, <3>4 DEF From, To, Pends
    <3>6. \A q \in Procs : Pends(q)' => msgout'[q] # NULL
      BY <3>1, <3>2, <3>5, <1>0, <1>f
    <3>7. FilledAt(p)'
      BY <3>1, <2>f DEF FilledAt, To
    <3> QED
      BY <3>1, <3>6, <3>7, <1>a DEF sched
  <2>4. CASE CallResched(p)
    <3>1. From(p, "resched") /\ To(p, "asleep") /\ UNCHANGED box
      BY <2>4, Does
    <3>2. state'[p] = "PRRECV" <=> state[p] = "PRRECV"
      <4>1. Affinity[p] \in Cores /\ Resched(Affinity[p])
        BY <2>4, ReadyListsAssumption, Does
      <4> QED
        BY <4>1, ReschedStates DEF Same
    <3>3. FilledAt(p)'
      BY <3>1, <3>2, <2>f DEF FilledAt, box, From, To, Stays
    <3> QED
      BY <1>2, <3>1, <3>3, <2>w, <1>b, <1>c DEF box, To
  <2>5. CASE Awake(p)
    <3>1. /\ From(p, "asleep") /\ UNCHANGED <<box, sched>>
          /\ \/ Back(p)
             \/ ctx[p].op = "recv" /\ To(p, "take")
      BY <2>5, Does
    <3>2. state[p] = "PRCURR"
      BY <3>1 DEF From, Placement, Blocked
    <3>3. FilledAt(p)'
      BY <3>1, <3>2, <2>f DEF FilledAt, box, sched, From, To, Back, Stays
    <3> QED
      BY <1>2, <3>1, <3>3, <2>w, <1>b, <1>c DEF box, To, Back
  <2>6. CASE Deposit(p)
    <3>1. /\ From(p, "deposit") /\ To(p, "flag") /\ IsSend(p) /\ ctx[p].to \in Procs
          /\ msgin' = [msgin EXCEPT ![ctx[p].to] = ctx[p].msg]
          /\ UNCHANGED <<hasMessage, msgout, msgqueue, sched>>
      BY <2>6, Does
    <3>2. ctx[p].msg # NULL
      BY <3>1, <2>m, <1>0 DEF MatchingAt, NULL
    <3>3. msgin'[ctx[p].to] # NULL /\ \A q \in Procs : msgin[q] # NULL => msgin'[q] # NULL
      BY <3>1, <3>2, <1>0
    <3>4. FilledAt(p)'
      BY <3>1, <3>3, <2>f DEF FilledAt, To, Stays
    <3>5. \A q \in Procs : Pends(q)' => msgout'[q] # NULL
      BY <3>1, <1>c, <1>f DEF To
    <3> QED
      BY <3>1, <3>3, <3>4, <3>5, <1>a DEF sched
  <2>7. CASE Flag(p)
    <3>1. /\ From(p, "flag") /\ To(p, "wake") /\ ctx[p].to \in Procs
          /\ hasMessage' = [hasMessage EXCEPT ![ctx[p].to] = TRUE]
          /\ UNCHANGED <<msgin, msgout, msgqueue, sched>>
      BY <2>7, Does
    <3>2. msgin[ctx[p].to] # NULL
      BY <3>1, <2>f DEF From, FilledAt
    <3>3. \A q \in Procs : hasMessage'[q] => hasMessage[q] \/ msgin[q] # NULL
      BY <3>1, <3>2, <1>0
    <3>4. FilledAt(p)'
      BY <3>1, <3>2, <3>3, <2>f DEF FilledAt, To, Stays
    <3> QED
      BY <1>2, <3>1, <3>3, <3>4, <2>w, <1>b, <1>c DEF To
  <2>8. CASE Wake(p)
    <3>1. From(p, "wake") /\ (To(p, "mark") \/ To(p, "release")) /\ UNCHANGED box
      BY <2>8, Does DEF box
    <3>2. FilledAt(p)'
      BY <3>1, <2>f DEF FilledAt, From, To, Stays, box
    <3> QED
      BY <1>2, <3>1, <3>2, <2>w, <1>b, <1>c DEF box, To
  <2>15. CASE Enlist(p) \/ Yield(p)
    <3>1. PICK step : /\ From(p, step) /\ step \in {"enlist", "yield"}
                      /\ To(p, "yield") \/ To(p, "release")
                      /\ UNCHANGED box
      BY <2>15, Does
    <3>2. FilledAt(p)'
      BY <3>1, <2>f DEF FilledAt, To, box
    <3> QED
      BY <1>2, <3>1, <3>2, <2>w, <1>b, <1>c DEF box, To
  <2>16. CASE Mark(p)
    <3>1. From(p, "mark") /\ To(p, "enlist") /\ UNCHANGED box
      BY <2>16, Does
    <3>2. msgin[ctx[p].to] # NULL
      BY <3>1, <2>f DEF From, FilledAt
    <3>3. \A q \in Procs : state'[q] # "PRRECV" => state[q] # "PRRECV" \/ msgin[q] # NULL
      BY <1>2, <3>2, ReceiverSleeps
    <3>4. FilledAt(p)'
      BY <3>1, <2>f DEF FilledAt, To, box
    <3>5. \A q \in Procs : Pends(q)' => msgout'[q] # NULL
      BY <3>1, <1>c, <1>f DEF To, box
    <3> QED
      BY <3>1, <3>3, <3>4, <3>5, <1>a DEF box
  <2>9. CASE GetTest(p)
    <3>1. /\ From(p, "test") /\ UNCHANGED box
          /\ \/ hasMessage[p] /\ To(p, "take")
             \/ To(p, "sleep") \/ To(p, "release")
      BY <2>9, Does
    <3>2. FilledAt(p)'
      BY <3>1, <2>f DEF FilledAt, To, box
    <3> QED
      BY <1>2, <3>1, <3>2, <2>w, <1>b, <1>c DEF box, To
  <2>10. CASE TakeMessage(p)
    <3>1. /\ From(p, "take") /\ UNCHANGED box /\ ctx'[p].at = "clear" /\ ctx'[p].msg = msgin[p]
      BY <2>10, Does
    <3>2. FilledAt(p)'
      BY <3>1, <2>f DEF FilledAt, From, box
    <3> QED
      BY <1>2, <3>1, <3>2, <2>w, <1>b, <1>c DEF box
  <2>11. CASE Clear(p) \/ Reset(p)
    <3>1. PICK step : /\ From(p, step) /\ step \in {"clear", "reset"}
                      /\ To(p, "dequeue") \/ To(p, "release")
                      /\ hasMessage' = [hasMessage EXCEPT ![p] = FALSE]
                      /\ UNCHANGED <<msgin, msgout, msgqueue>>
      BY <2>11, Does
    <3>2. \A q \in Procs : hasMessage'[q] => hasMessage[q]
      BY <3>1, <1>0
    <3>3. FilledAt(p)'
      BY <3>1, <3>2, <2>f DEF FilledAt, To
    <3> QED
      BY <1>2, <3>1, <3>2, <3>3, <2>w, <1>b, <1>c DEF To
  <2>12. CASE Dequeue(p)
    <3>1. CASE msgqueue[p] = <<>>
      <4>1. From(p, "dequeue") /\ To(p, "reset") /\ UNCHANGED box
        BY <2>12, <3>1, Does DEF box
      <4>2. FilledAt(p)'
        BY <4>1, <2>f DEF FilledAt, To, box
      <4> QED
        BY <1>2, <4>1, <4>2, <2>w, <1>b, <1>c DEF box, To
    <3>2. CASE msgqueue[p] # <<>>
      <4> DEFINE h == Head(msgqueue[p])
      <4>1. /\ From(p, "dequeue") /\ ctx'[p].at = "refill" /\ ctx'[p].pid = h
            /\ msgqueue' = [msgqueue EXCEPT ![p] = Tail(@)]
            /\ UNCHANGED <<hasMessage, msgin, msgout>>
        BY <2>12, <3>2, Does
      <4>2. /\ \A q : In(q, msgqueue)' <=> In(q, msgqueue) /\ q # h
            /\ In(h, msgqueue)
        BY <4>1, <3>2, <1>0, TailIn
      <4> HIDE DEF h
      <4>3. \A q \in Procs : Pends(q)' => Pends(q)
        BY <4>1, <4>2 DEF Pends, From
      <4>4. FilledAt(p)'
        BY <4>1, <2>f DEF FilledAt
      <4> QED
        BY <1>2, <4>1, <4>3, <4>4, <2>w, <1>b
    <3> QED
      BY <3>1, <3>2
  <2>13. CASE Refill(p)
    <3>1. PICK h \in Procs : ctx[p].pid = h
      BY <2>13, Does
    <3>2. /\ From(p, "refill") /\ To(p, "wakesender")
          /\ msgin' = [msgin EXCEPT ![p] = msgout[h]]
          /\ hasMessage' = [hasMessage EXCEPT ![p] = TRUE]
          /\ msgout' = [msgout EXCEPT ![h] = NULL]
          /\ UNCHANGED <<msgqueue, sched>>
      BY <2>13, <3>1, Does
    <3>3. msgout[h] # NULL
      BY <3>1, <3>2, <1>f DEF Pends, From
    <3>4. /\ msgin'[p] # NULL
          /\ \A q \in Procs : msgin[q] # NULL => msgin'[q] # NULL
          /\ \A q \in Procs : hasMessage'[q] => hasMessage[q] \/ q = p
      BY <3>2, <3>3, <1>0
    <3>5. \A q \in Procs : Pends(q)' => Pends(q) /\ q # h
      <4>1. Holds(p, h)
        BY <3>1, <3>2 DEF From, Holds
      <4>2. ~In(h, msgqueue) /\ \A r \in Procs : Holds(r, h) => r = p
        BY <4>1 DEF Placement, Queued, Held
      <4>3. \A r \in Procs : ctx[r].at = "refill" /\ ctx[r].pid = h => r = p
        BY <4>2 DEF Holds
      <4>4. \A r \in Procs : ctx'[r].at = "refill" => r # p /\ ctx'[r] = ctx[r]
        BY <3>2 DEF From, To
      <4> QED
        BY <3>2, <4>2, <4>3, <4>4 DEF Pends
    <3>6. \A q \in Procs : Pends(q)' => msgout'[q] # NULL
      BY <3>2, <3>5, <1>0, <1>f
    <3>7. FilledAt(p)'
      BY <3>2, <3>4, <2>f DEF FilledAt, To
    <3> QED
      BY <3>2, <3>4, <3>6, <3>7, <1>a DEF sched
  <2>14. CASE WakeSender(p)
    <3>1. From(p, "wakesender") /\ To(p, "enlist") /\ UNCHANGED box
      BY <2>14, Does
    <3>2. FilledAt(p)'
      BY <3>1, <2>f DEF FilledAt, To, box
    <3> QED
      BY <1>2, <3>1, <3>2, <2>w, <1>b, <1>c DEF box, To
  <2> QED
    BY <1>2, <2>1, <2>2, <2>3, <2>4, <2>5, <2>6, <2>7, <2>8, <2>9, <2>10, <2>11, <2>12, <2>13, <2>14,
       <2>15, <2>16 DEF Kernel
<1>3. ASSUME NEW c \in Cores, Preempt(c) PROVE Filled'
  <2>1. UNCHANGED <<box, ctx>> /\ Resched(c)
    BY <1>3 DEF Preempt
  <2>2. \A q \in Procs : state'[q] = "PRRECV" <=> state[q] = "PRRECV"
    BY <2>1, ReschedStates DEF Same
  <2> QED
    BY <2>1, <2>2 DEF Filled, box
<1>4. CASE UNCHANGED vars \/ Stopped \/ \E p \in Procs : Meet(p)
  BY <1>4, Halts DEF box, Filled, In
<1> QED
  BY <1>1, <1>2, <1>3, <1>4 DEF Next

-----------------------------------------------------------------------------
(* Types *)

(* Every step keeps the types.                                             *)
LEMMA TypeStep ==
  ASSUME TypeOK, Matching, Filled, SchedTypeOK(States)', [Next]_vars
  PROVE  TypeOK'
<1>0. /\ hasMessage \in [Procs -> BOOLEAN]
      /\ msgin \in [Procs -> Messages \cup {NULL}] /\ msgout \in [Procs -> Messages \cup {NULL}]
      /\ msgqueue \in [Procs -> Seq(Procs)]
      /\ lock \in [Procs -> Procs \cup {Free}]
      /\ ctx \in [Procs -> Contexts] /\ sent \in 0 .. MaxMessages /\ got \subseteq Messages
  BY DEF TypeOK
<1>s. SchedTypeOK({"PRCURR", "PRREADY", "PRRECV", "PRSEND"})'
  BY DEF States
<1>a. ASSUME ctx' \in [Procs -> Contexts], UNCHANGED <<box, lock, got>>, sent' \in 0 .. MaxMessages
      PROVE  TypeOK'
  BY <1>a, <1>0, <1>s DEF TypeOK, box
<1>1. ASSUME NEW p \in Procs, Calling(p) PROVE TypeOK'
  BY <1>1, <1>a, CallingDoes DEF From
<1>2. ASSUME NEW p \in Procs, Kernel(p) PROVE TypeOK'
  <2> DEFINE r == ctx[p].to
             h == ctx[p].pid
  <2>0. ctx[p].msg \in Messages \cup {NULL} /\ (ctx[p].at = "clear" => ctx[p].msg # NULL)
    BY <1>0, ContextFields DEF Filled
  <2>1. CASE Acquire(p) \/ Release(p) \/ SendUnlock(p)
    <3>1. /\ ctx' \in [Procs -> Contexts] /\ UNCHANGED <<box, sent, got>> /\ r \in Procs
          /\ \/ lock' = IF r \in HasLock THEN [lock EXCEPT ![r] = p] ELSE lock
             \/ lock' = IF r \in HasLock THEN [lock EXCEPT ![r] = Free] ELSE lock
      BY <2>1, Does DEF From, Unlock
    <3>2. lock' \in [Procs -> Procs \cup {Free}]
      BY <3>1, <1>0
    <3> QED
      BY <3>1, <3>2, <1>0, <1>s DEF TypeOK, box
  <2>2. CASE Look(p) \/ Test(p) \/ Block(p) \/ CallResched(p) \/ Awake(p) \/ Wake(p) \/ Mark(p)
           \/ Enlist(p) \/ Yield(p)
    BY <2>2, <1>0, <1>a, Does DEF From
  <2>3. CASE GetTest(p) \/ Sleep(p) \/ TakeMessage(p) \/ WakeSender(p)
    BY <2>3, <1>0, <1>a, Does DEF From
  <2>4. CASE Enqueue(p) \/ Deposit(p)
    <3>1. /\ ctx' \in [Procs -> Contexts] /\ UNCHANGED <<hasMessage, lock, sent, got>> /\ r \in Procs
          /\ \/ /\ msgout' = [msgout EXCEPT ![p] = ctx[p].msg] /\ UNCHANGED msgin
                /\ msgqueue' = [msgqueue EXCEPT ![r] = Append(@, p)]
             \/ msgin' = [msgin EXCEPT ![r] = ctx[p].msg] /\ UNCHANGED <<msgout, msgqueue>>
      BY <2>4, Does DEF From
    <3>2. /\ msgin' \in [Procs -> Messages \cup {NULL}] /\ msgout' \in [Procs -> Messages \cup {NULL}]
          /\ msgqueue' \in [Procs -> Seq(Procs)]
      <4>1. ASSUME UNCHANGED msgin, msgout' = [msgout EXCEPT ![p] = ctx[p].msg],
                   msgqueue' = [msgqueue EXCEPT ![r] = Append(@, p)]
            PROVE  msgout' \in [Procs -> Messages \cup {NULL}] /\ msgqueue' \in [Procs -> Seq(Procs)]
        <5> HIDE DEF r
        <5>1. Append(msgqueue[r], p) \in Seq(Procs)
          BY <3>1, <1>0
        <5> QED
          BY <4>1, <5>1, <2>0, <1>0
      <4> QED
        BY <3>1, <4>1, <2>0, <1>0
    <3> QED
      BY <3>1, <3>2, <1>0, <1>s DEF TypeOK
  <2>5. CASE Flag(p) \/ Reset(p) \/ Clear(p)
    <3>1. /\ ctx' \in [Procs -> Contexts] /\ UNCHANGED <<msgin, msgout, msgqueue, lock, sent>>
          /\ hasMessage' \in [Procs -> BOOLEAN]
          /\ UNCHANGED got \/ (ctx[p].at = "clear" /\ got' = got \cup {ctx[p].msg})
      BY ZenonT(40), <2>5, <1>0, Does DEF From
    <3>2. got' \subseteq Messages
      BY <3>1, <2>0, <1>0
    <3> QED
      BY <3>1, <3>2, <1>0, <1>s DEF TypeOK
  <2>6. CASE Dequeue(p)
    <3>1. /\ ctx' \in [Procs -> Contexts] /\ UNCHANGED <<hasMessage, msgin, msgout, lock, sent, got>>
          /\ UNCHANGED msgqueue \/ (msgqueue[p] # <<>> /\ msgqueue' = [msgqueue EXCEPT ![p] = Tail(@)])
      BY <2>6, Does DEF From
    <3>2. msgqueue' \in [Procs -> Seq(Procs)]
      <4>1. msgqueue[p] # <<>> => Tail(msgqueue[p]) \in Seq(Procs)
        BY <1>0
      <4> QED
        BY <3>1, <4>1, <1>0
    <3> QED
      BY <3>1, <3>2, <1>0, <1>s DEF TypeOK
  <2>7. CASE Refill(p)
    <3>1. /\ ctx' \in [Procs -> Contexts] /\ UNCHANGED <<msgqueue, lock, sent, got>> /\ h \in Procs
          /\ msgin' = [msgin EXCEPT ![p] = msgout[h]]
          /\ hasMessage' = [hasMessage EXCEPT ![p] = TRUE]
          /\ msgout' = [msgout EXCEPT ![h] = NULL]
      BY <2>7, Does DEF From
    <3>2. /\ msgin' \in [Procs -> Messages \cup {NULL}] /\ msgout' \in [Procs -> Messages \cup {NULL}]
          /\ hasMessage' \in [Procs -> BOOLEAN]
      BY <3>1, <1>0
    <3> QED
      BY <3>1, <3>2, <1>0, <1>s DEF TypeOK
  <2> QED
    BY <1>2, <2>1, <2>2, <2>3, <2>4, <2>5, <2>6, <2>7 DEF Kernel
<1>3. ASSUME NEW c \in Cores, Preempt(c) PROVE TypeOK'
  BY <1>3, <1>0, <1>a DEF Preempt
<1>4. CASE UNCHANGED vars \/ Stopped \/ \E p \in Procs : Meet(p)
  BY <1>4, <1>0, <1>a, Halts
<1> QED
  BY <1>1, <1>2, <1>3, <1>4 DEF Next

(* The initial state.                                                      *)
LEMMA PlaceStart == Init => PlaceInv
<1> SUFFICES ASSUME Init PROVE PlaceInv
  OBVIOUS
<1>1. /\ SchedOK(States) /\ \A q \in Procs : In(q, readylist) /\ ~Running(q)
      /\ \A q \in Procs : state[q] = "PRREADY"
  BY SchedStart DEF Init, States, SchedInit
<1>2. /\ \A q \in Procs : ctx[q] = User
      /\ ctx \in [Procs -> Contexts]
      /\ User.at = "user" /\ User.op = "none" /\ User.pid = EMPTY
  BY DEF Init, User, Contexts, Steps
<1>3. TypeOK
  BY <1>1, <1>2, MessagesAssumption DEF Init, TypeOK, SchedOK, States
<1>4. Matching
  BY <1>2 DEF Matching, MatchingAt, IsSend, Gets
<1>5. \A q : ~In(q, msgqueue)
  BY DEF Init, In
<1>6. \A q, r \in Procs : ~Holds(q, r) /\ ~Wakes(q, r)
  BY <1>2 DEF Holds, Wakes
<1>7. Queued
  <2>1. Family(msgqueue, Procs) /\ Apart(msgqueue)
    BY DEF Init, Family, Apart
  <2> QED
    BY <1>1, <1>5, <1>6, <2>1 DEF Queued, Held
<1>8. Listing(Marked) /\ Blocked /\ Once
  <2>1. Marked = {}
    BY <1>6 DEF Marked
  <2> QED
    BY <1>1, <1>2, <1>6, <2>1 DEF Listing, Blocked, Once
<1>9. Filled
  <2>1. \A q \in Procs : ~hasMessage[q]
    BY DEF Init
  <2> QED
    BY <1>2, <1>5, <2>1 DEF Filled
<1> QED
  BY <1>1, <1>3, <1>4, <1>7, <1>8, <1>9 DEF PlaceInv, Placement

(* Every step keeps types and places.                                      *)
LEMMA PlaceStep == PlaceInv /\ MarksAlone /\ [Next]_vars => PlaceInv'
<1> SUFFICES ASSUME PlaceInv, MarksAlone, [Next]_vars PROVE PlaceInv'
  OBVIOUS
<1>1. Placement'
  BY PlacementStep DEF PlaceInv
<1>2. SchedTypeOK(States)'
  BY <1>1 DEF Placement, SchedOK
<1>3. TypeOK'
  BY <1>2, TypeStep DEF PlaceInv
<1> QED
  BY <1>1, <1>3, MatchingStep, FilledStep DEF PlaceInv

-----------------------------------------------------------------------------
(* One process at a time touches a slot *)

(* The steps that read or write the slot, and those at which the lock is   *)
(* held: recv keeps it while it sleeps.                                    *)
Touching == {"test", "block", "enqueue", "deposit", "flag", "wake", "mark", "enlist", "yield",
             "sleep", "take", "clear", "dequeue", "refill", "wakesender", "reset"}
Holding(p) == \/ ctx[p].at \in Touching \cup {"unlock", "release"}
              \/ ctx[p].at \in {"resched", "asleep"} /\ ctx[p].op = "recv"

Holder == \A p \in Procs : Holding(p) /\ ctx[p].to \in HasLock => lock[ctx[p].to] = p

Alone == \A p \in Procs :
  ctx[p].to \in Procs \ HasLock /\ ctx[p].at \notin {"user", "asleep", "release"} => Running(p)

(* What the one process that touches a slot may rely on; a receiver that   *)
(* has a message sleeps only until it is woken, and senders only wait for  *)
(* a slot that is full.                                                    *)
FullAt(p)  == ctx[p].at \in {"block", "enqueue"} => hasMessage[ctx[p].to]
EmptyAt(p) == ctx[p].at = "sleep" => ~hasMessage[p]
DrainAt(p) == ctx[p].at = "reset" => msgqueue[p] = <<>>
ToldAt(r)  == state[r] = "PRRECV" /\ hasMessage[r] =>
                \E p \in Procs : ctx[p].at \in {"wake", "mark"} /\ ctx[p].to = r
WaitAt(r)  == r \notin Recvnows /\ msgqueue[r] # <<>> =>
                hasMessage[r] \/ ctx[r].at \in {"dequeue", "refill"}
Slots == \A p \in Procs : FullAt(p) /\ EmptyAt(p) /\ DrainAt(p) /\ ToldAt(p) /\ WaitAt(p)

GuardInv == PlaceInv /\ Holder /\ Alone /\ Slots

(* Who may run on after a step of p.                                       *)
LEMMA RunsOn ==
  ASSUME TypeOK, Matching, Placement, NEW p \in Procs, Kernel(p)
  PROVE  /\ ~CallResched(p) /\ ~Yield(p) => \A q : Running(q)' <=> Running(q)
         /\ \A q \in Procs : Affinity[q] # Affinity[p] => (Running(q)' <=> Running(q))
<1>0. Affinity[p] \in Cores
  BY ReadyListsAssumption
<1>1. CASE CallResched(p) \/ Yield(p)
  <2>1. Resched(Affinity[p])
    BY <1>1, Does
  <2> QED
    BY <1>0, <1>1, <2>1, ReschedStates
<1>2. CASE Mark(p) \/ WakeSender(p) \/ Enlist(p)
  <2>1. UNCHANGED currpid
    BY <1>2, ReadyStates
  <2> QED
    BY <2>1 DEF Running
<1>3. CASE ~(CallResched(p) \/ Yield(p) \/ Mark(p) \/ WakeSender(p) \/ Enlist(p))
  <2>1. UNCHANGED currpid
    BY <1>3, Does DEF Kernel, sched
  <2> QED
    BY <2>1 DEF Running
<1> QED
  BY <1>1, <1>2, <1>3

(* Who becomes a sleeping receiver.                                        *)
LEMMA ReceiverStays ==
  ASSUME TypeOK, Matching, Placement, NEW p \in Procs, Kernel(p),
         NEW q \in Procs, state'[q] = "PRRECV"
  PROVE  state[q] = "PRRECV" \/ (Sleep(p) /\ q = p)
<1>0. state \in [Procs -> States] /\ Affinity[p] \in Cores
  BY ReadyListsAssumption DEF TypeOK, SchedTypeOK, States
<1>1. CASE Block(p) \/ Sleep(p)
  <2>1. \/ Sleep(p) /\ state' = [state EXCEPT ![p] = "PRRECV"]
        \/ state' = [state EXCEPT ![p] = "PRSEND"]
    BY <1>1, Does
  <2> QED
    BY <1>0, <2>1
<1>2. CASE CallResched(p) \/ Yield(p)
  <2>1. Resched(Affinity[p])
    BY <1>2, Does
  <2> QED
    BY <1>0, <2>1, ReschedStates DEF Same
<1>3. CASE Mark(p) \/ WakeSender(p) \/ Enlist(p)
  BY <1>3, ReadyStates
<1>4. CASE ~(Block(p) \/ Sleep(p) \/ CallResched(p) \/ Yield(p) \/ Mark(p) \/ WakeSender(p) \/ Enlist(p))
  <2>1. UNCHANGED sched
    BY <1>4, Does DEF Kernel
  <2> QED
    BY <2>1 DEF sched
<1> QED
  BY <1>1, <1>2, <1>3, <1>4

(* At most one process touches a slot.                                     *)
LEMMA OnlyOne ==
  ASSUME Guarded, TypeOK, Matching, Holder, Alone, NEW p \in Procs, NEW q \in Procs,
         ctx[p].at \in Touching, ctx[q].at \in Touching, ctx[p].to = ctx[q].to
  PROVE  p = q
<1>0. /\ MatchingAt(p) /\ MatchingAt(q) /\ ctx \in [Procs -> Contexts]
  BY DEF Matching, TypeOK
<1>1. /\ ctx[p].at \notin {"user", "asleep", "release"}
      /\ ctx[q].at \notin {"user", "asleep", "release"}
  BY DEF Touching
<1>2. ctx[p].to \in Procs
  BY <1>0, <1>1, ContextFields DEF MatchingAt, IsSend, Gets
<1>3. CASE ctx[p].to \in HasLock
  BY <1>3 DEF Holder, Holding
<1>4. CASE ctx[p].to \notin HasLock
  <2> DEFINE r == ctx[p].to
  <2>1. Running(p) /\ Running(q)
    BY <1>1, <1>2, <1>4 DEF Alone
  <2>2. Affinity[p] = Affinity[r]
    BY <1>0, <1>1, <1>2, <1>4, ContextFields DEF MatchingAt, IsSend, Gets, Guarded
  <2>3. Affinity[q] = Affinity[r]
    BY <1>0, <1>1, <1>2, <1>4, ContextFields DEF MatchingAt, IsSend, Gets, Guarded
  <2> QED
    BY <2>1, <2>2, <2>3 DEF Running
<1> QED
  BY <1>3, <1>4

(* One sender at a time marks a receiver.                                  *)
LEMMA OneMarks == Guarded /\ TypeOK /\ Matching /\ Holder /\ Alone => MarksAlone
BY OnlyOne DEF MarksAlone, Touching

(* Only the holder releases a lock, and recv keeps it asleep.              *)
LEMMA HolderStep ==
  ASSUME TypeOK, Matching, Holder, [Next]_vars
  PROVE  Holder'
<1>0. /\ ctx \in [Procs -> Contexts] /\ lock \in [Procs -> Procs \cup {Free}] /\ Free \notin Procs
  BY MessagesAssumption DEF TypeOK
<1>a. ASSUME NEW p \in Procs, NEW step, From(p, step), UNCHANGED lock,
             Stays(p) \/ ~Holding(p)', Holding(p)' => Holding(p)
      PROVE  Holder'
  <2> SUFFICES ASSUME NEW q \in Procs, Holding(q)', ctx'[q].to \in HasLock
               PROVE  lock'[ctx'[q].to] = q
    BY DEF Holder
  <2>1. Holding(q) /\ ctx'[q].to = ctx[q].to
    <3>1. CASE q = p
      BY <1>a, <3>1 DEF Stays
    <3>2. CASE q # p
      BY <1>a, <3>2 DEF From, Holding
    <3> QED
      BY <3>1, <3>2
  <2> QED
    BY <1>a, <2>1 DEF Holder
<1>b. ASSUME NEW p \in Procs, NEW step, From(p, step), Holding(p), Unlock(ctx[p].to),
             ~Holding(p)'
      PROVE  Holder'
  <2> SUFFICES ASSUME NEW q \in Procs, Holding(q)', ctx'[q].to \in HasLock
               PROVE  lock'[ctx'[q].to] = q
    BY DEF Holder
  <2>1. q # p /\ ctx'[q] = ctx[q]
    BY <1>b DEF From
  <2>2. Holding(q) /\ ctx[q].to \in HasLock /\ lock[ctx[q].to] = q
    BY <2>1 DEF Holding, Holder
  <2>3. CASE ctx[p].to \in HasLock
    <3>1. lock[ctx[p].to] = p
      BY <1>b, <2>3 DEF Holder
    <3>2. ctx[q].to # ctx[p].to
      BY <2>1, <2>2, <3>1
    <3>3. HasLock \subseteq Procs
      BY MessagesAssumption
    <3> QED
      BY <1>b, <1>0, <2>1, <2>2, <2>3, <3>2, <3>3 DEF Unlock
  <2>4. CASE ctx[p].to \notin HasLock
    BY <1>b, <2>1, <2>2, <2>4 DEF Unlock
  <2> QED
    BY <2>3, <2>4
<1>1. ASSUME NEW p \in Procs, Calling(p) PROVE Holder'
  <2>1. From(p, "user") /\ UNCHANGED lock /\ ctx'[p].at \in {"acquire", "look"}
    BY <1>1, CallingDoes DEF Begun
  <2> QED
    BY <2>1, <1>a DEF Holding, Touching
<1>2. ASSUME NEW p \in Procs, Kernel(p) PROVE Holder'
  <2>m. MatchingAt(p)
    BY DEF Matching
  <2>1. CASE Acquire(p)
    <3>1. /\ From(p, "acquire") /\ ctx[p].to \in Procs
          /\ ctx[p].to \in HasLock => lock[ctx[p].to] = Free
          /\ lock' = IF ctx[p].to \in HasLock THEN [lock EXCEPT ![ctx[p].to] = p] ELSE lock
          /\ ctx'[p].to = ctx[p].to
      BY <2>1, Does DEF To, Stays
    <3>2. PICK r \in Procs : r = ctx[p].to
      BY <3>1
    <3>3. /\ r \in HasLock => lock[r] = Free
          /\ lock' = IF r \in HasLock THEN [lock EXCEPT ![r] = p] ELSE lock
          /\ ctx'[p].to = r
      BY <3>1, <3>2
    <3>4. ASSUME NEW q \in Procs, Holding(q)', ctx'[q].to \in HasLock
          PROVE  lock'[ctx'[q].to] = q
      <4>1. CASE q = p
        BY <3>3, <3>4, <4>1, <1>0
      <4>2. CASE q # p
        <5>1. ctx'[q] = ctx[q]
          BY <3>1, <4>2 DEF From
        <5>2. Holding(q) /\ ctx[q].to \in HasLock
          BY <3>4, <5>1 DEF Holding
        <5>3. lock[ctx[q].to] = q
          BY <5>2 DEF Holder
        <5>4. r \in HasLock => ctx[q].to # r
          BY <3>3, <5>3, <1>0
        <5> QED
          BY <3>3, <5>1, <5>3, <5>4, <1>0
      <4> QED
        BY <4>1, <4>2
    <3> QED
      BY <3>4 DEF Holder
  <2>2. CASE Release(p)
    BY <2>2, <1>b, Does DEF From, Back, Holding, Touching
  <2>3. CASE SendUnlock(p)
    <3>1. ctx[p].op = "send" /\ From(p, "unlock") /\ To(p, "resched") /\ Unlock(ctx[p].to)
      BY <2>3, <2>m, Does DEF From, MatchingAt
    <3> QED
      BY <3>1, <1>b DEF From, To, Stays, Holding, Touching
  <2>4. CASE Look(p) \/ Test(p) \/ Block(p) \/ Enqueue(p) \/ Deposit(p) \/ Flag(p)
    BY ZenonT(40), <2>4, <1>a, Does DEF From, To, Back, Stays, Holding, Touching
  <2>8. CASE Wake(p) \/ Mark(p) \/ Enlist(p) \/ Yield(p)
    BY ZenonT(40), <2>8, <1>a, Does DEF From, To, Stays, Holding, Touching
  <2>5. CASE CallResched(p) \/ Awake(p)
    BY ZenonT(40), <2>5, <1>a, Does DEF From, To, Back, Stays, Holding, Touching
  <2>6. CASE GetTest(p) \/ Sleep(p) \/ TakeMessage(p) \/ Clear(p)
    BY ZenonT(40), <2>6, <1>a, Does DEF From, To, Stays, Holding, Touching
  <2>7. CASE Dequeue(p) \/ Refill(p) \/ WakeSender(p) \/ Reset(p)
    BY ZenonT(40), <2>7, <1>a, Does DEF From, To, Stays, Holding, Touching
  <2> QED
    BY <1>2, <2>1, <2>2, <2>3, <2>4, <2>5, <2>6, <2>7, <2>8 DEF Kernel
<1>3. ASSUME NEW c \in Cores, Preempt(c) PROVE Holder'
  BY <1>3 DEF Preempt, Holder, Holding
<1>4. CASE UNCHANGED vars \/ Stopped \/ \E p \in Procs : Meet(p)
  BY <1>4, Halts DEF Holder, Holding
<1> QED
  BY <1>1, <1>2, <1>3, <1>4 DEF Next

(* Whoever works on a slot without a lock keeps its core.                  *)
LEMMA AloneStep ==
  ASSUME Guarded, TypeOK, Matching, Placement, Alone, [Next]_vars
  PROVE  Alone'
<1>0. ctx \in [Procs -> Contexts]
  BY DEF TypeOK
<1>g. ASSUME NEW q \in Procs, ctx[q].to \in Procs \ HasLock, ctx[q].at # "user"
      PROVE  q \notin Interruptible /\ Affinity[q] = Affinity[ctx[q].to]
  <2>1. MatchingAt(q)
    BY DEF Matching
  <2> QED
    BY <1>0, <1>g, <2>1, ContextFields DEF MatchingAt, IsSend, Gets, Guarded
<1>1. ASSUME NEW p \in Procs, Calling(p) PROVE Alone'
  <2>1. From(p, "user") /\ UNCHANGED sched
    BY <1>1, CallingDoes
  <2> QED
    BY <2>1 DEF From, Alone, Running, sched
<1>2. ASSUME NEW p \in Procs, Kernel(p) PROVE Alone'
  <2> SUFFICES ASSUME NEW q \in Procs, ctx'[q].to \in Procs \ HasLock,
                      ctx'[q].at \notin {"user", "asleep", "release"}
               PROVE  Running(q)'
    BY DEF Alone
  <2>0. Running(p) /\ \A t \in Procs : t # p => ctx'[t] = ctx[t]
    BY <1>2, Does DEF Kernel, From
  <2>1. CASE q = p
    <3>1. ~CallResched(p)
      BY <2>1, Does DEF To
    <3>2. ~Yield(p)
      BY <2>1, Does DEF To
    <3> QED
      BY <1>2, <2>0, <2>1, <3>1, <3>2, RunsOn
  <2>2. CASE q # p
    <3>1. /\ ctx[q].to \in Procs \ HasLock /\ ctx[q].at \notin {"user", "asleep", "release"}
          /\ Running(q)
      BY <2>0, <2>2 DEF Alone
    <3>2. Affinity[q] # Affinity[p]
      BY <2>0, <2>2, <3>1 DEF Running
    <3> QED
      BY <1>2, <3>1, <3>2, RunsOn
  <2> QED
    BY <2>1, <2>2
<1>3. ASSUME NEW c \in Cores, Preempt(c) PROVE Alone'
  <2> SUFFICES ASSUME NEW q \in Procs, ctx'[q].to \in Procs \ HasLock,
                      ctx'[q].at \notin {"user", "asleep", "release"}
               PROVE  Running(q)'
    BY DEF Alone
  <2>1. ctx' = ctx /\ Resched(c) /\ (currpid[c] \in Procs \ Interruptible => ctx[currpid[c]].at = "user")
    BY <1>3 DEF Preempt
  <2>2. Running(q) /\ q \notin Interruptible
    BY <2>1, <1>g DEF Alone
  <2>3. Affinity[q] # c
    BY <2>1, <2>2 DEF Running
  <2> QED
    BY <2>1, <2>2, <2>3, ReschedStates
<1>4. CASE UNCHANGED vars \/ Stopped \/ \E p \in Procs : Meet(p)
  BY <1>4, Halts DEF Alone, Running
<1> QED
  BY <1>1, <1>2, <1>3, <1>4 DEF Next

(* What Kernel does to the flags and the queues of the slots.              *)
LEMMA SlotChanges ==
  ASSUME TypeOK, Matching, NEW p \in Procs, Kernel(p)
  PROVE  /\ \A q \in Procs : q # p => ctx'[q] = ctx[q]
         /\ \A q \in Procs : hasMessage'[q] = hasMessage[q]
              \/ (Flag(p) /\ ctx[p].to = q)
              \/ ((Refill(p) \/ Clear(p) \/ Reset(p)) /\ q = p)
         /\ \A q \in Procs : msgqueue'[q] = msgqueue[q]
              \/ (Enqueue(p) /\ ctx[p].to = q)
              \/ (Dequeue(p) /\ q = p)
<1>0. hasMessage \in [Procs -> BOOLEAN] /\ msgqueue \in [Procs -> Seq(Procs)]
  BY DEF TypeOK
<1>1. CASE Acquire(p) \/ Release(p) \/ Look(p) \/ Test(p) \/ Block(p) \/ SendUnlock(p) \/ CallResched(p)
           \/ Awake(p) \/ Deposit(p) \/ Wake(p) \/ Mark(p) \/ Enlist(p) \/ Yield(p) \/ GetTest(p) \/ Sleep(p) \/ TakeMessage(p) \/ WakeSender(p)
  <2>1. From(p, ctx[p].at) /\ UNCHANGED <<hasMessage, msgqueue>>
    BY ZenonT(40), <1>1, Does DEF From, box
  <2> QED
    BY <2>1 DEF From
<1>2. CASE Enqueue(p)
  <2>0. ctx[p].to \in Procs /\ msgqueue' = [msgqueue EXCEPT ![ctx[p].to] = Append(@, p)]
    BY <1>2, Does
  <2>1. PICK r \in Procs : ctx[p].to = r /\ msgqueue' = [msgqueue EXCEPT ![r] = Append(@, p)]
    BY <2>0
  <2>2. From(p, "enqueue") /\ UNCHANGED hasMessage
    BY <1>2, Does
  <2> QED
    BY <1>0, <1>2, <2>1, <2>2 DEF From
<1>3. CASE Flag(p)
  <2>0. ctx[p].to \in Procs /\ hasMessage' = [hasMessage EXCEPT ![ctx[p].to] = TRUE]
    BY <1>3, Does
  <2>1. PICK r \in Procs : ctx[p].to = r /\ hasMessage' = [hasMessage EXCEPT ![r] = TRUE]
    BY <2>0
  <2>2. From(p, "flag") /\ UNCHANGED msgqueue
    BY <1>3, Does
  <2> QED
    BY <1>0, <1>3, <2>1, <2>2 DEF From
<1>4. CASE Clear(p) \/ Reset(p)
  <2>1. /\ From(p, ctx[p].at) /\ hasMessage' = [hasMessage EXCEPT ![p] = FALSE] /\ UNCHANGED msgqueue
    BY <1>4, Does DEF From
  <2> QED
    BY <1>0, <1>4, <2>1 DEF From
<1>5. CASE Refill(p)
  <2>1. /\ From(p, "refill") /\ hasMessage' = [hasMessage EXCEPT ![p] = TRUE] /\ UNCHANGED msgqueue
    BY <1>5, Does
  <2> QED
    BY <1>0, <1>5, <2>1 DEF From
<1>6. CASE Dequeue(p)
  <2>1. /\ From(p, "dequeue") /\ UNCHANGED hasMessage
        /\ UNCHANGED msgqueue \/ msgqueue' = [msgqueue EXCEPT ![p] = Tail(@)]
    BY <1>6, Does
  <2> QED
    BY <1>0, <1>6, <2>1 DEF From
<1> QED
  BY <1>1, <1>2, <1>3, <1>4, <1>5, <1>6 DEF Kernel

(* The steps of calls keep what the one that touches a slot relies on.     *)
LEMMA SlotsKernel ==
  ASSUME Guarded, TypeOK, Matching, Placement, Holder, Alone, Slots, NEW p \in Procs, Kernel(p)
  PROVE  Slots'
<1>0. /\ hasMessage \in [Procs -> BOOLEAN] /\ msgqueue \in [Procs -> Seq(Procs)]
      /\ ctx \in [Procs -> Contexts]
  BY DEF TypeOK
<1>m. \A q \in Procs : MatchingAt(q)
  BY DEF Matching
<1>s. \A q \in Procs : FullAt(q) /\ EmptyAt(q) /\ DrainAt(q) /\ ToldAt(q) /\ WaitAt(q)
  BY DEF Slots
<1>o. ASSUME NEW q \in Procs, q # p, ctx[p].at \in Touching, ctx[q].at \in Touching,
             ctx[p].to = ctx[q].to
      PROVE  FALSE
  BY <1>o, OnlyOne
<1>t. \A q \in Procs : q # p => ctx'[q] = ctx[q]
  BY SlotChanges
<1>1. ASSUME NEW q \in Procs PROVE FullAt(q)'
  <2>1. CASE q = p
    <3> SUFFICES ASSUME ctx'[p].at \in {"block", "enqueue"} PROVE hasMessage'[ctx'[p].to]
      BY <2>1 DEF FullAt
    <3>1. \/ From(p, "test") /\ hasMessage[ctx[p].to] /\ ctx'[p].to = ctx[p].to /\ UNCHANGED hasMessage
          \/ From(p, "block") /\ ctx'[p].to = ctx[p].to /\ UNCHANGED hasMessage
      BY ZenonT(40), Does DEF Kernel, To, Stays, Back, box
    <3> QED
      BY <3>1, <1>s DEF FullAt, From
  <2>2. CASE q # p
    <3> SUFFICES ASSUME ctx[q].at \in {"block", "enqueue"} PROVE hasMessage'[ctx[q].to]
      BY <1>t, <2>2 DEF FullAt
    <3>1. PICK r \in Procs : r = ctx[q].to
      BY <1>m DEF MatchingAt, IsSend
    <3>2. hasMessage[r]
      BY <1>s, <3>1 DEF FullAt
    <3>3. ~((Clear(p) \/ Reset(p)) /\ r = p)
      <4> SUFFICES ASSUME Clear(p) \/ Reset(p), r = p PROVE FALSE
        OBVIOUS
      <4>1. ctx[p].at \in {"clear", "reset"} /\ ctx[p].to = p
        BY Does DEF From
      <4> QED
        BY <1>o, <2>2, <3>1, <4>1 DEF Touching
    <3>4. hasMessage'[r]
      <4>1. CASE hasMessage'[r] = hasMessage[r]
        BY <3>2, <4>1
      <4>2. CASE hasMessage'[r] # hasMessage[r]
        <5>1. (Flag(p) /\ ctx[p].to = r) \/ (Refill(p) /\ r = p)
          BY <4>2, <3>3, SlotChanges
        <5>2. Flag(p) => hasMessage' = [hasMessage EXCEPT ![ctx[p].to] = TRUE]
          BY Does
        <5>3. Refill(p) => hasMessage' = [hasMessage EXCEPT ![p] = TRUE]
          BY Does
        <5>4. hasMessage' = [hasMessage EXCEPT ![r] = TRUE]
          BY <5>1, <5>2, <5>3
        <5> QED
          BY <5>4, <1>0
      <4> QED
        BY <4>1, <4>2
    <3> QED
      BY <3>1, <3>4
  <2> QED
    BY <2>1, <2>2
<1>2. ASSUME NEW q \in Procs PROVE EmptyAt(q)'
  <2> SUFFICES ASSUME ctx'[q].at = "sleep" PROVE ~hasMessage'[q]
    BY DEF EmptyAt
  <2>1. CASE q = p
    <3>1. From(p, "test") /\ ~hasMessage[p] /\ UNCHANGED hasMessage
      BY <2>1, Does DEF Kernel, To, Stays, Back, box
    <3> QED
      BY <2>1, <3>1
  <2>2. CASE q # p
    <3>1. ctx[q].at = "sleep" /\ ~hasMessage[q] /\ ctx[q].to = q
      BY <1>t, <1>s, <1>m, <2>2 DEF EmptyAt, MatchingAt, Gets
    <3>2. ~(Flag(p) /\ ctx[p].to = q)
      <4> SUFFICES ASSUME Flag(p), ctx[p].to = q PROVE FALSE
        OBVIOUS
      <4>1. ctx[p].at = "flag"
        BY Does DEF From
      <4> QED
        BY <1>o, <2>2, <3>1, <4>1 DEF Touching
    <3> QED
      BY <2>2, <3>1, <3>2, SlotChanges
  <2> QED
    BY <2>1, <2>2
<1>3. ASSUME NEW q \in Procs PROVE DrainAt(q)'
  <2> SUFFICES ASSUME ctx'[q].at = "reset" PROVE msgqueue'[q] = <<>>
    BY DEF DrainAt
  <2>1. CASE q = p
    <3>1. From(p, "dequeue") /\ msgqueue[p] = <<>> /\ UNCHANGED msgqueue
      BY <2>1, Does DEF Kernel, To, Stays, Back, box
    <3> QED
      BY <2>1, <3>1
  <2>2. CASE q # p
    <3>1. ctx[q].at = "reset" /\ msgqueue[q] = <<>> /\ ctx[q].to = q
      BY <1>t, <1>s, <1>m, <2>2 DEF DrainAt, MatchingAt, Gets
    <3>2. ~(Enqueue(p) /\ ctx[p].to = q)
      <4> SUFFICES ASSUME Enqueue(p), ctx[p].to = q PROVE FALSE
        OBVIOUS
      <4>1. ctx[p].at = "enqueue"
        BY Does DEF From
      <4> QED
        BY <1>o, <2>2, <3>1, <4>1 DEF Touching
    <3> QED
      BY <2>2, <3>1, <3>2, SlotChanges
  <2> QED
    BY <2>1, <2>2
<1>4. ASSUME NEW q \in Procs PROVE ToldAt(q)'
  <2> SUFFICES ASSUME state'[q] = "PRRECV", hasMessage'[q]
               PROVE  \E t \in Procs : ctx'[t].at \in {"wake", "mark"} /\ ctx'[t].to = q
    BY DEF ToldAt
  <2>1. CASE Sleep(p) /\ q = p
    <3>1. From(p, "sleep") /\ UNCHANGED box
      BY <2>1, Does
    <3> QED
      BY <2>1, <3>1, <1>s DEF EmptyAt, From, box
  <2>2. CASE ~(Sleep(p) /\ q = p)
    <3>1. state[q] = "PRRECV"
      BY <2>2, ReceiverStays
    <3>2. CASE Flag(p) /\ ctx[p].to = q
      BY <3>2, Does DEF To, Stays
    <3>3. CASE ~(Flag(p) /\ ctx[p].to = q)
      <4>1. ~(Refill(p) /\ q = p)
        <5>1. ctx[q].at \in {"resched", "asleep"}
          BY <3>1 DEF Placement, Blocked
        <5> QED
          BY <5>1, Does DEF From
      <4>2. hasMessage[q]
        <5>1. ~((Clear(p) \/ Reset(p)) /\ q = p)
          <6>1. ctx[q].at \in {"resched", "asleep"}
            BY <3>1 DEF Placement, Blocked
          <6> QED
            BY <6>1, Does DEF From
        <5> QED
          BY <3>3, <4>1, <5>1, SlotChanges
      <4>3. PICK t \in Procs : ctx[t].at \in {"wake", "mark"} /\ ctx[t].to = q
        BY <1>s, <3>1, <4>2 DEF ToldAt
      <4>4. CASE t = p /\ ctx[p].at = "wake"
        <5>1. Wake(p)
          BY <4>4, Does DEF Kernel, From
        <5> QED
          BY <3>1, <4>3, <4>4, <5>1, Does DEF To, Stays
      <4>5. CASE t = p /\ ctx[p].at = "mark"
        <5>1. Mark(p)
          BY <4>5, Does DEF Kernel, From
        <5>2. state'[q] = "PRREADY"
          BY <4>3, <4>5, <5>1, ReadyStates
        <5> QED
          BY <5>2
      <4> QED
        BY <1>t, <4>3, <4>4, <4>5
    <3> QED
      BY <3>2, <3>3
  <2> QED
    BY <2>1, <2>2
<1>5. ASSUME NEW q \in Procs PROVE WaitAt(q)'
  <2> SUFFICES ASSUME q \notin Recvnows, msgqueue'[q] # <<>>
               PROVE  hasMessage'[q] \/ ctx'[q].at \in {"dequeue", "refill"}
    BY DEF WaitAt
  <2>1. CASE q = p
    <3>1. CASE Dequeue(p)
      <4>1. \/ UNCHANGED msgqueue /\ msgqueue[p] = <<>>
            \/ ctx'[p].at = "refill"
        BY <3>1, Does
      <4> QED
        BY <2>1, <4>1
    <3>2. CASE Refill(p)
      <4>1. hasMessage' = [hasMessage EXCEPT ![p] = TRUE]
        BY <3>2, Does
      <4> QED
        BY <2>1, <4>1, <1>0
    <3>3. CASE Clear(p)
      <4>1. ctx[p].op = "recv"
        BY <3>3, <2>1, <1>m, Does DEF Gets, MatchingAt
      <4> QED
        BY <3>3, <4>1, <2>1, Does DEF To
    <3>4. CASE Reset(p)
      <4>1. From(p, "reset") /\ UNCHANGED msgqueue
        BY <3>4, Does
      <4> QED
        BY <2>1, <4>1, <1>s DEF DrainAt, From
    <3>5. CASE Flag(p)
      <4>1. \A r \in Procs : hasMessage[r] => hasMessage'[r]
        <5>1. ctx[p].to \in Procs /\ hasMessage' = [hasMessage EXCEPT ![ctx[p].to] = TRUE]
          BY <3>5, Does
        <5> QED
          BY <5>1, <1>0
      <4>2. ctx[p].at = "flag" /\ UNCHANGED msgqueue
        BY <3>5, Does DEF From
      <4> QED
        BY <2>1, <4>1, <4>2, <1>s DEF WaitAt
    <3>6. CASE Enqueue(p)
      <4>1. From(p, "enqueue") /\ UNCHANGED hasMessage
        BY <3>6, Does
      <4>2. CASE ctx[p].to = p
        BY <2>1, <4>1, <4>2, <1>s DEF FullAt, From
      <4>3. CASE ctx[p].to # p
        <5>1. msgqueue'[p] = msgqueue[p]
          <6>1. ~Dequeue(p)
            BY <4>1 DEF From, Dequeue, At
          <6> QED
            BY <4>3, <6>1, SlotChanges
        <5> QED
          BY <2>1, <4>1, <5>1, <1>s DEF WaitAt, From
      <4> QED
        BY <4>2, <4>3
    <3>7. CASE ~(Dequeue(p) \/ Refill(p) \/ Clear(p) \/ Reset(p) \/ Flag(p) \/ Enqueue(p))
      <4>1. hasMessage'[p] = hasMessage[p] /\ msgqueue'[p] = msgqueue[p]
        BY <3>7, SlotChanges
      <4>2. ctx[p].at \notin {"dequeue", "refill"}
        BY <3>7, Does DEF Kernel, From
      <4> QED
        BY <2>1, <4>1, <4>2, <1>s DEF WaitAt
    <3> QED
      BY <3>1, <3>2, <3>3, <3>4, <3>5, <3>6, <3>7
  <2>2. CASE q # p
    <3>1. ctx'[q] = ctx[q]
      BY <1>t, <2>2
    <3>2. CASE Enqueue(p) /\ ctx[p].to = q
      <4>1. From(p, "enqueue") /\ UNCHANGED hasMessage
        BY <3>2, Does
      <4> QED
        BY <3>2, <4>1, <1>s DEF FullAt, From
    <3>3. CASE Flag(p) /\ ctx[p].to = q
      <4>1. hasMessage' = [hasMessage EXCEPT ![q] = TRUE]
        BY <3>3, Does
      <4> QED
        BY <4>1, <1>0
    <3>4. CASE ~(Enqueue(p) /\ ctx[p].to = q) /\ ~(Flag(p) /\ ctx[p].to = q)
      <4>1. hasMessage'[q] = hasMessage[q] /\ msgqueue'[q] = msgqueue[q]
        BY <2>2, <3>4, SlotChanges
      <4> QED
        BY <3>1, <4>1, <1>s DEF WaitAt
    <3> QED
      BY <3>2, <3>3, <3>4
  <2> QED
    BY <2>1, <2>2
<1> QED
  BY <1>1, <1>2, <1>3, <1>4, <1>5 DEF Slots

(* So does every step.                                                     *)
LEMMA SlotsStep ==
  ASSUME Guarded, TypeOK, Matching, Placement, Holder, Alone, Slots, [Next]_vars
  PROVE  Slots'
<1>a. ASSUME UNCHANGED box,
             \A q \in Procs : ctx'[q] = ctx[q]
                              \/ (ctx[q].at = "user" /\ ctx'[q].at \in {"acquire", "look"}),
             \A q \in Procs : state'[q] = "PRRECV" => state[q] = "PRRECV"
      PROVE  Slots'
  <2> SUFFICES ASSUME NEW q \in Procs
               PROVE  FullAt(q)' /\ EmptyAt(q)' /\ DrainAt(q)' /\ ToldAt(q)' /\ WaitAt(q)'
    BY DEF Slots
  <2>1. FullAt(q) /\ EmptyAt(q) /\ DrainAt(q) /\ ToldAt(q) /\ WaitAt(q)
    BY DEF Slots
  <2>2. FullAt(q)' /\ EmptyAt(q)' /\ DrainAt(q)' /\ WaitAt(q)'
    BY <1>a, <2>1 DEF FullAt, EmptyAt, DrainAt, WaitAt, box
  <2>3. ToldAt(q)'
    BY <1>a, <2>1 DEF ToldAt, box
  <2> QED
    BY <2>2, <2>3
<1>1. ASSUME NEW p \in Procs, Calling(p) PROVE Slots'
  <2>1. /\ From(p, "user") /\ UNCHANGED <<box, sched>> /\ ctx'[p].at \in {"acquire", "look"}
    BY <1>1, CallingDoes DEF Begun
  <2> QED
    BY <2>1, <1>a DEF From, sched
<1>2. ASSUME NEW p \in Procs, Kernel(p) PROVE Slots'
  BY <1>2, SlotsKernel
<1>3. ASSUME NEW c \in Cores, Preempt(c) PROVE Slots'
  <2>1. UNCHANGED <<box, ctx>> /\ Resched(c)
    BY <1>3 DEF Preempt
  <2>2. \A q \in Procs : state'[q] = "PRRECV" <=> state[q] = "PRRECV"
    BY <2>1, ReschedStates DEF Same
  <2> QED
    BY <2>1, <2>2, <1>a
<1>4. CASE UNCHANGED vars \/ Stopped \/ \E p \in Procs : Meet(p)
  BY <1>4, <1>a, Halts
<1> QED
  BY <1>1, <1>2, <1>3, <1>4 DEF Next

(* The initial state.                                                      *)
LEMMA GuardStart == Init => GuardInv
<1> SUFFICES ASSUME Init PROVE GuardInv
  OBVIOUS
<1>1. PlaceInv
  BY PlaceStart
<1>2. \A p \in Procs : /\ ctx[p].at = "user" /\ ctx[p].to = EMPTY
                       /\ state[p] = "PRREADY" /\ ~hasMessage[p] /\ msgqueue[p] = <<>>
  BY DEF Init, SchedInit, User
<1>3. Holder /\ Alone
  BY <1>2 DEF Holder, Holding, Touching, Alone
<1>4. Slots
  BY <1>2 DEF Slots, FullAt, EmptyAt, DrainAt, ToldAt, WaitAt
<1> QED
  BY <1>1, <1>3, <1>4 DEF GuardInv

(* Every step keeps the slots guarded.                                     *)
LEMMA GuardStep ==
  ASSUME Guarded, GuardInv, [Next]_vars
  PROVE  GuardInv'
<1>1. TypeOK /\ Matching /\ Placement
  BY DEF GuardInv, PlaceInv
<1>2. PlaceInv'
  BY <1>1, OneMarks, PlaceStep DEF GuardInv
<1> QED
  BY <1>1, <1>2, HolderStep, AloneStep, SlotsStep DEF GuardInv

(* The slots are guarded by their lock, or by the masked interrupts of     *)
(* one core.                                                               *)
THEOREM GuardInvariance == ASSUME Guarded PROVE Spec => []GuardInv
<1>1. Init => GuardInv
  BY GuardStart
<1>2. GuardInv /\ [Next]_vars => GuardInv'
  BY GuardStep
<1> QED
  BY <1>1, <1>2, PTL DEF Spec

(* No call takes a process id out of thrtab, and a message that is         *)
(* received is one that was sent.                                          *)
THEOREM TypeCorrect == ASSUME Guarded PROVE Spec => []TypeOK
<1>1. GuardInv => TypeOK
  BY DEF GuardInv, PlaceInv
<1> QED
  BY <1>1, GuardInvariance, PTL

-----------------------------------------------------------------------------
(* Nobody is lost *)

(* A sender keeps its core until it is in the queue (send.c:49-53).        *)
EnqueueRuns == \A p \in Procs : ctx[p].at = "enqueue" => Running(p)

(* Masked senders do.                                                      *)
LEMMA EnqueueRunsStep ==
  ASSUME MaskedSenders, TypeOK, Matching, Placement, EnqueueRuns, [Next]_vars
  PROVE  EnqueueRuns'
<1>1. ASSUME NEW p \in Procs, Calling(p) PROVE EnqueueRuns'
  <2>1. From(p, "user") /\ UNCHANGED sched /\ ctx'[p].at \in {"acquire", "look"}
    BY <1>1, CallingDoes DEF Begun
  <2> QED
    BY <2>1 DEF From, EnqueueRuns, Running, sched
<1>2. ASSUME NEW p \in Procs, Kernel(p) PROVE EnqueueRuns'
  <2> SUFFICES ASSUME NEW q \in Procs, ctx'[q].at = "enqueue" PROVE Running(q)'
    BY DEF EnqueueRuns
  <2>0. Running(p) /\ \A t \in Procs : t # p => ctx'[t] = ctx[t]
    BY <1>2, Does DEF Kernel, From
  <2>1. CASE q = p
    <3>1. ~CallResched(p) /\ ~Yield(p)
      BY <2>1, Does DEF To
    <3> QED
      BY <1>2, <2>0, <2>1, <3>1, RunsOn
  <2>2. CASE q # p
    <3>1. Running(q)
      BY <2>0, <2>2 DEF EnqueueRuns
    <3>2. Affinity[q] # Affinity[p]
      BY <2>0, <2>2, <3>1 DEF Running
    <3> QED
      BY <1>2, <3>1, <3>2, RunsOn
  <2> QED
    BY <2>1, <2>2
<1>3. ASSUME NEW c \in Cores, Preempt(c) PROVE EnqueueRuns'
  <2> SUFFICES ASSUME NEW q \in Procs, ctx'[q].at = "enqueue" PROVE Running(q)'
    BY DEF EnqueueRuns
  <2>1. ctx' = ctx /\ Resched(c) /\ (currpid[c] \in Procs \ Interruptible => ctx[currpid[c]].at = "user")
    BY <1>3 DEF Preempt
  <2>2. q \notin Interruptible
    BY <2>1 DEF Matching, MatchingAt, IsSend, MaskedSenders
  <2>3. Running(q) /\ Affinity[q] # c
    BY <2>1, <2>2 DEF EnqueueRuns, Running
  <2> QED
    BY <2>1, <2>3, ReschedStates
<1>4. CASE UNCHANGED vars \/ Stopped \/ \E p \in Procs : Meet(p)
  BY <1>4, Halts DEF EnqueueRuns, Running
<1> QED
  BY <1>1, <1>2, <1>3, <1>4 DEF Next

(* The places as OnePlace counts them.                                     *)
LEMMA PlacesCount == PlaceInv /\ EnqueueRuns => OnePlace
<1> SUFFICES ASSUME PlaceInv, EnqueueRuns, NEW p \in Procs
             PROVE  Cardinality(Spots(p, readylist)) + Cardinality(Spots(p, msgqueue))
                    + Cardinality({r \in Procs : p \in Hands(r)})
                    = IF state[p] \in {"PRCURR", "PRRECV"} \/ (Running(p) /\ ctx[p].at = "enqueue")
                      THEN 0 ELSE 1
  BY DEF OnePlace
<1> DEFINE Holders == {r \in Procs : p \in Hands(r)}
<1>1. Cardinality(Spots(p, msgqueue)) = IF In(p, msgqueue) THEN 1 ELSE 0
  BY SpotsCount DEF PlaceInv, Placement, Queued
<1>2. Cardinality(Spots(p, readylist)) = IF In(p, readylist) THEN 1 ELSE 0
  BY SpotsCount DEF PlaceInv, Placement, SchedOK
<1>3. \A r \in Procs : p \in Hands(r) <=> Holds(r, p) \/ Wakes(r, p)
  BY DEF Hands, Holds, Wakes
<1>4. /\ In(p, readylist) \/ p \in Marked <=> state[p] = "PRREADY"
      /\ ~(In(p, readylist) /\ p \in Marked)
      /\ ~(In(p, msgqueue) /\ Held(p))
      /\ In(p, msgqueue) \/ Held(p) <=> (state[p] = "PRSEND" /\ ctx[p].at # "enqueue")
      /\ ctx[p].at = "enqueue" => state[p] = "PRSEND" /\ Running(p)
      /\ state[p] \in States
  BY DEF PlaceInv, Placement, Listing, Queued, Blocked, SchedOK, SchedTypeOK, EnqueueRuns
<1>5. Cardinality(Holders) = IF Held(p) \/ p \in Marked THEN 1 ELSE 0
  <2>1. CASE Held(p) \/ p \in Marked
    <3>1. PICK q \in Procs : Holds(q, p) \/ Wakes(q, p)
      BY <2>1 DEF Held, Marked
    <3>2. \A r \in Procs : Holds(r, p) \/ Wakes(r, p) => r = q
      BY <3>1, <1>4 DEF PlaceInv, Placement, Queued, Once, Held, Marked
    <3>3. Holders = {q}
      BY <3>1, <3>2, <1>3
    <3> QED
      BY <2>1, <3>3, FS_Singleton
  <2>2. CASE ~(Held(p) \/ p \in Marked)
    <3>1. Holders = {}
      BY <2>2, <1>3 DEF Held, Marked
    <3> QED
      BY <2>2, <3>1, FS_EmptySet
  <2> QED
    BY <2>1, <2>2
<1> HIDE DEF Holders
<1>6. Held(p) => p \notin Marked
  BY <1>4
<1>7. Cardinality(Spots(p, readylist)) + Cardinality(Spots(p, msgqueue)) + Cardinality(Holders)
      = IF state[p] \in {"PRCURR", "PRRECV"} \/ (Running(p) /\ ctx[p].at = "enqueue") THEN 0 ELSE 1
  BY <1>1, <1>2, <1>4, <1>5, <1>6 DEF States
<1> QED
  BY <1>7 DEF Holders

(* Until two cores meet in one ready list, and if those that send keep the *)
(* interrupts masked: a ready process is on one ready list, a blocked      *)
(* sender in one queue, or either is in the hands of the one process that  *)
(* wakes it (send.c, recv.c, ready.c).                                     *)
THEOREM Conserved == ASSUME Guarded, MaskedSenders PROVE Spec => []OnePlace
<1>1. Init => GuardInv /\ EnqueueRuns
  BY GuardStart DEF Init, User, EnqueueRuns
<1>2. GuardInv /\ EnqueueRuns /\ [Next]_vars => GuardInv' /\ EnqueueRuns'
  BY GuardStep, EnqueueRunsStep DEF GuardInv, PlaceInv
<1>3. GuardInv /\ EnqueueRuns => OnePlace
  BY PlacesCount DEF GuardInv
<1> QED
  BY <1>1, <1>2, <1>3, PTL DEF Spec

-----------------------------------------------------------------------------
(* Nobody waits in vain *)

(* A receiver sleeps only while its slot is empty, or while the sender     *)
(* that filled it is about to wake it (recv.c, send.c).                    *)
THEOREM NeverSleepsOnMessage == ASSUME Guarded PROVE Spec => []NoSleepWithMessage
<1>1. GuardInv => NoSleepWithMessage
  BY DEF GuardInv, Slots, ToldAt, NoSleepWithMessage
<1> QED
  BY <1>1, GuardInvariance, PTL

(* Senders wait only for a slot that is full, or on which the receiver is  *)
(* at work (send.c, recv.c).                                               *)
THEOREM SendersWait == ASSUME Guarded PROVE Spec => []SendersWaitForFullSlot
<1>1. GuardInv => SendersWaitForFullSlot
  BY DEF GuardInv, Slots, WaitAt, SendersWaitForFullSlot
<1> QED
  BY <1>1, GuardInvariance, PTL

-----------------------------------------------------------------------------
(* What a call knows of the slot *)

(* A sender waits in the queue of the process it sends to.                 *)
Home ==
  \A p, r \in Procs :
    (\E i \in DOMAIN msgqueue[r] : msgqueue[r][i] = p) \/ Holds(r, p) => ctx[p].to = r

(* What a call knows of the slot it works on.                              *)
RoomAt(p) ==
  /\ ctx[p].at \in {"deposit", "flag"} \/ (ctx[p].at = "acquire" /\ ctx[p].op = "sendnow")
       => ~hasMessage[ctx[p].to]
  /\ ctx[p].at \in {"dequeue", "refill", "reset"} => ~hasMessage[p]
MailAt(p) ==
  /\ ctx[p].at = "flag" => msgin[ctx[p].to] = ctx[p].msg
  /\ ctx[p].at \in {"wake", "mark"} => hasMessage[ctx[p].to]
  /\ ctx[p].at \in {"take", "clear"} => hasMessage[p]
  /\ ctx[p].at = "clear" => ctx[p].msg = msgin[p]
  /\ ctx[p].op = "recv" /\ ctx[p].at \in {"resched", "asleep"} /\ state[p] # "PRRECV"
       => hasMessage[p]

(* Messages that are on their way to a mailbox, and those that have been   *)
(* in one.                                                                 *)
Carries(p) == IsSend(p) /\ ctx[p].at \in {"look", "acquire", "test", "block", "enqueue", "deposit", "flag"}
Mailed == got \cup {msgin[r] : r \in {q \in Procs : hasMessage[q]}}
              \cup {msgout[p] : p \in {q \in Procs : Pends(q)}}
Fresh ==
  /\ Mailed \subseteq 1 .. sent
  /\ \A p \in Procs : Carries(p) => ctx[p].msg \notin Mailed
  /\ \A p, q \in Procs : Carries(p) /\ Carries(q) /\ ctx[p].msg = ctx[q].msg => p = q

Rooms == \A p \in Procs : RoomAt(p)
Mails == \A p \in Procs : MailAt(p)
MailInv == GuardInv /\ Home /\ Rooms /\ Mails /\ Fresh

(* The senders in the queues are those that wait in the queue they sent to.*)
LEMMA HomeStep ==
  ASSUME TypeOK, Matching, Placement, Home, [Next]_vars
  PROVE  Home'
<1>0. /\ ctx \in [Procs -> Contexts] /\ Family(msgqueue, Procs) /\ Apart(msgqueue)
  BY DEF TypeOK, Placement, Queued, Family
<1>q. ASSUME NEW q \in Procs, NEW r \in Procs, (\E i \in DOMAIN msgqueue[r] : msgqueue[r][i] = q) \/ Holds(r, q)
      PROVE  /\ state[q] = "PRSEND" /\ ctx[q].op = "send" /\ ctx[q].at \in {"unlock", "resched", "asleep"}
             /\ Running(q) => ctx[q].at # "asleep"
  <2>1. In(q, msgqueue) \/ Held(q)
    BY <1>q, <1>0 DEF In, Held, Family
  <2> QED
    BY <2>1 DEF Placement, Queued, Blocked
<1>a. ASSUME \A q \in Procs : \/ ctx'[q] = ctx[q]
                              \/ ctx'[q].to = ctx[q].to
                              \/ Running(q) /\ ctx[q].at \in {"user", "look", "release"}
                              \/ Running(q) /\ ctx[q].at = "asleep",
             \A q, r \in Procs :
               (\E i \in DOMAIN msgqueue'[r] : msgqueue'[r][i] = q) \/ Holds(r, q)'
               => (\E i \in DOMAIN msgqueue[r] : msgqueue[r][i] = q) \/ Holds(r, q)
                  \/ (ctx[q].at = "enqueue" /\ ctx[q].to = r)
      PROVE  Home'
  <2> SUFFICES ASSUME NEW q \in Procs, NEW r \in Procs,
                      (\E i \in DOMAIN msgqueue'[r] : msgqueue'[r][i] = q) \/ Holds(r, q)'
               PROVE  ctx'[q].to = r
    BY DEF Home
  <2>1. CASE ctx[q].at = "enqueue" /\ ctx[q].to = r
    BY <1>a, <2>1
  <2>2. CASE (\E i \in DOMAIN msgqueue[r] : msgqueue[r][i] = q) \/ Holds(r, q)
    <3>1. ctx[q].to = r
      BY <2>2 DEF Home
    <3>2. ctx[q].at \in {"unlock", "resched", "asleep"} /\ (Running(q) => ctx[q].at # "asleep")
      BY <2>2, <1>q
    <3> QED
      BY <1>a, <3>1, <3>2
  <2> QED
    BY <1>a, <2>1, <2>2
<1>1. ASSUME NEW p \in Procs, Calling(p) PROVE Home'
  <2>1. From(p, "user") /\ UNCHANGED msgqueue /\ ctx'[p].at \in {"acquire", "look"}
    BY <1>1, CallingDoes DEF Begun, box
  <2>2. \A q, r \in Procs : Holds(r, q)' => Holds(r, q)
    BY <2>1 DEF From, Holds
  <2> QED
    BY <2>1, <2>2, <1>a DEF From
<1>2. ASSUME NEW p \in Procs, Kernel(p) PROVE Home'
  <2>1. \A q \in Procs : \/ ctx'[q] = ctx[q]
                         \/ ctx'[q].to = ctx[q].to
                         \/ Running(q) /\ ctx[q].at \in {"user", "look", "release"}
                         \/ Running(q) /\ ctx[q].at = "asleep"
    BY ZenonT(40), <1>2, Does DEF Kernel, From, To, Stays
  <2>2. CASE Enqueue(p)
    <3>0. /\ From(p, "enqueue") /\ To(p, "unlock") /\ ctx[p].to \in Procs
          /\ msgqueue' = [msgqueue EXCEPT ![ctx[p].to] = Append(@, p)]
      BY <2>2, Does
    <3>1. PICK t \in Procs : t = ctx[p].to
      BY <3>0
    <3>2. msgqueue' = [msgqueue EXCEPT ![t] = Append(@, p)]
      BY <3>0, <3>1
    <3>3. \A q, r \in Procs : Holds(r, q)' => Holds(r, q)
      BY <3>0 DEF From, To, Holds
    <3>4. ASSUME NEW q \in Procs, NEW r \in Procs, NEW i \in DOMAIN msgqueue'[r], msgqueue'[r][i] = q
          PROVE  (\E j \in DOMAIN msgqueue[r] : msgqueue[r][j] = q) \/ (q = p /\ r = t)
      <4>1. CASE r # t
        BY <3>2, <3>4, <4>1, <1>0 DEF Family
      <4>2. CASE r = t
        <5>1. msgqueue[t] \in Seq(Procs) /\ msgqueue'[t] = Append(msgqueue[t], p)
          BY <3>2, <1>0 DEF Family
        <5> QED
          BY <3>4, <4>2, <5>1
      <4> QED
        BY <4>1, <4>2
    <3> QED
      BY <2>1, <3>0, <3>1, <3>3, <3>4, <1>a DEF From
  <2>3. CASE Dequeue(p) /\ msgqueue[p] # <<>>
    <3>1. /\ From(p, "dequeue") /\ ctx'[p].at = "refill" /\ ctx'[p].pid = Head(msgqueue[p])
          /\ msgqueue' = [msgqueue EXCEPT ![p] = Tail(@)]
      BY <2>3, Does
    <3>2. msgqueue[p] \in Seq(Procs) /\ msgqueue'[p] = Tail(msgqueue[p])
          /\ \A r \in Procs : r # p => msgqueue'[r] = msgqueue[r]
      BY <3>1, <1>0 DEF Family
    <3>3. Head(msgqueue[p]) = msgqueue[p][1] /\ 1 \in DOMAIN msgqueue[p]
      BY <2>3, <3>2
    <3>4. \A q, r \in Procs : Holds(r, q)' => Holds(r, q) \/ (r = p /\ q = msgqueue[p][1])
      BY <3>1, <3>3 DEF From, Holds
    <3>5. ASSUME NEW q \in Procs, NEW r \in Procs, NEW i \in DOMAIN msgqueue'[r], msgqueue'[r][i] = q
          PROVE  \E j \in DOMAIN msgqueue[r] : msgqueue[r][j] = q
      <4>1. CASE r # p
        BY <3>2, <3>5, <4>1
      <4>2. CASE r = p
        <5>0. /\ Len(msgqueue[p]) \in Nat /\ DOMAIN msgqueue[p] = 1 .. Len(msgqueue[p])
              /\ DOMAIN Tail(msgqueue[p]) = 1 .. Len(msgqueue[p]) - 1
              /\ \A j \in 1 .. Len(msgqueue[p]) - 1 : Tail(msgqueue[p])[j] = msgqueue[p][j + 1]
          BY <2>3, <3>2
        <5>1. i + 1 \in DOMAIN msgqueue[p] /\ Tail(msgqueue[p])[i] = msgqueue[p][i + 1]
          <6> DEFINE n == Len(msgqueue[p])
          <6>1. n \in Nat /\ i \in 1 .. n - 1 /\ DOMAIN msgqueue[p] = 1 .. n
            BY <5>0, <3>2, <3>5, <4>2
          <6>2. \A j \in 1 .. n - 1 : Tail(msgqueue[p])[j] = msgqueue[p][j + 1]
            BY <5>0
          <6> HIDE DEF n
          <6>3. i + 1 \in 1 .. n
            BY <6>1
          <6> QED
            BY <6>1, <6>2, <6>3
        <5> QED
          BY <3>2, <3>5, <4>2, <5>1
      <4> QED
        BY <4>1, <4>2
    <3> QED
      BY <2>1, <3>3, <3>4, <3>5, <1>a
  <2>4. CASE ~Enqueue(p) /\ ~(Dequeue(p) /\ msgqueue[p] # <<>>)
    <3>1. UNCHANGED msgqueue
      BY <1>2, <2>4, Does DEF Kernel, box
    <3>2. \A q, r \in Procs : Holds(r, q)' => Holds(r, q)
      <4>1. CASE Refill(p)
        <5>1. /\ \A q \in Procs : q # p => ctx'[q] = ctx[q]
              /\ ctx'[p].pid = ctx[p].pid /\ ctx[p].at = "refill"
          BY <4>1, Does DEF From, To
        <5> QED
          BY <5>1 DEF Holds
      <4>2. CASE ~Refill(p)
        <5>1. /\ \A q \in Procs : q # p => ctx'[q] = ctx[q]
              /\ ctx'[p].at \notin {"refill", "wakesender"}
          BY ZenonT(40), <1>2, <2>4, <4>2, Does DEF Kernel, From, To, Back
        <5> QED
          BY <5>1 DEF Holds
      <4> QED
        BY <4>1, <4>2
    <3> QED
      BY <2>1, <3>1, <3>2, <1>a
  <2> QED
    BY <2>2, <2>3, <2>4
<1>3. ASSUME NEW c \in Cores, Preempt(c) PROVE Home'
  BY <1>3 DEF Preempt, Home, Holds, box
<1>4. CASE UNCHANGED vars \/ Stopped \/ \E p \in Procs : Meet(p)
  BY <1>4, Halts DEF Home, Holds, box
<1> QED
  BY <1>1, <1>2, <1>3, <1>4 DEF Next

(* Who writes into a slot.                                                 *)
LEMMA MsginChanges ==
  ASSUME TypeOK, Matching, NEW p \in Procs, Kernel(p)
  PROVE  \A q \in Procs : msgin'[q] = msgin[q] \/ (Deposit(p) /\ ctx[p].to = q) \/ (Refill(p) /\ q = p)
<1>0. msgin \in [Procs -> Messages \cup {NULL}]
  BY DEF TypeOK
<1>1. CASE Deposit(p)
  <2>0. ctx[p].to \in Procs /\ msgin' = [msgin EXCEPT ![ctx[p].to] = ctx[p].msg]
    BY <1>1, Does
  <2> QED
    BY <1>0, <1>1, <2>0
<1>2. CASE Refill(p)
  <2>0. msgin' = [msgin EXCEPT ![p] = msgout[ctx[p].pid]]
    BY <1>2, Does
  <2> QED
    BY <1>0, <1>2, <2>0
<1>3. CASE ~Deposit(p) /\ ~Refill(p)
  <2>1. UNCHANGED msgin
    BY <1>3, Does DEF Kernel, box
  <2> QED
    BY <2>1
<1> QED
  BY <1>1, <1>2, <1>3

(* What sendnow saw before it had the lock still holds.                    *)
LEMMA SendnowAlone ==
  ASSUME Guarded, Single, TypeOK, Matching, Placement, Alone, Home,
         NEW p \in Procs, NEW q \in Procs, q # p,
         ctx[q].at = "acquire", ctx[q].op = "sendnow",
         \/ ctx[p].at = "flag" /\ ctx[p].to = ctx[q].to
         \/ ctx[p].at = "refill" /\ p = ctx[q].to
  PROVE  FALSE
<1>0. MatchingAt(p) /\ MatchingAt(q) /\ ctx \in [Procs -> Contexts]
  BY DEF Matching, TypeOK
<1>1. PICK r \in Procs : r = ctx[q].to
  BY <1>0 DEF MatchingAt, IsSend
<1>2. ctx[p].to = r /\ <<q, r>> \in Sendnows
  BY <1>0, <1>1 DEF MatchingAt, Gets
<1>3. CASE r \in HasLock
  <2>1. CASE ctx[p].at = "flag"
    BY <1>0, <1>2, <1>3, <2>1 DEF MatchingAt, IsSend, Single
  <2>2. CASE ctx[p].at = "refill" /\ p = r
    <3>1. PICK h \in Procs : h = ctx[p].pid
      BY <1>0, <2>2 DEF MatchingAt
    <3>2. Holds(p, h)
      BY <2>2, <3>1 DEF Holds
    <3>3. ctx[h].to = r /\ state[h] = "PRSEND"
      BY <2>2, <3>2 DEF Home, Placement, Queued, Held
    <3>4. ctx[h].op = "send" /\ MatchingAt(h)
      BY <3>3 DEF Placement, Blocked, Matching
    <3>5. <<h, r>> \in Sends
      BY <3>3, <3>4 DEF MatchingAt
    <3> QED
      BY <1>2, <1>3, <3>4, <3>5 DEF Single
  <2> QED
    BY <1>1, <1>2, <2>1, <2>2
<1>4. CASE r \notin HasLock
  <2>1. Running(p) /\ Running(q)
    BY <1>1, <1>2, <1>4 DEF Alone
  <2>2. Affinity[q] = Affinity[r]
    BY <1>2, <1>4 DEF Guarded
  <2>3. Affinity[p] = Affinity[r]
    BY <1>0, <1>1, <1>2, <1>4 DEF Guarded, MatchingAt, IsSend
  <2> QED
    BY <2>1, <2>2, <2>3 DEF Running
<1> QED
  BY <1>3, <1>4

(* The steps of calls keep the emptiness of a slot that a call has seen    *)
(* empty.                                                                  *)
LEMMA RoomsKernel ==
  ASSUME Guarded, Single, TypeOK, Matching, Placement, Holder, Alone, Home, Rooms,
         NEW p \in Procs, Kernel(p)
  PROVE  Rooms'
<1>0. /\ hasMessage \in [Procs -> BOOLEAN] /\ ctx \in [Procs -> Contexts]
  BY DEF TypeOK
<1>m. \A q \in Procs : MatchingAt(q)
  BY DEF Matching
<1>o. ASSUME NEW q \in Procs, q # p, ctx[p].at \in Touching, ctx[q].at \in Touching,
             ctx[p].to = ctx[q].to
      PROVE  FALSE
  BY <1>o, OnlyOne
<1>t. \A q \in Procs : q # p => ctx'[q] = ctx[q]
  BY SlotChanges
<1> SUFFICES ASSUME NEW q \in Procs PROVE RoomAt(q)'
  BY DEF Rooms
<1>r. RoomAt(q)
  BY DEF Rooms
<1>1. CASE q = p
  <2>1. ASSUME ctx'[p].at \in {"deposit", "flag"} \/ (ctx'[p].at = "acquire" /\ ctx'[p].op = "sendnow")
        PROVE  ~hasMessage'[ctx'[p].to]
    <3>1. /\ UNCHANGED hasMessage /\ ctx'[p].to = ctx[p].to
          /\ \/ From(p, "look") /\ ~hasMessage[ctx[p].to]
             \/ From(p, "test") /\ ~hasMessage[ctx[p].to]
             \/ From(p, "acquire") /\ ctx[p].op = "sendnow"
             \/ From(p, "deposit")
      BY ZenonT(40), <2>1, Does DEF Kernel, To, Stays, Back, box
    <3> QED
      BY <3>1, <1>1, <1>r DEF RoomAt, From
  <2>2. ASSUME ctx'[p].at \in {"dequeue", "refill", "reset"} PROVE ~hasMessage'[p]
    <3>1. \/ hasMessage' = [hasMessage EXCEPT ![p] = FALSE]
          \/ From(p, "dequeue") /\ UNCHANGED hasMessage
      BY ZenonT(40), <2>2, Does DEF Kernel, To, Stays, Back, box
    <3> QED
      BY <3>1, <1>0, <1>1, <1>r DEF RoomAt, From
  <2> QED
    BY <1>1, <2>1, <2>2 DEF RoomAt
<1>2. CASE q # p
  <2>0. ctx'[q] = ctx[q]
    BY <1>t, <1>2
  <2>1. ASSUME ctx[q].at \in {"deposit", "flag"} \/ (ctx[q].at = "acquire" /\ ctx[q].op = "sendnow"),
               hasMessage'[ctx[q].to]
        PROVE  FALSE
    <3>1. PICK r \in Procs : r = ctx[q].to
      BY <1>m, <2>1 DEF MatchingAt, IsSend
    <3>2. ~hasMessage[r]
      BY <1>r, <2>1, <3>1 DEF RoomAt
    <3>3. (Flag(p) /\ ctx[p].to = r) \/ (Refill(p) /\ r = p)
      <4>1. ~((Clear(p) \/ Reset(p)) /\ r = p)
        <5>1. ASSUME Clear(p) \/ Reset(p), r = p PROVE hasMessage' = [hasMessage EXCEPT ![r] = FALSE]
          BY <5>1, Does
        <5> QED
          BY <5>1, <2>1, <3>1, <1>0
      <4> QED
        BY <2>1, <3>1, <3>2, <4>1, SlotChanges
    <3>4. \/ ctx[p].at = "flag" /\ ctx[p].to = r
          \/ ctx[p].at = "refill" /\ ctx[p].to = r /\ p = r
      BY <3>3, Does DEF From
    <3>5. CASE ctx[q].at \in {"deposit", "flag"}
      BY <1>o, <1>2, <3>1, <3>4, <3>5 DEF Touching
    <3>6. CASE ctx[q].at = "acquire" /\ ctx[q].op = "sendnow"
      BY <1>2, <3>1, <3>4, <3>6, SendnowAlone
    <3> QED
      BY <2>1, <3>5, <3>6
  <2>2. ASSUME ctx[q].at \in {"dequeue", "refill", "reset"}, hasMessage'[q] PROVE FALSE
    <3>1. ~hasMessage[q] /\ ctx[q].to = q
      BY <1>r, <1>m, <2>2 DEF RoomAt, MatchingAt, Gets
    <3>2. Flag(p) /\ ctx[p].to = q
      BY <1>2, <2>2, <3>1, SlotChanges
    <3>3. ctx[p].at = "flag"
      BY <3>2, Does DEF From
    <3> QED
      BY <1>o, <1>2, <2>2, <3>1, <3>2, <3>3 DEF Touching
  <2> QED
    BY <2>0, <2>1, <2>2 DEF RoomAt
<1> QED
  BY <1>1, <1>2

(* They keep the message of a slot that a call has seen full.              *)
LEMMA MailsKernel ==
  ASSUME Guarded, TypeOK, Matching, Placement, Holder, Alone, Mails,
         NEW p \in Procs, Kernel(p)
  PROVE  Mails'
<1>0. /\ hasMessage \in [Procs -> BOOLEAN] /\ ctx \in [Procs -> Contexts]
      /\ msgin \in [Procs -> Messages \cup {NULL}]
  BY DEF TypeOK
<1>m. \A q \in Procs : MatchingAt(q)
  BY DEF Matching
<1>o. ASSUME NEW q \in Procs, q # p, ctx[p].at \in Touching, ctx[q].at \in Touching,
             ctx[p].to = ctx[q].to
      PROVE  FALSE
  BY <1>o, OnlyOne
<1>t. \A q \in Procs : q # p => ctx'[q] = ctx[q]
  BY SlotChanges
<1>h. ASSUME NEW r \in Procs, hasMessage[r], ~hasMessage'[r]
      PROVE  (Clear(p) \/ Reset(p)) /\ r = p
  <2>1. ASSUME Flag(p), ctx[p].to = r PROVE hasMessage' = [hasMessage EXCEPT ![r] = TRUE]
    BY <2>1, Does
  <2>2. ASSUME Refill(p), r = p PROVE hasMessage' = [hasMessage EXCEPT ![r] = TRUE]
    BY <2>2, Does
  <2> QED
    BY <1>h, <1>0, <2>1, <2>2, SlotChanges
<1> SUFFICES ASSUME NEW q \in Procs PROVE MailAt(q)'
  BY DEF Mails
<1>r. MailAt(q)
  BY DEF Mails
<1>1. CASE q = p
  <2>1. ctx'[p].at = "flag" => msgin'[ctx'[p].to] = ctx'[p].msg
    <3> SUFFICES ASSUME ctx'[p].at = "flag" PROVE msgin'[ctx'[p].to] = ctx'[p].msg
      OBVIOUS
    <3>1. /\ ctx[p].to \in Procs /\ ctx'[p].to = ctx[p].to /\ ctx'[p].msg = ctx[p].msg
          /\ msgin' = [msgin EXCEPT ![ctx[p].to] = ctx[p].msg]
      BY Does DEF Kernel, To, Stays, Back
    <3> QED
      BY <3>1, <1>0
  <2>2. ctx'[p].at \in {"wake", "mark"} => hasMessage'[ctx'[p].to]
    <3> SUFFICES ASSUME ctx'[p].at \in {"wake", "mark"} PROVE hasMessage'[ctx'[p].to]
      OBVIOUS
    <3>1. /\ ctx[p].to \in Procs /\ ctx'[p].to = ctx[p].to
          /\ \/ hasMessage' = [hasMessage EXCEPT ![ctx[p].to] = TRUE]
             \/ ctx[p].at = "wake" /\ UNCHANGED hasMessage
      BY Does DEF Kernel, From, To, Stays, Back, box
    <3> QED
      BY <3>1, <1>0, <1>1, <1>r DEF MailAt
  <2>3. ctx'[p].at = "take" => hasMessage'[p]
    <3> SUFFICES ASSUME ctx'[p].at = "take" PROVE hasMessage'[p]
      OBVIOUS
    <3>1. /\ UNCHANGED hasMessage
          /\ \/ From(p, "test") /\ hasMessage[p]
             \/ From(p, "asleep") /\ ctx[p].op = "recv"
      BY Does DEF Kernel, To, Stays, Back, box
    <3>2. CASE From(p, "asleep") /\ ctx[p].op = "recv"
      <4>1. state[p] = "PRCURR"
        BY <3>2 DEF From, Placement, Blocked
      <4> QED
        BY <3>1, <3>2, <4>1, <1>1, <1>r DEF MailAt, From
    <3> QED
      BY <3>1, <3>2
  <2>4. ctx'[p].at = "clear" => hasMessage'[p] /\ ctx'[p].msg = msgin'[p]
    <3> SUFFICES ASSUME ctx'[p].at = "clear" PROVE hasMessage'[p] /\ ctx'[p].msg = msgin'[p]
      OBVIOUS
    <3>1. From(p, "take") /\ UNCHANGED box /\ ctx'[p].msg = msgin[p]
      BY Does DEF Kernel, To, Stays, Back
    <3> QED
      BY <3>1, <1>1, <1>r DEF MailAt, From, box
  <2>5. ctx'[p].op = "recv" /\ ctx'[p].at \in {"resched", "asleep"} /\ state'[p] # "PRRECV" => hasMessage'[p]
    <3> SUFFICES ASSUME ctx'[p].op = "recv", ctx'[p].at \in {"resched", "asleep"}, state'[p] # "PRRECV"
                 PROVE hasMessage'[p]
      OBVIOUS
    <3>1. CASE Sleep(p)
      <4>1. state \in [Procs -> States] /\ state' = [state EXCEPT ![p] = "PRRECV"]
        BY <3>1, Does DEF TypeOK, SchedTypeOK, States
      <4> QED
        BY <4>1
    <3>2. CASE ~Sleep(p)
      <4>1. From(p, "resched") /\ UNCHANGED box /\ ctx[p].op = "recv"
        <5>1. ~SendUnlock(p)
          BY <1>m, Does DEF From, To, Stays, MatchingAt
        <5> QED
          BY <3>2, <5>1, Does DEF Kernel, To, Stays, Back
      <4>2. state[p] # "PRRECV"
        BY <4>1, ReceiverSleeps DEF From, Mark, At
      <4> QED
        BY <4>1, <4>2, <1>1, <1>r DEF MailAt, From, box
    <3> QED
      BY <3>1, <3>2
  <2> QED
    BY <1>1, <2>1, <2>2, <2>3, <2>4, <2>5 DEF MailAt
<1>2. CASE q # p
  <2>0. ctx'[q] = ctx[q]
    BY <1>t, <1>2
  <2>a. \A r \in Procs : /\ Deposit(p) /\ ctx[p].to = r => ctx[p].at = "deposit"
                         /\ (Refill(p) \/ Clear(p) \/ Reset(p)) /\ p = r
                            => ctx[p].at \in {"refill", "clear", "reset"} /\ ctx[p].to = r
    BY Does DEF From
  <2>1. ctx[q].at = "flag" => msgin'[ctx[q].to] = ctx[q].msg
    <3> SUFFICES ASSUME ctx[q].at = "flag" PROVE msgin'[ctx[q].to] = ctx[q].msg
      OBVIOUS
    <3>1. PICK r \in Procs : r = ctx[q].to
      BY <1>m DEF MatchingAt, IsSend
    <3>2. msgin'[r] = msgin[r]
      <4> SUFFICES ASSUME msgin'[r] # msgin[r] PROVE FALSE
        OBVIOUS
      <4>1. ctx[p].at \in {"deposit", "refill", "clear", "reset"} /\ ctx[p].to = r
        <5>1. (Deposit(p) /\ ctx[p].to = r) \/ (Refill(p) /\ r = p)
          BY MsginChanges
        <5> QED
          BY <5>1, <2>a
      <4> QED
        BY <1>o, <1>2, <3>1, <4>1 DEF Touching
    <3> QED
      BY <3>1, <3>2, <1>r DEF MailAt
  <2>2. ctx[q].at \in {"wake", "mark"} => hasMessage'[ctx[q].to]
    <3> SUFFICES ASSUME ctx[q].at \in {"wake", "mark"}, ~hasMessage'[ctx[q].to] PROVE FALSE
      OBVIOUS
    <3>1. PICK r \in Procs : r = ctx[q].to
      BY <1>m DEF MatchingAt, IsSend
    <3>2. (Clear(p) \/ Reset(p)) /\ r = p
      BY <1>h, <3>1, <1>r DEF MailAt
    <3> QED
      BY <1>o, <1>2, <2>a, <3>1, <3>2 DEF Touching
  <2>3. ctx[q].at \in {"take", "clear"} => hasMessage'[q]
    BY <1>h, <1>r, <1>2 DEF MailAt
  <2>4. ctx[q].at = "clear" => ctx[q].msg = msgin'[q]
    <3> SUFFICES ASSUME ctx[q].at = "clear" PROVE ctx[q].msg = msgin'[q]
      OBVIOUS
    <3>1. ctx[q].to = q
      BY <1>m DEF MatchingAt, Gets
    <3>2. msgin'[q] = msgin[q]
      <4> SUFFICES ASSUME msgin'[q] # msgin[q] PROVE FALSE
        OBVIOUS
      <4>1. ctx[p].at = "deposit" /\ ctx[p].to = q
        BY <1>2, <2>a, MsginChanges
      <4> QED
        BY <1>o, <1>2, <3>1, <4>1 DEF Touching
    <3> QED
      BY <3>2, <1>r DEF MailAt
  <2>5. ctx[q].op = "recv" /\ ctx[q].at \in {"resched", "asleep"} /\ state'[q] # "PRRECV" => hasMessage'[q]
    <3> SUFFICES ASSUME ctx[q].op = "recv", ctx[q].at \in {"resched", "asleep"}, state'[q] # "PRRECV"
                 PROVE hasMessage'[q]
      OBVIOUS
    <3>1. CASE state[q] # "PRRECV"
      BY <1>h, <1>2, <1>r, <3>1 DEF MailAt
    <3>2. CASE state[q] = "PRRECV"
      <4>1. Mark(p) /\ ctx[p].to = q
        BY <3>2, ReceiverSleeps
      <4>2. ctx[p].at = "mark"
        BY <4>1, Does DEF From
      <4>3. hasMessage[q]
        BY <4>1, <4>2 DEF Mails, MailAt
      <4> QED
        BY <1>h, <1>2, <4>3
    <3> QED
      BY <3>1, <3>2
  <2> QED
    BY <2>0, <2>1, <2>2, <2>3, <2>4, <2>5 DEF MailAt
<1> QED
  BY <1>1, <1>2

(* Which messages wait in the queues.                                      *)
LEMMA PendsChanges ==
  ASSUME TypeOK, Matching, Placement, NEW p \in Procs, Kernel(p), NEW q \in Procs, Pends(q)'
  PROVE  \/ Pends(q) /\ msgout'[q] = msgout[q]
         \/ Enqueue(p) /\ q = p /\ msgout'[q] = ctx[p].msg
<1>0. /\ msgout \in [Procs -> Messages \cup {NULL}] /\ Family(msgqueue, Procs) /\ Apart(msgqueue)
  BY DEF TypeOK, Placement, Queued
<1>1. CASE Enqueue(p)
  <2>1. /\ From(p, "enqueue") /\ To(p, "unlock") /\ ctx[p].to \in Procs
        /\ msgout' = [msgout EXCEPT ![p] = ctx[p].msg]
        /\ msgqueue' = [msgqueue EXCEPT ![ctx[p].to] = Append(@, p)]
    BY <1>1, Does
  <2>2. PICK r \in Procs : msgqueue' = [msgqueue EXCEPT ![r] = Append(@, p)]
    BY <2>1
  <2>3. In(q, msgqueue)' <=> In(q, msgqueue) \/ q = p
    BY <2>2, <1>0, AppendIn
  <2>4. Pends(q) \/ q = p
    BY <2>1, <2>3 DEF From, To, Pends
  <2> QED
    BY <1>0, <1>1, <2>1, <2>4
<1>2. CASE Dequeue(p) /\ msgqueue[p] # <<>>
  <2> DEFINE h == Head(msgqueue[p])
  <2>1. /\ From(p, "dequeue") /\ ctx'[p].at = "refill" /\ ctx'[p].pid = h
        /\ msgqueue' = [msgqueue EXCEPT ![p] = Tail(@)] /\ UNCHANGED msgout
    BY <1>2, Does
  <2>2. (In(q, msgqueue)' <=> In(q, msgqueue) /\ q # h) /\ In(h, msgqueue)
    BY <2>1, <1>2, <1>0, TailIn
  <2> HIDE DEF h
  <2> QED
    BY <2>1, <2>2 DEF Pends, From
<1>3. CASE Refill(p)
  <2>1. PICK h \in Procs : ctx[p].pid = h
    BY <1>3, Does
  <2>2. /\ From(p, "refill") /\ To(p, "wakesender") /\ UNCHANGED msgqueue
        /\ msgout' = [msgout EXCEPT ![h] = NULL]
    BY <1>3, <2>1, Does
  <2>3. Holds(p, h)
    BY <2>1, <2>2 DEF From, Holds
  <2>4. ~In(h, msgqueue) /\ \A r \in Procs : Holds(r, h) => r = p
    BY <2>3 DEF Placement, Queued, Held
  <2>5. \A r \in Procs : ctx[r].at = "refill" /\ ctx[r].pid = h => r = p
    BY <2>4 DEF Holds
  <2>6. \A r \in Procs : ctx'[r].at = "refill" => r # p /\ ctx'[r] = ctx[r]
    BY <2>2 DEF From, To
  <2>7. Pends(q) /\ q # h
    BY <2>2, <2>4, <2>5, <2>6 DEF Pends
  <2> QED
    BY <2>2, <2>7, <1>0
<1>4. CASE ~Enqueue(p) /\ ~(Dequeue(p) /\ msgqueue[p] # <<>>) /\ ~Refill(p)
  <2>1. UNCHANGED <<msgqueue, msgout>>
    BY <1>4, Does DEF Kernel, box
  <2>2. /\ \A r \in Procs : r # p => ctx'[r] = ctx[r]
        /\ ctx'[p].at # "refill"
    BY <1>4, Does DEF Kernel, From, To, Back
  <2> QED
    BY <2>1, <2>2 DEF Pends
<1> QED
  BY <1>1, <1>2, <1>3, <1>4

(* A message is in a mailbox once it has been flagged or queued.           *)
LEMMA MailedChanges ==
  ASSUME TypeOK, Matching, Placement, Rooms, Mails, NEW p \in Procs, Kernel(p), NEW m \in Mailed'
  PROVE  m \in Mailed \/ (Carries(p) /\ m = ctx[p].msg /\ ~Carries(p)')
<1>0. /\ hasMessage \in [Procs -> BOOLEAN] /\ msgin \in [Procs -> Messages \cup {NULL}]
      /\ RoomAt(p) /\ MailAt(p)
  BY DEF TypeOK, Rooms, Mails
<1>1. CASE m \in got'
  <2>1. CASE Clear(p)
    <3>1. From(p, "clear") /\ got' = got \cup {ctx[p].msg}
      BY <2>1, Does
    <3>2. hasMessage[p] /\ ctx[p].msg = msgin[p]
      BY <3>1, <1>0 DEF From, MailAt
    <3> QED
      BY <1>1, <3>1, <3>2 DEF Mailed
  <2>2. CASE ~Clear(p)
    <3>1. UNCHANGED got
      BY <2>2, Does DEF Kernel
    <3> QED
      BY <1>1, <3>1 DEF Mailed
  <2> QED
    BY <2>1, <2>2
<1>2. ASSUME NEW r \in Procs, hasMessage'[r], msgin'[r] = m
      PROVE  m \in Mailed \/ (Carries(p) /\ m = ctx[p].msg /\ ~Carries(p)')
  <2>1. CASE Flag(p) /\ ctx[p].to = r
    <3>1. From(p, "flag") /\ To(p, "wake") /\ IsSend(p) /\ UNCHANGED msgin
      BY <2>1, Does
    <3>2. msgin[r] = ctx[p].msg
      BY <2>1, <3>1, <1>0 DEF From, MailAt
    <3> QED
      BY <1>2, <3>1, <3>2 DEF Carries, From, To
  <2>2. CASE Refill(p) /\ r = p
    <3>1. PICK h \in Procs : ctx[p].pid = h
      BY <2>2, Does
    <3>2. From(p, "refill") /\ msgin' = [msgin EXCEPT ![p] = msgout[h]]
      BY <2>2, <3>1, Does
    <3>3. m = msgout[h] /\ Pends(h)
      BY <1>0, <1>2, <2>2, <3>1, <3>2 DEF Pends, From
    <3> QED
      BY <3>3 DEF Mailed
  <2>3. CASE Deposit(p) /\ ctx[p].to = r
    <3>1. From(p, "deposit") /\ UNCHANGED hasMessage
      BY <2>3, Does
    <3>2. ~hasMessage[r]
      BY <2>3, <3>1, <1>0 DEF From, RoomAt
    <3> QED
      BY <1>2, <3>1, <3>2
  <2>4. CASE ~(Flag(p) /\ ctx[p].to = r) /\ ~(Refill(p) /\ r = p) /\ ~(Deposit(p) /\ ctx[p].to = r)
    <3>1. msgin'[r] = msgin[r]
      BY <2>4, MsginChanges
    <3>2. hasMessage[r]
      <4>1. ASSUME Clear(p) \/ Reset(p), r = p PROVE FALSE
        <5>1. hasMessage' = [hasMessage EXCEPT ![p] = FALSE]
          BY <4>1, Does
        <5> QED
          BY <4>1, <5>1, <1>0, <1>2
      <4> QED
        BY <2>4, <4>1, <1>2, SlotChanges
    <3> QED
      BY <1>2, <3>1, <3>2 DEF Mailed
  <2> QED
    BY <2>1, <2>2, <2>3, <2>4
<1>3. ASSUME NEW q \in Procs, Pends(q)', msgout'[q] = m
      PROVE  m \in Mailed \/ (Carries(p) /\ m = ctx[p].msg /\ ~Carries(p)')
  <2>1. CASE Pends(q) /\ msgout'[q] = msgout[q]
    BY <1>3, <2>1 DEF Mailed
  <2>2. CASE Enqueue(p) /\ q = p /\ msgout'[q] = ctx[p].msg
    <3>1. From(p, "enqueue") /\ To(p, "unlock") /\ ctx[p].op = "send"
      BY <2>2, Does DEF Matching, MatchingAt, From
    <3> QED
      BY <1>3, <2>2, <3>1 DEF Carries, From, To, IsSend
  <2> QED
    BY <1>3, <2>1, <2>2, PendsChanges
<1> QED
  BY <1>1, <1>2, <1>3 DEF Mailed

(* A message is carried until it is in a mailbox, and then it is in it.    *)
LEMMA FreshKernel ==
  ASSUME TypeOK, Matching, Placement, Rooms, Mails, Fresh, NEW p \in Procs, Kernel(p)
  PROVE  Fresh'
<1>1. \A q \in Procs : Carries(q)' => Carries(q) /\ ctx'[q].msg = ctx[q].msg
  <2>1. \A q \in Procs : q # p => ctx'[q] = ctx[q]
    BY SlotChanges
  <2>2. Carries(p)' => Carries(p) /\ ctx'[p].msg = ctx[p].msg
    <3>1. ASSUME ctx'[p].at \in {"look", "acquire", "test", "block", "enqueue", "deposit", "flag"}
          PROVE  /\ Stays(p) /\ ctx'[p].msg = ctx[p].msg
                 /\ ctx[p].at \in {"look", "acquire", "test", "block", "enqueue", "deposit", "flag"}
      BY ZenonT(40), <3>1, Does DEF Kernel, From, To, Back
    <3> QED
      BY <3>1 DEF Carries, IsSend, Stays
  <2>3. \A q \in Procs : q # p => (Carries(q)' <=> Carries(q))
    BY <2>1 DEF Carries, IsSend
  <2> QED
    BY <2>1, <2>2, <2>3
<1>2. sent' = sent
  BY Does DEF Kernel
<1>3. \A m \in Mailed' : m \in Mailed \/ (Carries(p) /\ m = ctx[p].msg /\ ~Carries(p)')
  BY MailedChanges
<1>4. Carries(p) => ctx[p].msg \in 1 .. sent
  BY DEF Carries, Matching, MatchingAt
<1>5. Mailed' \subseteq 1 .. sent'
  BY <1>2, <1>3, <1>4 DEF Fresh
<1>6. \A q \in Procs : Carries(q)' => ctx'[q].msg \notin Mailed'
  BY <1>1, <1>3 DEF Fresh
<1>7. \A q, r \in Procs : Carries(q)' /\ Carries(r)' /\ ctx'[q].msg = ctx'[r].msg => q = r
  BY <1>1 DEF Fresh
<1> QED
  BY <1>5, <1>6, <1>7 DEF Fresh

(* The initial state.                                                      *)
LEMMA MailStart == Init => MailInv
<1> SUFFICES ASSUME Init PROVE MailInv
  OBVIOUS
<1>1. GuardInv
  BY GuardStart
<1>2. \A p \in Procs : /\ ctx[p].at = "user" /\ ctx[p].op = "none" /\ ctx[p].pid = EMPTY
                       /\ ~hasMessage[p] /\ msgqueue[p] = <<>>
  BY DEF Init, User
<1>3. DOMAIN msgqueue = Procs /\ got = {}
  BY DEF Init
<1>4. Home /\ Rooms /\ Mails
  BY <1>2, <1>3 DEF Home, Holds, Rooms, RoomAt, Mails, MailAt
<1>5. Fresh
  <2>1. Mailed = {}
    BY <1>2, <1>3 DEF Mailed, Pends, In
  <2> QED
    BY <2>1, <1>2 DEF Fresh, Carries
<1> QED
  BY <1>1, <1>4, <1>5 DEF MailInv

(* A call begins.                                                          *)
LEMMA MailCalling ==
  ASSUME TypeOK, Matching, Placement, Rooms, Mails, Fresh, NEW p \in Procs, Calling(p)
  PROVE  Rooms' /\ Mails' /\ Fresh'
<1>0. sent \in Nat /\ \A q \in Procs : RoomAt(q) /\ MailAt(q)
  BY MessagesAssumption DEF TypeOK, Rooms, Mails
<1>1. /\ From(p, "user") /\ UNCHANGED <<box, sched, got>>
      /\ ctx'[p].at \in {"acquire", "look"}
      /\ \/ ctx'[p].op \in {"recv", "recvnow"} /\ sent' = sent
         \/ sent' = sent + 1 /\ ctx'[p].msg = sent + 1
      /\ ~(ctx'[p].op = "sendnow" /\ ctx'[p].at = "acquire")
  <2>1. /\ From(p, "user") /\ UNCHANGED <<box, lock, sched, got>>
        /\ \/ p \in Recvs /\ Begun(p, "recv", "acquire", p) /\ sent' = sent
           \/ p \in Recvnows /\ Begun(p, "recvnow", "acquire", p) /\ sent' = sent
           \/ /\ sent' = sent + 1 /\ ctx'[p].msg = sent + 1
              /\ \E r \in Procs : \/ <<p, r>> \in Sends /\ Begun(p, "send", "acquire", r)
                                  \/ <<p, r>> \in Sendnows /\ Begun(p, "sendnow", "look", r)
    BY CallingDoes
  <2> QED
    BY <2>1 DEF Begun
<1>2. \A q \in Procs : q # p => ctx'[q] = ctx[q]
  BY <1>1 DEF From
<1>3. Rooms'
  <2> SUFFICES ASSUME NEW q \in Procs PROVE RoomAt(q)'
    BY DEF Rooms
  <2> QED
    BY <1>0, <1>1, <1>2 DEF RoomAt, box
<1>4. Mails'
  <2> SUFFICES ASSUME NEW q \in Procs PROVE MailAt(q)'
    BY DEF Mails
  <2> QED
    BY <1>0, <1>1, <1>2 DEF MailAt, box, sched
<1>5. Fresh'
  <2>1. \A q \in Procs : Pends(q)' <=> Pends(q)
    BY <1>1, <1>2 DEF Pends, box, From
  <2>2. Mailed' = Mailed
    BY <1>1, <2>1 DEF Mailed, box
  <2>3. Mailed \subseteq 1 .. sent /\ \A i \in 1 .. sent : i \in 1 .. sent' /\ i # sent + 1
    BY <1>0, <1>1 DEF Fresh
  <2>4. \A q \in Procs : q # p => (Carries(q)' <=> Carries(q))
    BY <1>2 DEF Carries, IsSend
  <2>5. Carries(p)' => ctx'[p].msg = sent + 1
    BY <1>1 DEF Carries, IsSend
  <2>6. \A q \in Procs : Carries(q) => ctx[q].msg \in 1 .. sent
    BY DEF Carries, Matching, MatchingAt
  <2>7. \A q \in Procs : Carries(q)' => ctx'[q].msg \notin Mailed'
    BY <1>2, <2>2, <2>3, <2>4, <2>5 DEF Fresh
  <2>8. ASSUME NEW q \in Procs, NEW r \in Procs, Carries(q)', Carries(r)', ctx'[q].msg = ctx'[r].msg
        PROVE  q = r
    BY <1>2, <2>3, <2>4, <2>5, <2>6, <2>8 DEF Fresh
  <2> QED
    BY <2>2, <2>3, <2>7, <2>8 DEF Fresh
<1> QED
  BY <1>3, <1>4, <1>5

(* Every step keeps what is known of the slots and of the messages.        *)
LEMMA MailStep ==
  ASSUME Guarded, Single, MailInv, [Next]_vars
  PROVE  MailInv'
<1>0. TypeOK /\ Matching /\ Placement /\ Holder /\ Alone /\ Home /\ Rooms /\ Mails /\ Fresh
  BY DEF MailInv, GuardInv, PlaceInv
<1>1. GuardInv' /\ Home'
  BY <1>0, GuardStep, HomeStep DEF MailInv
<1>2. ASSUME UNCHANGED <<box, ctx, sent, got>>,
             \A q \in Procs : state'[q] # "PRRECV" => state[q] # "PRRECV"
      PROVE  Rooms' /\ Mails' /\ Fresh'
  <2>1. Rooms' /\ Mails'
    BY <1>0, <1>2 DEF Rooms, RoomAt, Mails, MailAt, box
  <2>2. Mailed' = Mailed
    BY <1>2 DEF Mailed, Pends, box
  <2>3. Fresh'
    BY <1>0, <1>2, <2>2 DEF Fresh, Carries, IsSend
  <2> QED
    BY <2>1, <2>3
<1>3. ASSUME NEW p \in Procs, Calling(p) PROVE Rooms' /\ Mails' /\ Fresh'
  BY <1>0, <1>3, MailCalling
<1>4. ASSUME NEW p \in Procs, Kernel(p) PROVE Rooms' /\ Mails' /\ Fresh'
  BY <1>0, <1>4, RoomsKernel, MailsKernel, FreshKernel
<1>5. ASSUME NEW c \in Cores, Preempt(c) PROVE Rooms' /\ Mails' /\ Fresh'
  <2>1. UNCHANGED <<box, ctx, sent, got>> /\ Resched(c)
    BY <1>5 DEF Preempt
  <2>2. \A q \in Procs : state'[q] = "PRRECV" <=> state[q] = "PRRECV"
    BY <1>0, <2>1, ReschedStates DEF Same
  <2> QED
    BY <2>1, <2>2, <1>2
<1>6. ASSUME UNCHANGED vars \/ Stopped \/ \E p \in Procs : Meet(p)
      PROVE  Rooms' /\ Mails' /\ Fresh'
  <2>1. UNCHANGED <<box, ctx, sent, got>> /\ state' = state
    BY <1>6, Halts
  <2>2. \A q \in Procs : state'[q] # "PRRECV" => state[q] # "PRRECV"
    BY <2>1
  <2> QED
    BY <2>1, <2>2, <1>2
<1>7. Rooms' /\ Mails' /\ Fresh'
  <2>1. CASE \E p \in Procs : Calling(p) \/ Kernel(p)
    BY <2>1, <1>3, <1>4
  <2>2. CASE \E c \in Cores : Preempt(c)
    BY <2>2, <1>5
  <2> QED
    BY <2>1, <2>2, <1>6 DEF Next
<1> QED
  BY <1>1, <1>7 DEF MailInv

(* What the calls know of the slots they work on.                          *)
THEOREM MailInvariance == ASSUME Guarded, Single PROVE Spec => []MailInv
<1>1. Init => MailInv
  BY MailStart
<1>2. MailInv /\ [Next]_vars => MailInv'
  BY MailStep
<1> QED
  BY <1>1, <1>2, PTL DEF Spec

-----------------------------------------------------------------------------
(* The calls implement Mailboxes *)

Items == Messages \cup {NULL}

(* The parts of a mailbox.                                                 *)
Slot(r) == IF hasMessage[r] THEN <<msgin[r]>> ELSE <<>>
Hand(r) == IF ctx[r].at = "refill" THEN <<msgout[ctx[r].pid]>> ELSE <<>>
Rest(r) == [i \in DOMAIN msgqueue[r] |-> msgout[msgqueue[r][i]]]

(* InsertAt at both ends of a mailbox.                                     *)
LEMMA InsertEnds ==
  ASSUME NEW s \in Seq(Items), NEW m \in Items
  PROVE  /\ Abstract!InsertAt(s, 1, m) = <<m>> \o s
         /\ Abstract!InsertAt(s, Len(s) + 1, m) = s \o <<m>>
<1>1. Len(s) \in Nat /\ SubSeq(s, 1, Len(s)) = s
  BY SubSeqFull, LenProperties
<1>2. SubSeq(s, 1, 0) = <<>> /\ SubSeq(s, Len(s) + 1, Len(s)) = <<>>
  BY <1>1, SubSeqEmpty
<1>3. <<m>> \in Seq(Items) /\ s \o <<m>> \in Seq(Items)
  BY ConcatProperties
<1>4. (<<>> \o <<m>>) \o s = <<m>> \o s /\ (s \o <<m>>) \o <<>> = s \o <<m>>
  BY <1>3, ConcatEmptySeq
<1>5. 1 - 1 = 0 /\ (Len(s) + 1) - 1 = Len(s)
  BY <1>1
<1> QED
  BY <1>1, <1>2, <1>4, <1>5 DEF Abstract!InsertAt

(* A mailbox and its parts are sequences of messages.                      *)
LEMMA PartsInSeq ==
  ASSUME TypeOK, Matching, NEW r \in Procs
  PROVE  /\ Slot(r) \in Seq(Items) /\ Hand(r) \in Seq(Items) /\ Rest(r) \in Seq(Items)
         /\ Mail(r) = (Slot(r) \o Hand(r)) \o Rest(r)
         /\ Len(Rest(r)) = Len(msgqueue[r])
         /\ Mail(r) \in Seq(Items)
<1>0. /\ msgin \in [Procs -> Items] /\ msgout \in [Procs -> Items] /\ msgqueue[r] \in Seq(Procs)
      /\ ctx[r].at = "refill" => ctx[r].pid \in Procs
  BY DEF TypeOK, Items, Matching, MatchingAt
<1>1. Slot(r) \in Seq(Items) /\ Hand(r) \in Seq(Items)
  BY <1>0 DEF Slot, Hand
<1>2. Rest(r) \in Seq(Items) /\ Len(Rest(r)) = Len(msgqueue[r])
  <2>1. PICK n \in Nat : DOMAIN msgqueue[r] = 1 .. n /\ Len(msgqueue[r]) = n
    BY <1>0, LenProperties
  <2>2. \A i \in 1 .. n : msgqueue[r][i] \in Procs
    BY <1>0, <2>1
  <2> QED
    BY <1>0, <2>1, <2>2 DEF Rest
<1>3. Mail(r) = (Slot(r) \o Hand(r)) \o Rest(r)
  BY DEF Mail, Slot, Hand, Rest
<1>4. Mail(r) \in Seq(Items)
  BY <1>1, <1>2, <1>3, ConcatProperties
<1> QED
  BY <1>1, <1>2, <1>3, <1>4

(* What is in a mailbox has been mailed.                                   *)
LEMMA MailIsMailed ==
  ASSUME TypeOK, Matching, NEW r \in Procs
  PROVE  Abstract!ToSet(Mail(r)) \subseteq Mailed
<1> DEFINE sh == Slot(r) \o Hand(r)
<1>0. /\ Slot(r) \in Seq(Items) /\ Hand(r) \in Seq(Items) /\ Rest(r) \in Seq(Items)
      /\ Mail(r) = sh \o Rest(r)
  BY PartsInSeq
<1>1. \A i \in 1 .. Len(Slot(r)) : Slot(r)[i] \in Mailed
  BY DEF Slot, Mailed
<1>2. \A i \in 1 .. Len(Hand(r)) : Hand(r)[i] \in Mailed
  <2> SUFFICES ASSUME ctx[r].at = "refill" PROVE msgout[ctx[r].pid] \in Mailed
    BY DEF Hand
  <2>1. PICK h \in Procs : ctx[r].pid = h
    BY DEF Matching, MatchingAt
  <2>2. Pends(h)
    BY <2>1 DEF Pends
  <2> QED
    BY <2>1, <2>2 DEF Mailed
<1>3. \A i \in 1 .. Len(Rest(r)) : Rest(r)[i] \in Mailed
  <2> SUFFICES ASSUME NEW i \in 1 .. Len(Rest(r)) PROVE Rest(r)[i] \in Mailed
    OBVIOUS
  <2>1. /\ msgqueue \in [Procs -> Seq(Procs)] /\ i \in DOMAIN msgqueue[r] /\ msgqueue[r][i] \in Procs
    <3>1. msgqueue \in [Procs -> Seq(Procs)] /\ i \in 1 .. Len(msgqueue[r])
      BY PartsInSeq DEF TypeOK
    <3>2. DOMAIN msgqueue[r] = 1 .. Len(msgqueue[r]) /\ \A j \in 1 .. Len(msgqueue[r]) : msgqueue[r][j] \in Procs
      BY <3>1
    <3> QED
      BY <3>1, <3>2
  <2>2. PICK q \in Procs : q = msgqueue[r][i]
    BY <2>1
  <2>3. Pends(q)
    BY <2>1, <2>2 DEF Pends, In
  <2>4. Rest(r)[i] = msgout[q]
    BY <2>1, <2>2 DEF Rest
  <2> QED
    BY <2>3, <2>4 DEF Mailed
<1>4. sh \in Seq(Items) /\ \A i \in 1 .. Len(sh) : sh[i] \in Mailed
  <2>1. /\ sh \in Seq(Items) /\ Len(sh) = Len(Slot(r)) + Len(Hand(r))
        /\ \A i \in 1 .. Len(Slot(r)) + Len(Hand(r)) :
             sh[i] = IF i <= Len(Slot(r)) THEN Slot(r)[i] ELSE Hand(r)[i - Len(Slot(r))]
    BY <1>0, ConcatProperties
  <2>2. Len(Slot(r)) \in Nat /\ Len(Hand(r)) \in Nat
    BY <1>0, LenProperties
  <2> HIDE DEF sh
  <2> QED
    BY <1>1, <1>2, <2>1, <2>2
<1> HIDE DEF sh
<1>5. \A i \in 1 .. Len(Mail(r)) : Mail(r)[i] \in Mailed
  <2>1. /\ Len(Mail(r)) = Len(sh) + Len(Rest(r))
        /\ \A i \in 1 .. Len(sh) + Len(Rest(r)) :
             Mail(r)[i] = IF i <= Len(sh) THEN sh[i] ELSE Rest(r)[i - Len(sh)]
    BY <1>0, <1>4, ConcatProperties
  <2>2. Len(sh) \in Nat /\ Len(Rest(r)) \in Nat
    BY <1>0, <1>4, LenProperties
  <2> QED
    BY <1>3, <1>4, <2>1, <2>2
<1>6. Mail(r) \in Seq(Items) /\ DOMAIN Mail(r) = 1 .. Len(Mail(r))
  BY PartsInSeq, LenProperties
<1> QED
  BY <1>5, <1>6 DEF Abstract!ToSet

(* A step that puts a new message into one mailbox is a Post.              *)
LEMMA Posted ==
  ASSUME TypeOK, Matching, NEW r \in Procs, NEW m \in Messages, m \notin Mailed,
         NEW i \in 1 .. Len(Mail(r)) + 1,
         r \notin Recvnows => i = Len(Mail(r)) + 1,
         \A q \in Procs : q # r => Mail(q)' = Mail(q),
         Mail(r)' = Abstract!InsertAt(Mail(r), i, m),
         got' = got
  PROVE  Abstract!Next
<1> DEFINE mail == [q \in Procs |-> Mail(q)]
<1>1. m \notin got /\ \A q \in Procs : m \notin Abstract!ToSet(mail[q])
  BY MailIsMailed DEF Mailed
<1>2. mail[r] = Mail(r)
  OBVIOUS
<1>3. mail' = [mail EXCEPT ![r] = Abstract!InsertAt(mail[r], i, m)]
  OBVIOUS
<1> HIDE DEF mail
<1>4. Abstract!Post(r, m)
  BY <1>1, <1>2, <1>3 DEF Abstract!Post, mail
<1> QED
  BY <1>4 DEF Abstract!Next

(* A step that removes the first message of one is a Take.                 *)
LEMMA Taken ==
  ASSUME NEW r \in Procs, Mail(r) # <<>>,
         \A q \in Procs : q # r => Mail(q)' = Mail(q),
         Mail(r)' = Tail(Mail(r)), got' = got \cup {Head(Mail(r))}
  PROVE  Abstract!Next
<1> DEFINE mail == [q \in Procs |-> Mail(q)]
<1>1. mail[r] = Mail(r) /\ mail' = [mail EXCEPT ![r] = Tail(mail[r])]
  OBVIOUS
<1>2. Abstract!Take(r)
  BY <1>1 DEF Abstract!Take
<1> QED
  BY <1>2 DEF Abstract!Next

(* The parts of a mailbox change in these steps only.                      *)
LEMMA HandsAndRests ==
  ASSUME TypeOK, Matching, NEW p \in Procs, Kernel(p),
         ~Enqueue(p), ~(Dequeue(p) /\ msgqueue[p] # <<>>), ~Refill(p)
  PROVE  \A q \in Procs : Hand(q)' = Hand(q) /\ Rest(q)' = Rest(q)
<1>1. UNCHANGED <<msgout, msgqueue>>
  BY Does DEF Kernel, box
<1>2. /\ \A q \in Procs : q # p => ctx'[q] = ctx[q]
      /\ ctx[p].at # "refill" /\ ctx'[p].at # "refill"
  BY Does DEF Kernel, From, To, Back
<1> QED
  BY <1>1, <1>2 DEF Hand, Rest

(* A mailbox whose parts stay the same is the same.                        *)
LEMMA MailStays ==
  ASSUME NEW q, Slot(q)' = Slot(q), Hand(q)' = Hand(q), Rest(q)' = Rest(q)
  PROVE  Mail(q)' = Mail(q)
BY DEF Mail, Slot, Hand, Rest

(* The steps that leave the slots alone.                                   *)
LEMMA SlotStays ==
  ASSUME TypeOK, Matching, NEW p \in Procs, Kernel(p), ~Flag(p), ~Refill(p), ~Clear(p), ~Reset(p), Rooms
  PROVE  \A q \in Procs : Slot(q)' = Slot(q)
<1> SUFFICES ASSUME NEW q \in Procs PROVE Slot(q)' = Slot(q)
  OBVIOUS
<1>1. hasMessage'[q] = hasMessage[q]
  BY SlotChanges
<1>2. msgin'[q] = msgin[q] \/ (Deposit(p) /\ ctx[p].to = q)
  BY MsginChanges
<1>3. Deposit(p) /\ ctx[p].to = q => ~hasMessage[q]
  BY ZenonT(40), Does DEF From, Rooms, RoomAt
<1> QED
  BY <1>1, <1>2, <1>3 DEF Slot

(* Steps that leave every mailbox as it is.                                *)
LEMMA KernelStutters ==
  ASSUME TypeOK, Matching, NEW p \in Procs, Kernel(p), Rooms,
         ~Enqueue(p), ~(Dequeue(p) /\ msgqueue[p] # <<>>), ~Refill(p), ~Flag(p), ~Clear(p)
  PROVE  (\A q \in Procs : Mail(q)' = Mail(q)) /\ got' = got
<1>1. \A q \in Procs : Hand(q)' = Hand(q) /\ Rest(q)' = Rest(q)
  BY HandsAndRests
<1>2. \A q \in Procs : Slot(q)' = Slot(q)
  <2>1. CASE ~Reset(p)
    BY <2>1, SlotStays
  <2>2. CASE Reset(p)
    <3>1. From(p, "reset") /\ hasMessage' = [hasMessage EXCEPT ![p] = FALSE] /\ UNCHANGED msgin
      BY <2>2, Does
    <3>2. hasMessage \in [Procs -> BOOLEAN] /\ ~hasMessage[p]
      BY <3>1 DEF TypeOK, From, Rooms, RoomAt
    <3> QED
      BY <3>1, <3>2 DEF Slot
  <2> QED
    BY <2>1, <2>2
<1>3. got' = got
  BY Does DEF Kernel
<1> QED
  BY <1>1, <1>2, <1>3, MailStays

(* A message posted to an empty slot.                                      *)
LEMMA FlagPosts ==
  ASSUME Guarded, TypeOK, Matching, Holder, Alone, Slots, Rooms, Mails, Fresh,
         NEW p \in Procs, Flag(p)
  PROVE  Abstract!Next
<1>1. /\ From(p, "flag") /\ ctx[p].to \in Procs /\ IsSend(p)
      /\ hasMessage' = [hasMessage EXCEPT ![ctx[p].to] = TRUE]
      /\ UNCHANGED <<msgin, got>>
  BY Does
<1>2. PICK t \in Procs : ctx[p].to = t
  BY <1>1
<1>3. PICK m : m = ctx[p].msg
  OBVIOUS
<1>4. /\ hasMessage \in [Procs -> BOOLEAN] /\ hasMessage' = [hasMessage EXCEPT ![t] = TRUE]
      /\ ~hasMessage[t] /\ msgin[t] = m
  BY <1>1, <1>2, <1>3 DEF TypeOK, From, Rooms, RoomAt, Mails, MailAt
<1>5. m \in Messages /\ m \notin Mailed
  <2>1. Carries(p) /\ ctx[p].msg \in 1 .. sent
    BY <1>1 DEF Carries, From, Matching, MatchingAt
  <2>2. sent \in 0 .. MaxMessages /\ MaxMessages \in Nat
    BY MessagesAssumption DEF TypeOK
  <2> QED
    BY <1>3, <2>1, <2>2 DEF Fresh, Messages
<1>6. ctx[t].at \notin {"dequeue", "refill"}
  <2> SUFFICES ASSUME ctx[t].at \in {"dequeue", "refill"} PROVE FALSE
    OBVIOUS
  <2>1. ctx[t].to = t
    BY DEF Matching, MatchingAt, Gets
  <2>2. ctx[p].at = "flag"
    BY <1>1 DEF From
  <2>3. p = t
    BY <1>2, <2>1, <2>2, OnlyOne DEF Touching
  <2> QED
    BY <2>2, <2>3
<1>7. \A q \in Procs : Hand(q)' = Hand(q) /\ Rest(q)' = Rest(q)
  <2>1. Kernel(p) /\ ~Enqueue(p) /\ ~Dequeue(p) /\ ~Refill(p)
    BY <1>1, Does DEF Kernel, From
  <2> QED
    BY <2>1, HandsAndRests
<1>8. \A q \in Procs : q # t => Mail(q)' = Mail(q)
  <2>1. \A q \in Procs : q # t => Slot(q)' = Slot(q)
    BY <1>1, <1>4 DEF Slot
  <2> QED
    BY <2>1, <1>7, MailStays
<1>9. Hand(t) = <<>> /\ Slot(t) = <<>> /\ Slot(t)' = <<m>>
  BY <1>1, <1>4, <1>6 DEF Hand, Slot
<1>10. /\ Mail(t) = (Slot(t) \o Hand(t)) \o Rest(t) /\ Rest(t) \in Seq(Items)
       /\ Len(Rest(t)) = Len(msgqueue[t]) /\ Mail(t) \in Seq(Items)
  BY PartsInSeq
<1>11. Mail(t) = Rest(t)
  <2>1. <<>> \o <<>> = <<>> /\ <<>> \o Rest(t) = Rest(t)
    BY <1>10, ConcatEmptySeq, EmptySeq
  <2> QED
    BY <1>9, <1>10, <2>1
<1>12. Mail(t)' = <<m>> \o Mail(t)
  <2>1. Mail(t)' = (Slot(t)' \o Hand(t)') \o Rest(t)'
    BY DEF Mail, Slot, Hand, Rest
  <2>2. <<m>> \in Seq(Items) /\ <<m>> \o <<>> = <<m>>
    BY <1>5, ConcatEmptySeq DEF Items
  <2> QED
    BY <1>7, <1>9, <1>11, <2>1, <2>2
<1>13. t \notin Recvnows => 1 = Len(Mail(t)) + 1
  <2> SUFFICES ASSUME t \notin Recvnows PROVE 1 = Len(Mail(t)) + 1
    OBVIOUS
  <2>1. msgqueue[t] = <<>>
    BY <1>4, <1>6 DEF Slots, WaitAt
  <2>2. Len(Mail(t)) = 0
    BY <1>10, <1>11, <2>1
  <2> QED
    BY <2>2
<1>14. Mail(t)' = Abstract!InsertAt(Mail(t), 1, m)
  BY <1>5, <1>10, <1>12, InsertEnds DEF Items
<1>15. 1 \in 1 .. Len(Mail(t)) + 1
  BY <1>10, LenProperties
<1> QED
  BY <1>1, <1>5, <1>8, <1>13, <1>14, <1>15, Posted

(* A message posted behind a full slot.                                    *)
LEMMA EnqueuePosts ==
  ASSUME TypeOK, Matching, Placement, Rooms, Fresh, NEW p \in Procs, Enqueue(p)
  PROVE  Abstract!Next
<1>1. /\ From(p, "enqueue") /\ To(p, "unlock") /\ ctx[p].to \in Procs
      /\ msgout' = [msgout EXCEPT ![p] = ctx[p].msg]
      /\ msgqueue' = [msgqueue EXCEPT ![ctx[p].to] = Append(@, p)]
      /\ UNCHANGED <<hasMessage, msgin, got>>
  BY Does
<1>2. PICK t \in Procs : ctx[p].to = t
  BY <1>1
<1>3. PICK m : m = ctx[p].msg
  OBVIOUS
<1>4. /\ msgout \in [Procs -> Items] /\ msgqueue \in [Procs -> Seq(Procs)]
      /\ msgout' = [msgout EXCEPT ![p] = m]
      /\ msgqueue' = [msgqueue EXCEPT ![t] = Append(@, p)]
  BY <1>1, <1>2, <1>3 DEF TypeOK, Items
<1>5. m \in Messages /\ m \notin Mailed
  <2>1. ctx[p].op = "send" /\ ctx[p].at = "enqueue"
    BY <1>1 DEF From, Matching, MatchingAt
  <2>2. Carries(p) /\ ctx[p].msg \in 1 .. sent
    BY <2>1 DEF Carries, IsSend, Matching, MatchingAt
  <2>3. sent \in 0 .. MaxMessages /\ MaxMessages \in Nat
    BY MessagesAssumption DEF TypeOK
  <2> QED
    BY <1>3, <2>2, <2>3 DEF Fresh, Messages
<1>6. ~In(p, msgqueue) /\ ~Held(p)
  BY <1>1 DEF From, Placement, Queued
<1>7. \A q \in Procs : Slot(q)' = Slot(q)
  BY <1>1 DEF Slot
<1>8. \A q \in Procs : Hand(q)' = Hand(q)
  <2> SUFFICES ASSUME NEW q \in Procs PROVE Hand(q)' = Hand(q)
    OBVIOUS
  <2>1. CASE q = p
    BY <1>1, <2>1 DEF Hand, From, To
  <2>2. CASE q # p
    <3>1. ctx'[q] = ctx[q]
      BY <1>1, <2>2 DEF From
    <3>2. CASE ctx[q].at = "refill"
      <4>1. PICK h \in Procs : h = ctx[q].pid
        BY <3>2 DEF Matching, MatchingAt
      <4>2. h # p
        BY <1>6, <3>2, <4>1 DEF Held, Holds
      <4>3. msgout'[h] = msgout[h]
        BY <1>4, <4>2
      <4> QED
        BY <3>1, <4>1, <4>3 DEF Hand
    <3>3. CASE ctx[q].at # "refill"
      BY <3>1, <3>3 DEF Hand
    <3> QED
      BY <3>2, <3>3
  <2> QED
    BY <2>1, <2>2
<1>9. ASSUME NEW q \in Procs, NEW i \in DOMAIN msgqueue[q]
      PROVE  msgqueue[q][i] \in Procs /\ msgout'[msgqueue[q][i]] = msgout[msgqueue[q][i]]
  <2>1. msgqueue[q] \in Seq(Procs) /\ q \in DOMAIN msgqueue
    BY <1>4
  <2>2. PICK h \in Procs : h = msgqueue[q][i]
    BY <2>1
  <2>3. h # p
    BY <1>6, <2>1, <2>2 DEF In
  <2> QED
    BY <1>4, <2>2, <2>3
<1>10. \A q \in Procs : q # t => Mail(q)' = Mail(q)
  <2> SUFFICES ASSUME NEW q \in Procs, q # t PROVE Mail(q)' = Mail(q)
    OBVIOUS
  <2>1. msgqueue'[q] = msgqueue[q]
    BY <1>4
  <2>2. Rest(q)' = Rest(q)
    BY <1>9, <2>1 DEF Rest
  <2> QED
    BY <2>2, <1>7, <1>8, MailStays
<1>11. /\ Mail(t) = (Slot(t) \o Hand(t)) \o Rest(t) /\ Rest(t) \in Seq(Items)
       /\ Slot(t) \in Seq(Items) /\ Hand(t) \in Seq(Items)
       /\ Mail(t) \in Seq(Items)
  BY PartsInSeq
<1>12. Rest(t)' = Rest(t) \o <<m>>
  <2> DEFINE s == msgqueue[t]
             n == Len(msgqueue[t])
             u == Rest(t) \o <<m>>
  <2>1. /\ s \in Seq(Procs) /\ n \in Nat /\ DOMAIN s = 1 .. n
        /\ msgqueue'[t] = Append(s, p)
    BY <1>4
  <2>2. /\ DOMAIN msgqueue'[t] = 1 .. n + 1 /\ msgqueue'[t][n + 1] = p
        /\ \A i \in 1 .. n : msgqueue'[t][i] = s[i]
    BY <2>1
  <2>3. Rest(t) \in Seq(Items) /\ <<m>> \in Seq(Items) /\ Len(Rest(t)) = n /\ Len(<<m>>) = 1 /\ <<m>>[1] = m
    BY <1>5, PartsInSeq DEF Items
  <2>4. /\ u \in Seq(Items) /\ Len(u) = n + 1
        /\ \A i \in 1 .. n + 1 : u[i] = IF i <= n THEN Rest(t)[i] ELSE <<m>>[i - n]
    BY <2>3, ConcatProperties
  <2>5. \A i \in 1 .. n : Rest(t)[i] = msgout[s[i]]
    BY <2>1 DEF Rest
  <2>6. \A i \in 1 .. n : msgout'[s[i]] = msgout[s[i]]
    BY <1>9, <2>1
  <2>7. Rest(t)' = [i \in 1 .. n + 1 |-> msgout'[msgqueue'[t][i]]]
    BY <2>2 DEF Rest
  <2>8. msgout'[p] = m
    BY <1>4
  <2>9. u = [i \in 1 .. n + 1 |-> u[i]]
    BY <2>4
  <2> HIDE DEF s, n, u
  <2>10. \A i \in 1 .. n + 1 : msgout'[msgqueue'[t][i]] = u[i]
    <3> SUFFICES ASSUME NEW i \in 1 .. n + 1 PROVE msgout'[msgqueue'[t][i]] = u[i]
      OBVIOUS
    <3>1. CASE i = n + 1
      <4>1. u[i] = <<m>>[1] /\ msgqueue'[t][i] = p
        BY <2>1, <2>2, <2>4, <3>1
      <4> QED
        BY <2>3, <2>8, <4>1
    <3>2. CASE i # n + 1
      <4>1. i \in 1 .. n /\ i <= n
        BY <2>1, <3>2
      <4>2. msgqueue'[t][i] = s[i] /\ u[i] = msgout[s[i]] /\ msgout'[s[i]] = msgout[s[i]]
        BY <4>1, <2>2, <2>4, <2>5, <2>6
      <4> QED
        BY <4>2
    <3> QED
      BY <3>1, <3>2
  <2>11. Rest(t)' = u
    BY <2>7, <2>9, <2>10
  <2> QED
    BY <2>11 DEF u
<1>13. Mail(t)' = Mail(t) \o <<m>>
  <2>1. Mail(t)' = (Slot(t)' \o Hand(t)') \o Rest(t)'
    BY DEF Mail, Slot, Hand, Rest
  <2>2. <<m>> \in Seq(Items) /\ Slot(t) \o Hand(t) \in Seq(Items)
    BY <1>5, <1>11, ConcatProperties DEF Items
  <2>3. (Slot(t) \o Hand(t)) \o (Rest(t) \o <<m>>) = ((Slot(t) \o Hand(t)) \o Rest(t)) \o <<m>>
    BY <1>11, <2>2, ConcatAssociative
  <2> QED
    BY <1>7, <1>8, <1>11, <1>12, <2>1, <2>3
<1>14. Mail(t)' = Abstract!InsertAt(Mail(t), Len(Mail(t)) + 1, m)
  BY <1>5, <1>11, <1>13, InsertEnds DEF Items
<1>15. Len(Mail(t)) + 1 \in 1 .. Len(Mail(t)) + 1
  <2>1. Len(Mail(t)) \in Nat
    BY <1>11, LenProperties
  <2> QED
    BY <2>1
<1> QED
  BY <1>1, <1>5, <1>10, <1>14, <1>15, Posted

(* A sequence is its head and its tail.                                    *)
LEMMA HeadThenTail ==
  ASSUME NEW s \in Seq(Items), s # <<>>
  PROVE  s = <<Head(s)>> \o Tail(s)
<1>1. Len(s) \in Nat \ {0} /\ s[1] = Head(s)
  BY EmptySeq
<1>2. SubSeq(s, 1, Len(s)) = s /\ Tail(s) = SubSeq(s, 2, Len(s))
  BY SubSeqFull, TailIsSubSeq
<1>3. 1 \in 1 .. Len(s) /\ Len(s) \in 1 .. Len(s) /\ 1 + 1 = 2
  BY <1>1
<1>4. SubSeq(s, 1, Len(s)) = <<s[1]>> \o SubSeq(s, 1 + 1, Len(s))
  BY <1>3, SubSeqRecursiveFirst
<1> QED
  BY <1>1, <1>2, <1>3, <1>4

(* The first of the queue of senders.                                      *)
LEMMA RestHead ==
  ASSUME TypeOK, NEW r \in Procs, msgqueue[r] # <<>>, Rest(r) \in Seq(Items)
  PROVE  /\ Head(msgqueue[r]) \in Procs /\ Rest(r) # <<>>
         /\ Head(Rest(r)) = msgout[Head(msgqueue[r])]
         /\ Tail(Rest(r)) = [i \in DOMAIN Tail(msgqueue[r]) |-> msgout[Tail(msgqueue[r])[i]]]
<1> DEFINE s == msgqueue[r]
           n == Len(msgqueue[r])
<1>1. s \in Seq(Procs) /\ n \in Nat \ {0} /\ DOMAIN s = 1 .. n
  BY EmptySeq DEF TypeOK
<1>2. /\ Head(s) = s[1] /\ Tail(s) \in Seq(Procs) /\ DOMAIN Tail(s) = 1 .. n - 1
      /\ \A i \in 1 .. n - 1 : Tail(s)[i] = s[i + 1]
  BY <1>1
<1>3. Rest(r) = [i \in 1 .. n |-> msgout[s[i]]] /\ Len(Rest(r)) = n
  BY <1>1, LenProperties DEF Rest
<1>4. Rest(r) # <<>> /\ Head(Rest(r)) = Rest(r)[1] /\ Head(s) \in Procs
  BY <1>1, <1>2, <1>3
<1>5. /\ Tail(Rest(r)) \in Seq(Items) /\ DOMAIN Tail(Rest(r)) = 1 .. n - 1
      /\ \A i \in 1 .. n - 1 : Tail(Rest(r))[i] = Rest(r)[i + 1]
  BY <1>1, <1>3, <1>4
<1>6. Tail(Rest(r)) = [i \in 1 .. n - 1 |-> Tail(Rest(r))[i]]
  <2> DEFINE u == Tail(Rest(r))
  <2>1. u \in Seq(Items) /\ DOMAIN u = 1 .. n - 1
    BY <1>5
  <2> HIDE DEF u
  <2>2. u = [i \in DOMAIN u |-> u[i]]
    BY <2>1, LenProperties
  <2> QED
    BY <2>1, <2>2 DEF u
<1> HIDE DEF s, n
<1>7. \A i \in 1 .. n - 1 : Tail(Rest(r))[i] = msgout[Tail(s)[i]]
  <2> SUFFICES ASSUME NEW i \in 1 .. n - 1 PROVE Tail(Rest(r))[i] = msgout[Tail(s)[i]]
    OBVIOUS
  <2>1. i + 1 \in 1 .. n
    BY <1>1
  <2>2. Rest(r)[i + 1] = msgout[s[i + 1]]
    BY <2>1, <1>3
  <2> QED
    BY <2>2, <1>2, <1>5
<1>8. Tail(Rest(r)) = [i \in DOMAIN Tail(s) |-> msgout[Tail(s)[i]]]
  BY <1>2, <1>6, <1>7
<1>9. Head(Rest(r)) = msgout[Head(s)]
  BY <1>1, <1>2, <1>3, <1>4
<1> QED
  BY <1>4, <1>8, <1>9 DEF s

(* A sender goes from the queue into the hands of the receiver.            *)
LEMMA DequeueStutters ==
  ASSUME TypeOK, Matching, Placement, NEW p \in Procs, Dequeue(p), msgqueue[p] # <<>>
  PROVE  (\A q \in Procs : Mail(q)' = Mail(q)) /\ got' = got
<1>1. /\ From(p, "dequeue") /\ ctx'[p].at = "refill" /\ ctx'[p].pid = Head(msgqueue[p])
      /\ msgqueue' = [msgqueue EXCEPT ![p] = Tail(@)]
      /\ UNCHANGED <<hasMessage, msgin, msgout, got>>
  BY Does
<1>2. msgqueue \in [Procs -> Seq(Procs)]
  BY DEF TypeOK
<1>3. \A q \in Procs : Slot(q)' = Slot(q)
  BY <1>1 DEF Slot
<1>4. ASSUME NEW q \in Procs, q # p PROVE Mail(q)' = Mail(q)
  <2>1. ctx'[q] = ctx[q] /\ msgqueue'[q] = msgqueue[q] /\ msgout' = msgout
    BY <1>1, <1>2, <1>4 DEF From
  <2>2. Hand(q)' = Hand(q) /\ Rest(q)' = Rest(q)
    BY <2>1 DEF Hand, Rest
  <2> QED
    BY <2>2, <1>3, MailStays
<1>5. Mail(p)' = Mail(p)
  <2>1. /\ Mail(p) = (Slot(p) \o Hand(p)) \o Rest(p) /\ Slot(p) \in Seq(Items)
        /\ Rest(p) \in Seq(Items)
    BY PartsInSeq
  <2>2. /\ Rest(p) # <<>>
        /\ Head(Rest(p)) = msgout[Head(msgqueue[p])]
        /\ Tail(Rest(p)) = [i \in DOMAIN Tail(msgqueue[p]) |-> msgout[Tail(msgqueue[p])[i]]]
    BY <2>1, RestHead
  <2>3. Hand(p) = <<>> /\ Hand(p)' = <<Head(Rest(p))>>
    BY <1>1, <2>2 DEF Hand, From
  <2>4. Rest(p)' = Tail(Rest(p))
    <3>1. msgqueue'[p] = Tail(msgqueue[p]) /\ msgout' = msgout
      BY <1>1, <1>2
    <3> QED
      BY <3>1, <2>2 DEF Rest
  <2>5. Mail(p)' = (Slot(p)' \o Hand(p)') \o Rest(p)'
    BY DEF Mail, Slot, Hand, Rest
  <2>6. Head(Rest(p)) \in Items /\ Tail(Rest(p)) \in Seq(Items) /\ <<Head(Rest(p))>> \in Seq(Items)
    BY <2>1, <2>2, HeadTailProperties
  <2>7. (Slot(p) \o <<Head(Rest(p))>>) \o Tail(Rest(p)) = Slot(p) \o (<<Head(Rest(p))>> \o Tail(Rest(p)))
    BY SMTT(30), <2>1, <2>6, ConcatAssociative
  <2>8. Rest(p) = <<Head(Rest(p))>> \o Tail(Rest(p))
    BY <2>1, <2>2, HeadThenTail
  <2>9. Slot(p) \o <<>> = Slot(p)
    BY <2>1, ConcatEmptySeq
  <2>10. Mail(p)' = (Slot(p) \o <<Head(Rest(p))>>) \o Tail(Rest(p))
    BY <1>3, <2>3, <2>4, <2>5
  <2>11. Mail(p) = Slot(p) \o Rest(p)
    BY <2>1, <2>3, <2>9
  <2> QED
    BY <2>7, <2>8, <2>10, <2>11
<1> QED
  BY <1>1, <1>4, <1>5

(* Its message goes on into the slot.                                      *)
LEMMA RefillStutters ==
  ASSUME TypeOK, Matching, Placement, Rooms, NEW p \in Procs, Refill(p)
  PROVE  (\A q \in Procs : Mail(q)' = Mail(q)) /\ got' = got
<1>1. PICK h \in Procs : ctx[p].pid = h
  BY Does
<1>2. /\ From(p, "refill") /\ To(p, "wakesender")
      /\ msgin' = [msgin EXCEPT ![p] = msgout[h]]
      /\ hasMessage' = [hasMessage EXCEPT ![p] = TRUE]
      /\ msgout' = [msgout EXCEPT ![h] = NULL]
      /\ UNCHANGED <<msgqueue, got>>
  BY <1>1, Does
<1>3. /\ msgin \in [Procs -> Items] /\ msgout \in [Procs -> Items] /\ hasMessage \in [Procs -> BOOLEAN]
      /\ msgqueue \in [Procs -> Seq(Procs)]
  BY DEF TypeOK, Items
<1>4. Holds(p, h) /\ ~hasMessage[p]
  BY <1>1, <1>2 DEF Holds, From, Rooms, RoomAt
<1>5. ~In(h, msgqueue) /\ \A q \in Procs : Holds(q, h) => q = p
  BY <1>4 DEF Placement, Queued, Held
<1>6. ASSUME NEW q \in Procs, NEW i \in DOMAIN msgqueue[q]
      PROVE  msgout'[msgqueue[q][i]] = msgout[msgqueue[q][i]]
  <2>1. msgqueue[q] \in Seq(Procs) /\ q \in DOMAIN msgqueue
    BY <1>3
  <2>2. PICK g \in Procs : g = msgqueue[q][i]
    BY <2>1
  <2>3. g # h
    BY <1>5, <2>1, <2>2 DEF In
  <2> QED
    BY <1>2, <1>3, <2>2, <2>3
<1>7. \A q \in Procs : Rest(q)' = Rest(q)
  BY <1>2, <1>6 DEF Rest
<1>8. ASSUME NEW q \in Procs, q # p PROVE Mail(q)' = Mail(q)
  <2>1. Slot(q)' = Slot(q)
    BY <1>2, <1>3, <1>8 DEF Slot
  <2>2. ctx'[q] = ctx[q]
    BY <1>2, <1>8 DEF From
  <2>3. Hand(q)' = Hand(q)
    <3>1. CASE ctx[q].at = "refill"
      <4>1. PICK g \in Procs : g = ctx[q].pid
        BY <3>1 DEF Matching, MatchingAt
      <4>2. g # h
        BY <1>5, <1>8, <3>1, <4>1 DEF Holds
      <4>3. msgout'[g] = msgout[g]
        BY <1>2, <1>3, <4>2
      <4> QED
        BY <2>2, <4>1, <4>3 DEF Hand
    <3>2. CASE ctx[q].at # "refill"
      BY <2>2, <3>2 DEF Hand
    <3> QED
      BY <3>1, <3>2
  <2> QED
    BY <2>1, <2>3, <1>7, MailStays
<1>9. Mail(p)' = Mail(p)
  <2>1. Slot(p) = <<>> /\ Hand(p) = <<msgout[h]>>
    BY <1>1, <1>2, <1>4 DEF Slot, Hand, From
  <2>2. Slot(p)' = <<msgout[h]>> /\ Hand(p)' = <<>>
    BY <1>2, <1>3 DEF Slot, Hand, To
  <2>3. <<msgout[h]>> \in Seq(Items)
    BY <1>3
  <2>4. <<>> \o <<msgout[h]>> = <<msgout[h]>> \o <<>>
    BY <2>3, ConcatEmptySeq
  <2>5. Mail(p) = (Slot(p) \o Hand(p)) \o Rest(p) /\ Mail(p)' = (Slot(p)' \o Hand(p)') \o Rest(p)'
    BY DEF Mail, Slot, Hand, Rest
  <2> QED
    BY <1>7, <2>1, <2>2, <2>4, <2>5
<1> QED
  BY <1>2, <1>8, <1>9

(* The receiver takes the first message.                                   *)
LEMMA ClearTakes ==
  ASSUME TypeOK, Matching, Mails, NEW p \in Procs, Clear(p)
  PROVE  Abstract!Next
<1>1. /\ From(p, "clear") /\ hasMessage' = [hasMessage EXCEPT ![p] = FALSE]
      /\ got' = got \cup {ctx[p].msg} /\ UNCHANGED <<msgin, msgout, msgqueue>>
  BY Does
<1>2. /\ msgin \in [Procs -> Items] /\ hasMessage \in [Procs -> BOOLEAN]
      /\ hasMessage[p] /\ ctx[p].msg = msgin[p]
  BY <1>1 DEF TypeOK, Items, From, Mails, MailAt
<1>3. \A q \in Procs : Hand(q)' = Hand(q) /\ Rest(q)' = Rest(q)
  <2>1. Kernel(p) /\ ~Enqueue(p) /\ ~Dequeue(p) /\ ~Refill(p)
    BY <1>1, Does DEF Kernel, From
  <2> QED
    BY <2>1, HandsAndRests
<1>4. \A q \in Procs : q # p => Mail(q)' = Mail(q)
  <2>1. \A q \in Procs : q # p => Slot(q)' = Slot(q)
    BY <1>1, <1>2 DEF Slot
  <2> QED
    BY <2>1, <1>3, MailStays
<1>5. Slot(p) = <<msgin[p]>> /\ Slot(p)' = <<>> /\ Hand(p) = <<>>
  BY <1>1, <1>2 DEF Slot, Hand, From
<1>6. /\ Mail(p) = (Slot(p) \o Hand(p)) \o Rest(p) /\ Rest(p) \in Seq(Items)
      /\ Mail(p)' = (Slot(p)' \o Hand(p)') \o Rest(p)'
  BY PartsInSeq DEF Mail, Slot, Hand, Rest
<1>7. <<msgin[p]>> \o <<>> = <<msgin[p]>> /\ <<>> \o <<>> = <<>> /\ <<>> \o Rest(p) = Rest(p)
  <2>1. <<msgin[p]>> \in Seq(Items)
    BY <1>2
  <2> QED
    BY <1>6, <2>1, EmptySeq, ConcatEmptySeq
<1>8. Mail(p) = <<msgin[p]>> \o Rest(p) /\ Mail(p)' = Rest(p)
  BY <1>3, <1>5, <1>6, <1>7
<1>9. Mail(p) # <<>> /\ Head(Mail(p)) = msgin[p] /\ Tail(Mail(p)) = Rest(p)
  <2> DEFINE x == msgin[p]
             u == Rest(p)
  <2>1. x \in Items /\ u \in Seq(Items)
    BY <1>2, <1>6
  <2> HIDE DEF x, u
  <2>2. <<x>> \in Seq(Items) /\ Len(<<x>>) = 1 /\ <<x>>[1] = x
    BY <2>1
  <2>3. /\ <<x>> \o u \in Seq(Items) /\ Len(<<x>> \o u) = 1 + Len(u)
        /\ \A i \in 1 .. 1 + Len(u) : (<<x>> \o u)[i] = IF i <= 1 THEN <<x>>[i] ELSE u[i - 1]
    BY <2>1, <2>2, ConcatProperties
  <2>4. Len(u) \in Nat
    BY <2>1, LenProperties
  <2>5. <<x>> \o u # <<>> /\ Head(<<x>> \o u) = x
    BY <2>2, <2>3, <2>4
  <2>6. <<x>> \o u = <<x>> \o Tail(<<x>> \o u) /\ Tail(<<x>> \o u) \in Seq(Items)
    BY <2>3, <2>5, HeadThenTail, HeadTailProperties
  <2>7. Tail(<<x>> \o u) = u
    BY <2>1, <2>2, <2>6, ConcatSimplifications
  <2> QED
    BY <1>8, <2>5, <2>7 DEF x, u
<1> QED
  BY <1>1, <1>2, <1>4, <1>8, <1>9, Taken

(* The initial state.                                                      *)
LEMMA AbstractStart == Init => Abstract!Init
<1> SUFFICES ASSUME Init PROVE Abstract!Init
  OBVIOUS
<1>1. ASSUME NEW r \in Procs PROVE Mail(r) = <<>>
  <2>1. Slot(r) = <<>> /\ Hand(r) = <<>>
    BY DEF Init, User, Slot, Hand
  <2>2. Rest(r) = <<>>
    BY DEF Init, Rest
  <2>3. Mail(r) = (Slot(r) \o Hand(r)) \o Rest(r)
    BY DEF Mail, Slot, Hand, Rest
  <2>4. <<>> \o <<>> = <<>>
    BY EmptySeq, ConcatEmptySeq
  <2> QED
    BY <2>1, <2>2, <2>3, <2>4
<1>2. got = {}
  BY DEF Init
<1> QED
  BY <1>1, <1>2 DEF Abstract!Init

(* Every step is one of Mailboxes, or leaves the mailboxes alone.          *)
LEMMA AbstractStep ==
  ASSUME Guarded, Single, MailInv, [Next]_vars
  PROVE  Abstract!Next \/ ((\A q \in Procs : Mail(q)' = Mail(q)) /\ got' = got)
<1>0. TypeOK /\ Matching /\ Placement /\ Holder /\ Alone /\ Slots /\ Rooms /\ Mails /\ Fresh
  BY DEF MailInv, GuardInv, PlaceInv
<1>1. ASSUME NEW p \in Procs, Calling(p)
      PROVE  (\A q \in Procs : Mail(q)' = Mail(q)) /\ got' = got
  <2>1. /\ From(p, "user") /\ UNCHANGED <<box, got>> /\ ctx'[p].at \in {"acquire", "look"}
    BY <1>0, <1>1, CallingDoes DEF Begun
  <2>2. \A q \in Procs : ctx'[q] = ctx[q] \/ (ctx[q].at # "refill" /\ ctx'[q].at # "refill")
    BY <2>1 DEF From
  <2>3. \A q \in Procs : Slot(q)' = Slot(q) /\ Hand(q)' = Hand(q) /\ Rest(q)' = Rest(q)
    BY <2>1, <2>2 DEF Slot, Hand, Rest, box
  <2> QED
    BY <2>1, <2>3, MailStays
<1>2. ASSUME NEW p \in Procs, Kernel(p)
      PROVE  Abstract!Next \/ ((\A q \in Procs : Mail(q)' = Mail(q)) /\ got' = got)
  <2>1. CASE Flag(p)
    BY <1>0, <2>1, FlagPosts
  <2>2. CASE Enqueue(p)
    BY <1>0, <2>2, EnqueuePosts
  <2>3. CASE Clear(p)
    BY <1>0, <2>3, ClearTakes
  <2>4. CASE Refill(p)
    BY <1>0, <2>4, RefillStutters
  <2>5. CASE Dequeue(p) /\ msgqueue[p] # <<>>
    BY <1>0, <2>5, DequeueStutters
  <2> QED
    BY <1>0, <1>2, <2>1, <2>2, <2>3, <2>4, <2>5, KernelStutters
<1>3. ASSUME UNCHANGED <<box, ctx, got>>
      PROVE  (\A q \in Procs : Mail(q)' = Mail(q)) /\ got' = got
  <2>1. \A q \in Procs : Slot(q)' = Slot(q) /\ Hand(q)' = Hand(q) /\ Rest(q)' = Rest(q)
    BY <1>3 DEF Slot, Hand, Rest, box
  <2> QED
    BY <1>3, <2>1, MailStays
<1>4. ASSUME NEW c \in Cores, Preempt(c)
      PROVE  (\A q \in Procs : Mail(q)' = Mail(q)) /\ got' = got
  BY <1>3, <1>4 DEF Preempt
<1>5. ASSUME UNCHANGED vars \/ Stopped \/ \E p \in Procs : Meet(p)
      PROVE  (\A q \in Procs : Mail(q)' = Mail(q)) /\ got' = got
  BY <1>3, <1>5, Halts
<1>6. CASE \E p \in Procs : Calling(p) \/ Kernel(p)
  BY <1>1, <1>2, <1>6
<1>7. CASE \E c \in Cores : Preempt(c)
  BY <1>4, <1>7
<1> QED
  BY <1>5, <1>6, <1>7 DEF Next

(* No message is lost, received twice, or overtaken by one that was        *)
(* posted to the same process later, however the calls of the processes    *)
(* interleave (send.c, sendnow.c, recv.c, recvnow.c).                      *)
THEOREM Delivery == ASSUME Guarded, Single PROVE Spec => MailDelivered
<1>1. Init => Abstract!Init
  BY AbstractStart
<1>2. MailInv /\ [Next]_vars => [Abstract!Next]_<<[r \in Procs |-> Mail(r)], got>>
  <2> SUFFICES ASSUME MailInv, [Next]_vars, ~Abstract!Next
               PROVE  UNCHANGED <<[r \in Procs |-> Mail(r)], got>>
    OBVIOUS
  <2>1. (\A q \in Procs : Mail(q)' = Mail(q)) /\ got' = got
    BY AbstractStep
  <2> QED
    BY <2>1
<1> QED
  BY <1>1, <1>2, MailInvariance, PTL DEF Spec, MailDelivered, Abstract!Spec
=============================================================================
