----------------------------- MODULE QueueProofs -----------------------------
(***************************************************************************)
(* Theorems about Queue, for any number of cores, processes and queues:    *)
(* its type invariant and the mutual exclusion of its locks; and, where    *)
(* every queue has a lock, the shape of the linked lists while cores work  *)
(* on them (Shape), what follows from it, and that the queues implement    *)
(* ProcessQueues.                                                          *)
(***************************************************************************)
EXTENDS Queue, WellFoundedInduction, FiniteSetTheorems, SequenceTheorems, TLAPS

(* Only a head has no predecessor, so a walk that ends has found a head.   *)
HeadsOnly == \A e \in Entries : prev[e] = EMPTY => \E q \in Queues : e = queuehead(q)

(* What a core has in its frame f at a point of an operation.              *)
FrameOK(label, f) ==
  /\ label \in Links \cup {"acquire"} => f.q \in Queues
  /\ label \in Links \ {"deq_first"} => f.pid \in Procs
  /\ label = "acquire" => /\ f.op # "none"
                          /\ f.op # "dequeue" => f.pid \in Procs
  /\ label = "walk" => /\ f.q = EMPTY /\ f.op = "remove"
                       /\ f.pid \in Procs
                       /\ f.temp \in Entries /\ prev[f.temp] # EMPTY

FramesOK == \A c \in Cores : FrameOK(pc[c], frame[c])

LinksOK ==
  /\ next \in [Entries -> Entries \cup {EMPTY}]
  /\ prev \in [Entries -> Entries \cup {EMPTY}]
  /\ \A p \in Procs : next[p] # EMPTY /\ prev[p] # EMPTY
  /\ \A q \in Queues : next[queuehead(q)] # EMPTY /\ prev[queuetail(q)] # EMPTY
  /\ HeadsOnly

IInv == TypeOK /\ HeadsOnly /\ FramesOK /\ MutualExclusion

LEMMA Numbers ==
  /\ NCORES \in Nat /\ NPROC \in Nat /\ NQUEUES \in Nat
  /\ Procs \subseteq Entries
  /\ \A q \in Queues : /\ queuehead(q) \in Entries \ Procs
                       /\ queuetail(q) \in Entries \ Procs
                       /\ QueueOf(queuehead(q)) = q
                       /\ \A r \in Queues : queuetail(q) # queuehead(r)
  /\ EMPTY \notin Entries /\ EMPTY \notin Queues /\ SYSERR \notin Procs
  /\ NONE \notin Cores
BY QueueAssumption
   DEF Procs, Entries, NQENT, Queues, queuehead, queuetail, QueueOf, EMPTY, SYSERR, NONE, Cores

LEMMA InitType == Init => IInv
<1> SUFFICES ASSUME Init PROVE IInv
  OBVIOUS
<1>1. LinksOK
  BY Numbers DEF Init, LinksOK, HeadsOnly, QueueOf, queuehead, queuetail, Entries, Procs, Queues, NQENT, EMPTY
<1>2. NoFrame \in Frames
  <2>1. 0 \in 0 .. NQENT
    BY Numbers DEF NQENT
  <2> QED
    BY <2>1 DEF Frames, NoFrame
<1>3. TypeOK
  BY <1>1, <1>2 DEF Init, TypeOK, LinksOK, Labels
<1>4. FramesOK
  BY DEF Init, FramesOK, FrameOK, Links
<1>5. MutualExclusion
  BY Numbers DEF Init, MutualExclusion, Inside, Links, NoFrame
<1> QED
  BY <1>1, <1>3, <1>4, <1>5 DEF IInv, LinksOK

-----------------------------------------------------------------------------
(* A step of core c that stores to no link.                                *)
LEMMA CallStep ==
  ASSUME IInv, NEW c \in Cores, NEW l \in Labels, NEW f \in Frames,
         UNCHANGED links,
         pc' = [pc EXCEPT ![c] = l], frame' = [frame EXCEPT ![c] = f],
         FrameOK(l, f),
         lock' \in [Queues -> Cores \cup {NONE}], held' \in [Procs -> Cores \cup {NONE}],
         MutualExclusion'
  PROVE  IInv'
<1>1. TypeOK'
  BY DEF IInv, TypeOK, links
<1>2. HeadsOnly'
  BY DEF IInv, HeadsOnly, links
<1>3. FramesOK'
  <2> SUFFICES ASSUME NEW d \in Cores PROVE FrameOK(pc[d], frame[d])'
    BY DEF FramesOK
  <2>1. CASE d = c
    <3>1. pc'[d] = l /\ frame'[d] = f
      BY <2>1 DEF IInv, TypeOK
    <3> QED
      BY <3>1 DEF FrameOK, links
  <2>2. CASE d # c
    <3>1. pc'[d] = pc[d] /\ frame'[d] = frame[d] /\ FrameOK(pc[d], frame[d])
      BY <2>2 DEF IInv, TypeOK, FramesOK
    <3> QED
      BY <3>1 DEF FrameOK, links
  <2> QED
    BY <2>1, <2>2
<1> QED
  BY <1>1, <1>2, <1>3 DEF IInv

(* No lock changes hands when core c alone moves and stays outside or      *)
(* inside of its queue.                                                    *)
LEMMA SameInside ==
  ASSUME IInv, NEW c \in Cores, NEW l \in Labels, NEW f \in Frames,
         pc' = [pc EXCEPT ![c] = l], frame' = [frame EXCEPT ![c] = f], UNCHANGED lock,
         \/ l \notin Links \cup {"release"} \/ f.q = EMPTY
         \/ pc[c] \in Links \cup {"release"} /\ f.q = frame[c].q
  PROVE  MutualExclusion'
<1> SUFFICES ASSUME NEW q \in Queues, HasLock(q), NEW d \in Cores, d \in Inside(q)'
             PROVE  lock[q] = d
  BY DEF MutualExclusion, Inside, HasLock
<1>1. d \in Inside(q)
  <2>1. CASE d = c
    <3>1. pc'[c] = l /\ frame'[c] = f
      BY DEF IInv, TypeOK
    <3> QED
      BY <2>1, <3>1, Numbers DEF Inside
  <2>2. CASE d # c
    BY <2>2 DEF Inside, IInv, TypeOK
  <2> QED
    BY <2>1, <2>2
<1> QED
  BY <1>1 DEF IInv, MutualExclusion

(* A step of core c that stores to links.                                  *)
LEMMA LinkStep ==
  ASSUME IInv, NEW c \in Cores, NEW l \in Links \cup {"release"},
         UNCHANGED <<lock, held, frame>>,
         pc' = [pc EXCEPT ![c] = l],
         pc[c] \in Links \ {"deq_first"}, LinksOK',
         \A e \in Entries : prev[e] # EMPTY => prev'[e] # EMPTY
  PROVE  IInv'
<1>1. pc' \in [Cores -> Labels]
  BY DEF IInv, TypeOK, Labels
<1>2. TypeOK'
  BY <1>1 DEF IInv, TypeOK, LinksOK
<1>3. HeadsOnly'
  BY DEF LinksOK
<1>4. FramesOK'
  <2> SUFFICES ASSUME NEW d \in Cores PROVE FrameOK(pc[d], frame[d])'
    BY DEF FramesOK
  <2>1. FrameOK(pc[d], frame[d])
    BY DEF IInv, FramesOK
  <2>2. CASE d = c
    <3>1. pc'[d] = l /\ frame'[d] = frame[d]
      BY <2>2 DEF IInv, TypeOK
    <3>2. frame[d].q \in Queues /\ frame[d].pid \in Procs
      BY <2>1, <2>2 DEF FrameOK
    <3>3. l # "acquire" /\ l # "walk"
      BY DEF Links
    <3> QED
      BY <3>1, <3>2, <3>3 DEF FrameOK
  <2>3. CASE d # c
    <3>1. pc'[d] = pc[d] /\ frame'[d] = frame[d]
      BY <2>3 DEF IInv, TypeOK
    <3> QED
      BY <2>1, <3>1 DEF FrameOK
  <2> QED
    BY <2>2, <2>3
<1>5. MutualExclusion'
  <2> SUFFICES ASSUME NEW q \in Queues, HasLock(q), NEW d \in Cores, d \in Inside(q)'
               PROVE  lock[q] = d
    BY DEF MutualExclusion, Inside, HasLock
  <2>1. d \in Inside(q)
    BY DEF Inside, IInv, TypeOK
  <2> QED
    BY <2>1 DEF IInv, MutualExclusion
<1> QED
  BY <1>2, <1>3, <1>4, <1>5 DEF IInv

-----------------------------------------------------------------------------
LEMMA NoFrameFits == NoFrame \in Frames /\ NoFrame.q = EMPTY
<1>1. 0 \in 0 .. NQENT
  BY Numbers DEF NQENT
<1> QED
  BY <1>1 DEF Frames, NoFrame

LEMMA StartKeeps ==
  ASSUME IInv, NEW c \in Cores, NEW op \in {"enqueue", "dequeue"}, NEW q \in Queues,
         NEW pid \in Procs \cup {EMPTY},
         op = "enqueue" => pid \in Procs,
         Start(c, op, q, pid), held' \in [Procs -> Cores \cup {NONE}]
  PROVE  IInv'
<1> DEFINE f == [NoFrame EXCEPT !.op = op, !.q = q, !.pid = pid]
<1>1. /\ f \in Frames /\ f.op = op /\ f.q = q /\ f.pid = pid
  BY NoFrameFits DEF Frames, NoFrame
<1>2. /\ frame' = [frame EXCEPT ![c] = f] /\ pc' = [pc EXCEPT ![c] = "acquire"]
      /\ UNCHANGED <<links, lock>>
  BY DEF Start, Goto
<1> HIDE DEF f
<1>3. FrameOK("acquire", f)
  BY <1>1 DEF FrameOK, Links
<1>4. "acquire" \in Labels /\ "acquire" \notin Links \cup {"release"}
  BY DEF Labels, Links
<1>5. MutualExclusion'
  BY <1>1, <1>2, <1>4, SameInside
<1>6. lock' \in [Queues -> Cores \cup {NONE}]
  BY <1>2 DEF IInv, TypeOK
<1> QED
  BY <1>1, <1>2, <1>3, <1>4, <1>5, <1>6, CallStep

LEMMA CallKeeps == ASSUME IInv, NEW c \in Cores, Call(c) PROVE IInv'
<1>1. CASE \E pid \in Procs, q \in Queues : Enqueue(c, pid, q)
  <2> PICK pid \in Procs, q \in Queues : Enqueue(c, pid, q)
    BY <1>1
  <2>1. held' \in [Procs -> Cores \cup {NONE}]
    BY DEF Enqueue, IInv, TypeOK
  <2> QED
    BY <2>1, StartKeeps DEF Enqueue
<1>2. CASE \E q \in Queues : Dequeue(c, q)
  <2> PICK q \in Queues : Dequeue(c, q)
    BY <1>2
  <2>1. held' \in [Procs -> Cores \cup {NONE}]
    BY DEF Dequeue, IInv, TypeOK
  <2> QED
    BY <2>1, StartKeeps DEF Dequeue
<1>3. CASE \E pid \in Procs : Remove(c, pid)
  <2> PICK pid \in Procs : Remove(c, pid)
    BY <1>3
  <2> DEFINE f == [NoFrame EXCEPT !.op = "remove", !.pid = pid, !.temp = pid]
  <2>1. /\ f \in Frames /\ f.op = "remove" /\ f.q = EMPTY /\ f.pid = pid /\ f.temp = pid
    BY NoFrameFits, Numbers DEF Frames, NoFrame
  <2>2. /\ frame' = [frame EXCEPT ![c] = f] /\ pc' = [pc EXCEPT ![c] = "walk"]
        /\ UNCHANGED <<links, lock, held>>
    BY DEF Remove, Goto
  <2> HIDE DEF f
  <2>3. prev[pid] # EMPTY /\ pid \in Entries
    BY Numbers DEF IInv, TypeOK
  <2>4. FrameOK("walk", f)
    BY <2>1, <2>3 DEF FrameOK, Links
  <2>5. "walk" \in Labels
    BY DEF Labels
  <2>6. MutualExclusion'
    BY <2>1, <2>2, <2>5, SameInside
  <2>7. lock' \in [Queues -> Cores \cup {NONE}] /\ held' \in [Procs -> Cores \cup {NONE}]
    BY <2>2 DEF IInv, TypeOK
  <2> QED
    BY <2>1, <2>2, <2>4, <2>5, <2>6, <2>7, CallStep
<1> QED
  BY <1>1, <1>2, <1>3 DEF Call

LEMMA WalkKeeps == ASSUME IInv, NEW c \in Cores, Walk(c) PROVE IInv'
<1> DEFINE old == frame[c]
           back == prev[old.temp]
<1>1. /\ old \in Frames /\ old.q = EMPTY /\ old.op = "remove" /\ old.pid \in Procs
      /\ old.temp \in Entries /\ back \in Entries
  BY DEF Walk, At, IInv, TypeOK, FramesOK, FrameOK
<1>2. UNCHANGED <<links, lock, held>>
  BY DEF Walk
<1>3. lock' \in [Queues -> Cores \cup {NONE}] /\ held' \in [Procs -> Cores \cup {NONE}]
  BY <1>2 DEF IInv, TypeOK
<1>4. old.steps \in Nat /\ NQENT \in Nat
  BY <1>1, Numbers DEF Frames, NQENT
<1>5. CASE old.steps + 1 >= NQENT
  <2> DEFINE f == [old EXCEPT !.pid = SYSERR]
  <2>1. f \in Frames /\ f.q = EMPTY
    BY <1>1 DEF Frames
  <2>2. frame' = [frame EXCEPT ![c] = f] /\ pc' = [pc EXCEPT ![c] = "release"]
    BY <1>5 DEF Walk, Goto
  <2> HIDE DEF f
  <2>3. FrameOK("release", f) /\ "release" \in Labels
    BY DEF FrameOK, Links, Labels
  <2>4. MutualExclusion'
    BY <1>2, <2>1, <2>2, <2>3, SameInside
  <2> QED
    BY <1>2, <1>3, <2>1, <2>2, <2>3, <2>4, CallStep
<1>6. CASE ~(old.steps + 1 >= NQENT) /\ prev[back] = EMPTY
  <2> DEFINE f == [old EXCEPT !.temp = back, !.q = QueueOf(back)]
  <2>1. QueueOf(back) \in Queues
    BY <1>1, <1>6, Numbers DEF IInv, HeadsOnly
  <2>2. f \in Frames /\ f.q \in Queues /\ f.op = "remove" /\ f.pid \in Procs
    BY <1>1, <2>1 DEF Frames
  <2>3. frame' = [frame EXCEPT ![c] = f] /\ pc' = [pc EXCEPT ![c] = "acquire"]
    BY <1>6 DEF Walk, Goto
  <2> HIDE DEF f
  <2>4. FrameOK("acquire", f) /\ "acquire" \in Labels /\ "acquire" \notin Links \cup {"release"}
    BY <2>2 DEF FrameOK, Links, Labels
  <2>5. MutualExclusion'
    BY <1>2, <2>2, <2>3, <2>4, SameInside
  <2> QED
    BY <1>2, <1>3, <2>2, <2>3, <2>4, <2>5, CallStep
<1>7. CASE ~(old.steps + 1 >= NQENT) /\ prev[back] # EMPTY
  <2> DEFINE f == [old EXCEPT !.temp = back, !.steps = old.steps + 1]
  <2>1. old.steps + 1 \in 0 .. NQENT
    BY <1>4, <1>7
  <2>2. /\ f \in Frames /\ f.q = EMPTY /\ f.op = "remove" /\ f.pid \in Procs
        /\ f.temp = back
    BY <1>1, <2>1 DEF Frames
  <2>3. frame' = [frame EXCEPT ![c] = f] /\ pc' = [pc EXCEPT ![c] = "walk"]
    BY <1>7 DEF Walk, Goto
  <2> HIDE DEF f
  <2>4. FrameOK("walk", f) /\ "walk" \in Labels
    BY <1>1, <1>7, <2>2 DEF FrameOK, Links, Labels
  <2>5. MutualExclusion'
    BY <1>2, <2>2, <2>3, <2>4, SameInside
  <2> QED
    BY <1>2, <1>3, <2>2, <2>3, <2>4, <2>5, CallStep
<1> QED
  BY <1>5, <1>6, <1>7

LEMMA AcquireKeeps == ASSUME IInv, NEW c \in Cores, Acquire(c) PROVE IInv'
<1> DEFINE q == frame[c].q
           l == Body(frame[c].op)
<1>1. /\ frame[c] \in Frames /\ q \in Queues /\ frame[c].op \in {"enqueue", "dequeue", "remove"}
      /\ frame[c].op # "dequeue" => frame[c].pid \in Procs
  BY DEF Acquire, At, IInv, TypeOK, FramesOK, FrameOK, Frames
<1>2. /\ l \in Links /\ l \in Labels /\ l # "acquire" /\ l # "walk"
      /\ l # "deq_first" => frame[c].op # "dequeue"
  BY <1>1 DEF Body, Links, Labels
<1>3. /\ pc' = [pc EXCEPT ![c] = l] /\ UNCHANGED <<links, held, frame>>
      /\ frame' = [frame EXCEPT ![c] = frame[c]]
  BY DEF Acquire, Goto, IInv, TypeOK
<1>4. lock' \in [Queues -> Cores \cup {NONE}] /\ held' \in [Procs -> Cores \cup {NONE}]
  BY <1>1, <1>3 DEF Acquire, IInv, TypeOK
<1>5. FrameOK(l, frame[c])
  BY <1>1, <1>2 DEF FrameOK
<1>6. MutualExclusion'
  <2> SUFFICES ASSUME NEW r \in Queues, HasLock(r), NEW d \in Cores, d \in Inside(r)'
               PROVE  lock'[r] = d
    BY DEF MutualExclusion, Inside, HasLock
  <2>1. CASE d = c
    <3>1. r = q
      BY <1>3, <2>1 DEF Inside
    <3> QED
      BY <1>1, <2>1, <3>1 DEF Acquire, IInv, TypeOK
  <2>2. CASE d # c
    <3>1. d \in Inside(r)
      BY <1>3, <2>2 DEF Inside, IInv, TypeOK
    <3>2. lock[r] = d
      BY <3>1 DEF IInv, MutualExclusion
    <3>3. r # q
      BY <3>2, Numbers DEF Acquire
    <3> QED
      BY <1>1, <3>2, <3>3 DEF Acquire, IInv, TypeOK
  <2> QED
    BY <2>1, <2>2
<1> HIDE DEF l, q
<1> QED
  BY <1>1, <1>2, <1>3, <1>4, <1>5, <1>6, CallStep

LEMMA ReleaseKeeps == ASSUME IInv, NEW c \in Cores, Release(c) PROVE IInv'
<1> DEFINE q == frame[c].q
<1>1. /\ frame' = [frame EXCEPT ![c] = NoFrame] /\ pc' = [pc EXCEPT ![c] = "idle"]
      /\ UNCHANGED links
  BY DEF Release, Goto
<1>2. lock' \in [Queues -> Cores \cup {NONE}] /\ held' \in [Procs -> Cores \cup {NONE}]
  BY DEF Release, IInv, TypeOK
<1>3. FrameOK("idle", NoFrame) /\ "idle" \in Labels
  BY DEF FrameOK, Links, Labels
<1>4. MutualExclusion'
  <2> SUFFICES ASSUME NEW r \in Queues, HasLock(r), NEW d \in Cores, d \in Inside(r)'
               PROVE  lock'[r] = d
    BY DEF MutualExclusion, Inside, HasLock
  <2>1. d # c
    BY <1>1 DEF Inside, Links, IInv, TypeOK
  <2>2. d \in Inside(r)
    BY <1>1, <2>1 DEF Inside, IInv, TypeOK
  <2>3. lock[r] = d
    BY <2>2 DEF IInv, MutualExclusion
  <2>4. CASE q = r
    <3>1. c \in Inside(r)
      BY <2>4 DEF Release, At, Inside
    <3> QED
      BY <2>1, <2>3, <3>1 DEF IInv, MutualExclusion
  <2>5. CASE q # r
    BY <2>3, <2>5 DEF Release, IInv, TypeOK
  <2> QED
    BY <2>4, <2>5
<1> QED
  BY <1>1, <1>2, <1>3, <1>4, NoFrameFits, CallStep

LEMMA DequeueFirstKeeps == ASSUME IInv, NEW c \in Cores, DequeueFirst(c) PROVE IInv'
<1> DEFINE old   == frame[c]
           first == next[queuehead(old.q)]
<1>1. old \in Frames /\ old.q \in Queues /\ pc[c] \in Links
  BY DEF DequeueFirst, At, IInv, TypeOK, FramesOK, FrameOK, Links
<1>2. first \in Entries
  BY <1>1, Numbers DEF IInv, TypeOK
<1>3. UNCHANGED <<links, lock, held>>
  BY DEF DequeueFirst
<1>4. lock' \in [Queues -> Cores \cup {NONE}] /\ held' \in [Procs -> Cores \cup {NONE}]
  BY <1>3 DEF IInv, TypeOK
<1>5. CASE first < NPROC
  <2> DEFINE f == [old EXCEPT !.pid = first]
  <2>1. first \in Procs
    BY <1>2, <1>5, Numbers DEF Procs, Entries
  <2>2. f \in Frames /\ f.q = old.q /\ f.pid \in Procs
    BY <1>1, <2>1 DEF Frames
  <2>3. frame' = [frame EXCEPT ![c] = f] /\ pc' = [pc EXCEPT ![c] = "deq_unlink"]
    BY <1>5 DEF DequeueFirst, Goto
  <2> HIDE DEF f
  <2>4. FrameOK("deq_unlink", f) /\ "deq_unlink" \in Labels
    BY <1>1, <2>2 DEF FrameOK, Links, Labels
  <2>5. MutualExclusion'
    BY <1>1, <1>3, <2>2, <2>3, <2>4, SameInside
  <2> QED
    BY <1>3, <1>4, <2>2, <2>3, <2>4, <2>5, CallStep
<1>6. CASE ~(first < NPROC)
  <2>1. frame' = [frame EXCEPT ![c] = old] /\ pc' = [pc EXCEPT ![c] = "release"]
    BY <1>6 DEF DequeueFirst, Goto, IInv, TypeOK
  <2>2. FrameOK("release", old) /\ "release" \in Labels
    BY DEF FrameOK, Links, Labels
  <2> HIDE DEF old
  <2>3. MutualExclusion'
    BY <1>1, <1>3, <2>1, <2>2, SameInside DEF old
  <2> QED
    BY <1>1, <1>3, <1>4, <2>1, <2>2, <2>3, CallStep
<1> QED
  BY <1>5, <1>6

-----------------------------------------------------------------------------
(* Any store of an entry, EMPTY excepted, keeps the links in order.        *)
LEMMA StoreKeepsLinks ==
  ASSUME IInv,
         next' \in [Entries -> Entries \cup {EMPTY}],
         prev' \in [Entries -> Entries \cup {EMPTY}],
         \A e \in Entries : next[e] # EMPTY => next'[e] # EMPTY,
         \A e \in Entries : prev[e] # EMPTY => prev'[e] # EMPTY
  PROVE  LinksOK'
<1>1. \A p \in Procs : next'[p] # EMPTY /\ prev'[p] # EMPTY
  BY Numbers DEF IInv, TypeOK
<1>2. \A q \in Queues : next'[queuehead(q)] # EMPTY /\ prev'[queuetail(q)] # EMPTY
  BY Numbers DEF IInv, TypeOK
<1>3. HeadsOnly'
  BY DEF IInv, HeadsOnly, queuehead, Queues, Entries, NQENT
<1> QED
  BY <1>1, <1>2, <1>3 DEF LinksOK, queuehead, queuetail, Queues, Procs, Entries, NQENT

(* What a core has before it when it stores to a link.                     *)
LEMMA StoreArguments ==
  ASSUME IInv, NEW c \in Cores, pc[c] \in Links \ {"deq_first"}
  PROVE  /\ frame[c].pid \in Procs /\ frame[c].pid \in Entries
         /\ frame[c].q \in Queues /\ queuetail(frame[c].q) \in Entries
         /\ next[frame[c].pid] \in Entries /\ prev[frame[c].pid] \in Entries
         /\ prev[queuetail(frame[c].q)] \in Entries
<1>1. frame[c].pid \in Procs /\ frame[c].q \in Queues
  BY DEF IInv, FramesOK, FrameOK
<1> QED
  BY <1>1, Numbers DEF IInv, TypeOK

LEMMA StoresKeep ==
  ASSUME IInv, NEW c \in Cores,
         \/ EnqueueSelf(c) \/ EnqueueLink(c) \/ EnqueueTail(c)
         \/ DequeueUnlink(c) \/ DequeueBack(c) \/ DequeueSelf(c)
         \/ RemoveUnlink(c) \/ RemoveBack(c)
  PROVE  IInv'
<1>1. pc[c] \in Links \ {"deq_first"}
  BY DEF EnqueueSelf, EnqueueLink, EnqueueTail, DequeueUnlink, DequeueBack, DequeueSelf,
         RemoveUnlink, RemoveBack, At, Links
<1>2. PICK l \in Links \cup {"release"} : pc' = [pc EXCEPT ![c] = l]
  BY DEF EnqueueSelf, EnqueueLink, EnqueueTail, DequeueUnlink, DequeueBack, DequeueSelf,
         RemoveUnlink, RemoveBack, Goto, Links
<1>3. UNCHANGED <<lock, held, frame>>
  BY DEF EnqueueSelf, EnqueueLink, EnqueueTail, DequeueUnlink, DequeueBack, DequeueSelf,
         RemoveUnlink, RemoveBack
<1>4. /\ next' \in [Entries -> Entries \cup {EMPTY}]
      /\ \A e \in Entries : next[e] # EMPTY => next'[e] # EMPTY
  <2>1. \/ UNCHANGED next
        \/ \E e, v \in Entries : next' = [next EXCEPT ![e] = v]
    BY <1>1, StoreArguments
       DEF EnqueueSelf, EnqueueLink, EnqueueTail, DequeueUnlink, DequeueBack, DequeueSelf,
           RemoveUnlink, RemoveBack
  <2> QED
    BY <2>1, Numbers DEF IInv, TypeOK
<1>5. /\ prev' \in [Entries -> Entries \cup {EMPTY}]
      /\ \A e \in Entries : prev[e] # EMPTY => prev'[e] # EMPTY
  BY <1>1, StoreArguments, Numbers
     DEF EnqueueSelf, EnqueueLink, EnqueueTail, DequeueUnlink, DequeueBack, DequeueSelf,
         RemoveUnlink, RemoveBack, IInv, TypeOK
<1>6. LinksOK'
  BY <1>4, <1>5, StoreKeepsLinks
<1> QED
  BY <1>1, <1>2, <1>3, <1>5, <1>6, LinkStep

-----------------------------------------------------------------------------
LEMMA NextIInv == IInv /\ [Next]_vars => IInv'
<1> SUFFICES ASSUME IInv, [Next]_vars PROVE IInv'
  OBVIOUS
<1>1. CASE UNCHANGED vars
  BY <1>1 DEF vars, links, IInv, TypeOK, HeadsOnly, FramesOK, FrameOK, MutualExclusion, Inside
<1>2. CASE Next
  <2> PICK c \in Cores : Call(c) \/ Step(c)
    BY <1>2 DEF Next
  <2> QED
    BY CallKeeps, WalkKeeps, AcquireKeeps, ReleaseKeeps, DequeueFirstKeeps, StoresKeep DEF Step
<1> QED
  BY <1>1, <1>2

LEMMA Invariance == Spec => []IInv
<1>1. Init => IInv
  BY InitType
<1>2. IInv /\ [Next]_vars => IInv'
  BY NextIInv
<1> QED
  BY <1>1, <1>2, PTL DEF Spec

(* The links stay within queuetab, the store through a link never hits     *)
(* EMPTY, and a walk that meets the end of a list has met a queue's head.  *)
THEOREM QueueTypeCorrect == Spec => []TypeOK
<1>1. IInv => TypeOK
  BY DEF IInv
<1> QED
  BY <1>1, Invariance, PTL

(* lock_acquire and lock_release of queue.c keep all but one core out of   *)
(* every queue that has a lock, whatever the other queues do.              *)
THEOREM QueueMutualExclusion == Spec => []MutualExclusion
<1>1. IInv => MutualExclusion
  BY DEF IInv
<1> QED
  BY <1>1, Invariance, PTL

-----------------------------------------------------------------------------
(* newqueue got a lock for every queue (QueueUnlocked.cfg is the case in   *)
(* which it did not).                                                      *)
AllLocked == \A q \in Queues : HasLock(q)

(* The entries of q from its head, 0, to its tail when it holds the        *)
(* processes s[q].                                                         *)
Cell(s, q, i) == IF i = 0 THEN queuehead(q)
                 ELSE IF i = Len(s[q]) + 1 THEN queuetail(q) ELSE s[q][i]

(* Process p is in q.                                                      *)
In(s, q, p) == \E i \in 1 .. Len(s[q]) : s[q][i] = p

(* No process is in two places.                                            *)
Apart(s) ==
  \A q, r \in Queues : \A i \in 1 .. Len(s[q]), j \in 1 .. Len(s[r]) :
    s[q][i] = s[r][j] => q = r /\ i = j

(* The next links of q lead through its processes in order.                *)
ForwardAt(s, q) == \A i \in 0 .. Len(s[q]) : next[Cell(s, q, i)] = Cell(s, q, i + 1)

(* The one link back of q that the core inside of it has still to store.   *)
Stale(s, q, i) ==
  \E c \in Cores :
    /\ frame[c].q = q
    /\ \/ pc[c] = "enq_tail" /\ i = Len(s[q]) + 1
       \/ pc[c] \in {"deq_back", "rem_back"} /\ Cell(s, q, i) = next[frame[c].pid]

(* Every other prev link of q leads back.                                  *)
BackwardAt(s, q) ==
  \A i \in 1 .. Len(s[q]) + 1 : Stale(s, q, i) \/ prev[Cell(s, q, i)] = Cell(s, q, i - 1)

(* Core c has a process in hand that is in no queue: not yet linked in, or *)
(* just unlinked.                                                          *)
Loose(c) ==
  \/ frame[c].op = "enqueue" /\ pc[c] \in {"acquire", "enq_self", "enq_link"}
  \/ /\ frame[c].op \in {"dequeue", "remove"}
     /\ pc[c] \in {"deq_back", "deq_self", "rem_back", "release"}
     /\ frame[c].pid # EMPTY

(* A process in hand is nobody else's.                                     *)
HandsOK ==
  \A c \in Cores : Loose(c) =>
    /\ frame[c].pid \in Procs
    /\ held[frame[c].pid] = NONE
    /\ \A d \in Cores : Loose(d) /\ frame[d].pid = frame[c].pid => d = c

(* The processes without a core are those in a queue or in hand.           *)
Owned(s) ==
  /\ \A q \in Queues, p \in Procs : In(s, q, p) =>
       held[p] = NONE /\ \A c \in Cores : Loose(c) => frame[c].pid # p
  /\ \A p \in Procs : held[p] = NONE =>
       \/ \E q \in Queues : In(s, q, p)
       \/ \E c \in Cores : Loose(c) /\ frame[c].pid = p

(* What the frame f of core c says of its call at a label.                 *)
CallKnows(label, f, c) ==
  /\ label \in {"enq_self", "enq_link", "enq_tail"} => f.op = "enqueue"
  /\ label \in {"deq_first", "deq_unlink", "deq_back", "deq_self"} => f.op = "dequeue"
  /\ label \in {"walk", "rem_unlink", "rem_back"} => f.op = "remove"
  /\ label \in {"acquire", "release"} => f.op # "none" /\ f.q \in Queues
  /\ label # "idle" /\ f.op = "dequeue" => c \in Takers[f.q]
  /\ label \notin {"idle", "walk"} /\ f.op = "remove" => Takers[f.q] = {c}
  /\ label = "release" =>
       \/ f.pid \in Procs
       \/ f.op = "dequeue" /\ f.pid = EMPTY
  /\ label \in {"acquire", "deq_first"} /\ f.op = "dequeue" => f.pid = EMPTY

(* What core c knows at a label of the processes in the queues.            *)
ListKnows(s, label, f, c) ==
  /\ label = "walk" => \E q \in Queues :
       /\ Takers[q] = {c}
       /\ \E i, j \in 1 .. Len(s[q]) :
            j <= i /\ s[q][i] = f.pid /\ s[q][j] = f.temp /\ f.steps = i - j
  /\ label \in {"acquire", "rem_unlink"} /\ f.op = "remove" => In(s, f.q, f.pid)
  /\ label = "deq_unlink" => s[f.q] # <<>> /\ s[f.q][1] = f.pid
  /\ label = "enq_tail" => s[f.q] # <<>> /\ s[f.q][Len(s[f.q])] = f.pid

(* What core c knows at a label of the links of the process it handles.    *)
LinkKnows(s, label, f) ==
  /\ label = "enq_link" => next[f.pid] = queuetail(f.q) /\ prev[f.pid] = prev[queuetail(f.q)]
  /\ label \in {"deq_back", "rem_back"} =>
       \E i \in 1 .. Len(s[f.q]) + 1 :
         next[f.pid] = Cell(s, f.q, i) /\ prev[f.pid] = Cell(s, f.q, i - 1)

(* All that core c knows where it is.                                      *)
Knows(s, c) == /\ CallKnows(pc[c], frame[c], c)
               /\ ListKnows(s, pc[c], frame[c], c)
               /\ LinkKnows(s, pc[c], frame[c])

(* The inductive invariant: the queues hold s, all their next links lead   *)
(* through it in order, and a prev link disagrees only while a core inside *)
(* of the queue has still to store it.                                     *)
Shape(s) ==
  /\ s \in [Queues -> Seq(Procs)]
  /\ Apart(s)
  /\ \A q \in Queues : /\ ForwardAt(s, q) /\ BackwardAt(s, q)
                        /\ prev[queuehead(q)] = EMPTY
  /\ Owned(s) /\ HandsOK
  /\ \A c \in Cores : Knows(s, c)

-----------------------------------------------------------------------------
(* The cells of a queue are its head, its processes and its tail.          *)
LEMMA Cells ==
  ASSUME NEW s \in [Queues -> Seq(Procs)], NEW q \in Queues
  PROVE  /\ Len(s[q]) \in Nat /\ s[q] \in [1 .. Len(s[q]) -> Procs]
         /\ Cell(s, q, 0) = queuehead(q) /\ Cell(s, q, Len(s[q]) + 1) = queuetail(q)
         /\ \A i \in 1 .. Len(s[q]) : Cell(s, q, i) = s[q][i] /\ Cell(s, q, i) \in Procs
         /\ \A i \in 0 .. Len(s[q]) + 1 : Cell(s, q, i) \in Entries
<1>1. s[q] \in Seq(Procs)
  OBVIOUS
<1> DEFINE t == s[q]
<1>2. Len(t) \in Nat /\ t \in [1 .. Len(t) -> Procs]
  BY <1>1
<1>3. /\ Cell(s, q, 0) = queuehead(q) /\ Cell(s, q, Len(t) + 1) = queuetail(q)
      /\ \A i \in 1 .. Len(t) : Cell(s, q, i) = t[i]
  BY <1>2 DEF Cell
<1> HIDE DEF t
<1>4. \A i \in 1 .. Len(t) : t[i] \in Procs
  BY <1>2
<1>5. ASSUME NEW i \in 0 .. Len(t) + 1 PROVE Cell(s, q, i) \in Entries
  <2>1. i = 0 \/ i = Len(t) + 1 \/ i \in 1 .. Len(t)
    BY <1>2
  <2> QED
    BY <2>1, <1>3, <1>4, Numbers
<1> QED
  BY <1>2, <1>3, <1>4, <1>5 DEF t

(* No entry is two cells.                                                  *)
LEMMA CellsApart ==
  ASSUME NEW s \in [Queues -> Seq(Procs)], Apart(s), NEW q \in Queues, NEW r \in Queues,
         NEW i \in 0 .. Len(s[q]) + 1, NEW j \in 0 .. Len(s[r]) + 1,
         Cell(s, q, i) = Cell(s, r, j)
  PROVE  q = r /\ i = j
<1>1. ASSUME NEW x \in Queues, NEW k \in 0 .. Len(s[x]) + 1
      PROVE  \/ k = 0 /\ Cell(s, x, k) = queuehead(x)
             \/ k = Len(s[x]) + 1 /\ Cell(s, x, k) = queuetail(x)
             \/ k \in 1 .. Len(s[x]) /\ Cell(s, x, k) = s[x][k] /\ Cell(s, x, k) \in Procs
  <2>1. Len(s[x]) \in Nat
    BY Cells
  <2>2. k = 0 \/ k = Len(s[x]) + 1 \/ k \in 1 .. Len(s[x])
    BY <2>1
  <2> QED
    BY <2>2, Cells
<1>2. \A x, y \in Queues : /\ queuehead(x) \notin Procs /\ queuetail(x) \notin Procs
                            /\ queuehead(x) # queuetail(y)
                            /\ (queuehead(x) = queuehead(y) => x = y)
                            /\ (queuetail(x) = queuetail(y) => x = y)
  BY Numbers DEF queuehead, queuetail, Queues, Procs
<1>3. CASE i = 0 /\ Cell(s, q, i) = queuehead(q)
  BY <1>1, <1>2, <1>3
<1>4. CASE i = Len(s[q]) + 1 /\ Cell(s, q, i) = queuetail(q)
  BY <1>1, <1>2, <1>4
<1>5. CASE i \in 1 .. Len(s[q]) /\ Cell(s, q, i) = s[q][i] /\ Cell(s, q, i) \in Procs
  <2>0. Cell(s, r, j) \in Procs
    BY <1>5
  <2>1. j \in 1 .. Len(s[r]) /\ Cell(s, r, j) = s[r][j]
    BY <1>1, <1>2, <2>0
  <2>2. s[q][i] = s[r][j]
    BY <1>5, <2>1
  <2> QED
    BY <1>5, <2>1, <2>2 DEF Apart
<1> QED
  BY <1>1, <1>3, <1>4, <1>5

(* A process in hand is no cell of any queue.                              *)
LEMMA LooseApart ==
  ASSUME NEW s \in [Queues -> Seq(Procs)], Owned(s), HandsOK, NEW c \in Cores, Loose(c)
  PROVE  /\ frame[c].pid \in Procs
         /\ \A q \in Queues : \A i \in 0 .. Len(s[q]) + 1 : Cell(s, q, i) # frame[c].pid
<1>1. frame[c].pid \in Procs
  BY DEF HandsOK
<1>2. ASSUME NEW q \in Queues, NEW i \in 0 .. Len(s[q]) + 1, Cell(s, q, i) = frame[c].pid
      PROVE  FALSE
  <2>1. Len(s[q]) \in Nat
    BY Cells
  <2>2. i = 0 \/ i = Len(s[q]) + 1 \/ i \in 1 .. Len(s[q])
    BY <2>1
  <2>3. i \in 1 .. Len(s[q]) /\ s[q][i] = frame[c].pid
    BY <1>1, <1>2, <2>2, Cells, Numbers
  <2> QED
    BY <1>1, <2>3 DEF Owned, In
<1> QED
  BY <1>1, <1>2

(* A queue with a lock has one core inside.                                *)
LEMMA Lone ==
  ASSUME AllLocked, MutualExclusion, NEW q \in Queues,
         NEW c \in Inside(q), NEW d \in Inside(q)
  PROVE  d = c
BY DEF AllLocked, MutualExclusion, Inside

-----------------------------------------------------------------------------
(* A step of core c that stores to no link leaves the shape to the others  *)
(* as it is.                                                               *)
LEMMA CallOthers ==
  ASSUME IInv, NEW s \in [Queues -> Seq(Procs)], Shape(s), NEW c \in Cores,
         NEW l \in Labels, NEW f \in Frames, UNCHANGED links,
         pc' = [pc EXCEPT ![c] = l], frame' = [frame EXCEPT ![c] = f],
         {pc[c], l} \cap {"enq_tail", "deq_back", "rem_back"} = {}
  PROVE  /\ \A q \in Queues : ForwardAt(s, q)' /\ BackwardAt(s, q)'
         /\ \A d \in Cores \ {c} : Knows(s, d)'
<1>1. next' = next /\ prev' = prev
  BY DEF links
<1>2. pc \in [Cores -> Labels] /\ frame \in [Cores -> Frames]
  BY DEF IInv, TypeOK
<1>3. \A d \in Cores \ {c} : pc'[d] = pc[d] /\ frame'[d] = frame[d]
  BY <1>2
<1>4. pc'[c] = l /\ frame'[c] = f
  BY <1>2
<1>5. ASSUME NEW q \in Queues PROVE ForwardAt(s, q)' /\ BackwardAt(s, q)'
  <2>1. ForwardAt(s, q) /\ BackwardAt(s, q)
    BY DEF Shape
  <2>2. ForwardAt(s, q)'
    BY <1>1, <2>1 DEF ForwardAt, Cell
  <2>3. ASSUME NEW i \in 1 .. Len(s[q]) + 1
        PROVE  Stale(s, q, i)' \/ prev'[Cell(s, q, i)] = Cell(s, q, i - 1)
    <3>1. CASE Stale(s, q, i)
      <4> PICK d \in Cores :
            /\ frame[d].q = q
            /\ \/ pc[d] = "enq_tail" /\ i = Len(s[q]) + 1
               \/ pc[d] \in {"deq_back", "rem_back"} /\ Cell(s, q, i) = next[frame[d].pid]
        BY <3>1 DEF Stale
      <4>1. d # c
        OBVIOUS
      <4> QED
        BY <1>1, <1>3, <4>1 DEF Stale
    <3>2. CASE ~Stale(s, q, i)
      BY <1>1, <2>1, <3>2 DEF BackwardAt
    <3> QED
      BY <3>1, <3>2
  <2> QED
    BY <2>2, <2>3 DEF BackwardAt, Cell
<1>6. ASSUME NEW d \in Cores \ {c} PROVE Knows(s, d)'
  <2>1. Knows(s, d)
    BY DEF Shape
  <2>2. CallKnows(pc[d], frame[d], d)'
    BY <1>3, <2>1 DEF Knows, CallKnows
  <2>3. ListKnows(s, pc[d], frame[d], d)'
    <3>1. ListKnows(s, pc[d], frame[d], d) /\ pc'[d] = pc[d] /\ frame'[d] = frame[d]
      BY <1>3, <2>1 DEF Knows
    <3> QED
      BY <3>1 DEF ListKnows, In
  <2>4. LinkKnows(s, pc[d], frame[d])'
    BY <1>1, <1>3, <2>1 DEF Knows, LinkKnows, Cell
  <2> QED
    BY <2>2, <2>3, <2>4 DEF Knows
<1> QED
  BY <1>5, <1>6

(* The link stores of core c in its queue q. *)
Local(s, c) ==
  \A e \in Entries :
    \/ next'[e] = next[e] /\ prev'[e] = prev[e]
    \/ \E i \in 0 .. Len(s[frame[c].q]) + 1 : e = Cell(s, frame[c].q, i)
    \/ Loose(c) /\ e = frame[c].pid

(* What every other core knows of the lists survives the change from s to  *)
(* t.                                                                      *)
Kept(s, t, c) ==
  \/ /\ Len(s[frame[c].q]) <= Len(t[frame[c].q])
     /\ \A i \in 1 .. Len(s[frame[c].q]) : t[frame[c].q][i] = s[frame[c].q][i]
  \/ c \in Takers[frame[c].q]

(* A store of the core inside q changes nothing that the other cores know. *)
LEMMA StoreOthers ==
  ASSUME AllLocked, IInv, NEW s \in [Queues -> Seq(Procs)], Shape(s), NEW c \in Cores,
         NEW l \in Links \cup {"release"}, pc[c] \in Links,
         pc' = [pc EXCEPT ![c] = l], UNCHANGED <<lock, held, frame>>,
         NEW t \in [Queues -> Seq(Procs)],
         \A r \in Queues \ {frame[c].q} : t[r] = s[r],
         Local(s, c), Kept(s, t, c)
  PROVE  /\ \A r \in Queues \ {frame[c].q} : ForwardAt(t, r)' /\ BackwardAt(t, r)'
         /\ \A d \in Cores \ {c} : Knows(t, d)'
<1> DEFINE q == frame[c].q
<1>1. q \in Queues /\ c \in Inside(q)
  BY DEF IInv, FramesOK, FrameOK, Inside
<1>2. pc \in [Cores -> Labels] /\ frame' = frame
  BY DEF IInv, TypeOK
<1>3. \A d \in Cores \ {c} : pc'[d] = pc[d]
  BY <1>2
<1>4. Apart(s) /\ Owned(s) /\ HandsOK
  BY DEF Shape
<1>5. ASSUME NEW r \in Queues \ {q}, NEW i \in 0 .. Len(s[r]) + 1
      PROVE  /\ next'[Cell(s, r, i)] = next[Cell(s, r, i)]
             /\ prev'[Cell(s, r, i)] = prev[Cell(s, r, i)]
  <2>1. Cell(s, r, i) \in Entries
    BY Cells
  <2>2. \A j \in 0 .. Len(s[q]) + 1 : Cell(s, r, i) # Cell(s, q, j)
    BY <1>1, <1>4, CellsApart
  <2>3. Loose(c) => Cell(s, r, i) # frame[c].pid
    BY <1>4, LooseApart
  <2> QED
    BY <2>1, <2>2, <2>3 DEF Local
<1>6. ASSUME NEW d \in Cores \ {c}, Loose(d)
      PROVE  /\ next'[frame[d].pid] = next[frame[d].pid]
             /\ prev'[frame[d].pid] = prev[frame[d].pid]
  <2>1. /\ frame[d].pid \in Procs /\ frame[d].pid \in Entries
        /\ \A j \in 0 .. Len(s[q]) + 1 : frame[d].pid # Cell(s, q, j)
    BY <1>1, <1>4, <1>6, LooseApart, Numbers
  <2>2. Loose(c) => frame[c].pid # frame[d].pid
    BY <1>4, <1>6 DEF HandsOK
  <2> QED
    BY <2>1, <2>2 DEF Local
<1>7. ASSUME NEW d \in Cores \ {c}, pc[d] \in Links \cup {"release"}
      PROVE  frame[d].q # q
  <2> SUFFICES ASSUME frame[d].q = q PROVE FALSE
    OBVIOUS
  <2>1. d \in Inside(q)
    BY <1>7 DEF Inside
  <2> QED
    BY <1>1, <2>1, Lone DEF IInv
<1>8. ASSUME NEW r \in Queues \ {q} PROVE ForwardAt(t, r)' /\ BackwardAt(t, r)'
  <2>1. t[r] = s[r] /\ \A i : Cell(t, r, i) = Cell(s, r, i)
    BY DEF Cell
  <2>2. ForwardAt(s, r) /\ BackwardAt(s, r)
    BY DEF Shape
  <2>3. Len(s[r]) \in Nat
    BY Cells
  <2>4. ForwardAt(t, r)'
    <3> SUFFICES ASSUME NEW i \in 0 .. Len(t[r])
                 PROVE  next'[Cell(t, r, i)] = Cell(t, r, i + 1)
      BY DEF ForwardAt, Cell
    <3>1. i \in 0 .. Len(s[r]) /\ i \in 0 .. Len(s[r]) + 1
      BY <2>1, <2>3
    <3>2. next'[Cell(s, r, i)] = Cell(s, r, i + 1)
      BY <1>5, <2>2, <3>1 DEF ForwardAt
    <3> QED
      BY <2>1, <3>2
  <2>5. BackwardAt(t, r)'
    <3> SUFFICES ASSUME NEW i \in 1 .. Len(s[r]) + 1
                 PROVE  Stale(t, r, i)' \/ prev'[Cell(s, r, i)] = Cell(s, r, i - 1)
      BY <2>1 DEF BackwardAt, Cell
    <3>1. i \in 0 .. Len(s[r]) + 1
      BY <2>3
    <3>2. CASE Stale(s, r, i)
      <4> PICK d \in Cores :
            /\ frame[d].q = r
            /\ \/ pc[d] = "enq_tail" /\ i = Len(s[r]) + 1
               \/ pc[d] \in {"deq_back", "rem_back"} /\ Cell(s, r, i) = next[frame[d].pid]
        BY <3>2 DEF Stale
      <4>1. d \in Cores \ {c}
        OBVIOUS
      <4>2. pc[d] \in {"deq_back", "rem_back"} => Loose(d)
        <5> SUFFICES ASSUME pc[d] \in {"deq_back", "rem_back"} PROVE Loose(d)
          OBVIOUS
        <5>1. Knows(s, d) /\ frame[d].pid \in Procs
          BY DEF Shape, IInv, FramesOK, FrameOK, Links
        <5> QED
          BY <5>1, Numbers DEF Loose, Knows, CallKnows
      <4>3. pc[d] \in {"deq_back", "rem_back"} => next'[frame[d].pid] = next[frame[d].pid]
        BY <1>6, <4>1, <4>2
      <4> QED
        BY <1>2, <1>3, <2>1, <4>1, <4>3 DEF Stale
    <3>3. CASE ~Stale(s, r, i)
      BY <1>5, <2>2, <3>1, <3>3 DEF BackwardAt
    <3> QED
      BY <3>2, <3>3
  <2> QED
    BY <2>4, <2>5
<1>9. ASSUME NEW d \in Cores \ {c} PROVE Knows(t, d)'
  <2>1. Knows(s, d) /\ pc'[d] = pc[d] /\ frame'[d] = frame[d]
    BY <1>2, <1>3 DEF Shape
  <2>2. CallKnows(pc[d], frame[d], d)'
    BY <2>1 DEF Knows, CallKnows
  <2>3. ASSUME NEW r \in Queues, Takers[r] = {d}
        PROVE  /\ Len(s[r]) \in Nat /\ Len(t[r]) \in Nat /\ Len(s[r]) <= Len(t[r])
               /\ \A i \in 1 .. Len(s[r]) : t[r][i] = s[r][i]
    <3>1. Len(s[r]) \in Nat /\ Len(t[r]) \in Nat
      BY Cells
    <3>2. CASE r = q
      BY <2>3, <3>1, <3>2 DEF Kept
    <3>3. CASE r # q
      BY <3>1, <3>3
    <3> QED
      BY <3>1, <3>2, <3>3
  <2>4. pc[d] \in Links \cup {"release"} /\ frame[d].q \in Queues => t[frame[d].q] = s[frame[d].q]
    BY <1>7
  <2>5. ListKnows(t, pc[d], frame[d], d)
    <3> DEFINE g == frame[d]
    <3>0. ListKnows(s, pc[d], g, d) /\ CallKnows(pc[d], g, d) /\ FrameOK(pc[d], g)
      BY <2>1 DEF Knows, IInv, FramesOK
    <3>1. ASSUME pc[d] = "walk"
          PROVE  \E r \in Queues :
                   /\ Takers[r] = {d}
                   /\ \E i, j \in 1 .. Len(t[r]) :
                        j <= i /\ t[r][i] = g.pid /\ t[r][j] = g.temp /\ g.steps = i - j
      <4>1. PICK r \in Queues :
              /\ Takers[r] = {d}
              /\ \E i, j \in 1 .. Len(s[r]) :
                   j <= i /\ s[r][i] = g.pid /\ s[r][j] = g.temp /\ g.steps = i - j
        BY <3>0, <3>1 DEF ListKnows
      <4>2. PICK i, j \in 1 .. Len(s[r]) :
              j <= i /\ s[r][i] = g.pid /\ s[r][j] = g.temp /\ g.steps = i - j
        BY <4>1
      <4>3. /\ Len(s[r]) \in Nat /\ Len(t[r]) \in Nat /\ Len(s[r]) <= Len(t[r])
            /\ \A k \in 1 .. Len(s[r]) : t[r][k] = s[r][k]
        BY <2>3, <4>1
      <4>4. i \in 1 .. Len(t[r]) /\ j \in 1 .. Len(t[r]) /\ t[r][i] = s[r][i] /\ t[r][j] = s[r][j]
        BY <4>3
      <4> QED
        BY <4>1, <4>2, <4>4
    <3>2. ASSUME pc[d] \in {"acquire", "rem_unlink"}, g.op = "remove"
          PROVE  In(t, g.q, g.pid)
      <4>1. g.q \in Queues /\ Takers[g.q] = {d} /\ In(s, g.q, g.pid)
        BY <3>0, <3>2 DEF ListKnows, CallKnows, FrameOK, Links
      <4> HIDE DEF g
      <4>2. /\ Len(s[g.q]) \in Nat /\ Len(t[g.q]) \in Nat /\ Len(s[g.q]) <= Len(t[g.q])
            /\ \A k \in 1 .. Len(s[g.q]) : t[g.q][k] = s[g.q][k]
        BY <2>3, <4>1
      <4>3. PICK i \in 1 .. Len(s[g.q]) : s[g.q][i] = g.pid
        BY <4>1 DEF In
      <4>4. i \in 1 .. Len(t[g.q]) /\ t[g.q][i] = g.pid
        BY <4>2, <4>3
      <4> QED
        BY <4>4 DEF In
    <3>4. /\ pc[d] = "deq_unlink" => t[g.q] # <<>> /\ t[g.q][1] = g.pid
          /\ pc[d] = "enq_tail" => t[g.q] # <<>> /\ t[g.q][Len(t[g.q])] = g.pid
      BY <2>4, <3>0 DEF ListKnows, FrameOK, Links
    <3> HIDE DEF g
    <3> QED
      BY <3>1, <3>2, <3>4 DEF ListKnows, g
  <2>6. ListKnows(t, pc[d], frame[d], d)'
    BY <2>1, <2>5 DEF ListKnows, In
  <2>7. LinkKnows(t, pc[d], frame[d])'
    <3>0. /\ LinkKnows(s, pc[d], frame[d]) /\ CallKnows(pc[d], frame[d], d)
          /\ FrameOK(pc[d], frame[d])
      BY <2>1 DEF Knows, IInv, FramesOK
    <3>1. CASE pc[d] \in {"enq_link", "deq_back", "rem_back"}
      <4>1. Loose(d) /\ frame[d].q \in Queues \ {q}
        BY <1>7, <3>0, <3>1, Numbers DEF Loose, CallKnows, FrameOK, Links
      <4>2. /\ next'[frame[d].pid] = next[frame[d].pid]
            /\ prev'[frame[d].pid] = prev[frame[d].pid]
        BY <1>6, <4>1
      <4>3. /\ queuetail(frame[d].q) = Cell(s, frame[d].q, Len(s[frame[d].q]) + 1)
            /\ Len(s[frame[d].q]) \in Nat
        BY <4>1, Cells
      <4>4. prev'[queuetail(frame[d].q)] = prev[queuetail(frame[d].q)]
        <5> DEFINE r == frame[d].q
                   i == Len(s[r]) + 1
        <5>1. r \in Queues \ {q} /\ i \in 0 .. Len(s[r]) + 1 /\ Cell(s, r, i) = queuetail(r)
          BY <4>1, <4>3
        <5> HIDE DEF r, i
        <5>2. prev'[Cell(s, r, i)] = prev[Cell(s, r, i)]
          BY <1>5, <5>1
        <5> QED
          BY <5>1, <5>2 DEF r
      <4>5. /\ t[frame[d].q] = s[frame[d].q]
            /\ \A i : Cell(t, frame[d].q, i) = Cell(s, frame[d].q, i)
        BY <4>1 DEF Cell
      <4>6. CASE pc[d] = "enq_link"
        BY <2>1, <3>0, <4>2, <4>4, <4>6 DEF LinkKnows, queuetail, queuehead
      <4>7. CASE pc[d] \in {"deq_back", "rem_back"}
        <5>1. PICK i \in 1 .. Len(s[frame[d].q]) + 1 :
                /\ next[frame[d].pid] = Cell(s, frame[d].q, i)
                /\ prev[frame[d].pid] = Cell(s, frame[d].q, i - 1)
          BY <3>0, <4>7 DEF LinkKnows
        <5> QED
          <6> DEFINE g == frame[d]
          <6>1. /\ i \in 1 .. Len(t[g.q]) + 1
                /\ next'[g.pid] = Cell(t, g.q, i) /\ prev'[g.pid] = Cell(t, g.q, i - 1)
            BY <4>2, <4>5, <5>1
          <6>2. frame'[d] = g /\ pc'[d] = pc[d]
            BY <2>1
          <6> HIDE DEF g
          <6> QED
            BY <4>7, <6>1, <6>2 DEF LinkKnows, Cell
      <4> QED
        BY <3>1, <4>6, <4>7
    <3>2. CASE pc[d] \notin {"enq_link", "deq_back", "rem_back"}
      BY <2>1, <3>2 DEF LinkKnows
    <3> QED
      BY <3>1, <3>2
  <2> QED
    BY <2>2, <2>6, <2>7 DEF Knows
<1> QED
  BY <1>8, <1>9

-----------------------------------------------------------------------------
(* Listed, of the links nx: the lists of a state and of the next one.      *)
ListedIn(nx, q) ==
  LET hop[i \in 0 .. NPROC] ==
        IF i = 0 THEN nx[queuehead(q)]
        ELSE LET e == hop[i - 1] IN IF e \in Procs THEN nx[e] ELSE e
      length == Cardinality({i \in 0 .. NPROC : hop[i] \in Procs})
  IN  [i \in 1 .. length |-> hop[i - 1]]

(* A set of numbers has a least one.                                       *)
LEMMA LeastNumber ==
  ASSUME NEW S \in SUBSET Nat, S # {}
  PROVE  \E x \in S : \A y \in S : x <= y
<1> DEFINE R == {ss \in Nat \X Nat : ss[1] < ss[2]}
<1>1. IsWellFoundedOn(R, Nat)
  BY NatLessThanWellFounded DEF OpToRel
<1>2. \A x, y \in Nat : x < y => <<x, y>> \in R
  OBVIOUS
<1> HIDE DEF R
<1>3. PICK x \in S : \A y \in S : ~(<<y, x>> \in R)
  BY <1>1, WFMin
<1>4. ASSUME NEW y \in S PROVE x <= y
  <2>1. x \in Nat /\ y \in Nat
    OBVIOUS
  <2>2. ~(y < x)
    BY <1>2, <1>3, <2>1
  <2> QED
    BY <2>1, <2>2
<1> QED
  BY <1>4

(* A queue holds at most NPROC processes.                                  *)
LEMMA ShortList ==
  ASSUME NEW s \in [Queues -> Seq(Procs)], Apart(s), NEW q \in Queues
  PROVE  Len(s[q]) <= NPROC
<1> DEFINE t == s[q]
<1>1. t \in [1 .. Len(t) -> Procs] /\ Len(t) \in Nat
  BY Cells
<1>2. \A i, j \in 1 .. Len(t) : t[i] = t[j] => i = j
  BY DEF Apart
<1> HIDE DEF t
<1>3. t \in Injection(1 .. Len(t), Procs)
  BY <1>1, <1>2 DEF Injection, IsInjective
<1>4. IsFiniteSet(Procs) /\ Cardinality(Procs) = NPROC
  BY FS_Interval, Numbers DEF Procs
<1>5. Cardinality(1 .. Len(t)) = Len(t)
  <2> DEFINE n == Len(t)
  <2>1. n \in Nat
    BY <1>1
  <2> HIDE DEF n
  <2>2. Cardinality(1 .. n) = n
    BY <2>1, FS_Interval
  <2> QED
    BY <2>2 DEF n
<1>6. Cardinality(1 .. Len(t)) <= Cardinality(Procs)
  BY <1>3, <1>4, FS_Injection
<1> QED
  BY <1>4, <1>5, <1>6 DEF t

(* Listed finds the processes that the next links lead through.            *)
LEMMA ListedIsIn ==
  ASSUME NEW s \in [Queues -> Seq(Procs)], Apart(s), NEW q \in Queues, NEW nx,
         \A i \in 0 .. Len(s[q]) : nx[Cell(s, q, i)] = Cell(s, q, i + 1)
  PROVE  ListedIn(nx, q) = s[q]
<1> DEFINE n == Len(s[q])
           tail == queuetail(q)
           w == [i \in 0 .. NPROC |-> IF i < n THEN s[q][i + 1] ELSE tail]
           Rec(u) == u = [i \in 0 .. NPROC |->
                            IF i = 0 THEN nx[queuehead(q)]
                            ELSE LET e == u[i - 1] IN IF e \in Procs THEN nx[e] ELSE e]
           hop == CHOOSE u : Rec(u)
<1>1. /\ n \in Nat /\ n <= NPROC /\ NPROC \in Nat /\ tail \notin Procs
      /\ s[q] \in [1 .. n -> Procs]
  BY Cells, ShortList, Numbers
<1>2. /\ nx[queuehead(q)] = IF 0 < n THEN s[q][1] ELSE tail
      /\ \A i \in 1 .. n : nx[s[q][i]] = IF i < n THEN s[q][i + 1] ELSE tail
  <2>1. 0 \in 0 .. n /\ nx[queuehead(q)] = Cell(s, q, 1)
    BY <1>1, Cells
  <2>2. ASSUME NEW i \in 0 .. n PROVE Cell(s, q, i + 1) = IF i < n THEN s[q][i + 1] ELSE tail
    BY <1>1 DEF Cell
  <2>3. ASSUME NEW i \in 1 .. n PROVE nx[s[q][i]] = Cell(s, q, i + 1)
    <3>1. i \in 0 .. n /\ Cell(s, q, i) = s[q][i]
      BY <1>1, Cells
    <3> QED
      BY <3>1
  <2>4. nx[queuehead(q)] = IF 0 < n THEN s[q][1] ELSE tail
    BY <1>1, <2>1, <2>2
  <2>5. ASSUME NEW i \in 1 .. n PROVE nx[s[q][i]] = IF i < n THEN s[q][i + 1] ELSE tail
    <3>1. i \in 0 .. n
      BY <1>1
    <3> QED
      BY <2>2, <2>3, <3>1
  <2> QED
    BY <2>4, <2>5
<1> HIDE DEF n, tail
<1>3. \A i \in 0 .. NPROC : w[i] = IF i < n THEN s[q][i + 1] ELSE tail
  OBVIOUS
<1>4. \A i \in 0 .. NPROC : w[i] \in Procs <=> i < n
  BY <1>1
<1>5. \A i \in 0 .. NPROC :
        w[i] = IF i = 0 THEN nx[queuehead(q)]
               ELSE IF w[i - 1] \in Procs THEN nx[w[i - 1]] ELSE w[i - 1]
  <2> SUFFICES ASSUME NEW i \in 0 .. NPROC
               PROVE  w[i] = IF i = 0 THEN nx[queuehead(q)]
                             ELSE IF w[i - 1] \in Procs THEN nx[w[i - 1]] ELSE w[i - 1]
    OBVIOUS
  <2>1. CASE i = 0
    BY <1>1, <1>2, <2>1
  <2>2. CASE i # 0
    <3>1. i - 1 \in 0 .. NPROC /\ i - 1 + 1 = i
      BY <1>1, <2>2
    <3>2. CASE i - 1 < n
      <4>1. w[i - 1] = s[q][i] /\ i \in 1 .. n /\ w[i - 1] \in Procs
        BY <1>1, <1>3, <1>4, <2>2, <3>1, <3>2
      <4> QED
        BY <1>2, <1>3, <2>2, <4>1
    <3>3. CASE ~(i - 1 < n)
      <4>1. w[i - 1] = tail /\ ~(i < n) /\ w[i] = tail
        BY <1>1, <1>3, <2>2, <3>1, <3>3
      <4> QED
        BY <1>1, <2>2, <4>1
    <3> QED
      BY <3>2, <3>3
  <2> QED
    BY <2>1, <2>2
<1>6. Rec(w)
  BY <1>5
<1>7. Rec(hop)
  <2> HIDE DEF Rec, w
  <2> QED
    BY <1>6
<1>8. hop = w
  <2> HIDE DEF hop
  <2>1. \A i \in 0 .. NPROC : hop[i] = w[i]
    <3> DEFINE B == {i \in 0 .. NPROC : hop[i] # w[i]}
    <3> SUFFICES ASSUME B # {} PROVE FALSE
      OBVIOUS
    <3>1. B \in SUBSET Nat
      BY <1>1
    <3>2. PICK x \in B : \A y \in B : x <= y
      BY <3>1, LeastNumber
    <3>3. \A i \in 0 .. NPROC :
            hop[i] = IF i = 0 THEN nx[queuehead(q)]
                     ELSE IF hop[i - 1] \in Procs THEN nx[hop[i - 1]] ELSE hop[i - 1]
      BY <1>7
    <3>4. x \in 0 .. NPROC /\ hop[x] # w[x] /\ x # 0
      BY <1>5, <3>3
    <3>5. x - 1 \in 0 .. NPROC /\ x - 1 \notin B
      <4>1. x - 1 \in 0 .. NPROC /\ ~(x <= x - 1)
        BY <1>1, <3>4
      <4> HIDE DEF B
      <4> QED
        BY <3>2, <4>1
    <3>6. hop[x - 1] = w[x - 1]
      BY <3>5
    <3> HIDE DEF w, B
    <3> QED
      BY <1>5, <3>3, <3>4, <3>6
  <2>2. hop = [i \in 0 .. NPROC |-> hop[i]]
    BY <1>7
  <2> QED
    BY <2>1, <2>2
<1>9. {i \in 0 .. NPROC : hop[i] \in Procs} = 0 .. n - 1
  <2> HIDE DEF hop, w
  <2> QED
    BY <1>1, <1>4, <1>8
<1>10. Cardinality(0 .. n - 1) = n
  BY <1>1, FS_Interval
<1>11. ListedIn(nx, q) = [i \in 1 .. Cardinality({i \in 0 .. NPROC : hop[i] \in Procs}) |-> hop[i - 1]]
  BY DEF ListedIn
<1>12. ListedIn(nx, q) = [i \in 1 .. n |-> w[i - 1]]
  BY <1>8, <1>9, <1>10, <1>11
<1>13. \A i \in 1 .. n : w[i - 1] = s[q][i]
  BY <1>1, <1>3
<1> HIDE DEF w
<1> QED
  BY <1>1, <1>12, <1>13

(* Listed reads s off the links of a state.                                *)
LEMMA ListsAre ==
  ASSUME NEW s \in [Queues -> Seq(Procs)], Apart(s), \A q \in Queues : ForwardAt(s, q)
  PROVE  \A q \in Queues : Listed(q) = s[q]
<1> SUFFICES ASSUME NEW q \in Queues PROVE Listed(q) = s[q]
  OBVIOUS
<1>1. Listed(q) = ListedIn(next, q)
  BY DEF Listed, ListedIn
<1> QED
  BY <1>1, ListedIsIn DEF ForwardAt

(* Listed reads s off the links of the next state.                         *)
LEMMA ListsBecome ==
  ASSUME NEW s \in [Queues -> Seq(Procs)], Apart(s), \A q \in Queues : ForwardAt(s, q)'
  PROVE  \A q \in Queues : Listed(q)' = s[q]
<1> SUFFICES ASSUME NEW q \in Queues PROVE Listed(q)' = s[q]
  OBVIOUS
<1>1. Listed(q)' = ListedIn(next', q)
  BY DEF Listed, ListedIn
<1>2. \A i \in 0 .. Len(s[q]) : next'[Cell(s, q, i)] = Cell(s, q, i + 1)
  BY DEF ForwardAt, Cell
<1> QED
  BY <1>1, <1>2, ListedIsIn

-----------------------------------------------------------------------------
(* A step without a store keeps the shape when the core knows what its new *)
(* label asks.                                                             *)
LEMMA CallShape ==
  ASSUME IInv, NEW s \in [Queues -> Seq(Procs)], Shape(s), NEW c \in Cores,
         NEW l \in Labels, NEW f \in Frames, UNCHANGED links,
         pc' = [pc EXCEPT ![c] = l], frame' = [frame EXCEPT ![c] = f],
         {pc[c], l} \cap {"enq_tail", "deq_back", "rem_back"} = {}, l # "enq_link",
         CallKnows(l, f, c), ListKnows(s, l, f, c), Owned(s)', HandsOK'
  PROVE  Shape(s)'
<1>1. /\ \A q \in Queues : ForwardAt(s, q)' /\ BackwardAt(s, q)'
      /\ \A d \in Cores \ {c} : Knows(s, d)'
  BY CallOthers
<1>2. pc'[c] = l /\ frame'[c] = f
  BY DEF IInv, TypeOK
<1>3. Knows(s, c)'
  <2>1. CallKnows(pc[c], frame[c], c)'
    BY <1>2 DEF CallKnows
  <2>2. ListKnows(s, pc[c], frame[c], c)'
    BY <1>2 DEF ListKnows, In
  <2>3. LinkKnows(s, pc[c], frame[c])'
    BY <1>2 DEF LinkKnows
  <2> QED
    BY <2>1, <2>2, <2>3 DEF Knows
<1>4. \A d \in Cores : Knows(s, d)'
  BY <1>1, <1>3
<1>5. Apart(s)'
  BY DEF Shape, Apart
<1>6. \A q \in Queues : prev'[queuehead(q)] = EMPTY
  BY DEF Shape, links
<1> QED
  BY <1>1, <1>4, <1>5, <1>6 DEF Shape, queuehead

(* Who owns what stays the same when core c keeps what it has in hand.     *)
LEMMA SameOwners ==
  ASSUME IInv, NEW s \in [Queues -> Seq(Procs)], NEW t \in [Queues -> Seq(Procs)],
         Owned(s), HandsOK,
         \A q \in Queues, p \in Procs : In(t, q, p) <=> In(s, q, p),
         NEW c \in Cores, NEW l, NEW f,
         pc' = [pc EXCEPT ![c] = l], frame' = [frame EXCEPT ![c] = f], held' = held,
         Loose(c)' <=> Loose(c), Loose(c) => f.pid = frame[c].pid
  PROVE  Owned(t)' /\ HandsOK'
<1>1. /\ frame'[c] = f
      /\ \A d \in Cores \ {c} : pc'[d] = pc[d] /\ frame'[d] = frame[d]
  BY DEF IInv, TypeOK
<1>2. \A d \in Cores : Loose(d)' <=> Loose(d)
  BY <1>1 DEF Loose
<1>3. \A d \in Cores : Loose(d) => frame'[d].pid = frame[d].pid
  BY <1>1
<1>4. HandsOK'
  BY <1>2, <1>3 DEF HandsOK
<1>5. \A q \in Queues, p \in Procs : In(t, q, p)' <=> In(s, q, p)
  BY DEF In
<1>6. Owned(t)'
  <2>1. ASSUME NEW q \in Queues, NEW p \in Procs, In(t, q, p)'
        PROVE  held'[p] = NONE /\ \A d \in Cores : Loose(d)' => frame'[d].pid # p
    BY <1>2, <1>3, <1>5, <2>1 DEF Owned
  <2>2. ASSUME NEW p \in Procs, held'[p] = NONE
        PROVE  \/ \E q \in Queues : In(t, q, p)'
               \/ \E d \in Cores : Loose(d)' /\ frame'[d].pid = p
    BY <1>2, <1>3, <1>5, <2>2 DEF Owned
  <2> QED
    BY <2>1, <2>2 DEF Owned
<1> QED
  BY <1>4, <1>6

(* The frame of a call.                                                    *)
CallFrame(op, q, pid) ==
  [NoFrame EXCEPT !.op = op, !.q = q, !.pid = pid]

(* Start puts the core at acquire with the frame of its call.              *)
LEMMA StartFrame ==
  ASSUME NEW c \in Cores, NEW op \in {"enqueue", "dequeue"}, NEW q \in Queues,
         NEW pid \in Procs \cup {EMPTY}, Start(c, op, q, pid)
  PROVE  LET f == CallFrame(op, q, pid)
         IN  /\ f \in Frames /\ f.op = op /\ f.q = q /\ f.pid = pid
             /\ frame' = [frame EXCEPT ![c] = f] /\ pc' = [pc EXCEPT ![c] = "acquire"]
             /\ pc[c] = "idle" /\ UNCHANGED links
BY NoFrameFits DEF Frames, NoFrame, Start, Goto, At, CallFrame

(* The call of enqueue takes the process from the core into its hand.      *)
LEMMA EnqueueShape ==
  ASSUME IInv, NEW s \in [Queues -> Seq(Procs)], Shape(s), NEW c \in Cores,
         NEW pid \in Procs, NEW q \in Queues, Enqueue(c, pid, q)
  PROVE  Shape(s)'
<1> DEFINE f == CallFrame("enqueue", q, pid)
<1>1. /\ f \in Frames /\ f.op = "enqueue" /\ f.q = q /\ f.pid = pid
      /\ frame' = [frame EXCEPT ![c] = f] /\ pc' = [pc EXCEPT ![c] = "acquire"]
      /\ pc[c] = "idle" /\ UNCHANGED links
  <2>1. Start(c, "enqueue", q, pid)
    BY DEF Enqueue
  <2> QED
    BY <2>1, StartFrame
<1> HIDE DEF f
<1>2. /\ frame'[c] = f /\ pc'[c] = "acquire"
      /\ \A d \in Cores \ {c} : pc'[d] = pc[d] /\ frame'[d] = frame[d]
  BY <1>1 DEF IInv, TypeOK
<1>3. /\ held[pid] = c /\ held[pid] # NONE /\ held'[pid] = NONE
      /\ \A p \in Procs \ {pid} : held'[p] = held[p]
  BY Numbers DEF Enqueue, IInv, TypeOK
<1>4. ~Loose(c) /\ Loose(c)'
  BY <1>1, <1>2 DEF Loose
<1>5. \A d \in Cores \ {c} : Loose(d)' <=> Loose(d)
  BY <1>2 DEF Loose
<1>6. Owned(s) /\ HandsOK
  BY DEF Shape
<1>7. \A d \in Cores \ {c} : Loose(d) => frame[d].pid \in Procs \ {pid}
  BY <1>3, <1>6 DEF HandsOK
<1>8. HandsOK'
  <2> SUFFICES ASSUME NEW d \in Cores, Loose(d)'
               PROVE  /\ frame'[d].pid \in Procs /\ held'[frame'[d].pid] = NONE
                      /\ \A e \in Cores : Loose(e)' /\ frame'[e].pid = frame'[d].pid => e = d
    BY DEF HandsOK
  <2>1. CASE d = c
    BY <1>1, <1>2, <1>3, <1>5, <1>7, <2>1
  <2>2. CASE d # c
    <3>1. Loose(d) /\ frame'[d] = frame[d] /\ frame[d].pid \in Procs \ {pid}
      BY <1>2, <1>5, <1>7, <2>2
    <3>2. /\ held[frame[d].pid] = NONE
          /\ \A e \in Cores : Loose(e) /\ frame[e].pid = frame[d].pid => e = d
      BY <1>6, <3>1 DEF HandsOK
    <3> QED
      BY <1>1, <1>2, <1>3, <1>5, <3>1, <3>2
  <2> QED
    BY <2>1, <2>2
<1>9. Owned(s)'
  <2>1. ASSUME NEW r \in Queues, NEW p \in Procs, In(s, r, p)
        PROVE  held'[p] = NONE /\ \A d \in Cores : Loose(d)' => frame'[d].pid # p
    <3>1. held[p] = NONE /\ p # pid /\ \A d \in Cores : Loose(d) => frame[d].pid # p
      BY <1>3, <1>6, <2>1 DEF Owned
    <3> QED
      BY <1>1, <1>2, <1>3, <1>5, <3>1
  <2>2. ASSUME NEW p \in Procs, held'[p] = NONE
        PROVE  \/ \E r \in Queues : In(s, r, p)
               \/ \E d \in Cores : Loose(d)' /\ frame'[d].pid = p
    <3>1. CASE p = pid
      BY <1>1, <1>2, <1>4, <3>1
    <3>2. CASE p # pid
      <4>1. \/ \E r \in Queues : In(s, r, p)
            \/ \E d \in Cores : Loose(d) /\ frame[d].pid = p
        BY <1>3, <1>6, <2>2, <3>2 DEF Owned
      <4> QED
        BY <1>2, <1>4, <1>5, <4>1
    <3> QED
      BY <3>1, <3>2
  <2>3. \A r \in Queues, p \in Procs : In(s, r, p)' <=> In(s, r, p)
    BY DEF In
  <2> QED
    BY <2>1, <2>2, <2>3 DEF Owned
<1>10. CallKnows("acquire", f, c) /\ ListKnows(s, "acquire", f, c)
  BY <1>1 DEF CallKnows, ListKnows
<1>11. "acquire" \in Labels
  BY DEF Labels
<1> QED
  BY <1>1, <1>8, <1>9, <1>10, <1>11, CallShape

(* The call of dequeue.                                                    *)
LEMMA DequeueShape ==
  ASSUME IInv, NEW s \in [Queues -> Seq(Procs)], Shape(s), NEW c \in Cores,
         NEW q \in Queues, Dequeue(c, q)
  PROVE  Shape(s)'
<1>1. Start(c, "dequeue", q, EMPTY)
  BY DEF Dequeue
<1>2. c \in Takers[q] /\ held' = held
  BY DEF Dequeue
<1> DEFINE f == CallFrame("dequeue", q, EMPTY)
<1>3. /\ f \in Frames /\ f.op = "dequeue" /\ f.q = q /\ f.pid = EMPTY
      /\ frame' = [frame EXCEPT ![c] = f] /\ pc' = [pc EXCEPT ![c] = "acquire"]
      /\ pc[c] = "idle" /\ UNCHANGED links
  BY <1>1, StartFrame
<1> HIDE DEF f
<1>4. frame'[c] = f /\ pc'[c] = "acquire"
  BY <1>3 DEF IInv, TypeOK
<1>5. ~Loose(c) /\ ~Loose(c)'
  BY <1>3, <1>4 DEF Loose
<1>6. Owned(s)' /\ HandsOK'
  BY <1>2, <1>3, <1>5, SameOwners DEF Shape
<1>8. CallKnows("acquire", f, c) /\ ListKnows(s, "acquire", f, c)
  BY <1>2, <1>3 DEF CallKnows, ListKnows
<1>9. "acquire" \in Labels
  BY DEF Labels
<1> QED
  BY <1>3, <1>6, <1>8, <1>9, CallShape

-----------------------------------------------------------------------------
(* The call of remove finds its process in a list only this core takes     *)
(* from.                                                                   *)
LEMMA RemoveShape ==
  ASSUME IInv, NEW s \in [Queues -> Seq(Procs)], Shape(s), NEW c \in Cores,
         NEW pid \in Procs, Remove(c, pid)
  PROVE  Shape(s)'
<1> DEFINE f == [NoFrame EXCEPT !.op = "remove", !.pid = pid, !.temp = pid]
<1>1. /\ f \in Frames /\ f.op = "remove" /\ f.q = EMPTY /\ f.pid = pid /\ f.temp = pid
      /\ f.steps = 0
  BY NoFrameFits, Numbers DEF Frames, NoFrame
<1>2. /\ frame' = [frame EXCEPT ![c] = f] /\ pc' = [pc EXCEPT ![c] = "walk"]
      /\ UNCHANGED links /\ held' = held /\ pc[c] = "idle"
  BY DEF Remove, Goto, At
<1> HIDE DEF f
<1>3. \A q \in Queues : Listed(q) = s[q] /\ DOMAIN s[q] = 1 .. Len(s[q]) /\ Len(s[q]) \in Nat
  BY ListsAre, Cells DEF Shape
<1>4. PICK q \in Queues : Takers[q] = {c} /\ \E i \in 1 .. Len(s[q]) : s[q][i] = pid
  BY <1>3 DEF Remove
<1>5. ListKnows(s, "walk", f, c)
  <2>1. PICK i \in 1 .. Len(s[q]) : s[q][i] = pid
    BY <1>4
  <2>2. i \in Nat /\ i <= i /\ i - i = 0
    OBVIOUS
  <2> QED
    BY <1>1, <1>4, <2>1, <2>2 DEF ListKnows
<1>6. CallKnows("walk", f, c)
  BY <1>1 DEF CallKnows
<1>7. ~Loose(c) /\ ~Loose(c)'
  BY <1>2 DEF Loose, IInv, TypeOK
<1>8. Owned(s)' /\ HandsOK'
  BY <1>2, <1>7, SameOwners DEF Shape
<1>9. "walk" \in Labels
  BY DEF Labels
<1> QED
  BY <1>1, <1>2, <1>5, <1>6, <1>8, <1>9, CallShape

(* Behind a process that its only taker looks at, the links are in order. *)
LEMMA WalkBack ==
  ASSUME IInv, NEW s \in [Queues -> Seq(Procs)], Shape(s), NEW c \in Cores, pc[c] = "walk",
         NEW r \in Queues, Takers[r] = {c}, NEW j \in 1 .. Len(s[r])
  PROVE  prev[s[r][j]] = Cell(s, r, j - 1)
<1>1. Len(s[r]) \in Nat /\ Cell(s, r, j) = s[r][j] /\ j \in 1 .. Len(s[r]) + 1
  BY Cells
<1>2. ~Stale(s, r, j)
  <2> SUFFICES ASSUME NEW d \in Cores, frame[d].q = r,
                      \/ pc[d] = "enq_tail" /\ j = Len(s[r]) + 1
                      \/ pc[d] \in {"deq_back", "rem_back"}
               PROVE  FALSE
    BY DEF Stale
  <2>1. pc[d] \in {"deq_back", "rem_back"}
    BY <1>1
  <2>2. CallKnows(pc[d], frame[d], d)
    BY DEF Shape, Knows
  <2>3. d \in Takers[r]
    BY <2>1, <2>2 DEF CallKnows
  <2> QED
    BY <2>1, <2>3
<1> QED
  BY <1>1, <1>2 DEF Shape, BackwardAt

(* remove walks from its process back to the head of the queue it is in.   *)
LEMMA WalkShape ==
  ASSUME IInv, NEW s \in [Queues -> Seq(Procs)], Shape(s), NEW c \in Cores, Walk(c)
  PROVE  Shape(s)' /\ pc'[c] \in {"walk", "acquire"} /\ frame'[c].pid = frame[c].pid
         /\ frame'[c].op = frame[c].op
<1> DEFINE old == frame[c]
           back == prev[old.temp]
<1>1. /\ old \in Frames /\ old.q = EMPTY /\ old.op = "remove" /\ old.pid \in Procs
      /\ old.temp \in Entries /\ back \in Entries
  BY DEF Walk, At, IInv, TypeOK, FramesOK, FrameOK
<1>2. /\ UNCHANGED <<links, lock, held>> /\ held' = held /\ pc[c] = "walk"
      /\ CallKnows("walk", old, c) /\ ListKnows(s, "walk", old, c)
  BY DEF Walk, At, Shape, Knows
<1>a. PICK r \in Queues :
        /\ Takers[r] = {c}
        /\ \E i, j \in 1 .. Len(s[r]) :
             j <= i /\ s[r][i] = old.pid /\ s[r][j] = old.temp /\ old.steps = i - j
  BY <1>2 DEF ListKnows
<1>3. PICK i, j \in 1 .. Len(s[r]) :
        /\ Takers[r] = {c}
        /\ j <= i /\ s[r][i] = old.pid /\ s[r][j] = old.temp /\ old.steps = i - j
  BY <1>a
<1>4. back = Cell(s, r, j - 1)
  BY <1>2, <1>3, WalkBack
<1>5. /\ Len(s[r]) \in Nat /\ Len(s[r]) <= NPROC /\ NPROC + 1 < NQENT
      /\ NPROC \in Nat /\ NQENT \in Nat
  BY Cells, ShortList, Numbers DEF Shape, NQENT, Queues
<1>6. ~(old.steps + 1 >= NQENT) /\ old.steps + 1 \in 0 .. NQENT
  BY <1>3, <1>5
<1>7. ~Loose(c)
  BY <1>2 DEF Loose
<1> HIDE DEF old
<1>8. CASE j = 1
  <2> DEFINE f == [old EXCEPT !.temp = back, !.q = QueueOf(back)]
  <2>1. back = queuehead(r) /\ prev[back] = EMPTY /\ QueueOf(back) = r
    BY <1>4, <1>8, Cells, Numbers DEF Shape
  <2>2. /\ f \in Frames /\ f.q = r /\ f.op = "remove" /\ f.pid = old.pid
    BY <1>1, <2>1 DEF Frames
  <2>3. frame' = [frame EXCEPT ![c] = f] /\ pc' = [pc EXCEPT ![c] = "acquire"]
    BY <1>6, <2>1 DEF Walk, Goto, old
  <2> HIDE DEF f
  <2>4. frame'[c] = f /\ pc'[c] = "acquire"
    BY <2>3 DEF IInv, TypeOK
  <2>5. CallKnows("acquire", f, c) /\ ListKnows(s, "acquire", f, c)
    BY <1>1, <1>2, <1>3, <2>2 DEF CallKnows, ListKnows, In
  <2>6. ~Loose(c)'
    BY <2>2, <2>4 DEF Loose
  <2>7. Owned(s)' /\ HandsOK'
    BY <1>2, <1>7, <2>3, <2>6, SameOwners DEF Shape
  <2>8. "acquire" \in Labels
    BY DEF Labels
  <2>9. Shape(s)'
    BY <1>2, <2>2, <2>3, <2>5, <2>7, <2>8, CallShape
  <2> QED
    BY <1>1, <2>2, <2>4, <2>9 DEF old
<1>9. CASE j # 1
  <2> DEFINE f == [old EXCEPT !.temp = back, !.steps = old.steps + 1]
  <2>1. j - 1 \in 1 .. Len(s[r]) /\ back = s[r][j - 1] /\ back \in Procs /\ prev[back] # EMPTY
    <3>1. j - 1 \in 1 .. Len(s[r])
      BY <1>5, <1>9
    <3>2. back = s[r][j - 1] /\ back \in Procs
      BY <1>4, <3>1, Cells
    <3> QED
      BY <3>1, <3>2 DEF IInv, TypeOK
  <2>2. /\ f \in Frames /\ f.q = EMPTY /\ f.op = "remove" /\ f.pid = old.pid
        /\ f.temp = back /\ f.steps = old.steps + 1
    BY <1>1, <1>6 DEF Frames
  <2>3. frame' = [frame EXCEPT ![c] = f] /\ pc' = [pc EXCEPT ![c] = "walk"]
    BY <1>6, <2>1 DEF Walk, Goto, old
  <2> HIDE DEF f
  <2>4. frame'[c] = f /\ pc'[c] = "walk"
    BY <2>3 DEF IInv, TypeOK
  <2>5. CallKnows("walk", f, c)
    BY <1>2, <2>2 DEF CallKnows
  <2>6. ListKnows(s, "walk", f, c)
    <3>1. j - 1 <= i /\ f.steps = i - (j - 1)
      BY <1>3, <1>5, <2>2
    <3> QED
      BY <1>3, <2>1, <2>2, <3>1 DEF ListKnows
  <2>7. ~Loose(c)'
    BY <2>2, <2>4 DEF Loose
  <2>8. Owned(s)' /\ HandsOK'
    BY <1>2, <1>7, <2>3, <2>7, SameOwners DEF Shape
  <2>9. "walk" \in Labels
    BY DEF Labels
  <2>10. Shape(s)'
    BY <1>2, <2>2, <2>3, <2>5, <2>6, <2>8, <2>9, CallShape
  <2> QED
    BY <1>1, <2>2, <2>4, <2>10 DEF old
<1> QED
  BY <1>8, <1>9

(* lock_acquire: the core is inside, with what it knew.                    *)
LEMMA AcquireShape ==
  ASSUME IInv, NEW s \in [Queues -> Seq(Procs)], Shape(s), NEW c \in Cores, Acquire(c)
  PROVE  Shape(s)'
<1> DEFINE f == frame[c]
           l == Body(f.op)
<1>1. /\ f \in Frames /\ f.op \in {"enqueue", "dequeue", "remove"} /\ pc[c] = "acquire"
      /\ pc' = [pc EXCEPT ![c] = l] /\ frame' = [frame EXCEPT ![c] = f]
      /\ frame' = frame /\ held' = held /\ UNCHANGED links
      /\ CallKnows("acquire", f, c) /\ ListKnows(s, "acquire", f, c)
  BY DEF Acquire, At, Goto, IInv, TypeOK, FramesOK, FrameOK, Frames, Shape, Knows
<1>2. /\ f.op = "enqueue" => l = "enq_self"
      /\ f.op = "dequeue" => l = "deq_first"
      /\ f.op = "remove" => l = "rem_unlink"
  BY DEF Body
<1>3. pc'[c] = l /\ frame'[c] = f /\ l \in Labels
  BY <1>1, <1>2 DEF IInv, TypeOK, Labels, Links
<1> HIDE DEF f, l
<1>4. CallKnows(l, f, c) /\ ListKnows(s, l, f, c)
  BY <1>1, <1>2 DEF CallKnows, ListKnows
<1>5. Loose(c)' <=> Loose(c)
  <2>1. frame[c] = f
    BY DEF f
  <2> QED
    BY <1>1, <1>2, <1>3, <2>1 DEF Loose
<1>6. Owned(s)' /\ HandsOK'
  BY <1>1, <1>5, SameOwners DEF Shape, f
<1>7. {pc[c], l} \cap {"enq_tail", "deq_back", "rem_back"} = {} /\ l # "enq_link"
  BY <1>1, <1>2
<1> QED
  BY <1>1, <1>3, <1>4, <1>6, <1>7, CallShape

(* dequeue reads the first process of the list, or that there is none.     *)
LEMMA DequeueFirstShape ==
  ASSUME IInv, NEW s \in [Queues -> Seq(Procs)], Shape(s), NEW c \in Cores, DequeueFirst(c)
  PROVE  /\ Shape(s)'
         /\ IF s[frame[c].q] = <<>> THEN pc'[c] = "release" /\ frame'[c] = frame[c]
            ELSE pc'[c] = "deq_unlink" /\ frame'[c] = [frame[c] EXCEPT !.pid = s[frame[c].q][1]]
<1> DEFINE old   == frame[c]
           q     == old.q
           first == next[queuehead(q)]
<1>1. /\ old \in Frames /\ q \in Queues /\ pc[c] = "deq_first"
      /\ UNCHANGED links /\ held' = held
      /\ CallKnows("deq_first", old, c) /\ ListKnows(s, "deq_first", old, c)
  BY DEF DequeueFirst, At, IInv, TypeOK, FramesOK, FrameOK, Links, Shape, Knows
<1>2. first = Cell(s, q, 1) /\ Len(s[q]) \in Nat /\ s[q] \in Seq(Procs)
  <2>1. 0 \in 0 .. Len(s[q]) /\ Len(s[q]) \in Nat /\ Cell(s, q, 0) = queuehead(q)
    BY <1>1, Cells
  <2> QED
    BY <1>1, <2>1 DEF Shape, ForwardAt
<1>3. old.op = "dequeue" /\ old.pid = EMPTY
  BY <1>1 DEF CallKnows
<1>4. CASE s[q] # <<>>
  <2> DEFINE f == [old EXCEPT !.pid = first]
  <2>1. 1 \in 1 .. Len(s[q]) /\ first = s[q][1] /\ first \in Procs
    <3>1. 1 \in 1 .. Len(s[q])
      BY <1>2, <1>4
    <3> QED
      BY <1>1, <1>2, <3>1, Cells
  <2>2. /\ f \in Frames /\ f.q = q /\ f.pid = first /\ f.op = old.op
    BY <1>1, <2>1 DEF Frames
  <2>3. frame' = [frame EXCEPT ![c] = f] /\ pc' = [pc EXCEPT ![c] = "deq_unlink"]
    BY <2>1, Numbers DEF DequeueFirst, Goto, Procs
  <2>4. frame'[c] = f /\ pc'[c] = "deq_unlink"
    BY <2>3 DEF IInv, TypeOK
  <2>5. f = [frame[c] EXCEPT !.pid = s[frame[c].q][1]]
    BY <2>1
  <2> HIDE DEF f
  <2>6. CallKnows("deq_unlink", f, c) /\ ListKnows(s, "deq_unlink", f, c)
    BY <1>1, <1>3, <1>4, <2>1, <2>2 DEF CallKnows, ListKnows
  <2>7. ~Loose(c) /\ ~Loose(c)'
    BY <1>1, <1>3, <2>2, <2>4 DEF Loose
  <2>8. Owned(s)' /\ HandsOK'
    BY <1>1, <2>3, <2>7, SameOwners DEF Shape
  <2>9. "deq_unlink" \in Labels
    BY DEF Labels, Links
  <2>10. Shape(s)'
    BY <1>1, <2>2, <2>3, <2>6, <2>8, <2>9, CallShape
  <2> QED
    BY <1>4, <2>4, <2>5, <2>10
<1>5. CASE s[q] = <<>>
  <2>1. first = queuetail(q) /\ ~(first < NPROC)
    <3>1. Len(s[q]) = 0
      BY <1>5
    <3>2. first = queuetail(q)
      BY <1>1, <1>2, <3>1, Cells
    <3> QED
      BY <1>1, <3>2, Numbers DEF queuetail, queuehead, Queues
  <2>2. frame' = [frame EXCEPT ![c] = old] /\ pc' = [pc EXCEPT ![c] = "release"]
    BY <2>1 DEF DequeueFirst, Goto, IInv, TypeOK
  <2>3. frame'[c] = old /\ pc'[c] = "release"
    BY <2>2 DEF IInv, TypeOK
  <2>4. CallKnows("release", old, c) /\ ListKnows(s, "release", old, c)
    BY <1>1, <1>3, <1>5 DEF CallKnows, ListKnows
  <2>5. ~Loose(c) /\ ~Loose(c)'
    BY <1>1, <1>3, <2>3 DEF Loose
  <2>6. Owned(s)' /\ HandsOK'
    BY <1>1, <2>2, <2>5, SameOwners DEF Shape
  <2>7. "release" \in Labels
    BY DEF Labels
  <2>8. Shape(s)'
    BY <1>1, <2>2, <2>4, <2>6, <2>7, CallShape
  <2> QED
    BY <1>5, <2>3, <2>8
<1> QED
  BY <1>4, <1>5

-----------------------------------------------------------------------------
(* lock_release: what the core has in hand becomes its own.                *)
LEMMA ReleaseShape ==
  ASSUME IInv, NEW s \in [Queues -> Seq(Procs)], Shape(s), NEW c \in Cores, Release(c)
  PROVE  Shape(s)'
<1> DEFINE pid == frame[c].pid
<1>1. /\ pc[c] = "release" /\ UNCHANGED links
      /\ frame' = [frame EXCEPT ![c] = NoFrame] /\ pc' = [pc EXCEPT ![c] = "idle"]
      /\ CallKnows("release", frame[c], c)
  BY DEF Release, At, Goto, Shape, Knows
<1>2. /\ frame'[c] = NoFrame /\ pc'[c] = "idle"
      /\ \A d \in Cores \ {c} : pc'[d] = pc[d] /\ frame'[d] = frame[d]
  BY <1>1 DEF IInv, TypeOK
<1>3. ~Loose(c)' /\ \A d \in Cores \ {c} : Loose(d)' <=> Loose(d)
  BY <1>2 DEF Loose
<1>4. Owned(s) /\ HandsOK
  BY DEF Shape
<1>5. /\ Loose(c) <=> frame[c].op \in {"dequeue", "remove"} /\ pid # EMPTY
      /\ pid \in Procs \/ pid = EMPTY
  BY <1>1 DEF Loose, CallKnows
<1>6. CallKnows("idle", NoFrame, c) /\ ListKnows(s, "idle", NoFrame, c)
  BY DEF CallKnows, ListKnows, NoFrame
<1>7. "idle" \in Labels
  BY DEF Labels
<1>8. Owned(s)' /\ HandsOK'
  <2>1. CASE Loose(c)
    <3>1. pid \in Procs /\ held' = [held EXCEPT ![pid] = c] /\ c # NONE
      BY <1>4, <1>5, <2>1, Numbers DEF Release, HandsOK
    <3>2. \A p \in Procs : held'[p] = IF p = pid THEN c ELSE held[p]
      BY <3>1 DEF IInv, TypeOK
    <3>3. \A d \in Cores \ {c} : Loose(d) => frame[d].pid # pid
      BY <1>4, <2>1 DEF HandsOK
    <3>4. \A q \in Queues : ~In(s, q, pid)
      BY <1>4, <2>1, <3>1 DEF Owned
    <3>5. HandsOK'
      <4> SUFFICES ASSUME NEW d \in Cores, Loose(d)'
                   PROVE  /\ frame'[d].pid \in Procs /\ held'[frame'[d].pid] = NONE
                          /\ \A e \in Cores : Loose(e)' /\ frame'[e].pid = frame'[d].pid => e = d
        BY DEF HandsOK
      <4>1. d # c /\ Loose(d) /\ frame'[d] = frame[d]
        BY <1>2, <1>3
      <4>2. /\ frame[d].pid \in Procs /\ held[frame[d].pid] = NONE
            /\ \A e \in Cores : Loose(e) /\ frame[e].pid = frame[d].pid => e = d
        BY <1>4, <4>1 DEF HandsOK
      <4> QED
        BY <1>2, <1>3, <3>2, <3>3, <4>1, <4>2
    <3>6. Owned(s)'
      <4>1. ASSUME NEW q \in Queues, NEW p \in Procs, In(s, q, p)
            PROVE  held'[p] = NONE /\ \A d \in Cores : Loose(d)' => frame'[d].pid # p
        <5>1. held[p] = NONE /\ p # pid /\ \A d \in Cores : Loose(d) => frame[d].pid # p
          BY <1>4, <3>4, <4>1 DEF Owned
        <5> QED
          BY <1>2, <1>3, <3>2, <5>1
      <4>2. ASSUME NEW p \in Procs, held'[p] = NONE
            PROVE  \/ \E q \in Queues : In(s, q, p)
                   \/ \E d \in Cores : Loose(d)' /\ frame'[d].pid = p
        <5>1. p # pid /\ held[p] = NONE
          BY <3>1, <3>2, <4>2
        <5>2. \/ \E q \in Queues : In(s, q, p)
              \/ \E d \in Cores : Loose(d) /\ frame[d].pid = p
          BY <1>4, <5>1 DEF Owned
        <5> QED
          BY <1>2, <1>3, <5>1, <5>2
      <4>3. \A q \in Queues, p \in Procs : In(s, q, p)' <=> In(s, q, p)
        BY DEF In
      <4> QED
        BY <4>1, <4>2, <4>3 DEF Owned
    <3> QED
      BY <3>5, <3>6
  <2>2. CASE ~Loose(c)
    <3>1. held' = held
      BY <1>5, <2>2, Numbers DEF Release
    <3> QED
      BY <1>1, <1>3, <1>4, <2>2, <3>1, SameOwners
  <2> QED
    BY <2>1, <2>2
<1> QED
  BY <1>1, <1>6, <1>7, <1>8, NoFrameFits, CallShape

-----------------------------------------------------------------------------
(* What the core inside q finds in the links of q.                         *)
LEMMA InsideKnows ==
  ASSUME AllLocked, IInv, NEW s \in [Queues -> Seq(Procs)], Shape(s), NEW c \in Cores,
         pc[c] \in Links
  PROVE  LET q == frame[c].q
         IN  /\ q \in Queues /\ frame[c] \in Frames
             /\ \A i \in 1 .. Len(s[q]) + 1 :
                  \/ pc[c] = "enq_tail" /\ i = Len(s[q]) + 1
                  \/ pc[c] \in {"deq_back", "rem_back"} /\ Cell(s, q, i) = next[frame[c].pid]
                  \/ prev[Cell(s, q, i)] = Cell(s, q, i - 1)
             /\ \A i \in 0 .. Len(s[q]) : next[Cell(s, q, i)] = Cell(s, q, i + 1)
             /\ CallKnows(pc[c], frame[c], c) /\ ListKnows(s, pc[c], frame[c], c)
             /\ LinkKnows(s, pc[c], frame[c]) /\ FrameOK(pc[c], frame[c])
<1> DEFINE q == frame[c].q
<1>1. /\ FrameOK(pc[c], frame[c]) /\ Knows(s, c) /\ frame[c] \in Frames
      /\ q \in Queues
  BY DEF IInv, TypeOK, FramesOK, FrameOK, Shape
<1>2. c \in Inside(q)
  BY <1>1 DEF Inside
<1>3. ASSUME NEW i \in 1 .. Len(s[q]) + 1
      PROVE  \/ pc[c] = "enq_tail" /\ i = Len(s[q]) + 1
             \/ pc[c] \in {"deq_back", "rem_back"} /\ Cell(s, q, i) = next[frame[c].pid]
             \/ prev[Cell(s, q, i)] = Cell(s, q, i - 1)
  <2>1. CASE Stale(s, q, i)
    <3> PICK d \in Cores :
          /\ frame[d].q = q
          /\ \/ pc[d] = "enq_tail" /\ i = Len(s[q]) + 1
             \/ pc[d] \in {"deq_back", "rem_back"} /\ Cell(s, q, i) = next[frame[d].pid]
      BY <2>1 DEF Stale
    <3>1. d \in Inside(q)
      BY DEF Inside, Links
    <3>2. d = c
      BY <1>1, <1>2, <3>1, Lone DEF IInv
    <3> QED
      BY <3>2
  <2>2. CASE ~Stale(s, q, i)
    BY <1>1, <2>2 DEF Shape, BackwardAt
  <2> QED
    BY <2>1, <2>2
<1>4. \A i \in 0 .. Len(s[q]) : next[Cell(s, q, i)] = Cell(s, q, i + 1)
  BY <1>1 DEF Shape, ForwardAt
<1> HIDE DEF q
<1>5. /\ CallKnows(pc[c], frame[c], c) /\ ListKnows(s, pc[c], frame[c], c)
      /\ LinkKnows(s, pc[c], frame[c])
  BY <1>1 DEF Knows
<1> QED
  BY <1>1, <1>3, <1>4, <1>5 DEF q

(* A store of the core inside q keeps the shape when it does so for q.     *)
LEMMA StoreShape ==
  ASSUME AllLocked, IInv, NEW s \in [Queues -> Seq(Procs)], Shape(s), NEW c \in Cores,
         NEW l \in Links \cup {"release"}, pc[c] \in Links,
         pc' = [pc EXCEPT ![c] = l], UNCHANGED <<lock, held, frame>>,
         NEW q \in Queues, frame[c].q = q,
         NEW t \in [Queues -> Seq(Procs)],
         \A r \in Queues \ {q} : t[r] = s[r],
         Local(s, c), Kept(s, t, c),
         Apart(t), ForwardAt(t, q)', BackwardAt(t, q)',
         \A r \in Queues : prev'[queuehead(r)] = EMPTY,
         Owned(t)', HandsOK',
         CallKnows(l, frame[c], c), ListKnows(t, l, frame[c], c), LinkKnows(t, l, frame[c])'
  PROVE  Shape(t)'
<1>1. /\ \A r \in Queues \ {q} : ForwardAt(t, r)' /\ BackwardAt(t, r)'
      /\ \A d \in Cores \ {c} : Knows(t, d)'
  BY StoreOthers
<1>2. pc'[c] = l /\ frame' = frame
  BY DEF IInv, TypeOK
<1>3. Knows(t, c)'
  <2>1. CallKnows(pc[c], frame[c], c)'
    BY <1>2 DEF CallKnows
  <2>2. ListKnows(t, pc[c], frame[c], c)'
    <3> DEFINE f == frame[c]
    <3>1. ListKnows(t, l, f, c) /\ frame'[c] = f
      BY <1>2
    <3> HIDE DEF f
    <3> QED
      BY <1>2, <3>1 DEF ListKnows, In
  <2>3. LinkKnows(t, pc[c], frame[c])'
    BY <1>2 DEF LinkKnows, Cell
  <2> QED
    BY <2>1, <2>2, <2>3 DEF Knows
<1>4. \A d \in Cores : Knows(t, d)'
  BY <1>1, <1>3
<1>5. Apart(t)'
  BY DEF Apart
<1>6. \A r \in Queues : ForwardAt(t, r)' /\ BackwardAt(t, r)'
  BY <1>1
<1> QED
  BY <1>4, <1>5, <1>6 DEF Shape, queuehead

(* A store that touches no entry of the queue the core is inside of.       *)
OnlyOwn(s, c) ==
  /\ Local(s, c)
  /\ \A r \in Queues : prev'[queuehead(r)] = EMPTY
  /\ \A i \in 0 .. Len(s[frame[c].q]) + 1 :
       /\ next'[Cell(s, frame[c].q, i)] = next[Cell(s, frame[c].q, i)]
       /\ prev'[Cell(s, frame[c].q, i)] = prev[Cell(s, frame[c].q, i)]

(* A store to the links of its own process by a core that has it in hand.  *)
LEMMA OwnStore ==
  ASSUME AllLocked, IInv, NEW s \in [Queues -> Seq(Procs)], Shape(s), NEW c \in Cores,
         pc[c] \in Links, Loose(c), NEW x \in Entries, NEW y \in Entries,
         next' = [next EXCEPT ![frame[c].pid] = x], prev' = [prev EXCEPT ![frame[c].pid] = y]
  PROVE  OnlyOwn(s, c) /\ next'[frame[c].pid] = x /\ prev'[frame[c].pid] = y
<1> DEFINE q == frame[c].q
           pid == frame[c].pid
<1>1. q \in Queues
  BY InsideKnows
<1>2. /\ pid \in Procs /\ pid \in Entries
      /\ \A i \in 0 .. Len(s[q]) + 1 : Cell(s, q, i) # pid /\ Cell(s, q, i) \in Entries
  <2>1. Owned(s) /\ HandsOK
    BY DEF Shape
  <2>2. pid \in Procs /\ \A i \in 0 .. Len(s[q]) + 1 : Cell(s, q, i) # pid
    BY <1>1, <2>1, LooseApart
  <2>3. \A i \in 0 .. Len(s[q]) + 1 : Cell(s, q, i) \in Entries
    BY <1>1, Cells
  <2> QED
    BY <2>2, <2>3, Numbers
<1>3. next \in [Entries -> Entries \cup {EMPTY}] /\ prev \in [Entries -> Entries \cup {EMPTY}]
  BY DEF IInv, TypeOK
<1>4. \A e \in Entries : e # pid => next'[e] = next[e] /\ prev'[e] = prev[e]
  BY <1>3
<1>5. next'[pid] = x /\ prev'[pid] = y
  BY <1>2, <1>3
<1>6. Local(s, c)
  BY <1>4 DEF Local
<1>7. \A r \in Queues : prev'[queuehead(r)] = EMPTY
  BY <1>2, <1>4, Numbers DEF Shape
<1> QED
  BY <1>2, <1>4, <1>5, <1>6, <1>7 DEF OnlyOwn

(* A store by which nothing enters or leaves a hand changes no owner.      *)
LEMMA StaysOwned ==
  ASSUME AllLocked, IInv, NEW s \in [Queues -> Seq(Procs)], Shape(s), NEW c \in Cores,
         NEW l \in Links \cup {"release"}, pc' = [pc EXCEPT ![c] = l],
         UNCHANGED <<lock, held, frame>>, Loose(c)' <=> Loose(c)
  PROVE  Owned(s)' /\ HandsOK'
<1>1. frame' = [frame EXCEPT ![c] = frame[c]] /\ held' = held
  BY DEF IInv, TypeOK
<1> QED
  BY <1>1, SameOwners DEF Shape

(* The stores to the links of the process in hand: enqueue's first and     *)
(* dequeue's last.                                                         *)
LEMMA OwnStoreShape ==
  ASSUME AllLocked, IInv, NEW s \in [Queues -> Seq(Procs)], Shape(s), NEW c \in Cores,
         EnqueueSelf(c) \/ DequeueSelf(c)
  PROVE  Shape(s)'
<1> DEFINE q   == frame[c].q
           pid == frame[c].pid
<1>l. PICK l : l = IF pc[c] = "enq_self" THEN "enq_link" ELSE "release"
  OBVIOUS
<1>x. PICK x : x = IF pc[c] = "enq_self" THEN queuetail(q) ELSE pid
  OBVIOUS
<1>y. PICK y : y = IF pc[c] = "enq_self" THEN prev[queuetail(q)] ELSE pid
  OBVIOUS
<1>1. /\ pc[c] \in {"enq_self", "deq_self"} /\ UNCHANGED <<lock, held, frame>>
      /\ pc' = [pc EXCEPT ![c] = l] /\ l \in Links \cup {"release"}
      /\ next' = [next EXCEPT ![pid] = x] /\ prev' = [prev EXCEPT ![pid] = y]
      /\ pc[c] \in Links
  BY <1>l, <1>x, <1>y DEF EnqueueSelf, DequeueSelf, At, Goto, Links
<1>2. /\ pid \in Procs /\ pid \in Entries /\ q \in Queues
      /\ queuetail(q) \in Entries /\ prev[queuetail(q)] \in Entries
      /\ x \in Entries /\ y \in Entries
  BY <1>1, <1>x, <1>y, StoreArguments
<1>3. /\ CallKnows(pc[c], frame[c], c)
      /\ \A i \in 1 .. Len(s[q]) + 1 : prev[Cell(s, q, i)] = Cell(s, q, i - 1)
      /\ \A i \in 0 .. Len(s[q]) : next[Cell(s, q, i)] = Cell(s, q, i + 1)
  BY <1>1, InsideKnows
<1>4. pid # EMPTY
  BY <1>2, Numbers
<1>5. Loose(c)
  BY <1>1, <1>3, <1>4 DEF Loose, CallKnows
<1>6. Loose(c)'
  <2>1. pc'[c] = l /\ frame' = frame
    BY <1>1 DEF IInv, TypeOK
  <2> QED
    BY <1>1, <1>l, <1>3, <1>4, <2>1 DEF Loose, CallKnows
<1>7. Owned(s)' /\ HandsOK'
  BY <1>1, <1>5, <1>6, StaysOwned
<1>8. /\ Local(s, c)
      /\ \A r \in Queues : prev'[queuehead(r)] = EMPTY
      /\ \A i \in 0 .. Len(s[q]) + 1 : /\ next'[Cell(s, q, i)] = next[Cell(s, q, i)]
                                        /\ prev'[Cell(s, q, i)] = prev[Cell(s, q, i)]
      /\ next'[pid] = x /\ prev'[pid] = y
  <2>1. /\ next' = [next EXCEPT ![frame[c].pid] = x]
        /\ prev' = [prev EXCEPT ![frame[c].pid] = y]
    BY <1>1
  <2>2. x \in Entries /\ y \in Entries /\ pc[c] \in Links
    BY <1>1, <1>2
  <2>3. OnlyOwn(s, c) /\ next'[frame[c].pid] = x /\ prev'[frame[c].pid] = y
    BY <1>5, <2>1, <2>2, OwnStore
  <2> QED
    BY <2>3 DEF OnlyOwn
<1>9. Len(s[q]) \in Nat /\ Cell(s, q, Len(s[q]) + 1) = queuetail(q)
  BY <1>2, Cells
<1>10. ForwardAt(s, q)
  BY <1>3 DEF ForwardAt
<1>11. ForwardAt(s, q)' /\ BackwardAt(s, q)'
  <2>1. frame' = frame
    BY <1>1
  <2>2. \A i \in 0 .. Len(s[q]) : next'[Cell(s, q, i)] = Cell(s, q, i + 1)
    BY <1>3, <1>8, <1>9
  <2>3. \A i \in 1 .. Len(s[q]) + 1 : prev'[Cell(s, q, i)] = Cell(s, q, i - 1)
    BY <1>3, <1>8, <1>9
  <2> QED
    BY <2>1, <2>2, <2>3 DEF ForwardAt, BackwardAt, Cell
<1>12. CallKnows(l, frame[c], c) /\ ListKnows(s, l, frame[c], c)
  BY <1>1, <1>l, <1>2, <1>3 DEF CallKnows, ListKnows
<1>13. LinkKnows(s, l, frame[c])'
  <2>1. CASE pc[c] = "enq_self"
    <3>1. Len(s[q]) + 1 \in 0 .. Len(s[q]) + 1
      BY <1>9
    <3>2. prev'[queuetail(q)] = prev[queuetail(q)]
      BY <1>8, <1>9, <3>1
    <3>3. next'[pid] = queuetail(q) /\ prev'[pid] = prev'[queuetail(q)]
      BY <1>8, <1>x, <1>y, <2>1, <3>2
    <3> QED
      BY <1>1, <1>l, <2>1, <3>3 DEF LinkKnows, queuetail, queuehead
  <2>2. CASE pc[c] # "enq_self"
    <3>1. l = "release"
      BY <1>l, <2>2
    <3> QED
      BY <3>1 DEF LinkKnows
  <2> QED
    BY <2>1, <2>2
<1>14. Kept(s, s, c)
  BY <1>2, <1>9 DEF Kept
<1>15. Apart(s)
  BY DEF Shape
<1> QED
  BY <1>1, <1>2, <1>7, <1>8, <1>11, <1>12, <1>13, <1>14, <1>15, StoreShape

-----------------------------------------------------------------------------
(* A store to the links of the entry at position k of the list of core c:  *)
(* nothing else changes. *)
CellsBut(s, c, k) ==
  /\ Local(s, c)
  /\ \A r \in Queues : prev'[queuehead(r)] = EMPTY
  /\ \A i \in 0 .. Len(s[frame[c].q]) + 1 : i # k =>
       /\ next'[Cell(s, frame[c].q, i)] = next[Cell(s, frame[c].q, i)]
       /\ prev'[Cell(s, frame[c].q, i)] = prev[Cell(s, frame[c].q, i)]
  /\ Loose(c) => /\ next'[frame[c].pid] = next[frame[c].pid]
                 /\ prev'[frame[c].pid] = prev[frame[c].pid]

(* A store to one cell of q changes no other entry.                        *)
LEMMA CellStore ==
  ASSUME AllLocked, IInv, NEW s \in [Queues -> Seq(Procs)], Shape(s), NEW c \in Cores,
         pc[c] \in Links, NEW k \in 0 .. Len(s[frame[c].q]) + 1,
         NEW e \in Entries, e = Cell(s, frame[c].q, k),
         \A d \in Entries \ {e} : next'[d] = next[d] /\ prev'[d] = prev[d],
         prev' = prev \/ k # 0
  PROVE  CellsBut(s, c, k)
<1> DEFINE q == frame[c].q
<1>1. q \in Queues /\ Apart(s) /\ Owned(s) /\ HandsOK /\ Len(s[q]) \in Nat
  BY InsideKnows, Cells DEF Shape
<1>2. \A i \in 0 .. Len(s[q]) + 1 : Cell(s, q, i) \in Entries /\ (i # k => Cell(s, q, i) # e)
  BY <1>1, Cells, CellsApart
<1>3. Local(s, c)
  BY DEF Local
<1>4. Loose(c) => frame[c].pid # e /\ frame[c].pid \in Entries
  BY <1>1, LooseApart, Numbers
<1>5. \A r \in Queues : prev'[queuehead(r)] = EMPTY
  <2>1. \A r \in Queues : prev[queuehead(r)] = EMPTY
    BY DEF Shape
  <2>2. CASE prev' = prev
    BY <2>1, <2>2
  <2>3. CASE k # 0
    <3> SUFFICES ASSUME NEW r \in Queues PROVE queuehead(r) # e
      BY <2>1, Numbers
    <3>1. Cell(s, r, 0) = queuehead(r) /\ 0 \in 0 .. Len(s[r]) + 1
      BY Cells
    <3> QED
      BY <1>1, <2>3, <3>1, CellsApart
  <2> QED
    BY <2>2, <2>3
<1> QED
  BY <1>2, <1>3, <1>4, <1>5 DEF CellsBut

(* enqueue's last store, and the last but one of dequeue and remove, mend  *)
(* the one link back that is out of date.                                  *)
LEMMA BackShape ==
  ASSUME AllLocked, IInv, NEW s \in [Queues -> Seq(Procs)], Shape(s), NEW c \in Cores,
         EnqueueTail(c) \/ DequeueBack(c) \/ RemoveBack(c)
  PROVE  Shape(s)'
<1> DEFINE q   == frame[c].q
           pid == frame[c].pid
           n   == Len(s[q])
<1>l. PICK l : l = IF pc[c] = "deq_back" THEN "deq_self" ELSE "release"
  OBVIOUS
<1>1. /\ pc[c] \in {"enq_tail", "deq_back", "rem_back"} /\ UNCHANGED <<lock, held, frame>>
      /\ pc' = [pc EXCEPT ![c] = l] /\ l \in Links \cup {"release"}
      /\ next' = next /\ pc[c] \in Links
      /\ pc[c] = "enq_tail" => prev' = [prev EXCEPT ![queuetail(q)] = pid]
      /\ pc[c] # "enq_tail" => prev' = [prev EXCEPT ![next[pid]] = prev[pid]]
  BY <1>l DEF EnqueueTail, DequeueBack, RemoveBack, At, Goto, Links
<1>2. /\ pid \in Procs /\ pid \in Entries /\ q \in Queues /\ prev[pid] \in Entries
      /\ n \in Nat /\ pid # EMPTY
  BY <1>1, StoreArguments, Cells, Numbers
<1>3. /\ CallKnows(pc[c], frame[c], c) /\ ListKnows(s, pc[c], frame[c], c)
      /\ LinkKnows(s, pc[c], frame[c])
      /\ \A i \in 1 .. n + 1 :
           \/ pc[c] = "enq_tail" /\ i = n + 1
           \/ pc[c] \in {"deq_back", "rem_back"} /\ Cell(s, q, i) = next[pid]
           \/ prev[Cell(s, q, i)] = Cell(s, q, i - 1)
      /\ \A i \in 0 .. n : next[Cell(s, q, i)] = Cell(s, q, i + 1)
  BY <1>1, InsideKnows
<1>e. PICK e : e = IF pc[c] = "enq_tail" THEN queuetail(q) ELSE next[pid]
  OBVIOUS
<1>v. PICK v : v = IF pc[c] = "enq_tail" THEN pid ELSE prev[pid]
  OBVIOUS
<1>4. PICK k \in 1 .. n + 1 :
        e = Cell(s, q, k) /\ v = Cell(s, q, k - 1) /\ (pc[c] = "enq_tail" => k = n + 1)
  <2>1. CASE pc[c] = "enq_tail"
    <3>1. s[q] # <<>> /\ s[q][n] = pid
      BY <1>3, <2>1 DEF ListKnows
    <3>2. n \in 1 .. n /\ n + 1 \in 1 .. n + 1 /\ n + 1 - 1 = n
      <4>1. s[q] \in Seq(Procs)
        BY <1>2
      <4> QED
        BY <1>2, <3>1, <4>1
    <3>3. Cell(s, q, n + 1) = queuetail(q) /\ Cell(s, q, n) = pid
      BY <1>2, <3>1, <3>2, Cells
    <3> HIDE DEF n, q, pid
    <3>4. e = Cell(s, q, n + 1) /\ v = Cell(s, q, n + 1 - 1)
      BY <1>e, <1>v, <2>1, <3>2, <3>3
    <3> QED
      BY <2>1, <3>2, <3>4
  <2>2. CASE pc[c] # "enq_tail"
    <3>1. PICK k \in 1 .. n + 1 : next[pid] = Cell(s, q, k) /\ prev[pid] = Cell(s, q, k - 1)
      BY <1>1, <1>3, <2>2 DEF LinkKnows
    <3> QED
      BY <1>e, <1>v, <2>2, <3>1
  <2> QED
    BY <2>1, <2>2
<1>5. k \in 0 .. n + 1 /\ k # 0 /\ e \in Entries
  BY <1>2, <1>4, Cells
<1>6. CellsBut(s, c, k) /\ prev'[Cell(s, q, k)] = v
  <2>1. prev' = [prev EXCEPT ![e] = v]
    BY <1>1, <1>e, <1>v
  <2>2. prev'[e] = v /\ \A d \in Entries \ {e} : next'[d] = next[d] /\ prev'[d] = prev[d]
    BY <1>1, <1>5, <2>1 DEF IInv, TypeOK
  <2> QED
    BY <1>1, <1>4, <1>5, <2>2, CellStore
<1>7. Loose(c)' <=> Loose(c)
  <2>1. pc'[c] = l /\ frame' = frame
    BY <1>1 DEF IInv, TypeOK
  <2> QED
    BY <1>1, <1>l, <1>2, <1>3, <2>1 DEF Loose, CallKnows
<1>8. Owned(s)' /\ HandsOK'
  BY <1>1, <1>7, StaysOwned
<1>9. ForwardAt(s, q)' /\ BackwardAt(s, q)'
  <2>1. frame' = frame
    BY <1>1
  <2>2. \A i \in 0 .. n : next'[Cell(s, q, i)] = Cell(s, q, i + 1)
    BY <1>1, <1>3
  <2>3. ASSUME NEW i \in 1 .. n + 1 PROVE prev'[Cell(s, q, i)] = Cell(s, q, i - 1)
    <3>1. CASE i = k
      BY <1>4, <1>6, <3>1
    <3>2. CASE i # k
      <4>1. i \in 0 .. n + 1 /\ k \in 0 .. n + 1
        BY <1>2
      <4>2. prev'[Cell(s, q, i)] = prev[Cell(s, q, i)]
        BY <1>6, <3>2, <4>1 DEF CellsBut
      <4>3. Cell(s, q, i) # Cell(s, q, k)
        BY <1>2, <3>2, <4>1, CellsApart DEF Shape
      <4>4. pc[c] # "enq_tail" => e = next[pid]
        BY <1>e
      <4> QED
        BY <1>1, <1>3, <1>4, <3>2, <4>2, <4>3, <4>4
    <3> QED
      BY <3>1, <3>2
  <2> QED
    BY <2>1, <2>2, <2>3 DEF ForwardAt, BackwardAt, Cell
<1>10. CallKnows(l, frame[c], c) /\ ListKnows(s, l, frame[c], c)
  BY <1>1, <1>l, <1>2, <1>3 DEF CallKnows, ListKnows
<1>11. LinkKnows(s, l, frame[c])'
  BY <1>l DEF LinkKnows
<1>12. Kept(s, s, c) /\ Apart(s) /\ Local(s, c) /\ \A r \in Queues : prev'[queuehead(r)] = EMPTY
  BY <1>2, <1>6 DEF Kept, Shape, CellsBut
<1> QED
  BY <1>1, <1>2, <1>8, <1>9, <1>10, <1>11, <1>12, StoreShape

-----------------------------------------------------------------------------
(* t is s with process p at the end of q.                                  *)
IsAppended(s, t, q, p) == t = [s EXCEPT ![q] = Append(s[q], p)]

(* The cells of q with p at the end.                                       *)
Longer(s, t, q, p) ==
  LET n == Len(s[q])
  IN  /\ t \in [Queues -> Seq(Procs)] /\ n \in Nat
      /\ \A r \in Queues \ {q} : t[r] = s[r]
      /\ Len(t[q]) = n + 1 /\ t[q] # <<>>
      /\ \A i \in 1 .. n : t[q][i] = s[q][i]
      /\ t[q][n + 1] = p
      /\ \A i \in 0 .. n : Cell(t, q, i) = Cell(s, q, i)
      /\ Cell(t, q, n + 1) = p /\ Cell(t, q, n + 2) = queuetail(q)
      /\ Apart(t)
      /\ \A r \in Queues, x \in Procs : In(t, r, x) <=> (In(s, r, x) \/ (r = q /\ x = p))

(* What Append does to the cells.                                          *)
LEMMA Appended ==
  ASSUME NEW s \in [Queues -> Seq(Procs)], Apart(s), NEW q \in Queues, NEW p \in Procs,
         \A r \in Queues : ~In(s, r, p),
         NEW t, IsAppended(s, t, q, p)
  PROVE  Longer(s, t, q, p)
<1> DEFINE n == Len(s[q])
           u == s[q]
<1>1. u \in Seq(Procs) /\ t[q] = Append(u, p) /\ n = Len(u) /\ n \in Nat
      /\ t \in [Queues -> Seq(Procs)]
  BY DEF IsAppended
<1>2. \A r \in Queues \ {q} : t[r] = s[r]
  BY DEF IsAppended
<1>3. /\ Len(t[q]) = n + 1 /\ t[q][n + 1] = p
      /\ \A i \in 1 .. n : t[q][i] = u[i]
  <2>1. u \in Seq(Procs) /\ n = Len(u) /\ t[q] = Append(u, p)
    BY <1>1
  <2> HIDE DEF u, n
  <2> QED
    BY <2>1
<1>4. t[q] # <<>>
  BY <1>1, <1>3
<1>5. /\ \A i \in 0 .. n : Cell(t, q, i) = Cell(s, q, i)
      /\ Cell(t, q, n + 1) = p /\ Cell(t, q, n + 2) = queuetail(q)
  <2>1. /\ n + 1 # 0 /\ n + 2 # 0 /\ n + 1 + 1 = n + 2 /\ n + 1 # n + 1 + 1
        /\ \A i \in 0 .. n : i # n + 1 /\ i # n + 1 + 1 /\ (i # 0 => i \in 1 .. n)
    BY <1>1
  <2> HIDE DEF u, n
  <2> QED
    BY <1>3, <2>1 DEF Cell, u, n
<1>6. Apart(t)
  <2>1. \A r \in Queues : \A i \in 1 .. Len(s[r]) : s[r][i] # p
    BY DEF In
  <2>2. ASSUME NEW r \in Queues, NEW i \in 1 .. Len(t[r])
        PROVE  \/ i \in 1 .. Len(s[r]) /\ t[r][i] = s[r][i]
               \/ r = q /\ i = n + 1 /\ t[r][i] = p
    BY <1>1, <1>2, <1>3
  <2> HIDE DEF u, n
  <2>3. ASSUME NEW r \in Queues, NEW x \in Queues, NEW i \in 1 .. Len(t[r]),
               NEW j \in 1 .. Len(t[x]), t[r][i] = t[x][j]
        PROVE  r = x /\ i = j
    <3>1. CASE r = q /\ i = n + 1 /\ t[r][i] = p
      BY <2>1, <2>2, <2>3, <3>1
    <3>2. CASE x = q /\ j = n + 1 /\ t[x][j] = p
      BY <2>1, <2>2, <2>3, <3>2
    <3>3. CASE i \in 1 .. Len(s[r]) /\ t[r][i] = s[r][i] /\ j \in 1 .. Len(s[x]) /\ t[x][j] = s[x][j]
      <4>1. s[r][i] = s[x][j]
        BY <2>3, <3>3
      <4> QED
        BY <3>3, <4>1 DEF Apart
    <3> QED
      BY <2>2, <3>1, <3>2, <3>3
  <2> QED
    BY <2>3 DEF Apart
<1>7. ASSUME NEW r \in Queues, NEW x \in Procs
      PROVE  In(t, r, x) <=> (In(s, r, x) \/ (r = q /\ x = p))
  <2>1. CASE r = q
    <3> HIDE DEF u, n
    <3>1. \A i \in 1 .. n + 1 : i \in 1 .. n \/ i = n + 1
      BY <1>1
    <3>2. n + 1 \in 1 .. n + 1 /\ \A i \in 1 .. n : i \in 1 .. n + 1
      BY <1>1
    <3> QED
      BY <1>3, <2>1, <3>1, <3>2 DEF In, u, n
  <2>2. CASE r # q
    BY <1>2, <2>2 DEF In
  <2> QED
    BY <2>1, <2>2
<1> QED
  BY <1>1, <1>2, <1>3, <1>4, <1>5, <1>6, <1>7 DEF Longer

(* enqueue's store to the next link of the last entry appends the process. *)
LEMMA EnqueueLinkShape ==
  ASSUME AllLocked, IInv, NEW s \in [Queues -> Seq(Procs)], Shape(s), NEW c \in Cores,
         EnqueueLink(c)
  PROVE  \E t \in [Queues -> Seq(Procs)] :
           IsAppended(s, t, frame[c].q, frame[c].pid) /\ Shape(t)'
<1>1. PICK q, p : q = frame[c].q /\ p = frame[c].pid
  OBVIOUS
<1> DEFINE n == Len(s[q])
<1>2. /\ pc[c] = "enq_link" /\ pc[c] \in Links /\ UNCHANGED <<lock, held, frame>>
      /\ pc' = [pc EXCEPT ![c] = "enq_tail"] /\ prev' = prev
      /\ next' = [next EXCEPT ![prev[queuetail(q)]] = p]
  BY <1>1 DEF EnqueueLink, At, Goto, Links
<1>3. /\ q \in Queues /\ p \in Procs /\ p \in Entries
  BY <1>1, <1>2, StoreArguments
<1>4. /\ CallKnows("enq_link", frame[c], c)
      /\ next[p] = queuetail(q) /\ prev[p] = prev[queuetail(q)]
      /\ \A i \in 1 .. n + 1 : prev[Cell(s, q, i)] = Cell(s, q, i - 1)
      /\ \A i \in 0 .. n : next[Cell(s, q, i)] = Cell(s, q, i + 1)
  <2>1. LinkKnows(s, "enq_link", frame[c])
    BY <1>2, InsideKnows
  <2> QED
    BY <1>1, <1>2, <2>1, InsideKnows DEF LinkKnows
<1>5. Loose(c) /\ Apart(s) /\ Owned(s) /\ HandsOK
  BY <1>2, <1>4 DEF Loose, CallKnows, Shape
<1>6. \A r \in Queues : ~In(s, r, p)
  BY <1>1, <1>3, <1>5 DEF Owned
<1>7. PICK t : IsAppended(s, t, q, p)
  BY DEF IsAppended
<1>8. /\ t \in [Queues -> Seq(Procs)] /\ n \in Nat
      /\ \A r \in Queues \ {q} : t[r] = s[r]
      /\ Len(t[q]) = n + 1 /\ t[q] # <<>>
      /\ \A i \in 1 .. n : t[q][i] = s[q][i]
      /\ t[q][n + 1] = p
      /\ \A i \in 0 .. n : Cell(t, q, i) = Cell(s, q, i)
      /\ Cell(t, q, n + 1) = p /\ Cell(t, q, n + 2) = queuetail(q)
      /\ Apart(t)
      /\ \A r \in Queues, x \in Procs : In(t, r, x) <=> (In(s, r, x) \/ (r = q /\ x = p))
  BY <1>3, <1>5, <1>6, <1>7, Appended DEF Longer
<1>9. PICK e : e = prev[queuetail(q)]
  OBVIOUS
<1>10. e = Cell(s, q, n) /\ e \in Entries /\ n \in 0 .. n + 1
  <2>1. n + 1 \in 1 .. n + 1 /\ n + 1 - 1 = n /\ n \in 0 .. n + 1
    BY <1>8
  <2>2. Cell(s, q, n + 1) = queuetail(q)
    BY <1>3, Cells
  <2>3. e = Cell(s, q, n)
    BY <1>4, <1>9, <2>1, <2>2
  <2> QED
    BY <1>3, <2>1, <2>3, Cells
<1>11. next'[e] = p /\ \A d \in Entries \ {e} : next'[d] = next[d] /\ prev'[d] = prev[d]
  BY <1>2, <1>9, <1>10 DEF IInv, TypeOK
<1>12. CellsBut(s, c, n)
  BY <1>1, <1>2, <1>10, <1>11, CellStore
<1>13. next'[p] = queuetail(q) /\ prev'[p] = e
  BY <1>1, <1>2, <1>4, <1>5, <1>9, <1>12 DEF CellsBut
<1>14. /\ frame'[c] = frame[c] /\ pc'[c] = "enq_tail" /\ frame' = frame
       /\ \A d \in Cores \ {c} : pc'[d] = pc[d]
  BY <1>2 DEF IInv, TypeOK
<1> HIDE DEF n
<1>15. \A i \in 0 .. n + 1 : next'[Cell(t, q, i)] = Cell(t, q, i + 1)
  <2> SUFFICES ASSUME NEW i \in 0 .. n + 1 PROVE next'[Cell(t, q, i)] = Cell(t, q, i + 1)
    OBVIOUS
  <2>1. CASE i = n + 1
    <3>1. n + 1 + 1 = n + 2
      BY <1>8
    <3> QED
      BY <1>8, <1>13, <2>1, <3>1
  <2>2. CASE i = n
    <3>1. n \in 0 .. n
      BY <1>8
    <3> QED
      BY <1>8, <1>10, <1>11, <2>2, <3>1
  <2>3. CASE i # n + 1 /\ i # n
    <3>1. i \in 0 .. n /\ i + 1 \in 0 .. n /\ i \in 0 .. n + 1
      BY <1>8, <2>3
    <3>2. next'[Cell(s, q, i)] = next[Cell(s, q, i)]
      BY <1>1, <1>12, <2>3, <3>1 DEF CellsBut, n
    <3> QED
      BY <1>4, <1>8, <3>1, <3>2
  <2> QED
    BY <2>1, <2>2, <2>3
<1>16. \A i \in 1 .. n + 1 : prev'[Cell(t, q, i)] = Cell(t, q, i - 1)
  <2> SUFFICES ASSUME NEW i \in 1 .. n + 1 PROVE prev'[Cell(t, q, i)] = Cell(t, q, i - 1)
    OBVIOUS
  <2>1. CASE i = n + 1
    <3>1. n + 1 - 1 = n /\ n \in 0 .. n
      BY <1>8
    <3> QED
      BY <1>8, <1>10, <1>13, <2>1, <3>1
  <2>2. CASE i # n + 1
    <3>1. i \in 0 .. n /\ i - 1 \in 0 .. n
      BY <1>8, <2>2
    <3> QED
      BY <1>2, <1>4, <1>8, <3>1
  <2> QED
    BY <2>1, <2>2
<1>17. ForwardAt(t, q)' /\ BackwardAt(t, q)'
  <2>1. ForwardAt(t, q)'
    BY <1>8, <1>15 DEF ForwardAt, Cell
  <2>2. ASSUME NEW i \in 1 .. Len(t[q]) + 1
        PROVE  Stale(t, q, i)' \/ prev'[Cell(t, q, i)] = Cell(t, q, i - 1)
    <3>1. CASE i = Len(t[q]) + 1
      BY <1>1, <1>14, <3>1 DEF Stale
    <3>2. CASE i # Len(t[q]) + 1
      <4>1. i \in 1 .. n + 1
        BY <1>8, <3>2
      <4> QED
        BY <1>16, <4>1
    <3> QED
      BY <3>1, <3>2
  <2> QED
    BY <2>1, <2>2 DEF BackwardAt, Cell
<1>18. ~Loose(c)' /\ \A d \in Cores \ {c} : Loose(d)' <=> Loose(d)
  BY <1>14 DEF Loose
<1>19. HandsOK'
  BY <1>2, <1>5, <1>14, <1>18 DEF HandsOK
<1>20. Owned(t)'
  <2>1. ASSUME NEW r \in Queues, NEW x \in Procs, In(t, r, x)
        PROVE  held'[x] = NONE /\ \A d \in Cores : Loose(d)' => frame'[d].pid # x
    <3>1. CASE In(s, r, x)
      BY <1>2, <1>5, <1>18, <3>1 DEF Owned
    <3>2. CASE x = p
      BY <1>1, <1>2, <1>5, <1>18, <3>2 DEF HandsOK
    <3> QED
      BY <1>8, <2>1, <3>1, <3>2
  <2>2. ASSUME NEW x \in Procs, held'[x] = NONE
        PROVE  \/ \E r \in Queues : In(t, r, x)
               \/ \E d \in Cores : Loose(d)' /\ frame'[d].pid = x
    <3>1. CASE x = p
      BY <1>3, <1>8, <3>1
    <3>2. CASE x # p
      <4>1. \/ \E r \in Queues : In(s, r, x)
            \/ \E d \in Cores : Loose(d) /\ frame[d].pid = x
        BY <1>2, <1>5, <2>2 DEF Owned
      <4> QED
        BY <1>1, <1>8, <1>14, <1>18, <3>2, <4>1
    <3> QED
      BY <3>1, <3>2
  <2>3. \A r \in Queues, x \in Procs : In(t, r, x)' <=> In(t, r, x)
    BY DEF In
  <2> QED
    BY <2>1, <2>2, <2>3 DEF Owned
<1>21. /\ CallKnows("enq_tail", frame[c], c) /\ ListKnows(t, "enq_tail", frame[c], c)
       /\ LinkKnows(t, "enq_tail", frame[c])'
  BY <1>1, <1>4, <1>8 DEF CallKnows, ListKnows, LinkKnows
<1>22. Kept(s, t, c)
  BY <1>1, <1>8 DEF Kept, n
<1>23. Local(s, c) /\ \A r \in Queues : prev'[queuehead(r)] = EMPTY
  BY <1>12 DEF CellsBut
<1>24. Shape(t)'
  <2>1. "enq_tail" \in Links \cup {"release"}
    BY DEF Links
  <2> QED
    BY <1>1, <1>2, <1>3, <1>8, <1>17, <1>19, <1>20, <1>21, <1>22, <1>23, <2>1, StoreShape
<1> QED
  BY <1>1, <1>7, <1>8, <1>24

-----------------------------------------------------------------------------
(* u without its k-th item.                                                *)
WithoutAt(u, k) == [i \in 1 .. Len(u) - 1 |-> IF i < k THEN u[i] ELSE u[i + 1]]

(* t is s without the k-th process of q.                                   *)
IsWithout(s, t, q, k) == t = [s EXCEPT ![q] = WithoutAt(s[q], k)]

(* The cells of q without the k-th process.                                *)
Shorter(s, t, q, k) ==
  LET n == Len(s[q])
  IN  /\ t \in [Queues -> Seq(Procs)] /\ n \in Nat
      /\ \A r \in Queues \ {q} : t[r] = s[r]
      /\ Len(t[q]) = n - 1
      /\ \A i \in 0 .. k - 1 : Cell(t, q, i) = Cell(s, q, i)
      /\ \A i \in k .. n : Cell(t, q, i) = Cell(s, q, i + 1)
      /\ Apart(t)
      /\ \A r \in Queues, x \in Procs : In(t, r, x) <=> (In(s, r, x) /\ ~(r = q /\ x = s[q][k]))

(* What taking out a process does to the cells.                            *)
LEMMA Removed ==
  ASSUME NEW s \in [Queues -> Seq(Procs)], Apart(s), NEW q \in Queues,
         NEW k \in 1 .. Len(s[q]), NEW t, IsWithout(s, t, q, k)
  PROVE  Shorter(s, t, q, k)
<1> DEFINE n == Len(s[q])
           u == s[q]
           w == WithoutAt(u, k)
<1>1. n \in Nat /\ k \in 1 .. n /\ k \in Nat /\ n # 0 /\ n - 1 \in Nat /\ u \in [1 .. n -> Procs]
  BY Cells
<1>2. w \in Seq(Procs) /\ Len(w) = n - 1
      /\ \A i \in 1 .. n - 1 : w[i] = IF i < k THEN u[i] ELSE u[i + 1]
  <2>1. n = Len(u)
    OBVIOUS
  <2> HIDE DEF n, u
  <2>2. \A i \in 1 .. n - 1 : i \in 1 .. n /\ i + 1 \in 1 .. n
    BY <1>1
  <2>3. \A i \in 1 .. n - 1 : w[i] = IF i < k THEN u[i] ELSE u[i + 1]
    BY <2>1 DEF WithoutAt
  <2>4. w \in [1 .. n - 1 -> Procs]
    BY <1>1, <2>1, <2>2 DEF WithoutAt
  <2> HIDE DEF w
  <2> QED
    BY <1>1, <2>3, <2>4
<1>3. t[q] = w /\ t \in [Queues -> Seq(Procs)] /\ \A r \in Queues \ {q} : t[r] = s[r]
  <2> HIDE DEF w
  <2>1. t = [s EXCEPT ![q] = w]
    BY DEF IsWithout, w
  <2> QED
    BY <1>2, <2>1
<1> HIDE DEF w
<1>4. /\ \A i \in 0 .. k - 1 : Cell(t, q, i) = Cell(s, q, i)
      /\ \A i \in k .. n : Cell(t, q, i) = Cell(s, q, i + 1)
  <2>1. Len(t[q]) = n - 1 /\ n - 1 + 1 = n
    <3>1. Len(t[q]) = n - 1
      BY <1>2, <1>3
    <3> HIDE DEF n
    <3> QED
      BY <1>1, <3>1
  <2> HIDE DEF n, u
  <2>2. ASSUME NEW i \in 0 .. k - 1 PROVE Cell(t, q, i) = Cell(s, q, i)
    <3>1. CASE i = 0
      BY <3>1 DEF Cell
    <3>2. CASE i # 0
      <4>1. i # n /\ i # n + 1 /\ i \in 1 .. n - 1 /\ i < k
        BY <1>1, <3>2
      <4>2. Cell(t, q, i) = w[i] /\ Cell(s, q, i) = u[i]
        BY <1>3, <2>1, <3>2, <4>1 DEF Cell, n, u
      <4> QED
        BY <1>2, <4>1, <4>2
    <3> QED
      BY <3>1, <3>2
  <2>3. ASSUME NEW i \in k .. n PROVE Cell(t, q, i) = Cell(s, q, i + 1)
    <3>1. i # 0 /\ i + 1 # 0 /\ (i = n <=> i + 1 = n + 1)
      BY <1>1
    <3>2. CASE i = n
      BY <2>1, <3>1, <3>2 DEF Cell, n
    <3>3. CASE i # n
      <4>1. i \in 1 .. n - 1 /\ ~(i < k)
        BY <1>1, <3>3
      <4>2. Cell(t, q, i) = w[i] /\ Cell(s, q, i + 1) = u[i + 1]
        BY <1>3, <2>1, <3>1, <3>3, <4>1 DEF Cell, n, u
      <4> QED
        BY <1>2, <4>1, <4>2
    <3> QED
      BY <3>2, <3>3
  <2> QED
    BY <2>2, <2>3
<1>5. \A i, j \in 1 .. n : u[i] = u[j] => i = j
  BY DEF Apart
<1>6. \A i \in 1 .. n - 1 :
        \E j \in 1 .. n : j # k /\ w[i] = u[j] /\ j = IF i < k THEN i ELSE i + 1
  <2> SUFFICES ASSUME NEW i \in 1 .. n - 1
               PROVE  \E j \in 1 .. n : j # k /\ w[i] = u[j] /\ j = IF i < k THEN i ELSE i + 1
    OBVIOUS
  <2> HIDE DEF n, u
  <2>1. CASE i < k
    <3>1. i \in 1 .. n /\ i # k /\ w[i] = u[i]
      BY <1>1, <1>2, <2>1
    <3> QED
      BY <2>1, <3>1
  <2>2. CASE ~(i < k)
    <3>1. i + 1 \in 1 .. n /\ i + 1 # k /\ w[i] = u[i + 1]
      BY <1>1, <1>2, <2>2
    <3> QED
      BY <2>2, <3>1
  <2> QED
    BY <2>1, <2>2
<1>7. \A j \in 1 .. n : j # k => \E i \in 1 .. n - 1 : w[i] = u[j]
  <2> SUFFICES ASSUME NEW j \in 1 .. n, j # k PROVE \E i \in 1 .. n - 1 : w[i] = u[j]
    OBVIOUS
  <2> HIDE DEF n, u
  <2>1. CASE j < k
    <3>1. j \in 1 .. n - 1 /\ w[j] = u[j]
      BY <1>1, <1>2, <2>1
    <3> QED
      BY <3>1
  <2>2. CASE ~(j < k)
    <3>1. j - 1 \in 1 .. n - 1 /\ ~(j - 1 < k) /\ j - 1 + 1 = j
      BY <1>1, <2>2
    <3>2. w[j - 1] = u[j]
      BY <1>2, <3>1
    <3> QED
      BY <3>1, <3>2
  <2> QED
    BY <2>1, <2>2
<1>8. Apart(t)
  <2>1. \A i, j \in 1 .. n - 1 : w[i] = w[j] => i = j
    <3> HIDE DEF n, u
    <3> SUFFICES ASSUME NEW i \in 1 .. n - 1, NEW j \in 1 .. n - 1, w[i] = w[j]
                 PROVE  i = j
      OBVIOUS
    <3>1. PICK x \in 1 .. n : x # k /\ w[i] = u[x] /\ x = IF i < k THEN i ELSE i + 1
      BY <1>6
    <3>2. PICK y \in 1 .. n : y # k /\ w[j] = u[y] /\ y = IF j < k THEN j ELSE j + 1
      BY <1>6
    <3>3. x = y
      BY <1>5, <3>1, <3>2
    <3> QED
      BY <1>1, <3>1, <3>2, <3>3
  <2>2. ASSUME NEW r \in Queues, r # q, NEW i \in 1 .. Len(t[r]), NEW j \in 1 .. n - 1
        PROVE  t[r][i] # w[j]
    <3>1. PICK y \in 1 .. n : w[j] = u[y]
      BY <1>6
    <3>2. t[r] = s[r]
      BY <1>3, <2>2
    <3> QED
      BY <2>2, <3>1, <3>2 DEF Apart
  <2>3. ASSUME NEW r \in Queues, NEW x \in Queues, NEW i \in 1 .. Len(t[r]),
               NEW j \in 1 .. Len(t[x]), t[r][i] = t[x][j]
        PROVE  r = x /\ i = j
    <3>1. CASE r = q /\ x = q
      BY <1>2, <1>3, <2>1, <2>3, <3>1
    <3>2. CASE r = q /\ x # q
      BY <1>2, <1>3, <2>2, <2>3, <3>2
    <3>3. CASE r # q /\ x = q
      BY <1>2, <1>3, <2>2, <2>3, <3>3
    <3>4. CASE r # q /\ x # q
      BY <1>3, <2>3, <3>4 DEF Apart
    <3> QED
      BY <3>1, <3>2, <3>3, <3>4
  <2> QED
    BY <2>3 DEF Apart
<1>9. ASSUME NEW r \in Queues, NEW x \in Procs
      PROVE  In(t, r, x) <=> (In(s, r, x) /\ ~(r = q /\ x = s[q][k]))
  <2>1. CASE r = q
    <3>1. ASSUME In(t, r, x) PROVE In(s, r, x) /\ x # u[k]
      <4>1. PICK i \in 1 .. n - 1 : w[i] = x
        BY <1>2, <1>3, <2>1, <3>1 DEF In
      <4>2. PICK j \in 1 .. n : j # k /\ w[i] = u[j]
        BY <1>6
      <4> QED
        BY <1>1, <1>5, <2>1, <4>1, <4>2 DEF In
    <3>2. ASSUME In(s, r, x), x # u[k] PROVE In(t, r, x)
      <4>1. PICK j \in 1 .. n : u[j] = x
        BY <2>1, <3>2 DEF In
      <4>2. PICK i \in 1 .. n - 1 : w[i] = u[j]
        BY <1>7, <3>2, <4>1
      <4> QED
        BY <1>2, <1>3, <2>1, <4>1, <4>2 DEF In
    <3> QED
      BY <2>1, <3>1, <3>2
  <2>2. CASE r # q
    BY <1>3, <2>2 DEF In
  <2> QED
    BY <2>1, <2>2
<1>10. Len(t[q]) = n - 1
  BY <1>2, <1>3
<1> QED
  BY <1>1, <1>3, <1>4, <1>8, <1>9, <1>10 DEF Shorter

(* The store past a process takes it out: the first of the list in         *)
(* dequeue, any in remove.                                                 *)
LEMMA UnlinkShape ==
  ASSUME AllLocked, IInv, NEW s \in [Queues -> Seq(Procs)], Shape(s), NEW c \in Cores,
         DequeueUnlink(c) \/ RemoveUnlink(c)
  PROVE  \E t \in [Queues -> Seq(Procs)], k \in 1 .. Len(s[frame[c].q]) :
           /\ s[frame[c].q][k] = frame[c].pid /\ (frame[c].op = "dequeue" => k = 1)
           /\ IsWithout(s, t, frame[c].q, k) /\ Shape(t)'
<1>1. PICK q, p : q = frame[c].q /\ p = frame[c].pid
  OBVIOUS
<1>l. PICK l : l = IF pc[c] = "deq_unlink" THEN "deq_back" ELSE "rem_back"
  OBVIOUS
<1> DEFINE n == Len(s[q])
<1>2. /\ pc[c] \in {"deq_unlink", "rem_unlink"} /\ pc[c] \in Links
      /\ UNCHANGED <<lock, held, frame>>
      /\ pc' = [pc EXCEPT ![c] = l] /\ prev' = prev /\ l \in Links /\ l \in {"deq_back", "rem_back"}
      /\ next' = [next EXCEPT ![prev[p]] = next[p]]
  BY <1>1, <1>l DEF DequeueUnlink, RemoveUnlink, At, Goto, Links
<1>3. /\ q \in Queues /\ p \in Procs /\ p \in Entries /\ n \in Nat
  BY <1>1, <1>2, StoreArguments, Cells
<1>4. /\ CallKnows(pc[c], frame[c], c) /\ ListKnows(s, pc[c], frame[c], c)
      /\ \A i \in 1 .. n + 1 : prev[Cell(s, q, i)] = Cell(s, q, i - 1)
      /\ \A i \in 0 .. n : next[Cell(s, q, i)] = Cell(s, q, i + 1)
  BY <1>1, <1>2, InsideKnows
<1>5. /\ ~Loose(c) /\ Apart(s) /\ Owned(s) /\ HandsOK /\ c \in Takers[q]
      /\ frame[c].op = IF pc[c] = "deq_unlink" THEN "dequeue" ELSE "remove"
  BY <1>1, <1>2, <1>4 DEF Loose, CallKnows, Shape
<1>6. PICK k \in 1 .. n : s[q][k] = p /\ (frame[c].op = "dequeue" => k = 1)
  <2>1. CASE pc[c] = "deq_unlink"
    <3>1. s[q] # <<>> /\ s[q][1] = p
      BY <1>1, <1>4, <2>1 DEF ListKnows
    <3>2. 1 \in 1 .. n
      <4>1. s[q] \in Seq(Procs)
        BY <1>3
      <4> QED
        BY <1>3, <3>1, <4>1
    <3> QED
      BY <3>1, <3>2
  <2>2. CASE pc[c] = "rem_unlink"
    <3>1. In(s, q, p)
      BY <1>1, <1>4, <1>5, <2>2 DEF ListKnows
    <3> QED
      BY <1>5, <2>2, <3>1 DEF In
  <2> QED
    BY <1>2, <2>1, <2>2
<1>7. PICK t : IsWithout(s, t, q, k)
  BY DEF IsWithout
<1>8. /\ t \in [Queues -> Seq(Procs)]
      /\ \A r \in Queues \ {q} : t[r] = s[r]
      /\ Len(t[q]) = n - 1
      /\ \A i \in 0 .. k - 1 : Cell(t, q, i) = Cell(s, q, i)
      /\ \A i \in k .. n : Cell(t, q, i) = Cell(s, q, i + 1)
      /\ Apart(t)
      /\ \A r \in Queues, x \in Procs : In(t, r, x) <=> (In(s, r, x) /\ ~(r = q /\ x = p))
  BY <1>3, <1>5, <1>6, <1>7, Removed DEF Shorter
<1>9. PICK e, v : e = prev[p] /\ v = next[p]
  OBVIOUS
<1>10. /\ k \in Nat /\ k # 0 /\ k - 1 \in Nat /\ k <= n
       /\ Cell(s, q, k) = p /\ e = Cell(s, q, k - 1) /\ v = Cell(s, q, k + 1)
       /\ e \in Entries /\ v \in Entries /\ k - 1 \in 0 .. n + 1
  <2>1. k \in 1 .. n + 1 /\ k \in 0 .. n /\ k - 1 \in 0 .. n + 1 /\ k + 1 \in 0 .. n + 1
        /\ k \in Nat /\ k # 0 /\ k - 1 \in Nat /\ k <= n
    BY <1>3
  <2>2. Cell(s, q, k) = p
    BY <1>3, <1>6, Cells
  <2>3. e = Cell(s, q, k - 1) /\ v = Cell(s, q, k + 1)
    BY <1>4, <1>9, <2>1, <2>2
  <2> QED
    BY <1>3, <2>1, <2>2, <2>3, Cells
<1>11. next'[e] = v /\ \A d \in Entries \ {e} : next'[d] = next[d] /\ prev'[d] = prev[d]
  BY <1>2, <1>9, <1>10 DEF IInv, TypeOK
<1>12. CellsBut(s, c, k - 1)
  BY <1>1, <1>2, <1>10, <1>11, CellStore
<1> HIDE DEF n
<1>13. next'[p] = v /\ prev'[p] = e
  <2>1. k \in 0 .. n + 1 /\ k # k - 1
    BY <1>3, <1>10
  <2>2. next'[Cell(s, q, k)] = next[Cell(s, q, k)]
    BY <1>1, <1>12, <2>1 DEF CellsBut, n
  <2> QED
    BY <1>2, <1>9, <1>10, <2>2
<1>14. /\ frame'[c] = frame[c] /\ pc'[c] = l /\ frame' = frame
       /\ \A d \in Cores \ {c} : pc'[d] = pc[d]
  BY <1>2 DEF IInv, TypeOK
<1>15. ASSUME NEW i \in 0 .. n - 1 PROVE next'[Cell(t, q, i)] = Cell(t, q, i + 1)
  <2>1. CASE i = k - 1
    <3>1. i \in 0 .. k - 1 /\ i + 1 = k /\ k \in k .. n
      BY <1>3, <1>10, <2>1
    <3> QED
      BY <1>8, <1>10, <1>11, <2>1, <3>1
  <2>2. CASE i < k - 1
    <3>1. i \in 0 .. k - 1 /\ i + 1 \in 0 .. k - 1 /\ i \in 0 .. n + 1 /\ i \in 0 .. n
          /\ i # k - 1
      BY <1>3, <1>10, <2>2
    <3>2. next'[Cell(s, q, i)] = next[Cell(s, q, i)]
      BY <1>1, <1>12, <3>1 DEF CellsBut, n
    <3> QED
      BY <1>4, <1>8, <3>1, <3>2 DEF n
  <2>3. CASE i > k - 1
    <3>1. i \in k .. n /\ i + 1 \in k .. n /\ i + 1 \in 0 .. n + 1 /\ i + 1 \in 0 .. n
          /\ i + 1 # k - 1
      BY <1>3, <1>10, <2>3
    <3>2. next'[Cell(s, q, i + 1)] = next[Cell(s, q, i + 1)]
      BY <1>1, <1>12, <3>1 DEF CellsBut, n
    <3> QED
      BY <1>4, <1>8, <3>1, <3>2 DEF n
  <2> QED
    BY <1>3, <1>10, <2>1, <2>2, <2>3
<1>16. ASSUME NEW i \in 1 .. n, i # k PROVE prev'[Cell(t, q, i)] = Cell(t, q, i - 1)
  <2>1. CASE i < k
    <3>1. i \in 0 .. k - 1 /\ i - 1 \in 0 .. k - 1 /\ i \in 1 .. n + 1
      BY <1>3, <1>10, <2>1
    <3> QED
      BY <1>2, <1>4, <1>8, <3>1 DEF n
  <2>2. CASE i > k
    <3>1. i \in k .. n /\ i - 1 \in k .. n /\ i + 1 \in 1 .. n + 1 /\ i - 1 + 1 = i /\ i + 1 - 1 = i
      BY <1>3, <1>10, <2>2
    <3> QED
      BY <1>2, <1>4, <1>8, <3>1 DEF n
  <2> QED
    BY <1>3, <1>10, <1>16, <2>1, <2>2
<1>17. ForwardAt(t, q)' /\ BackwardAt(t, q)'
  <2>0. Len(t[q]) = n - 1 /\ n - 1 + 1 = n
    BY <1>3, <1>8 DEF n
  <2>1. ForwardAt(t, q)'
    BY <1>15, <2>0 DEF ForwardAt, Cell
  <2>2. ASSUME NEW i \in 1 .. Len(t[q]) + 1
        PROVE  Stale(t, q, i)' \/ prev'[Cell(t, q, i)] = Cell(t, q, i - 1)
    <3>1. CASE i = k
      <4>1. Cell(t, q, i) = v
        <5>1. i \in k .. n
          BY <1>10, <3>1
        <5> QED
          BY <1>8, <1>10, <3>1, <5>1 DEF n
      <4>2. frame'[c].q = q /\ pc'[c] \in {"deq_back", "rem_back"} /\ next'[frame'[c].pid] = v
        BY <1>1, <1>2, <1>13, <1>14
      <4>3. Cell(t, q, i)' = Cell(t, q, i)
        BY DEF Cell
      <4> QED
        BY <4>1, <4>2, <4>3 DEF Stale
    <3>2. CASE i # k
      BY <1>16, <2>0, <3>2
    <3> QED
      BY <3>1, <3>2
  <2> QED
    BY <2>1, <2>2 DEF BackwardAt, Cell
<1>18. Loose(c)' /\ \A d \in Cores \ {c} : Loose(d)' <=> Loose(d)
  <2>1. p # EMPTY
    BY <1>3, Numbers
  <2> QED
    BY <1>1, <1>2, <1>5, <1>14, <2>1 DEF Loose
<1>19. held[p] = NONE /\ In(s, q, p) /\ \A d \in Cores : Loose(d) => frame[d].pid # p
  <2>1. In(s, q, p)
    BY <1>6 DEF In, n
  <2> QED
    BY <1>3, <1>5, <2>1 DEF Owned
<1>20. HandsOK'
  <2> SUFFICES ASSUME NEW d \in Cores, Loose(d)'
               PROVE  /\ frame'[d].pid \in Procs /\ held'[frame'[d].pid] = NONE
                      /\ \A x \in Cores : Loose(x)' /\ frame'[x].pid = frame'[d].pid => x = d
    BY DEF HandsOK
  <2>1. CASE d = c
    BY <1>1, <1>2, <1>3, <1>14, <1>18, <1>19, <2>1
  <2>2. CASE d # c
    <3>1. Loose(d) /\ frame[d].pid # p
      BY <1>18, <1>19, <2>2
    <3>2. /\ frame[d].pid \in Procs /\ held[frame[d].pid] = NONE
          /\ \A x \in Cores : Loose(x) /\ frame[x].pid = frame[d].pid => x = d
      BY <1>5, <3>1 DEF HandsOK
    <3> QED
      BY <1>1, <1>2, <1>14, <1>18, <3>1, <3>2
  <2> QED
    BY <2>1, <2>2
<1>21. Owned(t)'
  <2>1. ASSUME NEW r \in Queues, NEW x \in Procs, In(t, r, x)
        PROVE  held'[x] = NONE /\ \A d \in Cores : Loose(d)' => frame'[d].pid # x
    <3>1. In(s, r, x) /\ ~(r = q /\ x = p)
      BY <1>8, <2>1
    <3>2. x # p
      <4> SUFFICES ASSUME x = p PROVE FALSE
        OBVIOUS
      <4>1. r # q
        BY <3>1
      <4> QED
        BY <1>3, <1>5, <1>19, <3>1, <4>1 DEF Apart, In
    <3>3. held[x] = NONE /\ \A d \in Cores : Loose(d) => frame[d].pid # x
      BY <1>5, <3>1 DEF Owned
    <3> QED
      BY <1>1, <1>2, <1>14, <1>18, <3>2, <3>3
  <2>2. ASSUME NEW x \in Procs, held'[x] = NONE
        PROVE  \/ \E r \in Queues : In(t, r, x)
               \/ \E d \in Cores : Loose(d)' /\ frame'[d].pid = x
    <3>1. CASE x = p
      BY <1>1, <1>14, <1>18, <3>1
    <3>2. CASE x # p
      <4>1. \/ \E r \in Queues : In(s, r, x)
            \/ \E d \in Cores : Loose(d) /\ frame[d].pid = x
        BY <1>2, <1>5, <2>2 DEF Owned
      <4> QED
        BY <1>5, <1>8, <1>14, <1>18, <3>2, <4>1
    <3> QED
      BY <3>1, <3>2
  <2>3. \A r \in Queues, x \in Procs : In(t, r, x)' <=> In(t, r, x)
    BY DEF In
  <2> QED
    BY <2>1, <2>2, <2>3 DEF Owned
<1>22. CallKnows(l, frame[c], c) /\ ListKnows(t, l, frame[c], c)
  BY <1>2, <1>l, <1>4, <1>5 DEF CallKnows, ListKnows
<1>23. LinkKnows(t, l, frame[c])'
  <2>1. k \in 1 .. Len(t[q]) + 1 /\ k \in k .. n /\ k - 1 \in 0 .. k - 1
    BY <1>3, <1>8, <1>10 DEF n
  <2>2. next'[p] = Cell(t, q, k) /\ prev'[p] = Cell(t, q, k - 1)
    BY <1>8, <1>10, <1>13, <2>1 DEF n
  <2>3. frame'[c].q = q /\ frame'[c].pid = p
    BY <1>1, <1>14
  <2> QED
    BY <1>2, <2>1, <2>2, <2>3 DEF LinkKnows, Cell
<1>24. Kept(s, t, c)
  BY <1>1, <1>5 DEF Kept
<1>25. Local(s, c) /\ \A r \in Queues : prev'[queuehead(r)] = EMPTY
  BY <1>12 DEF CellsBut
<1>26. Shape(t)'
  BY <1>1, <1>2, <1>3, <1>8, <1>17, <1>20, <1>21, <1>22, <1>23, <1>24, <1>25, StoreShape
<1> QED
  BY <1>1, <1>6, <1>7, <1>8, <1>26 DEF n

-----------------------------------------------------------------------------
(* The queues have the shape of some lists of processes.                   *)
Shaped == \E s \in [Queues -> Seq(Procs)] : Shape(s)

(* At boot every head is linked to its tail.                               *)
LEMMA InitShape ==
  ASSUME Init
  PROVE  \E s \in [Queues -> Seq(Procs)] : s = [q \in Queues |-> <<>>] /\ Shape(s)
<1>1. PICK s : s = [q \in Queues |-> <<>>]
  OBVIOUS
<1>2. s \in [Queues -> Seq(Procs)] /\ \A q \in Queues : s[q] = <<>> /\ Len(s[q]) = 0
  BY <1>1
<1>3. \A c \in Cores : pc[c] = "idle" /\ frame[c] = NoFrame /\ ~Loose(c)
  BY DEF Init, Loose
<1>4. \A q \in Queues, p \in Procs : ~In(s, q, p)
  BY <1>2 DEF In
<1>5. Apart(s) /\ HandsOK
  BY <1>2, <1>3 DEF Apart, HandsOK
<1>6. Owned(s)
  <2>1. \A p \in Procs : held[p] # NONE
    BY Numbers DEF Init
  <2> QED
    BY <1>4, <2>1 DEF Owned
<1>7. ASSUME NEW q \in Queues
      PROVE  ForwardAt(s, q) /\ BackwardAt(s, q) /\ prev[queuehead(q)] = EMPTY
  <2>1. /\ queuehead(q) \in Entries /\ queuetail(q) \in Entries
        /\ queuehead(q) \notin Procs /\ queuetail(q) \notin Procs
        /\ QueueOf(queuehead(q)) = q /\ QueueOf(queuetail(q)) = q
        /\ queuetail(q) = queuehead(q) + 1 /\ queuetail(q) # queuehead(q)
        /\ queuetail(q) - 1 = queuehead(q)
    BY Numbers DEF QueueOf, queuehead, queuetail, Queues
  <2>2. /\ next[queuehead(q)] = queuetail(q) /\ prev[queuetail(q)] = queuehead(q)
        /\ prev[queuehead(q)] = EMPTY
    BY <2>1 DEF Init
  <2>3. /\ Cell(s, q, 0) = queuehead(q) /\ Cell(s, q, 1) = queuetail(q)
        /\ 0 .. Len(s[q]) = {0} /\ 1 .. Len(s[q]) + 1 = {1}
    BY <1>2 DEF Cell
  <2> QED
    BY <2>2, <2>3 DEF ForwardAt, BackwardAt
<1>8. \A c \in Cores : Knows(s, c)
  BY <1>3 DEF Knows, CallKnows, ListKnows, LinkKnows, NoFrame
<1> QED
  BY <1>1, <1>2, <1>5, <1>6, <1>7, <1>8 DEF Shape

(* Nothing changes, and neither does the shape.                            *)
LEMMA IdleShape ==
  ASSUME NEW s \in [Queues -> Seq(Procs)], Shape(s), UNCHANGED vars
  PROVE  Shape(s)'
<1>1. next' = next /\ prev' = prev /\ held' = held /\ pc' = pc /\ frame' = frame
  BY DEF vars, links
<1>2. Apart(s)' /\ HandsOK' /\ Owned(s)'
  BY <1>1 DEF Shape, Apart, HandsOK, Owned, Loose, In
<1>3. \A q \in Queues : ForwardAt(s, q)' /\ BackwardAt(s, q)' /\ prev'[queuehead(q)] = EMPTY
  BY <1>1 DEF Shape, ForwardAt, BackwardAt, Stale, Cell
<1>4. ASSUME NEW c \in Cores PROVE Knows(s, c)'
  <2>1. CallKnows(pc[c], frame[c], c)'
    BY <1>1 DEF Shape, Knows, CallKnows
  <2>2. ListKnows(s, pc[c], frame[c], c)'
    BY <1>1 DEF Shape, Knows, ListKnows, In
  <2>3. LinkKnows(s, pc[c], frame[c])'
    BY <1>1 DEF Shape, Knows, LinkKnows, Cell
  <2> QED
    BY <2>1, <2>2, <2>3 DEF Knows
<1> QED
  BY <1>2, <1>3, <1>4 DEF Shape, queuehead

(* Every step keeps the shape.                                             *)
LEMMA NextShape ==
  ASSUME AllLocked, IInv, Shaped, [Next]_vars
  PROVE  Shaped'
<1> PICK s \in [Queues -> Seq(Procs)] : Shape(s)
  BY DEF Shaped
<1>1. CASE UNCHANGED vars
  BY <1>1, IdleShape DEF Shaped
<1>2. CASE Next
  <2> PICK c \in Cores : Call(c) \/ Step(c)
    BY <1>2 DEF Next
  <2>1. CASE Call(c)
    BY <2>1, EnqueueShape, DequeueShape, RemoveShape DEF Call, Shaped
  <2>2. CASE Step(c)
    BY <2>2, WalkShape, AcquireShape, ReleaseShape, DequeueFirstShape, OwnStoreShape,
       BackShape, EnqueueLinkShape, UnlinkShape DEF Step, Shaped
  <2> QED
    BY <2>1, <2>2
<1> QED
  BY <1>1, <1>2

(* Every next link always leads on along its list, whatever the cores do   *)
(* inside of the queues, and each core is right in what it knows of them   *)
(* (queue.c).                                                              *)
THEOREM ShapeInvariance == ASSUME AllLocked PROVE Spec => []Shaped
<1>1. Init => Shaped
  BY InitShape DEF Shaped
<1>2. IInv /\ Shaped /\ [Next]_vars => Shaped'
  BY NextShape
<1> QED
  BY <1>1, <1>2, Invariance, PTL DEF Spec

(* Without a core inside no link back of the queue is stale.               *)
LEMMA ShapedMirrors == Shaped => LinksMirror
<1> SUFFICES ASSUME Shaped, NEW q \in Queues,
                    \A c \in Cores : frame[c].q # q \/ pc[c] \notin Links
             PROVE  LET list == <<queuehead(q)>> \o Listed(q)
                    IN  /\ \A i \in 1 .. Len(list) - 1 : prev[list[i + 1]] = list[i]
                        /\ next[list[Len(list)]] = queuetail(q)
                        /\ prev[queuetail(q)] = list[Len(list)]
  BY DEF LinksMirror
<1>1. PICK s \in [Queues -> Seq(Procs)] : Shape(s)
  BY DEF Shaped
<1> DEFINE n    == Len(s[q])
           h    == queuehead(q)
           list == <<h>> \o s[q]
<1>2. Listed(q) = s[q]
  BY <1>1, ListsAre DEF Shape
<1>3. s[q] \in Seq(Procs) /\ n \in Nat
  BY <1>1
<1>4. Len(list) = n + 1 /\ \A i \in 1 .. n + 1 : list[i] = Cell(s, q, i - 1)
  <2> DEFINE u == s[q]
  <2>1. u \in Seq(Entries \cup Procs) /\ n = Len(u) /\ h \in Entries \cup Procs
    BY <1>3, Numbers
  <2> HIDE DEF u, n, h
  <2>2. /\ Len(<<h>> \o u) = n + 1 /\ (<<h>> \o u)[1] = h
        /\ \A i \in 2 .. n + 1 : (<<h>> \o u)[i] = u[i - 1]
    BY <1>3, <2>1
  <2>3. Cell(s, q, 0) = h /\ \A i \in 1 .. n : Cell(s, q, i) = u[i]
    BY Cells DEF h, n, u
  <2>4. \A i \in 1 .. n + 1 : i = 1 \/ (i \in 2 .. n + 1 /\ i - 1 \in 1 .. n)
    BY <1>3
  <2>5. \A i \in 1 .. n + 1 : (<<h>> \o u)[i] = Cell(s, q, i - 1)
    BY <2>2, <2>3, <2>4
  <2> QED
    BY <2>2, <2>5 DEF u
<1>5. \A i \in 1 .. n + 1 : prev[Cell(s, q, i)] = Cell(s, q, i - 1)
  <2>1. \A i \in 1 .. n + 1 : ~Stale(s, q, i)
    BY DEF Stale, Links
  <2> QED
    BY <1>1, <2>1 DEF Shape, BackwardAt
<1>6. next[Cell(s, q, n)] = queuetail(q) /\ prev[queuetail(q)] = Cell(s, q, n)
  <2>1. Cell(s, q, n + 1) = queuetail(q)
    BY Cells
  <2> HIDE DEF n
  <2>2. n \in 0 .. n /\ n + 1 \in 1 .. n + 1 /\ n + 1 - 1 = n
    BY <1>3
  <2>3. next[Cell(s, q, n)] = Cell(s, q, n + 1)
    BY <1>1, <2>2 DEF Shape, ForwardAt, n
  <2> QED
    BY <1>5, <2>1, <2>2, <2>3
<1> HIDE DEF list, n
<1>7. \A i \in 1 .. Len(list) - 1 : prev[list[i + 1]] = list[i]
  <2> SUFFICES ASSUME NEW i \in 1 .. n PROVE prev[list[i + 1]] = list[i]
    BY <1>3, <1>4
  <2>1. i \in 1 .. n + 1 /\ i + 1 \in 1 .. n + 1 /\ i + 1 - 1 = i
    BY <1>3
  <2> QED
    BY <1>4, <1>5, <2>1
<1>8. list[Len(list)] = Cell(s, q, n)
  <2>1. PICK m : m = n + 1
    OBVIOUS
  <2>2. m \in 1 .. n + 1 /\ m - 1 = n
    BY <1>3, <2>1
  <2>3. list[m] = Cell(s, q, m - 1)
    BY <1>4, <2>2
  <2>4. Len(list) = m
    BY <1>4, <2>1
  <2> QED
    BY <2>2, <2>3, <2>4
<1> QED
  BY <1>2, <1>6, <1>7, <1>8 DEF list

(* A process without a core is in a queue or in hand.                      *)
LEMMA ShapedKeeps == Shaped => NoneLost
<1> SUFFICES ASSUME Shaped, NEW p \in Procs, held[p] = NONE
             PROVE  \/ Occurrences(p) # {}
                    \/ \E c \in Cores : pc[c] # "idle" /\ frame[c].pid = p
  BY DEF NoneLost
<1>1. PICK s \in [Queues -> Seq(Procs)] : Shape(s)
  BY DEF Shaped
<1>2. CASE \E q \in Queues : In(s, q, p)
  <2>1. PICK q \in Queues : In(s, q, p)
    BY <1>2
  <2>2. PICK i \in 1 .. Len(s[q]) : s[q][i] = p
    BY <2>1 DEF In
  <2>3. Listed(q) = s[q] /\ DOMAIN s[q] = 1 .. Len(s[q])
    BY <1>1, ListsAre, Cells DEF Shape
  <2>4. i \in 1 .. NPROC + 1
    <3>1. Len(s[q]) \in Nat /\ Len(s[q]) <= NPROC
      BY <1>1, ShortList, Cells DEF Shape
    <3> QED
      BY <3>1, Numbers
  <2>5. <<q, i>> \in Occurrences(p)
    BY <2>2, <2>3, <2>4 DEF Occurrences
  <2> QED
    BY <2>5
<1>3. CASE \E c \in Cores : Loose(c) /\ frame[c].pid = p
  BY <1>3 DEF Loose
<1> QED
  BY <1>1, <1>2, <1>3 DEF Shape, Owned

(* A queue no core works on reads the same in both directions (queue.c:    *)
(* enqueue, dequeue, remove).                                              *)
THEOREM ListsMirrored == ASSUME AllLocked PROVE Spec => []LinksMirror
  BY ShapeInvariance, ShapedMirrors, PTL

(* A process handed to enqueue is in a queue or in the hands of a call     *)
(* until a core has it back (wait.c, signal.c: queues that have a lock).   *)
THEOREM NoneIsLost == ASSUME AllLocked PROVE Spec => []NoneLost
  BY ShapeInvariance, ShapedKeeps, PTL

-----------------------------------------------------------------------------
(* What ProcessQueues knows of a core at a label with frame f.             *)
Asked(f, r) == [op     |-> f.op,
                pid    |-> IF f.op = "dequeue" THEN EMPTY ELSE f.pid,
                q      |-> IF f.op = "remove" THEN EMPTY ELSE f.q,
                result |-> r]

(* The labels past the store, or the read, by which an operation takes     *)
(* effect.                                                                 *)
Effected == {"enq_tail", "deq_back", "deq_self", "rem_back", "release"}

(* AbstractCall of a label and a frame.                                    *)
CallAt(label, f) ==
  IF label = "idle" THEN Abstract!Idle
  ELSE Asked(f, IF label \in Effected THEN f.pid ELSE Pending)

(* A step in which core c comes to a label with frame f.                   *)
Moves(c, l, f) == pc' = [pc EXCEPT ![c] = l] /\ frame' = [frame EXCEPT ![c] = f]

(* The variables of ProcessQueues: the queues                              *)
Lists   == [q \in Queues |-> Listed(q)]
(* and the calls.                                                          *)
Callers == [c \in Cores |-> AbstractCall(c)]

(* The two modules mean the same by EMPTY and Pending.                     *)
LEMMA SameNumbers == Abstract!EMPTY = EMPTY /\ Abstract!Pending = Pending
BY DEF Abstract!EMPTY, Abstract!Pending, EMPTY, Pending

(* AbstractCall depends on the label and the frame of the core only.       *)
LEMMA CallIs ==
  ASSUME NEW c \in Cores
  PROVE  /\ AbstractCall(c) = CallAt(pc[c], frame[c])
         /\ AbstractCall(c)' = CallAt(pc'[c], frame'[c])
BY SameNumbers DEF AbstractCall, CallAt, Asked, Effected, Done, Abstract!Idle

(* The call of core c answers x. *)
Answered(c, x) == Callers' = [Callers EXCEPT ![c].result = x]

(* A call of core c that had no effect yet gets answer x.                  *)
LEMMA Answers ==
  ASSUME NEW c \in Cores, NEW f, Callers[c] = Asked(f, Pending), NEW x,
         Callers' = [Callers EXCEPT ![c] = Asked(f, x)]
  PROVE  /\ Callers[c].op = f.op /\ Callers[c].result = Abstract!Pending
         /\ f.op # "remove" => Callers[c].q = f.q
         /\ f.op # "dequeue" => Callers[c].pid = f.pid
         /\ Answered(c, x)
<1>1. PICK old : old = Asked(f, Pending)
  OBVIOUS
<1>2. /\ old.op = f.op /\ old.result = Pending
      /\ f.op # "remove" => old.q = f.q
      /\ f.op # "dequeue" => old.pid = f.pid
      /\ [old EXCEPT !.result = x] = Asked(f, x)
  BY <1>1 DEF Asked
<1>3. Callers[c] = old
  BY <1>1
<1>4. Callers' = [Callers EXCEPT ![c] = [Callers[c] EXCEPT !.result = x]]
  BY <1>2, <1>3
<1>5. Callers' = [Callers EXCEPT ![c].result = x]
  BY <1>4
<1> QED
  BY <1>2, <1>3, <1>5, SameNumbers DEF Answered

(* A step of core c changes its own call only.                             *)
LEMMA CallersStep ==
  ASSUME IInv, NEW c \in Cores, NEW l, NEW f, Moves(c, l, f)
  PROVE  /\ Callers[c] = CallAt(pc[c], frame[c])
         /\ Callers' = [Callers EXCEPT ![c] = CallAt(l, f)]
<1>1. pc'[c] = l /\ frame'[c] = f
  BY DEF Moves, IInv, TypeOK
<1>2. AbstractCall(c) = CallAt(pc[c], frame[c]) /\ AbstractCall(c)' = CallAt(l, f)
  BY <1>1, CallIs
<1>3. ASSUME NEW d \in Cores \ {c} PROVE AbstractCall(d)' = AbstractCall(d)
  <2>1. pc'[d] = pc[d] /\ frame'[d] = frame[d]
    BY DEF Moves, IInv, TypeOK
  <2> QED
    BY <2>1, CallIs
<1> QED
  BY <1>2, <1>3 DEF Callers

(* The abstract queues are the lists of the shape,                         *)
LEMMA ListsNow ==
  ASSUME NEW s \in [Queues -> Seq(Procs)], Shape(s)
  PROVE  Lists = s
BY ListsAre DEF Shape, Lists

(* also in the next state.                                                 *)
LEMMA ListsNext ==
  ASSUME NEW s \in [Queues -> Seq(Procs)], Shape(s)'
  PROVE  Lists' = s
<1>1. Apart(s) /\ \A q \in Queues : ForwardAt(s, q)'
  BY DEF Shape, Apart
<1>2. \A q \in Queues : Listed(q)' = s[q]
  BY <1>1, ListsBecome
<1> QED
  BY <1>2 DEF Lists

(* Steps that leave the lists and the calls as they are. *)
LEMMA Stutters ==
  ASSUME IInv, NEW s \in [Queues -> Seq(Procs)], Shape(s), Shape(s)',
         NEW c \in Cores, NEW l, NEW f, Moves(c, l, f),
         CallAt(l, f) = CallAt(pc[c], frame[c])
  PROVE  Lists' = Lists /\ Callers' = Callers
<1>1. Lists' = Lists
  BY ListsNow, ListsNext
<1>2. Callers' = [Callers EXCEPT ![c] = Callers[c]]
  BY CallersStep
<1> QED
  BY <1>1, <1>2 DEF Callers

(* A core that leaves idle with a call that has had no effect begins it.   *)
LEMMA BeginStep ==
  ASSUME IInv, NEW s \in [Queues -> Seq(Procs)], Shape(s), Shape(s)',
         NEW c \in Cores, NEW l, NEW f, pc[c] = "idle", Moves(c, l, f),
         CallAt(l, f) \in Abstract!Calls, CallAt(l, f).result = Pending
  PROVE  Abstract!Begin(c)
<1>1. Lists' = Lists
  BY ListsNow, ListsNext
<1>2. Callers[c] = Abstract!Idle /\ Callers' = [Callers EXCEPT ![c] = CallAt(l, f)]
  BY CallersStep DEF CallAt
<1> HIDE DEF CallAt
<1>3. Callers' \in {[Callers EXCEPT ![c] = new] :
                       new \in {k \in Abstract!Calls : k.result = Abstract!Pending}}
  BY <1>2, SameNumbers
<1> QED
  BY <1>1, <1>2, <1>3 DEF Abstract!Begin, Lists, Callers

-----------------------------------------------------------------------------
(* WithoutAt leaves a sequence.                                            *)
LEMMA WithoutIsSeq ==
  ASSUME NEW u \in Seq(Procs), NEW k \in 1 .. Len(u)
  PROVE  /\ WithoutAt(u, k) \in Seq(Procs) /\ Len(WithoutAt(u, k)) = Len(u) - 1
         /\ \A i \in 1 .. Len(u) - 1 : WithoutAt(u, k)[i] = IF i < k THEN u[i] ELSE u[i + 1]
<1> DEFINE n == Len(u)
<1>1. n \in Nat /\ n - 1 \in Nat /\ \A i \in 1 .. n : u[i] \in Procs
  OBVIOUS
<1> HIDE DEF n
<1>2. \A i \in 1 .. n - 1 : i \in 1 .. n /\ i + 1 \in 1 .. n
  BY <1>1
<1>3. WithoutAt(u, k) = [i \in 1 .. n - 1 |-> IF i < k THEN u[i] ELSE u[i + 1]]
  BY DEF WithoutAt, n
<1>4. WithoutAt(u, k) \in [1 .. n - 1 -> Procs]
  BY <1>1, <1>2, <1>3
<1>5. WithoutAt(u, k) \in Seq(Procs) /\ Len(WithoutAt(u, k)) = n - 1
  BY <1>1, <1>4, IsASeq, LenProperties
<1> QED
  BY <1>3, <1>5 DEF n

(* Without its first item a sequence is its tail.                          *)
LEMMA WithoutFirst ==
  ASSUME NEW u \in Seq(Procs), u # <<>>
  PROVE  WithoutAt(u, 1) = Tail(u) /\ u[1] = Head(u)
<1>1. /\ Tail(u) \in Seq(Procs) /\ Len(Tail(u)) = Len(u) - 1
      /\ \A i \in 1 .. Len(Tail(u)) : Tail(u)[i] = u[i + 1]
  BY HeadTailProperties
<1>2. Len(u) \in Nat /\ 1 \in 1 .. Len(u)
  OBVIOUS
<1>3. /\ WithoutAt(u, 1) \in Seq(Procs) /\ Len(WithoutAt(u, 1)) = Len(u) - 1
      /\ \A i \in 1 .. Len(u) - 1 : WithoutAt(u, 1)[i] = u[i + 1]
  BY <1>2, WithoutIsSeq
<1>4. WithoutAt(u, 1) = Tail(u)
  BY <1>1, <1>3, SeqEqual
<1> QED
  BY <1>4

(* WithoutAt is RemoveAt of SequencesExt.                                  *)
LEMMA WithoutIsRemoveAt ==
  ASSUME NEW u \in Seq(Procs), NEW k \in 1 .. Len(u)
  PROVE  Abstract!RemoveAt(u, k) = WithoutAt(u, k)
<1> DEFINE n == Len(u)
           a == SubSeq(u, 1, k - 1)
           b == SubSeq(u, k + 1, n)
<1>1. n \in Nat /\ k \in Int /\ 1 <= k /\ k <= n /\ \A i \in 1 .. n : u[i] \in Procs
  OBVIOUS
<1> HIDE DEF n
<1>2. /\ a \in Seq(Procs) /\ Len(a) = k - 1
      /\ \A i \in 1 .. k - 1 : a[i] = u[i]
  <2>1. /\ \A i \in 1 .. k - 1 : u[i] \in Procs
        /\ 1 \in Int /\ k - 1 \in Int /\ (k - 1) - 1 + 1 = k - 1
    BY <1>1
  <2>2. /\ a \in Seq(Procs) /\ Len(a) = IF 1 <= k - 1 THEN (k - 1) - 1 + 1 ELSE 0
        /\ \A i \in 1 .. (k - 1) - 1 + 1 : a[i] = u[1 + i - 1]
    BY <2>1, SubSeqProperties
  <2>3. Len(a) = k - 1
    BY <1>1, <2>2
  <2>4. \A i \in 1 .. k - 1 : 1 + i - 1 = i /\ i \in 1 .. (k - 1) - 1 + 1
    BY <1>1
  <2> HIDE DEF a
  <2> QED
    BY <2>2, <2>3, <2>4
<1>3. /\ b \in Seq(Procs) /\ Len(b) = n - k
      /\ \A i \in 1 .. n - k : b[i] = u[k + i]
  <2>1. /\ \A i \in k + 1 .. n : u[i] \in Procs
        /\ k + 1 \in Int /\ n \in Int
    BY <1>1
  <2>2. /\ b \in Seq(Procs) /\ Len(b) = IF k + 1 <= n THEN n - (k + 1) + 1 ELSE 0
        /\ \A i \in 1 .. n - (k + 1) + 1 : b[i] = u[(k + 1) + i - 1]
    BY <2>1, SubSeqProperties
  <2>3. Len(b) = n - k
    BY <1>1, <2>2
  <2>4. \A i \in 1 .. n - k : (k + 1) + i - 1 = k + i /\ i \in 1 .. n - (k + 1) + 1
    BY <1>1
  <2> HIDE DEF b
  <2> QED
    BY <2>2, <2>3, <2>4
<1>4. Abstract!RemoveAt(u, k) = a \o b
  BY DEF Abstract!RemoveAt, n
<1> HIDE DEF a, b
<1>5. /\ a \o b \in Seq(Procs) /\ Len(a \o b) = Len(a) + Len(b)
      /\ \A i \in 1 .. Len(a) + Len(b) : (a \o b)[i] = IF i <= Len(a) THEN a[i] ELSE b[i - Len(a)]
  BY <1>2, <1>3, ConcatProperties
<1>6. Len(a \o b) = n - 1
  BY <1>1, <1>2, <1>3, <1>5
<1>7. /\ WithoutAt(u, k) \in Seq(Procs) /\ Len(WithoutAt(u, k)) = n - 1
      /\ \A i \in 1 .. n - 1 : WithoutAt(u, k)[i] = IF i < k THEN u[i] ELSE u[i + 1]
  BY WithoutIsSeq DEF n
<1>8. ASSUME NEW i \in 1 .. n - 1
      PROVE  (a \o b)[i] = WithoutAt(u, k)[i]
  <2>0. i \in 1 .. Len(a) + Len(b)
    BY <1>1, <1>2, <1>3
  <2>1. CASE i < k
    <3>1. i \in 1 .. k - 1 /\ i <= Len(a)
      BY <1>1, <1>2, <2>1
    <3> QED
      BY <1>2, <1>5, <1>7, <2>0, <2>1, <3>1
  <2>2. CASE ~(i < k)
    <3>1. ~(i <= Len(a)) /\ i - Len(a) = i - (k - 1)
      BY <1>1, <1>2, <2>2
    <3>2. PICK j : j = i - (k - 1)
      OBVIOUS
    <3>3. j \in 1 .. n - k /\ k + j = i + 1 /\ i - Len(a) = j
      BY <1>1, <2>2, <3>1, <3>2
    <3>4. (a \o b)[i] = b[j]
      BY <1>5, <2>0, <3>1, <3>3
    <3>5. b[j] = u[i + 1]
      BY <1>3, <3>3
    <3> QED
      BY <1>7, <2>2, <3>4, <3>5
  <2> QED
    BY <2>1, <2>2
<1>9. a \o b = WithoutAt(u, k)
  BY <1>5, <1>6, <1>7, <1>8, SeqEqual
<1> QED
  BY <1>4, <1>9

-----------------------------------------------------------------------------
(* enqueue takes effect with its store to the next link of the last entry. *)
LEMMA EnqueueLinkStep ==
  ASSUME AllLocked, IInv, NEW s \in [Queues -> Seq(Procs)], Shape(s), NEW c \in Cores,
         EnqueueLink(c)
  PROVE  Abstract!Enqueue(c)
<1>1. PICK f : f = frame[c]
  OBVIOUS
<1>2. /\ pc[c] = "enq_link" /\ pc' = [pc EXCEPT ![c] = "enq_tail"] /\ frame' = frame
      /\ frame' = [frame EXCEPT ![c] = f]
      /\ f.op = "enqueue" /\ f.q \in Queues /\ f.pid \in Procs
  BY <1>1 DEF EnqueueLink, At, Goto, IInv, TypeOK, FramesOK, FrameOK, Links, Shape, Knows, CallKnows
<1>3. PICK t \in [Queues -> Seq(Procs)] : IsAppended(s, t, f.q, f.pid) /\ Shape(t)'
  BY <1>1, EnqueueLinkShape
<1>4. Lists = s /\ Lists' = [Lists EXCEPT ![f.q] = Append(@, f.pid)]
  BY <1>3, ListsNow, ListsNext DEF IsAppended
<1>5. /\ Callers[c] = Asked(f, Pending)
      /\ Callers' = [Callers EXCEPT ![c] = Asked(f, f.pid)]
  <2>1. Moves(c, "enq_tail", f)
    BY <1>2 DEF Moves
  <2>2. /\ Callers[c] = CallAt("enq_link", f)
        /\ Callers' = [Callers EXCEPT ![c] = CallAt("enq_tail", f)]
    BY <1>1, <1>2, <2>1, CallersStep
  <2> QED
    BY <2>2 DEF CallAt, Effected
<1>6. /\ Callers[c].op = "enqueue" /\ Callers[c].pid = f.pid /\ Callers[c].q = f.q
      /\ Callers[c].result = Abstract!Pending
  BY <1>2, <1>5, Answers
<1>7. Answered(c, f.pid)
  BY <1>5, Answers
<1> QED
  BY <1>4, <1>6, <1>7 DEF Answered, Abstract!Enqueue, Abstract!Effect, Abstract!Result, Lists, Callers

(* dequeue and remove take effect with their store past the process.       *)
LEMMA UnlinkStep ==
  ASSUME AllLocked, IInv, NEW s \in [Queues -> Seq(Procs)], Shape(s), NEW c \in Cores,
         DequeueUnlink(c) \/ RemoveUnlink(c)
  PROVE  Abstract!Dequeue(c) \/ \E q \in Queues : Abstract!RemoveFrom(c, q)
<1>1. PICK f, l, m : /\ f = frame[c] /\ l = pc[c]
                     /\ m = IF l = "deq_unlink" THEN "deq_back" ELSE "rem_back"
  OBVIOUS
<1>2. /\ l \in {"deq_unlink", "rem_unlink"}
      /\ pc' = [pc EXCEPT ![c] = m] /\ frame' = [frame EXCEPT ![c] = f]
      /\ f.op = (IF l = "deq_unlink" THEN "dequeue" ELSE "remove")
      /\ f.q \in Queues /\ f.pid \in Procs
  BY <1>1 DEF DequeueUnlink, RemoveUnlink, At, Goto, IInv, TypeOK, FramesOK, FrameOK, Links,
              Shape, Knows, CallKnows
<1>3. PICK t \in [Queues -> Seq(Procs)], k \in 1 .. Len(s[f.q]) :
        /\ s[f.q][k] = f.pid /\ (f.op = "dequeue" => k = 1)
        /\ IsWithout(s, t, f.q, k) /\ Shape(t)'
  BY <1>1, UnlinkShape
<1>4. PICK q : q = f.q
  OBVIOUS
<1>5. Lists = s /\ Lists' = [Lists EXCEPT ![q] = WithoutAt(Lists[q], k)]
  BY <1>3, <1>4, ListsNow, ListsNext DEF IsWithout
<1>6. s[q] \in Seq(Procs) /\ s[q] # <<>> /\ q \in Queues
  BY <1>2, <1>3, <1>4
<1>7. /\ Callers[c] = Asked(f, Pending)
      /\ Callers' = [Callers EXCEPT ![c] = Asked(f, f.pid)]
  <2>1. Moves(c, m, f)
    BY <1>2 DEF Moves
  <2>2. /\ Callers[c] = CallAt(l, f)
        /\ Callers' = [Callers EXCEPT ![c] = CallAt(m, f)]
    BY <1>1, <2>1, CallersStep
  <2> QED
    BY <1>1, <1>2, <2>2 DEF CallAt, Effected
<1>8. /\ Callers[c].op = f.op /\ Callers[c].result = Abstract!Pending
      /\ f.op = "dequeue" => Callers[c].q = q
      /\ f.op = "remove" => Callers[c].pid = f.pid
  BY <1>1, <1>2, <1>4, <1>7, Answers
<1>9. Answered(c, f.pid)
  BY <1>7, Answers
<1>10. CASE f.op = "dequeue"
  <2>1. k = 1 /\ WithoutAt(s[q], 1) = Tail(s[q]) /\ f.pid = Head(s[q])
    BY <1>3, <1>4, <1>6, <1>10, WithoutFirst
  <2>2. Lists[q] # <<>> /\ Lists' = [Lists EXCEPT ![q] = Tail(@)] /\ f.pid = Head(Lists[q])
    BY <1>5, <1>6, <2>1
  <2> QED
    BY <1>8, <1>9, <1>10, <2>2
       DEF Answered, Abstract!Dequeue, Abstract!Effect, Abstract!Result, Lists, Callers
<1>11. CASE f.op = "remove"
  <2>1. Lists' = [Lists EXCEPT ![q] = Abstract!RemoveAt(@, k)]
    BY <1>3, <1>4, <1>5, <1>6, WithoutIsRemoveAt
  <2>2. k \in 1 .. Len(Lists[q]) /\ Lists[q][k] = Callers[c].pid
    BY <1>3, <1>4, <1>5, <1>8, <1>11
  <2>3. Abstract!RemoveFrom(c, q)
    BY <1>8, <1>9, <1>11, <2>1, <2>2
       DEF Answered, Abstract!RemoveFrom, Abstract!Effect, Abstract!Result, Lists, Callers
  <2> QED
    BY <1>6, <2>3
<1> QED
  BY <1>2, <1>10, <1>11

-----------------------------------------------------------------------------
(* dequeue of an empty queue takes effect when it reads the link of the    *)
(* head.                                                                   *)
LEMMA DequeueFirstStep ==
  ASSUME IInv, NEW s \in [Queues -> Seq(Procs)], Shape(s), NEW c \in Cores,
         DequeueFirst(c)
  PROVE  Abstract!Dequeue(c) \/ (Lists' = Lists /\ Callers' = Callers)
<1>1. PICK f, g, m : f = frame[c] /\ g = frame'[c] /\ m = pc'[c]
  OBVIOUS
<1>2. /\ pc[c] = "deq_first" /\ f.op = "dequeue" /\ f.q \in Queues /\ f.pid = EMPTY
      /\ f \in Frames
  BY <1>1 DEF DequeueFirst, At, IInv, TypeOK, FramesOK, FrameOK, Links, Shape, Knows, CallKnows
<1>3. Moves(c, m, g)
  <2>1. pc' = [pc EXCEPT ![c] = m]
    BY <1>1 DEF DequeueFirst, Goto, IInv, TypeOK
  <2>2. frame' = [frame EXCEPT ![c] = g]
    BY <1>1 DEF DequeueFirst, IInv, TypeOK
  <2> QED
    BY <2>1, <2>2 DEF Moves
<1>4. /\ Shape(s)'
      /\ IF s[f.q] = <<>> THEN m = "release" /\ g = f
         ELSE m = "deq_unlink" /\ g = [f EXCEPT !.pid = s[f.q][1]]
  BY <1>1, DequeueFirstShape
<1>5. Lists = s /\ Lists' = s
  BY <1>4, ListsNow, ListsNext
<1>6. Callers[c] = Asked(f, Pending) /\ Callers' = [Callers EXCEPT ![c] = CallAt(m, g)]
  <2>1. Callers[c] = CallAt("deq_first", f) /\ Callers' = [Callers EXCEPT ![c] = CallAt(m, g)]
    BY <1>1, <1>2, <1>3, CallersStep
  <2> QED
    BY <2>1 DEF CallAt, Effected
<1>7. CASE s[f.q] = <<>>
  <2>1. CallAt(m, g) = Asked(f, f.pid)
    BY <1>2, <1>4, <1>7 DEF CallAt, Effected
  <2>2. Callers[c] = Asked(f, Pending) /\ Callers' = [Callers EXCEPT ![c] = Asked(f, f.pid)]
    BY <1>6, <2>1
  <2>3. /\ Callers[c].op = "dequeue" /\ Callers[c].result = Abstract!Pending
        /\ Callers[c].q = f.q /\ Answered(c, f.pid)
    BY <1>2, <2>2, Answers
  <2>4. Abstract!Dequeue(c)
    BY <1>2, <1>5, <1>7, <2>3, SameNumbers
       DEF Answered, Abstract!Dequeue, Abstract!Effect, Abstract!Result, Lists, Callers
  <2> QED
    BY <2>4
<1>8. CASE s[f.q] # <<>>
  <2>1. m = "deq_unlink" /\ g.op = f.op /\ g.q = f.q
    BY <1>2, <1>4, <1>8 DEF Frames
  <2>2. CallAt(m, g) = Asked(f, Pending)
    BY <1>2, <2>1 DEF CallAt, Effected, Asked
  <2>3. Callers' = [Callers EXCEPT ![c] = Callers[c]]
    BY <1>6, <2>2
  <2> QED
    BY <1>5, <2>3 DEF Callers
<1> QED
  BY <1>7, <1>8

(* The call returns with its answer when it releases the lock.             *)
LEMMA ReleaseStep ==
  ASSUME IInv, NEW s \in [Queues -> Seq(Procs)], Shape(s), NEW c \in Cores, Release(c)
  PROVE  Abstract!Return(c)
<1>1. PICK f : f = frame[c]
  OBVIOUS
<1>2. /\ pc[c] = "release" /\ f.op # "none" /\ f.pid \in Procs \cup {EMPTY}
      /\ Moves(c, "idle", NoFrame)
  BY <1>1 DEF Release, At, Goto, Moves, Shape, Knows, CallKnows
<1>3. Lists' = Lists
  BY ListsNow, ListsNext, ReleaseShape
<1>4. Callers[c] = Asked(f, f.pid) /\ Callers' = [Callers EXCEPT ![c] = Abstract!Idle]
  <2>1. Callers[c] = CallAt("release", f) /\ Callers' = [Callers EXCEPT ![c] = CallAt("idle", NoFrame)]
    BY <1>1, <1>2, CallersStep
  <2> QED
    BY <2>1 DEF CallAt, Effected
<1>5. f.pid # Pending
  BY <1>2 DEF Procs, EMPTY, Pending
<1>6. Callers[c].op = f.op /\ Callers[c].result # Abstract!Pending
  BY <1>4, <1>5, SameNumbers DEF Asked
<1>7. Callers[c] # Abstract!Idle
  BY <1>2, <1>6 DEF Abstract!Idle
<1> QED
  BY <1>3, <1>4, <1>6, <1>7 DEF Abstract!Return, Lists, Callers

(* Each call begins the abstract one.                                      *)
LEMMA CallBegins ==
  ASSUME IInv, NEW s \in [Queues -> Seq(Procs)], Shape(s), NEW c \in Cores, Call(c)
  PROVE  Abstract!Begin(c)
<1>1. Shape(s)'
  BY EnqueueShape, DequeueShape, RemoveShape DEF Call
<1>2. ASSUME NEW op \in {"enqueue", "dequeue"}, NEW q \in Queues, NEW pid \in Procs \cup {EMPTY},
             Start(c, op, q, pid),
             IF op = "enqueue" THEN pid \in Procs ELSE pid = EMPTY
      PROVE  Abstract!Begin(c)
  <2>1. PICK f : f = CallFrame(op, q, pid)
    OBVIOUS
  <2>0. /\ f.op = op /\ f.q = q /\ f.pid = pid /\ pc[c] = "idle"
        /\ frame' = [frame EXCEPT ![c] = f] /\ pc' = [pc EXCEPT ![c] = "acquire"]
    BY <1>2, <2>1 DEF Start, CallFrame, NoFrame, At, Goto
  <2>2. /\ f.op = op /\ f.q = q /\ f.pid = pid /\ pc[c] = "idle"
        /\ Moves(c, "acquire", f)
    BY <2>0 DEF Moves
  <2>3. CallAt("acquire", f) = Asked(f, Pending)
    BY DEF CallAt, Effected
  <2>4. Asked(f, Pending) \in Abstract!Calls /\ Asked(f, Pending).result = Pending
    BY <1>2, <2>2, SameNumbers DEF Asked, Abstract!Calls
  <2> QED
    BY <1>1, <2>2, <2>3, <2>4, BeginStep
<1>3. ASSUME NEW pid \in Procs, Remove(c, pid)
      PROVE  Abstract!Begin(c)
  <2>1. PICK f : f = [NoFrame EXCEPT !.op = "remove", !.pid = pid, !.temp = pid]
    OBVIOUS
  <2>2. /\ f.op = "remove" /\ f.pid = pid /\ pc[c] = "idle"
        /\ Moves(c, "walk", f)
    BY <1>3, <2>1 DEF Remove, At, Goto, Moves, NoFrame
  <2>3. CallAt("walk", f) = Asked(f, Pending)
    BY DEF CallAt, Effected
  <2>4. Asked(f, Pending) \in Abstract!Calls /\ Asked(f, Pending).result = Pending
    BY <1>3, <2>2, SameNumbers DEF Asked, Abstract!Calls
  <2> QED
    BY <1>1, <2>2, <2>3, <2>4, BeginStep
<1>4. CASE \E pid \in Procs, q \in Queues : Enqueue(c, pid, q)
  BY <1>2, <1>4 DEF Enqueue
<1>5. CASE \E q \in Queues : Dequeue(c, q)
  BY <1>2, <1>5 DEF Dequeue
<1> QED
  BY <1>3, <1>4, <1>5 DEF Call

-----------------------------------------------------------------------------
(* The other steps change neither the lists nor the calls.                 *)
LEMMA QuietStep ==
  ASSUME AllLocked, IInv, NEW s \in [Queues -> Seq(Procs)], Shape(s), NEW c \in Cores,
         \/ Walk(c) \/ Acquire(c)
         \/ EnqueueSelf(c) \/ EnqueueTail(c) \/ DequeueBack(c) \/ DequeueSelf(c) \/ RemoveBack(c)
  PROVE  Lists' = Lists /\ Callers' = Callers
<1>1. Shape(s)'
  BY WalkShape, AcquireShape, OwnStoreShape, BackShape
<1>2. PICK f : f = frame[c]
  OBVIOUS
<1>3. ASSUME NEW l, l # "idle", pc[c] # "idle", l \in Effected <=> pc[c] \in Effected,
             pc' = [pc EXCEPT ![c] = l], frame' = frame
      PROVE  Lists' = Lists /\ Callers' = Callers
  <2>1. Moves(c, l, f)
    BY <1>2, <1>3 DEF Moves, IInv, TypeOK
  <2>2. CallAt(l, f) = CallAt(pc[c], frame[c])
    BY <1>2, <1>3 DEF CallAt
  <2> QED
    BY <1>1, <2>1, <2>2, Stutters
<1>4. CASE Acquire(c)
  <2>1. f.op \in {"enqueue", "dequeue", "remove"}
    BY <1>2, <1>4 DEF Acquire, At, IInv, TypeOK, FramesOK, FrameOK, Frames
  <2>2. PICK l : l = Body(f.op)
    OBVIOUS
  <2>3. l \in {"enq_self", "deq_first", "rem_unlink"}
    BY <2>1, <2>2 DEF Body
  <2> QED
    BY <1>2, <1>3, <1>4, <2>2, <2>3 DEF Acquire, At, Goto, Effected
<1>5. CASE EnqueueSelf(c) \/ EnqueueTail(c) \/ DequeueBack(c) \/ DequeueSelf(c) \/ RemoveBack(c)
  BY <1>3, <1>5 DEF EnqueueSelf, EnqueueTail, DequeueBack, DequeueSelf, RemoveBack, At, Goto, Effected
<1>6. CASE Walk(c)
  <2>1. PICK g, l : g = frame'[c] /\ l = pc'[c]
    OBVIOUS
  <2>2. /\ l \in {"walk", "acquire"} /\ g.pid = f.pid /\ g.op = f.op
        /\ pc[c] = "walk" /\ f.op = "remove"
    BY <1>2, <1>6, <2>1, WalkShape DEF Walk, At, IInv, FramesOK, FrameOK
  <2>3. pc' = [pc EXCEPT ![c] = l] /\ frame' = [frame EXCEPT ![c] = g]
    BY <1>6, <2>1 DEF Walk, Goto, IInv, TypeOK
  <2>4. Moves(c, l, g)
    BY <2>3 DEF Moves
  <2>5. CallAt(l, g) = CallAt(pc[c], frame[c])
    BY <1>2, <2>2 DEF CallAt, Effected, Asked
  <2> QED
    BY <1>1, <2>4, <2>5, Stutters
<1> QED
  BY <1>4, <1>5, <1>6

(* ProcessQueues starts in the image of Init.                              *)
LEMMA AbstractInit == Init => Abstract!Init
<1> SUFFICES ASSUME Init PROVE Abstract!Init
  OBVIOUS
<1>1. PICK s \in [Queues -> Seq(Procs)] : s = [q \in Queues |-> <<>>] /\ Shape(s)
  BY InitShape
<1>2. Lists = [q \in Queues |-> <<>>]
  BY <1>1, ListsNow
<1>3. \A c \in Cores : AbstractCall(c) = Abstract!Idle
  BY CallIs DEF CallAt, Init
<1> QED
  BY <1>2, <1>3 DEF Abstract!Init, Lists

(* Every step maps to one of ProcessQueues or to none.                     *)
LEMMA AbstractNext ==
  ASSUME AllLocked, IInv, Shaped, [Next]_vars
  PROVE  [Abstract!Next]_(Abstract!vars)
<1> PICK s \in [Queues -> Seq(Procs)] : Shape(s)
  BY DEF Shaped
<1>1. ASSUME Lists' = Lists, Callers' = Callers
      PROVE  UNCHANGED Abstract!vars
  BY <1>1 DEF Abstract!vars, Lists, Callers
<1>2. CASE UNCHANGED vars
  <2>1. Lists' = Lists
    BY <1>2, ListsNow, ListsNext, IdleShape
  <2>2. pc' = pc /\ frame' = frame
    BY <1>2 DEF vars
  <2>3. \A c \in Cores : AbstractCall(c)' = AbstractCall(c)
    BY <2>2, CallIs
  <2> QED
    BY <1>1, <2>1, <2>3 DEF Callers
<1>3. CASE Next
  <2> PICK c \in Cores : Call(c) \/ Step(c)
    BY <1>3 DEF Next
  <2>1. CASE Call(c)
    BY <2>1, CallBegins DEF Abstract!Next
  <2>2. CASE EnqueueLink(c)
    BY <2>2, EnqueueLinkStep DEF Abstract!Next
  <2>3. CASE DequeueUnlink(c) \/ RemoveUnlink(c)
    BY <2>3, UnlinkStep DEF Abstract!Next
  <2>4. CASE DequeueFirst(c)
    BY <1>1, <2>4, DequeueFirstStep DEF Abstract!Next
  <2>5. CASE Release(c)
    BY <2>5, ReleaseStep DEF Abstract!Next
  <2>6. CASE \/ Walk(c) \/ Acquire(c)
             \/ EnqueueSelf(c) \/ EnqueueTail(c) \/ DequeueBack(c) \/ DequeueSelf(c) \/ RemoveBack(c)
    BY <1>1, <2>6, QuietStep
  <2> QED
    BY <2>1, <2>2, <2>3, <2>4, <2>5, <2>6 DEF Step
<1> QED
  BY <1>2, <1>3

(* enqueue, dequeue and remove of queue.c take effect at one instant each  *)
(* on FIFO queues, however their stores interleave on any number of cores. *)
THEOREM Linearized == ASSUME AllLocked PROVE Spec => Linearizable
<1>1. Init => Abstract!Init
  BY AbstractInit
<1>2. IInv /\ Shaped /\ [Next]_vars => [Abstract!Next]_(Abstract!vars)
  BY AbstractNext
<1> QED
  BY <1>1, <1>2, Invariance, ShapeInvariance, PTL DEF Spec, Linearizable, Abstract!Spec
==============================================================================
