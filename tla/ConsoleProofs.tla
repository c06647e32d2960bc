---------------------------- MODULE ConsoleProofs ----------------------------
(***************************************************************************)
(* Theorems about Console, for any rings, any number of processes and any  *)
(* number of characters: the rings do not overflow, the semaphores count   *)
(* them, no character of putc is lost or sent twice, and getc returns the  *)
(* characters in order.                                                    *)
(***************************************************************************)
EXTENDS Console, FunctionTheorems, FiniteSetTheorems, SequenceTheorems, TLAPS

(* The console as Console.tla describes it: the writers share a core, the  *)
(* readers have that of the handler.                                       *)
SharedCores ==
  /\ \A p, q \in Writers : Core[p] = Core[q]
  /\ \A p \in Readers : Core[p] = 0

-----------------------------------------------------------------------------
(* The inductive invariant *)

Active(p)   == ctx[p].at \notin {"user", "asleep", "ready"}
WriterSteps == {"user", "idle", "write", "wait", "enqueue", "asleep", "ready", "lock", "store", "unlock"}
ReaderSteps == {"user", "enqueue", "asleep", "ready", "read", "count"}
SendSteps   == {"send", "lock", "advance", "unlock", "more", "signal", "wake"}

(* What Busy keeps apart.                                                  *)
OneAtATime ==
  /\ \A p, q \in Procs : p # q /\ Active(p) /\ Active(q) => Core[p] # Core[q]
  /\ \A p \in Procs : Active(p) /\ Core[p] = 0 => handler.at = "off"

(* What a call and the handler know at their steps.                        *)
Frames ==
  /\ \A p \in Writers : ctx[p].at \in WriterSteps /\ (ctx[p].at \in {"user", "unlock"} => ctx[p].c = None)
  /\ \A p \in Readers : ctx[p].at \in ReaderSteps
  /\ \A p \in Readers : ctx[p].at = "count" => ctx[p].n = icount /\ ctx[p].c = in[istart]
  /\ handler.at \in {"off", "test", "idle"} => handler.count = 0
  /\ handler.at \in {"unlock", "more", "signal", "rxsignal"} => handler.count > 0
  /\ handler.at \in {"send", "lock", "advance"} => ocount > 0
  /\ handler.at \in {"rxlock", "rxstore"} => icount < UART_IBLEN

(* While oidle is set, or a call is about to write to the UART, nothing    *)
(* else is under way there.                                                *)
Transmitter ==
  /\ \A p \in Writers : ctx[p].at = "idle" => oidle
  /\ \A p \in Writers : ctx[p].at = "write" => ~oidle
  /\ (oidle \/ \E p \in Writers : ctx[p].at = "write") =>
       holding = None /\ ~txris /\ handler.at \notin {"test", "idle"} \cup SendSteps
  /\ txris => holding = None
  /\ handler.at \in {"test", "idle", "send"} => holding = None
  /\ handler.at \in {"test", "idle"} => ~txris

(* Those that sleep are those in the queue, and wait has counted enough of *)
(* those on their way there: however signaln counts, no place is given to  *)
(* more calls than there are places.                                       *)
Sleeping(procs) == {p \in procs : ctx[p].at = "asleep"}
Waiting(procs)  == {p \in procs : ctx[p].at \in {"enqueue", "asleep"}}
QueueTells(sem, asleep) ==
  /\ \A i, j \in 1 .. Len(sem.queue) : sem.queue[i] = sem.queue[j] => i = j
  /\ asleep = ToSet(sem.queue)
CountTells(sem, waiting, waking) ==
  /\ sem.count + Cardinality(waiting) >= waking
  /\ waking = 1 => sem.count <= 0
Waking(step) == IF handler.at = step THEN 1 ELSE 0
Sleepers ==
  /\ QueueTells(osema, Sleeping(Writers)) /\ CountTells(osema, Waiting(Writers), Waking("wake"))
  /\ QueueTells(isema, Sleeping(Readers)) /\ CountTells(isema, Waiting(Readers), Waking("rxwake"))

(* Nothing on the way out was not written.                                 *)
Fresh ==
  /\ put \in 0 .. MaxOut /\ arrived \in 0 .. MaxIn
  /\ out \in [0 .. UART_OBLEN - 1 -> 0 .. put]
  /\ holding \in 0 .. put /\ line \in Seq(0 .. put)
  /\ \A p \in Writers : ctx[p].c \in 0 .. put
  /\ received \in 0 .. arrived
  /\ accepted \in Seq(Chars \cup {None}) /\ got \in Seq(Chars \cup {None})

IInv ==
  /\ TypeOK /\ OneAtATime /\ Frames /\ Transmitter /\ Sleepers /\ Fresh
  /\ SemaphoresCount /\ OutputConserved /\ InputInOrder

-----------------------------------------------------------------------------
(* Types *)

Contexts == [at : CallSteps, c : Chars \cup {None}, n : Nat]
Handlers == [at : HandlerSteps, tx : BOOLEAN, rx : BOOLEAN, count : Nat, c : Chars \cup {None}]
Semaphores(procs) == [count : Int, queue : Seq(procs)]

(* What the assignments to ctx and to handler keep typed.                 *)
LEMMA ContextType ==
  ASSUME NEW r \in Contexts, NEW step \in CallSteps, NEW c \in Chars \cup {None}
  PROVE  /\ [r EXCEPT !.at = step] \in Contexts
         /\ [r EXCEPT !.c = c] \in Contexts
         /\ [r EXCEPT !.at = step, !.c = c] \in Contexts
         /\ User \in Contexts
BY DEF Contexts, User, CallSteps, None

LEMMA HandlerType ==
  ASSUME NEW r \in Handlers, NEW step \in HandlerSteps, NEW c \in Chars \cup {None}
  PROVE  /\ [r EXCEPT !.at = step] \in Handlers
         /\ [r EXCEPT !.at = step, !.c = c] \in Handlers
         /\ [r EXCEPT !.at = step, !.count = r.count + 1] \in Handlers
         /\ [r EXCEPT !.at = step, !.count = r.count + 1, !.c = None] \in Handlers
         /\ After(r) \in Handlers
         /\ Off \in Handlers
<1>1. r.count + 1 \in Nat /\ None \in Chars \cup {None}
  BY DEF Handlers
<1>2. [r EXCEPT !.at = step, !.count = r.count + 1] \in Handlers
  BY <1>1 DEF Handlers
<1>3. [r EXCEPT !.at = step, !.count = r.count + 1, !.c = None] \in Handlers
  BY <1>1 DEF Handlers
<1>4. Off \in Handlers
  BY DEF Handlers, Off, None, HandlerSteps
<1>5. After(r) \in Handlers
  BY <1>4 DEF Handlers, After, HandlerSteps
<1> QED
  BY <1>2, <1>3, <1>4, <1>5 DEF Handlers

LEMMA StepTypes ==
  ASSUME ctx \in [Procs -> Contexts], handler \in Handlers
  PROVE  /\ \A p \in Procs, step \in CallSteps : Goto(p, step) => ctx' \in [Procs -> Contexts]
         /\ \A p \in Procs : Return(p) => ctx' \in [Procs -> Contexts]
         /\ \A sem : Wake(sem) => ctx' \in [Procs -> Contexts]
         /\ \A step \in HandlerSteps : HandlerGoto(step) => handler' \in Handlers
<1>0. None \in Chars \cup {None}
  OBVIOUS
<1>1. ASSUME NEW p \in Procs, NEW step \in CallSteps, Goto(p, step) PROVE ctx' \in [Procs -> Contexts]
  <2>1. [ctx[p] EXCEPT !.at = step] \in Contexts
    BY <1>0, ContextType
  <2> QED
    BY <1>1, <2>1 DEF Goto
<1>2. ASSUME NEW p \in Procs, Return(p) PROVE ctx' \in [Procs -> Contexts]
  <2>1. User \in Contexts
    BY <1>0 DEF User, Contexts, CallSteps
  <2> QED
    BY <1>2, <2>1 DEF Return
<1>3. ASSUME NEW sem, Wake(sem) PROVE ctx' \in [Procs -> Contexts]
  <2>1. \A p \in Procs : [ctx[p] EXCEPT !.at = "ready"] \in Contexts
    BY <1>0, ContextType DEF CallSteps
  <2> QED
    BY <1>3, <2>1 DEF Wake
<1>4. ASSUME NEW step \in HandlerSteps, HandlerGoto(step) PROVE handler' \in Handlers
  BY <1>0, <1>4, HandlerType DEF HandlerGoto
<1> QED
  BY <1>1, <1>2, <1>3, <1>4

(* wait and signaln keep a semaphore typed.                               *)
LEMMA SemaphoreType ==
  ASSUME NEW procs, NEW sem \in Semaphores(procs)
  PROVE  /\ CountDown(sem) \in Semaphores(procs) /\ CountUp(sem) \in Semaphores(procs)
         /\ Released(sem) \in Semaphores(procs)
         /\ \A p \in procs : [sem EXCEPT !.queue = Append(@, p)] \in Semaphores(procs)
<1>0. sem.count \in Int /\ sem.queue \in Seq(procs)
  BY DEF Semaphores
<1>1. CountDown(sem) \in Semaphores(procs) /\ CountUp(sem) \in Semaphores(procs)
  BY DEF CountDown, CountUp, Semaphores
<1>2. Released(sem) \in Semaphores(procs)
  <2>1. sem.queue # <<>> => Tail(sem.queue) \in Seq(procs)
    BY <1>0
  <2> QED
    BY <1>0, <2>1 DEF Released, Semaphores
<1>3. ASSUME NEW p \in procs PROVE [sem EXCEPT !.queue = Append(@, p)] \in Semaphores(procs)
  <2>1. Append(sem.queue, p) \in Seq(procs)
    BY <1>0
  <2> QED
    BY <2>1 DEF Semaphores
<1> QED
  BY <1>1, <1>2, <1>3

(* Where the steps of signaln, and the last test of the handler, take it.  *)
LEMMA SignalMoves ==
  ASSUME handler \in Handlers
  PROVE  /\ Signal /\ handler.count > 0 =>
              /\ handler' \in Handlers /\ handler'.count = handler.count - 1
              /\ handler'.at = IF osema.count < 0 THEN "wake" ELSE IF handler.count > 1 THEN "signal"
                              ELSE IF handler.rx THEN "receive" ELSE "off"
         /\ SignalWake =>
              /\ handler' \in Handlers /\ handler'.count = handler.count
              /\ handler'.at = IF handler.count > 0 THEN "signal" ELSE IF handler.rx THEN "receive" ELSE "off"
         /\ ReceiveMore =>
              /\ handler' \in Handlers /\ handler'.count = handler.count
              /\ handler'.at = IF received # None THEN "receive" ELSE IF handler.count > 0 THEN "rxsignal" ELSE "off"
         /\ ReceiveSignal /\ handler.count > 0 =>
              /\ handler' \in Handlers /\ handler'.count = handler.count - 1
              /\ handler'.at = IF isema.count < 0 THEN "rxwake" ELSE IF handler.count > 1 THEN "rxsignal" ELSE "off"
         /\ ReceiveWake =>
              /\ handler' \in Handlers /\ handler'.count = handler.count
              /\ handler'.at = IF handler.count > 0 THEN "rxsignal" ELSE "off"
<1>1. ASSUME NEW h \in Handlers
      PROVE  /\ [h EXCEPT !.at = "wake"] \in Handlers /\ [h EXCEPT !.at = "wake"].count = h.count
             /\ [h EXCEPT !.at = "wake"].at = "wake"
             /\ [h EXCEPT !.at = "rxwake"] \in Handlers /\ [h EXCEPT !.at = "rxwake"].count = h.count
             /\ [h EXCEPT !.at = "rxwake"].at = "rxwake"
             /\ [h EXCEPT !.at = "receive"] \in Handlers /\ [h EXCEPT !.at = "receive"].count = h.count
             /\ [h EXCEPT !.at = "receive"].at = "receive"
             /\ Signalling(h) \in Handlers /\ Signalling(h).count = h.count
             /\ Signalling(h).at = IF h.count > 0 THEN "signal" ELSE IF h.rx THEN "receive" ELSE "off"
             /\ ReceiveSignalling(h) \in Handlers /\ ReceiveSignalling(h).count = h.count
             /\ ReceiveSignalling(h).at = IF h.count > 0 THEN "rxsignal" ELSE "off"
  <2>0. h.count \in Nat /\ h.rx \in BOOLEAN
    BY DEF Handlers
  <2>1. \A step \in {"wake", "rxwake", "receive", "signal", "rxsignal"} :
          /\ [h EXCEPT !.at = step] \in Handlers /\ [h EXCEPT !.at = step].count = h.count
          /\ [h EXCEPT !.at = step].at = step
    BY DEF Handlers, HandlerSteps
  <2>2. Off \in Handlers /\ Off.at = "off" /\ Off.count = 0
    BY DEF Handlers, HandlerSteps, Off, None
  <2>3. /\ [h EXCEPT !.at = "receive", !.count = 0] \in Handlers
        /\ [h EXCEPT !.at = "receive", !.count = 0].at = "receive"
        /\ [h EXCEPT !.at = "receive", !.count = 0].count = 0
    BY DEF Handlers, HandlerSteps
  <2>4. /\ After(h) \in Handlers /\ After(h).count = 0
        /\ After(h).at = IF h.rx THEN "receive" ELSE "off"
    BY <2>2, <2>3 DEF After
  <2> QED
    BY <2>0, <2>1, <2>2, <2>4 DEF Signalling, ReceiveSignalling
<1>2. ASSUME handler.count > 0
      PROVE  /\ Signal => /\ handler' \in Handlers /\ handler'.count = handler.count - 1
                         /\ handler'.at = IF osema.count < 0 THEN "wake" ELSE IF handler.count > 1 THEN "signal"
                                         ELSE IF handler.rx THEN "receive" ELSE "off"
             /\ ReceiveSignal => /\ handler' \in Handlers /\ handler'.count = handler.count - 1
                                /\ handler'.at = IF isema.count < 0 THEN "rxwake"
                                                ELSE IF handler.count > 1 THEN "rxsignal" ELSE "off"
  <2> DEFINE h == [handler EXCEPT !.count = @ - 1]
  <2>1. h \in Handlers /\ h.count = handler.count - 1 /\ h.rx = handler.rx
    BY <1>2 DEF Handlers
  <2>2. handler.count \in Nat
    BY DEF Handlers
  <2>3. /\ Signal => handler' = IF osema.count < 0 THEN [h EXCEPT !.at = "wake"] ELSE Signalling(h)
        /\ ReceiveSignal => handler' = IF isema.count < 0 THEN [h EXCEPT !.at = "rxwake"] ELSE ReceiveSignalling(h)
    BY DEF Signal, ReceiveSignal, Wakes
  <2> HIDE DEF h
  <2>4. h.count > 0 <=> handler.count > 1
    BY <2>1, <2>2
  <2>5. /\ [h EXCEPT !.at = "wake"] \in Handlers /\ [h EXCEPT !.at = "wake"].count = h.count
        /\ [h EXCEPT !.at = "wake"].at = "wake"
        /\ [h EXCEPT !.at = "rxwake"] \in Handlers /\ [h EXCEPT !.at = "rxwake"].count = h.count
        /\ [h EXCEPT !.at = "rxwake"].at = "rxwake"
        /\ Signalling(h) \in Handlers /\ Signalling(h).count = h.count
        /\ Signalling(h).at = IF h.count > 0 THEN "signal" ELSE IF h.rx THEN "receive" ELSE "off"
        /\ ReceiveSignalling(h) \in Handlers /\ ReceiveSignalling(h).count = h.count
        /\ ReceiveSignalling(h).at = IF h.count > 0 THEN "rxsignal" ELSE "off"
    BY <1>1, <2>1
  <2> QED
    BY <2>1, <2>3, <2>4, <2>5
<1>3. /\ SignalWake => handler' = Signalling(handler)
      /\ ReceiveMore => handler' = IF received # None THEN [handler EXCEPT !.at = "receive"]
                                   ELSE ReceiveSignalling(handler)
      /\ ReceiveWake => handler' = ReceiveSignalling(handler)
  BY DEF SignalWake, ReceiveMore, ReceiveWake
<1>4. /\ [handler EXCEPT !.at = "receive"] \in Handlers /\ [handler EXCEPT !.at = "receive"].count = handler.count
      /\ [handler EXCEPT !.at = "receive"].at = "receive"
      /\ Signalling(handler) \in Handlers /\ Signalling(handler).count = handler.count
      /\ Signalling(handler).at = IF handler.count > 0 THEN "signal" ELSE IF handler.rx THEN "receive" ELSE "off"
      /\ ReceiveSignalling(handler) \in Handlers /\ ReceiveSignalling(handler).count = handler.count
      /\ ReceiveSignalling(handler).at = IF handler.count > 0 THEN "rxsignal" ELSE "off"
  BY <1>1
<1> QED
  BY <1>2, <1>3, <1>4

(* An index of a ring.                                                    *)
LEMMA ModRange == ASSUME NEW m \in Nat, m > 0, NEW n \in Int PROVE n % m \in 0 .. m - 1
OBVIOUS

(* Every step keeps the types, where a call that stores or counts has     *)
(* room or a byte.                                                        *)
LEMMA TypeStep ==
  ASSUME TypeOK, Frames, Fresh, [Next]_vars,
         \A p \in Writers : ctx[p].at = "store" => ocount < UART_OBLEN,
         \A p \in Readers : ctx[p].at = "count" => icount > 0
  PROVE  TypeOK'
<1>0. ctx \in [Procs -> Contexts] /\ handler \in Handlers /\ None \in Chars \cup {None}
  BY DEF TypeOK, Contexts, Handlers
<1>1. ASSUME NEW p \in Procs, Putc(p) PROVE TypeOK'
  <2>1. ctx' \in [Procs -> Contexts]
    <3>1. put + 1 \in Chars
      BY <1>1, ConsoleAssumption DEF Fresh, Putc, Chars
    <3>2. [User EXCEPT !.at = IF oidle THEN "idle" ELSE "wait", !.c = put + 1] \in Contexts
      BY <1>0, <3>1, ContextType DEF CallSteps
    <3> QED
      BY <1>0, <1>1, <3>2 DEF Putc
  <2> QED
    BY <1>1, <2>1 DEF Putc, Contexts, TypeOK, output, input, uart, history
<1>2. ASSUME NEW p \in Procs, PutNotIdle(p) PROVE TypeOK'
  <2>1. ctx' \in [Procs -> Contexts]
    BY <1>0, <1>2, StepTypes DEF PutNotIdle, CallSteps
  <2> QED
    BY <1>2, <2>1 DEF PutNotIdle, Contexts, TypeOK, output, input, uart, history
<1>3. ASSUME NEW p \in Procs, PutWrite(p) PROVE TypeOK'
  <2>1. ctx' \in [Procs -> Contexts]
    BY <1>0, <1>3, StepTypes DEF PutWrite
  <2>2. ctx[p].c \in Chars \cup {None}
    BY <1>0 DEF Contexts
  <2> QED
    BY <1>3, <2>1, <2>2 DEF PutWrite, Write, Contexts, TypeOK, output, input, uart, history
<1>4. ASSUME NEW p \in Procs, PutWait(p) PROVE TypeOK'
  <2>1. ctx' \in [Procs -> Contexts]
    BY <1>0, <1>4, StepTypes DEF PutWait, CallSteps
  <2>2. osema' \in Semaphores(Writers)
    BY <1>4, SemaphoreType DEF PutWait, TypeOK, Semaphores
  <2> QED
    BY <1>4, <2>1, <2>2 DEF Semaphores, PutWait, Contexts, TypeOK, output, input, uart, history
<1>5. ASSUME NEW p \in Procs, PutLock(p) PROVE TypeOK'
  <2>1. ctx' \in [Procs -> Contexts]
    BY <1>0, <1>5, StepTypes DEF PutLock, CallSteps
  <2>2. p \in Writers
    BY <1>5 DEF PutLock, At, Frames, ReaderSteps, Procs
  <2> QED
    BY <1>5, <2>1, <2>2 DEF PutLock, Contexts, TypeOK, output, input, uart, history
<1>6. ASSUME NEW p \in Procs, PutStore(p) PROVE TypeOK'
  <2>1. ctx' \in [Procs -> Contexts]
    <3>1. [ctx[p] EXCEPT !.at = "unlock", !.c = None] \in Contexts
      BY <1>0, ContextType DEF CallSteps
    <3> QED
      BY <1>0, <1>6, <3>1 DEF PutStore
  <2>2. p \in Writers
    BY <1>6 DEF PutStore, At, Frames, ReaderSteps, Procs
  <2>3. ocount' \in 0 .. UART_OBLEN
    <3>1. ocount \in 0 .. UART_OBLEN /\ ocount < UART_OBLEN /\ ocount' = ocount + 1
      BY <1>6, <2>2 DEF PutStore, At, TypeOK
    <3> QED
      BY <3>1, ConsoleAssumption
  <2>4. ctx[p].c \in Chars \cup {None}
    BY <1>0 DEF Contexts
  <2>5. out' \in [0 .. UART_OBLEN - 1 -> Chars \cup {None}]
    BY <1>6, <2>4 DEF PutStore, TypeOK
  <2> QED
    BY <1>6, <2>1, <2>3, <2>5 DEF PutStore, Contexts, TypeOK, output, input, uart, history
<1>7. ASSUME NEW p \in Procs, PutUnlock(p) PROVE TypeOK'
  <2>1. ctx' \in [Procs -> Contexts]
    BY <1>0, <1>7, StepTypes DEF PutUnlock, CallSteps
  <2> QED
    BY <1>7, <2>1 DEF PutUnlock, Contexts, TypeOK, output, input, uart, history
<1>8. ASSUME NEW p \in Procs, Getc(p) PROVE TypeOK'
  <2>1. ctx' \in [Procs -> Contexts]
    BY <1>0, <1>8, StepTypes DEF Getc, CallSteps
  <2>2. isema' \in Semaphores(Readers)
    BY <1>8, SemaphoreType DEF Getc, TypeOK, Semaphores
  <2> QED
    BY <1>8, <2>1, <2>2 DEF Semaphores, Getc, Contexts, TypeOK, output, input, uart, history
<1>9. ASSUME NEW p \in Procs, GetRead(p) PROVE TypeOK'
  <2>1. ctx' \in [Procs -> Contexts]
    <3>1. [at |-> "count", c |-> in[istart], n |-> icount] \in Contexts
      BY DEF TypeOK, Contexts, CallSteps
    <3> QED
      BY <1>0, <1>9, <3>1 DEF GetRead
  <2> QED
    BY <1>9, <2>1 DEF GetRead, Contexts, TypeOK, output, input, uart, history
<1>10. ASSUME NEW p \in Procs, GetCount(p) PROVE TypeOK'
  <2>1. ctx' \in [Procs -> Contexts]
    BY <1>0, <1>10, StepTypes DEF GetCount
  <2>2. p \in Readers
    BY <1>10 DEF GetCount, At, Frames, WriterSteps, Procs
  <2>3. icount' \in 0 .. UART_IBLEN
    BY <1>10, <2>2, ConsoleAssumption DEF GetCount, At, TypeOK, Frames
  <2>4. istart' \in 0 .. UART_IBLEN - 1
    BY <1>10, ModRange, ConsoleAssumption DEF GetCount, TypeOK
  <2> QED
    BY <1>10, <2>1, <2>3, <2>4 DEF GetCount, Contexts, TypeOK, output, input, uart, history
<1>11. ASSUME NEW p \in Procs, Resume(p) PROVE TypeOK'
  <2>1. ctx' \in [Procs -> Contexts]
    BY <1>0, <1>11, StepTypes DEF Resume, CallSteps
  <2> QED
    BY <1>11, <2>1 DEF Resume, Contexts, TypeOK, output, input, uart, history
<1>12. CASE Interrupt
  <2>1. handler' \in Handlers
    BY <1>0, <1>12, ConsoleAssumption DEF Interrupt, Off, Handlers, HandlerSteps, TypeOK
  <2> QED
    BY <1>12, <2>1 DEF Interrupt, Handlers, TypeOK, output, input, uart, history
<1>13. CASE Test
  <2>1. handler' \in Handlers
    BY <1>0, <1>13, StepTypes DEF Test, HandlerSteps
  <2> QED
    BY <1>13, <2>1 DEF Test, Handlers, TypeOK, output, input, uart, history
<1>14. CASE Idle
  <2>1. handler' \in Handlers
    BY <1>0, <1>14, HandlerType DEF Idle, HandlerSteps
  <2> QED
    BY <1>14, <2>1 DEF Idle, Handlers, TypeOK, output, input, uart, history
<1>15. CASE Send
  <2>1. handler' \in Handlers
    BY <1>0, <1>15, StepTypes DEF Send, HandlerSteps
  <2> QED
    BY <1>15, <2>1 DEF Send, Write, Handlers, TypeOK, output, input, uart, history
<1>16. CASE Lock
  <2>1. handler' \in Handlers
    BY <1>0, <1>16, StepTypes DEF Lock, HandlerSteps
  <2> QED
    BY <1>16, <2>1 DEF Lock, Handlers, TypeOK, output, input, uart, history
<1>17. CASE Advance
  <2>1. handler' \in Handlers
    BY <1>0, <1>17, HandlerType DEF Advance, HandlerSteps
  <2>2. ocount' \in 0 .. UART_OBLEN
    <3>1. ocount \in 0 .. UART_OBLEN /\ ocount > 0 /\ ocount' = ocount - 1
      BY <1>17 DEF Advance, HandlerAt, TypeOK, Frames
    <3> QED
      BY <3>1, ConsoleAssumption
  <2>3. ostart' \in 0 .. UART_OBLEN - 1
    BY <1>17, ModRange, ConsoleAssumption DEF Advance, TypeOK
  <2> QED
    BY <1>17, <2>1, <2>2, <2>3 DEF Advance, Handlers, TypeOK, output, input, uart, history
<1>18. CASE Unlock
  <2>1. handler' \in Handlers
    BY <1>0, <1>18, StepTypes DEF Unlock, HandlerSteps
  <2> QED
    BY <1>18, <2>1 DEF Unlock, Handlers, TypeOK, output, input, uart, history
<1>19. CASE More
  <2>1. handler' \in Handlers
    BY <1>0, <1>19, StepTypes DEF More, HandlerSteps
  <2> QED
    BY <1>19, <2>1 DEF More, Handlers, TypeOK, output, input, uart, history
<1>20. CASE Signal
  <2>1. handler' \in Handlers
    BY <1>0, <1>20, SignalMoves DEF Signal, HandlerAt, Frames
  <2>2. osema' \in Semaphores(Writers)
    BY <1>20, SemaphoreType DEF Signal, TypeOK, Semaphores
  <2> QED
    BY <1>20, <2>1, <2>2 DEF Semaphores, Signal, Handlers, TypeOK, output, input, uart, history
<1>21. CASE Receive
  <2>1. handler' \in Handlers
    <3>1. received \in Chars \cup {None}
      BY DEF TypeOK
    <3> QED
      BY <1>0, <1>21, <3>1, HandlerType DEF Receive, HandlerSteps
  <2> QED
    BY <1>21, <2>1 DEF Receive, Handlers, TypeOK, output, input, uart, history
<1>22. CASE ReceiveStore
  <2>1. handler' \in Handlers
    BY <1>0, <1>22, HandlerType DEF ReceiveStore, HandlerSteps
  <2>2. icount' \in 0 .. UART_IBLEN
    <3>1. icount \in 0 .. UART_IBLEN /\ icount < UART_IBLEN /\ icount' = icount + 1
      BY <1>22 DEF ReceiveStore, HandlerAt, TypeOK, Frames
    <3> QED
      BY <3>1, ConsoleAssumption
  <2>3. handler.c \in Chars \cup {None}
    BY <1>0 DEF Handlers
  <2>4. in' \in [0 .. UART_IBLEN - 1 -> Chars \cup {None}]
    BY <1>22, <2>3 DEF ReceiveStore, TypeOK
  <2> QED
    BY <1>22, <2>1, <2>2, <2>4 DEF ReceiveStore, Handlers, TypeOK, output, input, uart, history
<1>23. CASE ReceiveMore
  <2>1. handler' \in Handlers
    BY <1>0, <1>23, SignalMoves
  <2> QED
    BY <1>23, <2>1 DEF ReceiveMore, Handlers, TypeOK, output, input, uart, history
<1>24. CASE ReceiveSignal
  <2>1. handler' \in Handlers
    BY <1>0, <1>24, SignalMoves DEF ReceiveSignal, HandlerAt, Frames
  <2>2. isema' \in Semaphores(Readers)
    BY <1>24, SemaphoreType DEF ReceiveSignal, TypeOK, Semaphores
  <2> QED
    BY <1>24, <2>1, <2>2 DEF Semaphores, ReceiveSignal, Handlers, TypeOK, output, input, uart, history
<1>25. CASE Transmit
  BY <1>25 DEF Transmit, TypeOK, output, input, history
<1>26. CASE Arrive
  <2>1. received' \in Chars
    BY <1>26, ConsoleAssumption DEF Arrive, Fresh, Chars
  <2> QED
    BY <1>26, <2>1 DEF Arrive, TypeOK, output, input
<1>27. ASSUME NEW p \in Procs, Sleep(p) PROVE TypeOK'
  <2>1. ctx' \in [Procs -> Contexts]
    BY <1>0, <1>27, StepTypes DEF Sleep, CallSteps
  <2>2. osema' \in Semaphores(Writers) /\ isema' \in Semaphores(Readers)
    <3>1. osema \in Semaphores(Writers) /\ isema \in Semaphores(Readers)
      BY DEF TypeOK, Semaphores
    <3> QED
      BY <1>27, <3>1, SemaphoreType DEF Sleep, Procs
  <2> QED
    BY <1>27, <2>1, <2>2 DEF Semaphores, Sleep, Contexts, TypeOK, uart, history
<1>28. CASE SignalWake
  <2>1. ctx' \in [Procs -> Contexts] /\ handler' \in Handlers
    BY <1>0, <1>28, StepTypes, SignalMoves DEF SignalWake
  <2>2. osema' \in Semaphores(Writers)
    BY <1>28, SemaphoreType DEF SignalWake, TypeOK, Semaphores
  <2> QED
    BY <1>28, <2>1, <2>2 DEF Semaphores, SignalWake, Contexts, Handlers, TypeOK, input, uart, history
<1>29. CASE ReceiveWake
  <2>1. ctx' \in [Procs -> Contexts] /\ handler' \in Handlers
    BY <1>0, <1>29, StepTypes, SignalMoves DEF ReceiveWake
  <2>2. isema' \in Semaphores(Readers)
    BY <1>29, SemaphoreType DEF ReceiveWake, TypeOK, Semaphores
  <2> QED
    BY <1>29, <2>1, <2>2 DEF Semaphores, ReceiveWake, Contexts, Handlers, TypeOK, output, uart, history
<1>30. CASE UNCHANGED vars
  BY <1>30 DEF vars, TypeOK, output, input, uart, history
<1> QED
  BY <1>1, <1>2, <1>3, <1>4, <1>5, <1>6, <1>7, <1>8, <1>9, <1>10, <1>11, <1>12, <1>13, <1>14, <1>15,
     <1>16, <1>17, <1>18, <1>19, <1>20, <1>21, <1>22, <1>23, <1>24, <1>25, <1>26, <1>27, <1>28, <1>29, <1>30
     DEF Next, Calling, Handling

-----------------------------------------------------------------------------
(* Who runs *)

(* How a step moves the calls and the handler.                            *)
LEMMA Moves ==
  ASSUME ctx \in [Procs -> Contexts]
  PROVE  /\ \A p \in Procs, step \in CallSteps : Goto(p, step) =>
              \A q \in Procs : /\ ctx'[q].at = IF q = p THEN step ELSE ctx[q].at
                               /\ ctx'[q].c = ctx[q].c /\ ctx'[q].n = ctx[q].n
         /\ \A p \in Procs : Return(p) =>
              \A q \in Procs : /\ ctx'[q].at = IF q = p THEN "user" ELSE ctx[q].at
                               /\ ctx'[q].c = IF q = p THEN None ELSE ctx[q].c
                               /\ ctx'[q].n = IF q = p THEN 0 ELSE ctx[q].n
         /\ \A sem : Wake(sem) =>
              \A q \in Procs : /\ ctx'[q].at = IF sem.queue # <<>> /\ q = Head(sem.queue) THEN "ready"
                                               ELSE ctx[q].at
                               /\ ctx'[q].c = ctx[q].c /\ ctx'[q].n = ctx[q].n
BY DEF Goto, Return, Wake, User, Contexts, CallSteps

LEMMA HandlerMoves ==
  ASSUME handler \in Handlers
  PROVE  /\ \A step \in HandlerSteps : HandlerGoto(step) =>
              handler'.at = step /\ handler'.count = handler.count /\ handler'.rx = handler.rx
         /\ After(handler).at = IF handler.rx THEN "receive" ELSE "off"
         /\ After(handler).count = 0
BY DEF HandlerGoto, After, Off, Handlers

(* Calls and the handler stay out of each other.                          *)
LEMMA OneStep ==
  ASSUME TypeOK, OneAtATime, [Next]_vars
  PROVE  OneAtATime'
<1>0. ctx \in [Procs -> Contexts] /\ handler \in Handlers
  BY DEF TypeOK, Contexts, Handlers
<1>1. ASSUME NEW p \in Procs, Putc(p) PROVE OneAtATime'
  BY <1>1, <1>0 DEF Putc, At, OneAtATime, Active, Busy
<1>2. ASSUME NEW p \in Procs, PutNotIdle(p) PROVE OneAtATime'
  BY <1>2, <1>0, Moves DEF PutNotIdle, At, CallSteps, OneAtATime, Active
<1>3. ASSUME NEW p \in Procs, PutWrite(p) PROVE OneAtATime'
  BY <1>3, <1>0, Moves DEF PutWrite, At, OneAtATime, Active
<1>4. ASSUME NEW p \in Procs, PutWait(p) PROVE OneAtATime'
  BY <1>4, <1>0, Moves DEF PutWait, At, CallSteps, OneAtATime, Active
<1>5. ASSUME NEW p \in Procs, PutLock(p) PROVE OneAtATime'
  BY <1>5, <1>0, Moves DEF PutLock, At, CallSteps, OneAtATime, Active
<1>6. ASSUME NEW p \in Procs, PutStore(p) PROVE OneAtATime'
  BY <1>6, <1>0 DEF PutStore, At, OneAtATime, Active
<1>7. ASSUME NEW p \in Procs, PutUnlock(p) PROVE OneAtATime'
  BY <1>7, <1>0, Moves DEF PutUnlock, At, OneAtATime, Active
<1>8. ASSUME NEW p \in Procs, Getc(p) PROVE OneAtATime'
  BY <1>8, <1>0, Moves DEF Getc, At, CallSteps, OneAtATime, Active, Busy
<1>9. ASSUME NEW p \in Procs, GetRead(p) PROVE OneAtATime'
  BY <1>9, <1>0 DEF GetRead, At, OneAtATime, Active
<1>10. ASSUME NEW p \in Procs, GetCount(p) PROVE OneAtATime'
  BY <1>10, <1>0, Moves DEF GetCount, At, OneAtATime, Active
<1>11. ASSUME NEW p \in Procs, Resume(p) PROVE OneAtATime'
  BY <1>11, <1>0, Moves DEF Resume, At, CallSteps, OneAtATime, Active, Busy
<1>12. CASE Interrupt
  BY <1>12, <1>0 DEF Interrupt, HandlerAt, OneAtATime, Active, Busy
<1>13. CASE Test
  BY <1>13, <1>0, HandlerMoves DEF Test, HandlerAt, HandlerSteps, OneAtATime, Active
<1>14. CASE Idle
  BY <1>14, <1>0, HandlerMoves DEF Idle, HandlerAt, HandlerSteps, OneAtATime, Active
<1>15. CASE Send
  BY <1>15, <1>0, HandlerMoves DEF Send, HandlerAt, HandlerSteps, OneAtATime, Active
<1>16. CASE Lock
  BY <1>16, <1>0, HandlerMoves DEF Lock, HandlerAt, HandlerSteps, OneAtATime, Active
<1>17. CASE Advance
  BY <1>17, <1>0 DEF Advance, HandlerAt, OneAtATime, Active
<1>18. CASE Unlock
  BY <1>18, <1>0, HandlerMoves DEF Unlock, HandlerAt, HandlerSteps, OneAtATime, Active
<1>19. CASE More
  BY <1>19, <1>0, HandlerMoves DEF More, HandlerAt, HandlerSteps, OneAtATime, Active
<1>20. CASE Signal
  BY <1>20, <1>0 DEF Signal, HandlerAt, OneAtATime, Active
<1>21. CASE Receive
  BY <1>21, <1>0 DEF Receive, HandlerAt, OneAtATime, Active
<1>22. CASE ReceiveStore
  BY <1>22, <1>0 DEF ReceiveStore, HandlerAt, OneAtATime, Active
<1>23. CASE ReceiveMore
  BY <1>23, <1>0 DEF ReceiveMore, HandlerAt, OneAtATime, Active
<1>24. CASE ReceiveSignal
  BY <1>24, <1>0 DEF ReceiveSignal, HandlerAt, OneAtATime, Active
<1>25. CASE Transmit
  BY <1>25, <1>0 DEF Transmit, OneAtATime, Active
<1>26. CASE Arrive
  BY <1>26, <1>0 DEF Arrive, OneAtATime, Active
<1>27. ASSUME NEW p \in Procs, Sleep(p) PROVE OneAtATime'
  BY <1>27, <1>0, Moves DEF Sleep, At, CallSteps, OneAtATime, Active
<1>28. CASE SignalWake
  BY <1>28, <1>0, Moves DEF SignalWake, HandlerAt, OneAtATime, Active
<1>29. CASE ReceiveWake
  BY <1>29, <1>0, Moves DEF ReceiveWake, HandlerAt, OneAtATime, Active
<1>30. CASE UNCHANGED vars
  BY <1>30 DEF vars, OneAtATime, Active
<1> QED
  BY <1>1, <1>2, <1>3, <1>4, <1>5, <1>6, <1>7, <1>8, <1>9, <1>10, <1>11, <1>12, <1>13, <1>14, <1>15,
     <1>16, <1>17, <1>18, <1>19, <1>20, <1>21, <1>22, <1>23, <1>24, <1>25, <1>26, <1>27, <1>28, <1>29, <1>30
     DEF Next, Calling, Handling

(* A reader that has read keeps what it read: the handler keeps out of    *)
(* its core.                                                              *)
LEMMA FramesStep ==
  ASSUME SharedCores, TypeOK, OneAtATime, Frames, [Next]_vars
  PROVE  Frames'
<1>0. ctx \in [Procs -> Contexts] /\ handler \in Handlers
  BY DEF TypeOK, Contexts, Handlers
<1>a. Writers \cap Readers = {} /\ Procs = Writers \cup Readers
  BY ConsoleAssumption DEF Procs
<1>b. \A p, q \in Readers : ctx[p].at = "count" => /\ handler.at = "off"
                                                   /\ Active(q) => p = q
  BY DEF OneAtATime, Procs, Active, SharedCores
<1>c. \A p \in Procs : Active(p) /\ p \in Readers => handler.at = "off"
  BY DEF OneAtATime, Procs, Active, SharedCores
<1>d. \A p \in Writers : ctx[p].c \in Chars \cup {None}
  BY <1>0 DEF Contexts, Procs
<1>e. ocount \in Int /\ icount \in Int /\ handler.count \in Nat
  BY DEF TypeOK
<1>1. ASSUME NEW p \in Procs, Putc(p) PROVE Frames'
  BY <1>1, <1>0, <1>a, <1>b, <1>c, <1>d, <1>e
     DEF Putc, At, Frames, Active, WriterSteps, ReaderSteps, output, input
<1>2. ASSUME NEW p \in Procs, PutNotIdle(p) PROVE Frames'
  BY <1>2, <1>0, <1>a, <1>b, <1>c, <1>d, <1>e, Moves
     DEF PutNotIdle, At, CallSteps, Frames, Active, WriterSteps, ReaderSteps, input
<1>3. ASSUME NEW p \in Procs, PutWrite(p) PROVE Frames'
  BY <1>3, <1>0, <1>a, <1>b, <1>c, <1>d, <1>e, Moves
     DEF PutWrite, At, Frames, Active, WriterSteps, ReaderSteps, output, input
<1>4. ASSUME NEW p \in Procs, PutWait(p) PROVE Frames'
  BY <1>4, <1>0, <1>a, <1>b, <1>c, <1>d, <1>e, Moves
     DEF PutWait, At, CallSteps, Frames, Active, WriterSteps, ReaderSteps, input
<1>5. ASSUME NEW p \in Procs, PutLock(p) PROVE Frames'
  BY <1>5, <1>0, <1>a, <1>b, <1>c, <1>d, <1>e, Moves
     DEF PutLock, At, CallSteps, Frames, Active, WriterSteps, ReaderSteps, output, input
<1>6. ASSUME NEW p \in Procs, PutStore(p) PROVE Frames'
  BY <1>6, <1>0, <1>a, <1>b, <1>c, <1>d, <1>e
     DEF PutStore, At, Frames, Active, WriterSteps, ReaderSteps, input
<1>7. ASSUME NEW p \in Procs, PutUnlock(p) PROVE Frames'
  BY <1>7, <1>0, <1>a, <1>b, <1>c, <1>d, <1>e, Moves
     DEF PutUnlock, At, Frames, Active, WriterSteps, ReaderSteps, output, input
<1>8. ASSUME NEW p \in Procs, Getc(p) PROVE Frames'
  BY <1>8, <1>0, <1>a, <1>b, <1>c, <1>d, <1>e, Moves
     DEF Getc, At, CallSteps, Frames, Active, WriterSteps, ReaderSteps, output
<1>9. ASSUME NEW p \in Procs, GetRead(p) PROVE Frames'
  BY <1>9, <1>0, <1>a, <1>b, <1>c, <1>d, <1>e
     DEF GetRead, At, Frames, Active, WriterSteps, ReaderSteps, output, input
<1>10. ASSUME NEW p \in Procs, GetCount(p) PROVE Frames'
  BY <1>10, <1>0, <1>a, <1>b, <1>c, <1>d, <1>e, Moves
     DEF GetCount, At, Frames, Active, WriterSteps, ReaderSteps, output
<1>11. ASSUME NEW p \in Procs, Resume(p) PROVE Frames'
  BY <1>11, <1>0, <1>a, <1>b, <1>c, <1>d, <1>e, Moves
     DEF Resume, At, CallSteps, Frames, Active, WriterSteps, ReaderSteps, output, input
<1>12. CASE Interrupt
  BY <1>12, <1>0, <1>a, <1>b, <1>c, <1>d, <1>e
     DEF Interrupt, Off, HandlerAt, Frames, Active, WriterSteps, ReaderSteps, output, input
<1>13. CASE Test
  BY <1>13, <1>0, <1>a, <1>b, <1>c, <1>d, <1>e, HandlerMoves
     DEF Test, HandlerAt, HandlerSteps, Frames, Active, WriterSteps, ReaderSteps, output, input
<1>14. CASE Idle
  BY <1>14, <1>0, <1>a, <1>b, <1>c, <1>d, <1>e, HandlerMoves
     DEF Idle, HandlerAt, HandlerSteps, Frames, Active, WriterSteps, ReaderSteps, input
<1>15. CASE Send
  BY <1>15, <1>0, <1>a, <1>b, <1>c, <1>d, <1>e, HandlerMoves
     DEF Send, HandlerAt, HandlerSteps, Frames, Active, WriterSteps, ReaderSteps, output, input
<1>16. CASE Lock
  BY <1>16, <1>0, <1>a, <1>b, <1>c, <1>d, <1>e, HandlerMoves
     DEF Lock, HandlerAt, HandlerSteps, Frames, Active, WriterSteps, ReaderSteps, output, input
<1>17. CASE Advance
  BY <1>17, <1>0, <1>a, <1>b, <1>c, <1>d, <1>e
     DEF Advance, HandlerAt, Frames, Active, WriterSteps, ReaderSteps, input
<1>18. CASE Unlock
  BY <1>18, <1>0, <1>a, <1>b, <1>c, <1>d, <1>e, HandlerMoves
     DEF Unlock, HandlerAt, HandlerSteps, Frames, Active, WriterSteps, ReaderSteps, output, input
<1>19. CASE More
  BY <1>19, <1>0, <1>a, <1>b, <1>c, <1>d, <1>e, HandlerMoves
     DEF More, HandlerAt, HandlerSteps, Frames, Active, WriterSteps, ReaderSteps, output, input
<1>20. CASE Signal
  BY <1>20, <1>0, <1>a, <1>b, <1>c, <1>d, <1>e, SignalMoves
     DEF Signal, HandlerAt, Frames, Active, WriterSteps, ReaderSteps, input
<1>21. CASE Receive
  BY <1>21, <1>0, <1>a, <1>b, <1>c, <1>d, <1>e
     DEF Receive, HandlerAt, Frames, Active, WriterSteps, ReaderSteps, output, input
<1>22. CASE ReceiveStore
  BY <1>22, <1>0, <1>a, <1>b, <1>c, <1>d, <1>e
     DEF ReceiveStore, HandlerAt, Frames, Active, WriterSteps, ReaderSteps, output
<1>23. CASE ReceiveMore
  BY <1>23, <1>0, <1>a, <1>b, <1>c, <1>d, <1>e, SignalMoves
     DEF ReceiveMore, HandlerAt, Frames, Active, WriterSteps, ReaderSteps, output, input
<1>24. CASE ReceiveSignal
  BY <1>24, <1>0, <1>a, <1>b, <1>c, <1>d, <1>e, SignalMoves
     DEF ReceiveSignal, HandlerAt, Frames, Active, WriterSteps, ReaderSteps, output
<1>25. CASE Transmit
  BY <1>25, <1>0, <1>a, <1>b, <1>c, <1>d, <1>e
     DEF Transmit, Frames, Active, WriterSteps, ReaderSteps, output, input
<1>26. CASE Arrive
  BY <1>26, <1>0, <1>a, <1>b, <1>c, <1>d, <1>e
     DEF Arrive, Frames, Active, WriterSteps, ReaderSteps, output, input
<1>27. ASSUME NEW p \in Procs, Sleep(p) PROVE Frames'
  BY <1>27, <1>0, <1>a, <1>b, <1>c, <1>d, <1>e, Moves
     DEF Sleep, At, CallSteps, Frames, Active, WriterSteps, ReaderSteps
<1>28. CASE SignalWake
  BY <1>28, <1>0, <1>a, <1>b, <1>c, <1>d, <1>e, Moves, SignalMoves
     DEF SignalWake, HandlerAt, Frames, Active, WriterSteps, ReaderSteps, input
<1>29. CASE ReceiveWake
  BY <1>29, <1>0, <1>a, <1>b, <1>c, <1>d, <1>e, Moves, SignalMoves
     DEF ReceiveWake, HandlerAt, Frames, Active, WriterSteps, ReaderSteps, output
<1>30. CASE UNCHANGED vars
  BY <1>30
     DEF vars, Off, At, HandlerAt, CallSteps, HandlerSteps, Frames, Active, WriterSteps,
         ReaderSteps, output, input
<1> QED
  BY <1>1, <1>2, <1>3, <1>4, <1>5, <1>6, <1>7, <1>8, <1>9, <1>10, <1>11, <1>12, <1>13, <1>14, <1>15,
     <1>16, <1>17, <1>18, <1>19, <1>20, <1>21, <1>22, <1>23, <1>24, <1>25, <1>26, <1>27, <1>28, <1>29, <1>30
     DEF Next, Calling, Handling

(* The UART is left alone between the test of oidle and the write.        *)
LEMMA TransmitterStep ==
  ASSUME SharedCores, TypeOK, OneAtATime, Frames, Transmitter, [Next]_vars
  PROVE  Transmitter'
<1>0. ctx \in [Procs -> Contexts] /\ handler \in Handlers
  BY DEF TypeOK, Contexts, Handlers
<1>a. Writers \cap Readers = {} /\ Procs = Writers \cup Readers
  BY ConsoleAssumption DEF Procs
<1>b. \A p, q \in Writers : Active(p) /\ Active(q) => p = q
  BY DEF OneAtATime, Procs, Active, SharedCores
<1>1. ASSUME NEW p \in Procs, Putc(p) PROVE Transmitter'
  BY <1>1, <1>0, <1>a, <1>b
     DEF Putc, At, Transmitter, SendSteps, WriterSteps, ReaderSteps, Frames, Active, output, uart
<1>2. ASSUME NEW p \in Procs, PutNotIdle(p) PROVE Transmitter'
  BY <1>2, <1>0, <1>a, <1>b, Moves
     DEF PutNotIdle, At, CallSteps, Transmitter, SendSteps, WriterSteps, ReaderSteps, Frames,
         Active, uart
<1>3. ASSUME NEW p \in Procs, PutWrite(p) PROVE Transmitter'
  BY <1>3, <1>0, <1>a, <1>b, Moves
     DEF PutWrite, Write, At, Transmitter, SendSteps, WriterSteps, ReaderSteps, Frames, Active,
         output
<1>4. ASSUME NEW p \in Procs, PutWait(p) PROVE Transmitter'
  BY <1>4, <1>0, <1>a, <1>b, Moves
     DEF PutWait, At, CallSteps, Transmitter, SendSteps, WriterSteps, ReaderSteps, Frames, Active,
         uart
<1>5. ASSUME NEW p \in Procs, PutLock(p) PROVE Transmitter'
  BY <1>5, <1>0, <1>a, <1>b, Moves
     DEF PutLock, At, CallSteps, Transmitter, SendSteps, WriterSteps, ReaderSteps, Frames, Active,
         output, uart
<1>6. ASSUME NEW p \in Procs, PutStore(p) PROVE Transmitter'
  BY <1>6, <1>0, <1>a, <1>b
     DEF PutStore, At, Transmitter, SendSteps, WriterSteps, ReaderSteps, Frames, Active, uart
<1>7. ASSUME NEW p \in Procs, PutUnlock(p) PROVE Transmitter'
  BY <1>7, <1>0, <1>a, <1>b, Moves
     DEF PutUnlock, At, Transmitter, SendSteps, WriterSteps, ReaderSteps, Frames, Active, output,
         uart
<1>8. ASSUME NEW p \in Procs, Getc(p) PROVE Transmitter'
  BY <1>8, <1>0, <1>a, <1>b, Moves
     DEF Getc, At, CallSteps, Transmitter, SendSteps, WriterSteps, ReaderSteps, Frames, Active,
         output, uart
<1>9. ASSUME NEW p \in Procs, GetRead(p) PROVE Transmitter'
  BY <1>9, <1>0, <1>a, <1>b
     DEF GetRead, At, Transmitter, SendSteps, WriterSteps, ReaderSteps, Frames, Active, output, uart
<1>10. ASSUME NEW p \in Procs, GetCount(p) PROVE Transmitter'
  BY <1>10, <1>0, <1>a, <1>b, Moves
     DEF GetCount, At, Transmitter, SendSteps, WriterSteps, ReaderSteps, Frames, Active, output,
         uart
<1>11. ASSUME NEW p \in Procs, Resume(p) PROVE Transmitter'
  BY <1>11, <1>0, <1>a, <1>b, Moves
     DEF Resume, At, CallSteps, Transmitter, SendSteps, WriterSteps, ReaderSteps, Frames, Active,
         output, uart
<1>12. CASE Interrupt
  BY <1>12, <1>0, <1>a, <1>b
     DEF Interrupt, Off, HandlerAt, Transmitter, SendSteps, WriterSteps, ReaderSteps, Frames,
         Active, output
<1>13. CASE Test
  BY <1>13, <1>0, <1>a, <1>b, HandlerMoves
     DEF Test, HandlerAt, HandlerSteps, Transmitter, SendSteps, WriterSteps, ReaderSteps, Frames,
         Active, output, uart
<1>14. CASE Idle
  BY <1>14, <1>0, <1>a, <1>b, HandlerMoves
     DEF Idle, HandlerAt, HandlerSteps, Transmitter, SendSteps, WriterSteps, ReaderSteps, Frames,
         Active, uart
<1>15. CASE Send
  BY <1>15, <1>0, <1>a, <1>b, HandlerMoves
     DEF Send, Write, HandlerAt, HandlerSteps, Transmitter, SendSteps, WriterSteps, ReaderSteps,
         Frames, Active, output
<1>16. CASE Lock
  BY <1>16, <1>0, <1>a, <1>b, HandlerMoves
     DEF Lock, HandlerAt, HandlerSteps, Transmitter, SendSteps, WriterSteps, ReaderSteps, Frames,
         Active, output, uart
<1>17. CASE Advance
  BY <1>17, <1>0, <1>a, <1>b
     DEF Advance, HandlerAt, Transmitter, SendSteps, WriterSteps, ReaderSteps, Frames, Active, uart
<1>18. CASE Unlock
  BY <1>18, <1>0, <1>a, <1>b, HandlerMoves
     DEF Unlock, HandlerAt, HandlerSteps, Transmitter, SendSteps, WriterSteps, ReaderSteps, Frames,
         Active, output, uart
<1>19. CASE More
  BY <1>19, <1>0, <1>a, <1>b, HandlerMoves
     DEF More, HandlerAt, HandlerSteps, Transmitter, SendSteps, WriterSteps, ReaderSteps, Frames,
         Active, output, uart
<1>20. CASE Signal
  BY <1>20, <1>0, <1>a, <1>b, SignalMoves
     DEF Signal, HandlerAt, Transmitter, SendSteps, WriterSteps, ReaderSteps, Frames,
         Active, uart
<1>21. CASE Receive
  BY <1>21, <1>0, <1>a, <1>b
     DEF Receive, HandlerAt, Transmitter, SendSteps, WriterSteps, ReaderSteps, Frames, Active,
         output
<1>22. CASE ReceiveStore
  BY <1>22, <1>0, <1>a, <1>b
     DEF ReceiveStore, HandlerAt, Transmitter, SendSteps, WriterSteps, ReaderSteps, Frames, Active,
         output, uart
<1>23. CASE ReceiveMore
  BY <1>23, <1>0, <1>a, <1>b, SignalMoves
     DEF ReceiveMore, HandlerAt, Transmitter, SendSteps, WriterSteps, ReaderSteps,
         Frames, Active, output, uart
<1>24. CASE ReceiveSignal
  BY <1>24, <1>0, <1>a, <1>b, SignalMoves
     DEF ReceiveSignal, HandlerAt, Transmitter, SendSteps, WriterSteps, ReaderSteps, Frames,
         Active, output, uart
<1>25. CASE Transmit
  BY <1>25, <1>0, <1>a, <1>b
     DEF Transmit, Transmitter, SendSteps, WriterSteps, ReaderSteps, Frames, Active, output
<1>26. CASE Arrive
  BY <1>26, <1>0, <1>a, <1>b
     DEF Arrive, Transmitter, SendSteps, WriterSteps, ReaderSteps, Frames, Active, output
<1>27. ASSUME NEW p \in Procs, Sleep(p) PROVE Transmitter'
  BY <1>27, <1>0, <1>a, <1>b, Moves
     DEF Sleep, At, CallSteps, Transmitter, SendSteps, WriterSteps, ReaderSteps, Frames, Active, uart
<1>28. CASE SignalWake
  BY <1>28, <1>0, <1>a, <1>b, Moves, SignalMoves
     DEF SignalWake, HandlerAt, Transmitter, SendSteps, WriterSteps, ReaderSteps, Frames, Active, uart
<1>29. CASE ReceiveWake
  BY <1>29, <1>0, <1>a, <1>b, Moves, SignalMoves
     DEF ReceiveWake, HandlerAt, Transmitter, SendSteps, WriterSteps, ReaderSteps, Frames, Active,
         output, uart
<1>30. CASE UNCHANGED vars
  BY <1>30
     DEF vars, Off, Write, At, HandlerAt, CallSteps, HandlerSteps, Transmitter, SendSteps,
         WriterSteps, ReaderSteps, Frames, Active, output, uart
<1> QED
  BY <1>1, <1>2, <1>3, <1>4, <1>5, <1>6, <1>7, <1>8, <1>9, <1>10, <1>11, <1>12, <1>13, <1>14, <1>15,
     <1>16, <1>17, <1>18, <1>19, <1>20, <1>21, <1>22, <1>23, <1>24, <1>25, <1>26, <1>27, <1>28, <1>29, <1>30
     DEF Next, Calling, Handling

-----------------------------------------------------------------------------
(* The semaphores and their queues *)

(* What wait, its enqueue and the wakeups of signaln leave of Sleepers.   *)
LEMMA WaitTells ==
  ASSUME NEW procs, NEW sem \in Semaphores(procs), NEW waiting, IsFiniteSet(waiting),
         NEW p, p \notin waiting, NEW waking \in {0, 1}, CountTells(sem, waiting, waking)
  PROVE  CountTells(CountDown(sem), IF Waits(sem) THEN waiting \cup {p} ELSE waiting, waking)
<1>1. Cardinality(waiting) \in Nat /\ Cardinality(waiting \cup {p}) = Cardinality(waiting) + 1
  BY FS_AddElement, FS_CardinalityType
<1>2. sem.count \in Int /\ CountDown(sem).count = sem.count - 1
  BY DEF CountDown, Semaphores
<1>3. CASE sem.count <= 0
  BY <1>1, <1>2, <1>3 DEF CountTells, Waits
<1>4. CASE sem.count > 0
  BY <1>1, <1>2, <1>4 DEF CountTells, Waits
<1> QED
  BY <1>2, <1>3, <1>4

LEMMA SleepTells ==
  ASSUME NEW procs, NEW sem \in Semaphores(procs), NEW asleep, NEW p \in procs, p \notin asleep,
         QueueTells(sem, asleep)
  PROVE  QueueTells([sem EXCEPT !.queue = Append(@, p)], asleep \cup {p})
<1> DEFINE q == Append(sem.queue, p)
<1>0. sem.queue \in Seq(procs) /\ [sem EXCEPT !.queue = Append(@, p)].queue = q
  BY DEF Semaphores
<1>1. Len(q) = Len(sem.queue) + 1 /\ DOMAIN q = 1 .. Len(sem.queue) + 1 /\ q[Len(sem.queue) + 1] = p
      /\ \A i \in 1 .. Len(sem.queue) : q[i] = sem.queue[i]
  BY <1>0, AppendProperties
<1>2. DOMAIN sem.queue = 1 .. Len(sem.queue) /\ Len(sem.queue) \in Nat
  BY <1>0
<1>3. ToSet(q) = ToSet(sem.queue) \cup {p}
  BY <1>1, <1>2 DEF ToSet
<1>4. \A i \in 1 .. Len(sem.queue) : sem.queue[i] # p
  BY <1>2 DEF QueueTells, ToSet
<1>5. \A i, j \in 1 .. Len(q) : q[i] = q[j] => i = j
  <2> SUFFICES ASSUME NEW i \in 1 .. Len(q), NEW j \in 1 .. Len(q), q[i] = q[j] PROVE i = j
    OBVIOUS
  <2>1. CASE i = Len(sem.queue) + 1
    BY <1>1, <1>2, <1>4, <2>1
  <2>2. CASE j = Len(sem.queue) + 1
    BY <1>1, <1>2, <1>4, <2>2
  <2>3. CASE i \in 1 .. Len(sem.queue) /\ j \in 1 .. Len(sem.queue)
    BY <1>1, <2>3 DEF QueueTells
  <2> QED
    BY <1>1, <1>2, <2>1, <2>2, <2>3
<1> HIDE DEF q
<1> QED
  BY <1>0, <1>3, <1>5 DEF QueueTells

Woken(sem) == IF sem.queue = <<>> THEN {} ELSE {Head(sem.queue)}

LEMMA WakeTells ==
  ASSUME NEW procs, NEW sem \in Semaphores(procs), NEW asleep, NEW waiting, IsFiniteSet(waiting),
         asleep \subseteq waiting, QueueTells(sem, asleep), CountTells(sem, waiting, 1)
  PROVE  /\ Woken(sem) \subseteq asleep
         /\ QueueTells(Released(sem), asleep \ Woken(sem))
         /\ CountTells(Released(sem), waiting \ Woken(sem), 0)
<1>0. /\ sem.queue \in Seq(procs) /\ sem.count \in Int /\ Released(sem).count = sem.count
      /\ Released(sem).queue = IF sem.queue = <<>> THEN sem.queue ELSE Tail(sem.queue)
  BY DEF Semaphores, Released
<1>1. Cardinality(waiting) \in Nat
  BY FS_CardinalityType
<1>2. CASE sem.queue = <<>>
  BY <1>0, <1>1, <1>2 DEF Woken, QueueTells, CountTells
<1>3. CASE sem.queue # <<>>
  <2> DEFINE l == Len(sem.queue)
             q == Tail(sem.queue)
  <2>1. /\ l \in Nat \ {0} /\ DOMAIN sem.queue = 1 .. l /\ Head(sem.queue) = sem.queue[1]
        /\ Len(q) = l - 1 /\ DOMAIN q = 1 .. l - 1 /\ \A i \in 1 .. l - 1 : q[i] = sem.queue[i + 1]
    BY <1>0, <1>3
  <2> HIDE DEF l, q
  <2>2. \A i, j \in 1 .. l : sem.queue[i] = sem.queue[j] => i = j
    BY DEF QueueTells, l
  <2>3. \A i, j \in 1 .. Len(q) : q[i] = q[j] => i = j
    <3> SUFFICES ASSUME NEW i \in 1 .. l - 1, NEW j \in 1 .. l - 1, q[i] = q[j] PROVE i = j
      BY <2>1
    <3>1. i + 1 \in 1 .. l /\ j + 1 \in 1 .. l /\ sem.queue[i + 1] = sem.queue[j + 1]
      BY <2>1
    <3> QED
      BY <2>2, <3>1
  <2>4. \A x : x \in asleep <=> \E i \in 1 .. l : x = sem.queue[i]
    BY <2>1 DEF QueueTells, ToSet
  <2>5. \A x : x \in ToSet(q) <=> x \in asleep /\ x # Head(sem.queue)
    <3>1. ASSUME NEW i \in 1 .. l - 1 PROVE q[i] \in asleep /\ q[i] # Head(sem.queue)
      <4>1. i + 1 \in 1 .. l /\ 1 \in 1 .. l /\ i + 1 # 1
        BY <2>1
      <4> QED
        BY <2>1, <2>2, <2>4, <4>1
    <3>2. ASSUME NEW i \in 1 .. l, sem.queue[i] # Head(sem.queue) PROVE sem.queue[i] \in ToSet(q)
      <4>1. i - 1 \in 1 .. l - 1 /\ (i - 1) + 1 = i
        BY <2>1, <3>2
      <4>2. q[i - 1] = sem.queue[i]
        BY <2>1, <4>1
      <4> QED
        BY <2>1, <4>1, <4>2 DEF ToSet
    <3>3. \A x : x \in ToSet(q) <=> \E i \in 1 .. l - 1 : q[i] = x
      BY <2>1 DEF ToSet
    <3> QED
      BY <2>4, <3>1, <3>2, <3>3
  <2>6. Head(sem.queue) \in asleep
    BY <2>1, <2>4
  <2>7. Woken(sem) = {Head(sem.queue)} /\ asleep \ Woken(sem) = ToSet(q)
    BY <1>3, <2>5 DEF Woken
  <2>8. Released(sem).queue = q
    BY <1>0, <1>3 DEF q
  <2>9. Cardinality(waiting \ Woken(sem)) = Cardinality(waiting) - 1
    BY <2>6, <2>7, FS_RemoveElement
  <2> QED
    BY <1>0, <1>1, <2>3, <2>6, <2>7, <2>8, <2>9 DEF QueueTells, CountTells
<1> QED
  BY <1>2, <1>3

LEMMA WaitersFinite ==
  ASSUME NEW procs \in {Writers, Readers}
  PROVE  /\ Sleeping(procs) \subseteq Waiting(procs)
         /\ IsFiniteSet(Waiting(procs)) /\ Cardinality(Waiting(procs)) \in Nat
<1>1. IsFiniteSet(procs)
  BY ConsoleAssumption, FS_Subset DEF Procs
<1>2. Waiting(procs) \subseteq procs /\ Sleeping(procs) \subseteq Waiting(procs)
  BY DEF Waiting, Sleeping
<1> QED
  BY <1>1, <1>2, FS_Subset, FS_CardinalityType

(* A process sleeps in the queue of its semaphore and nowhere else, and    *)
(* signaln finds it there or on its way.                                  *)
LEMMA SleepersStep ==
  ASSUME TypeOK, Frames, Sleepers, [Next]_vars
  PROVE  Sleepers'
<1>0. ctx \in [Procs -> Contexts] /\ handler \in Handlers
  BY DEF TypeOK, Contexts, Handlers
<1>a. Writers \cap Readers = {} /\ Procs = Writers \cup Readers
  BY ConsoleAssumption DEF Procs
<1>b. ASSUME osema' = osema, isema' = isema,
             \A p \in Procs : /\ ctx'[p].at = "asleep" <=> ctx[p].at = "asleep"
                              /\ ctx'[p].at = "enqueue" <=> ctx[p].at = "enqueue",
             handler'.at = "wake" <=> handler.at = "wake", handler'.at = "rxwake" <=> handler.at = "rxwake"
      PROVE  Sleepers'
  <2>1. Sleeping(Writers)' = Sleeping(Writers) /\ Sleeping(Readers)' = Sleeping(Readers)
    BY <1>a, <1>b DEF Sleeping
  <2>2. Waiting(Writers)' = Waiting(Writers) /\ Waiting(Readers)' = Waiting(Readers)
    BY <1>a, <1>b DEF Waiting
  <2>3. Waking("wake")' = Waking("wake") /\ Waking("rxwake")' = Waking("rxwake")
    BY <1>b DEF Waking
  <2> QED
    BY <1>b, <2>1, <2>2, <2>3 DEF Sleepers
<1>c. osema \in Semaphores(Writers) /\ isema \in Semaphores(Readers) /\ handler.count \in Nat
  BY <1>0 DEF TypeOK, Handlers, Semaphores
<1>d. /\ Sleeping(Writers) \subseteq Waiting(Writers) /\ Sleeping(Readers) \subseteq Waiting(Readers)
      /\ IsFiniteSet(Waiting(Writers)) /\ Cardinality(Waiting(Writers)) \in Nat
      /\ IsFiniteSet(Waiting(Readers)) /\ Cardinality(Waiting(Readers)) \in Nat
  BY WaitersFinite
<1>e. Waking("wake") \in {0, 1} /\ Waking("rxwake") \in {0, 1}
  BY DEF Waking
<1>1. ASSUME NEW p \in Procs, Putc(p) PROVE Sleepers'
  BY <1>1, <1>0, <1>b DEF Putc, At, User, Contexts, output, input
<1>2. ASSUME NEW p \in Procs, PutNotIdle(p) PROVE Sleepers'
  BY <1>2, <1>0, <1>b, Moves DEF PutNotIdle, At, CallSteps, output, input
<1>3. ASSUME NEW p \in Procs, PutWrite(p) PROVE Sleepers'
  BY <1>3, <1>0, <1>b, Moves DEF PutWrite, At, output, input
<1>4. ASSUME NEW p \in Procs, PutWait(p) PROVE Sleepers'
  <2>1. p \in Writers /\ p \notin Waiting(Writers)
    BY <1>0, <1>a, <1>4 DEF PutWait, At, Frames, ReaderSteps, Waiting
  <2>2. CountTells(CountDown(osema), IF Waits(osema) THEN Waiting(Writers) \cup {p} ELSE Waiting(Writers),
                   Waking("wake"))
    BY <1>c, <1>d, <1>e, <2>1, WaitTells DEF Sleepers
  <2>3. osema' = CountDown(osema) /\ osema'.queue = osema.queue /\ isema' = isema /\ handler' = handler
    BY <1>4, <1>c DEF PutWait, CountDown, Semaphores, input
  <2>4. \A q \in Procs : ctx'[q].at = IF q = p THEN IF Waits(osema) THEN "enqueue" ELSE "lock" ELSE ctx[q].at
    BY <1>0, <1>4, Moves DEF PutWait, CallSteps
  <2>5. Waiting(Writers)' = IF Waits(osema) THEN Waiting(Writers) \cup {p} ELSE Waiting(Writers)
    BY <1>a, <2>1, <2>4 DEF Waiting
  <2>6. Waiting(Readers)' = Waiting(Readers) /\ Sleeping(Readers)' = Sleeping(Readers)
    BY <1>a, <2>1, <2>4 DEF Waiting, Sleeping
  <2>7. Sleeping(Writers)' = Sleeping(Writers)
    BY <1>a, <2>1, <2>4 DEF Waiting, Sleeping
  <2> QED
    BY <2>2, <2>3, <2>5, <2>6, <2>7 DEF Sleepers, QueueTells, Waking
<1>5. ASSUME NEW p \in Procs, PutLock(p) PROVE Sleepers'
  BY <1>5, <1>0, <1>b, Moves DEF PutLock, At, CallSteps, output, input
<1>6. ASSUME NEW p \in Procs, PutStore(p) PROVE Sleepers'
  BY <1>6, <1>0, <1>b DEF PutStore, At, Contexts, output, input
<1>7. ASSUME NEW p \in Procs, PutUnlock(p) PROVE Sleepers'
  BY <1>7, <1>0, <1>b, Moves DEF PutUnlock, At, output, input
<1>8. ASSUME NEW p \in Procs, Getc(p) PROVE Sleepers'
  <2>1. p \in Readers /\ p \notin Waiting(Readers)
    BY <1>0, <1>a, <1>8 DEF Getc, At, Waiting
  <2>2. CountTells(CountDown(isema), IF Waits(isema) THEN Waiting(Readers) \cup {p} ELSE Waiting(Readers),
                   Waking("rxwake"))
    BY <1>c, <1>d, <1>e, <2>1, WaitTells DEF Sleepers
  <2>3. isema' = CountDown(isema) /\ isema'.queue = isema.queue /\ osema' = osema /\ handler' = handler
    BY <1>8, <1>c DEF Getc, CountDown, Semaphores, output
  <2>4. \A q \in Procs : ctx'[q].at = IF q = p THEN IF Waits(isema) THEN "enqueue" ELSE "read" ELSE ctx[q].at
    BY <1>0, <1>8, Moves DEF Getc, CallSteps
  <2>5. Waiting(Readers)' = IF Waits(isema) THEN Waiting(Readers) \cup {p} ELSE Waiting(Readers)
    BY <1>a, <2>1, <2>4 DEF Waiting
  <2>6. Waiting(Writers)' = Waiting(Writers) /\ Sleeping(Writers)' = Sleeping(Writers)
    BY <1>a, <2>1, <2>4 DEF Waiting, Sleeping
  <2>7. Sleeping(Readers)' = Sleeping(Readers)
    BY <1>a, <2>1, <2>4 DEF Waiting, Sleeping
  <2> QED
    BY <2>2, <2>3, <2>5, <2>6, <2>7 DEF Sleepers, QueueTells, Waking
<1>9. ASSUME NEW p \in Procs, GetRead(p) PROVE Sleepers'
  BY <1>9, <1>0, <1>b DEF GetRead, At, Contexts, output, input
<1>10. ASSUME NEW p \in Procs, GetCount(p) PROVE Sleepers'
  BY <1>10, <1>0, <1>b, Moves DEF GetCount, At, output, input
<1>11. ASSUME NEW p \in Procs, Resume(p) PROVE Sleepers'
  BY <1>11, <1>0, <1>b, Moves DEF Resume, At, CallSteps, output, input
<1>12. CASE Interrupt
  BY <1>12, <1>0, <1>b DEF Interrupt, HandlerAt, Off, Handlers, output, input
<1>13. CASE Test
  BY <1>13, <1>0, <1>b, HandlerMoves DEF Test, HandlerAt, HandlerSteps, output, input
<1>14. CASE Idle
  BY <1>14, <1>0, <1>b, HandlerMoves DEF Idle, HandlerAt, HandlerSteps, output, input
<1>15. CASE Send
  BY <1>15, <1>0, <1>b, HandlerMoves DEF Send, HandlerAt, HandlerSteps, output, input
<1>16. CASE Lock
  BY <1>16, <1>0, <1>b, HandlerMoves DEF Lock, HandlerAt, HandlerSteps, output, input
<1>17. CASE Advance
  BY <1>17, <1>0, <1>b DEF Advance, HandlerAt, Handlers, output, input
<1>18. CASE Unlock
  BY <1>18, <1>0, <1>b, HandlerMoves DEF Unlock, HandlerAt, HandlerSteps, output, input
<1>19. CASE More
  BY <1>19, <1>0, <1>b, HandlerMoves DEF More, HandlerAt, HandlerSteps, output, input
<1>20. CASE Signal
  <2>1. /\ osema'.count = osema.count + 1 /\ osema'.queue = osema.queue
        /\ isema' = isema /\ ctx' = ctx
    BY <1>20, <1>c DEF Signal, CountUp, Semaphores, input
  <2>2. /\ Waking("wake") = 0 /\ Waking("wake")' = IF osema.count < 0 THEN 1 ELSE 0
        /\ Waking("rxwake")' = Waking("rxwake")
    BY <1>0, <1>20, SignalMoves DEF Signal, HandlerAt, Frames, Waking
  <2>3. /\ Waiting(Writers)' = Waiting(Writers) /\ Sleeping(Writers)' = Sleeping(Writers)
        /\ Waiting(Readers)' = Waiting(Readers) /\ Sleeping(Readers)' = Sleeping(Readers)
    BY <2>1 DEF Waiting, Sleeping
  <2>4. osema.count \in Int /\ Cardinality(Waiting(Writers)) \in Nat
    BY <1>c, <1>d DEF Semaphores
  <2>5. CountTells(osema', Waiting(Writers), IF osema.count < 0 THEN 1 ELSE 0)
    BY <2>1, <2>2, <2>4 DEF Sleepers, CountTells
  <2> QED
    BY <2>1, <2>2, <2>3, <2>5 DEF Sleepers, QueueTells
<1>21. CASE Receive
  BY <1>21, <1>0, <1>b DEF Receive, HandlerAt, Handlers, output, input
<1>22. CASE ReceiveStore
  BY <1>22, <1>0, <1>b DEF ReceiveStore, HandlerAt, Handlers, output, input
<1>23. CASE ReceiveMore
  BY <1>23, <1>0, <1>b, SignalMoves DEF ReceiveMore, HandlerAt, output, input
<1>24. CASE ReceiveSignal
  <2>1. /\ isema'.count = isema.count + 1 /\ isema'.queue = isema.queue
        /\ osema' = osema /\ ctx' = ctx
    BY <1>24, <1>c DEF ReceiveSignal, CountUp, Semaphores, output
  <2>2. /\ Waking("rxwake") = 0 /\ Waking("rxwake")' = IF isema.count < 0 THEN 1 ELSE 0
        /\ Waking("wake")' = Waking("wake")
    BY <1>0, <1>24, SignalMoves DEF ReceiveSignal, HandlerAt, Frames, Waking
  <2>3. /\ Waiting(Writers)' = Waiting(Writers) /\ Sleeping(Writers)' = Sleeping(Writers)
        /\ Waiting(Readers)' = Waiting(Readers) /\ Sleeping(Readers)' = Sleeping(Readers)
    BY <2>1 DEF Waiting, Sleeping
  <2>4. isema.count \in Int /\ Cardinality(Waiting(Readers)) \in Nat
    BY <1>c, <1>d DEF Semaphores
  <2>5. CountTells(isema', Waiting(Readers), IF isema.count < 0 THEN 1 ELSE 0)
    BY <2>1, <2>2, <2>4 DEF Sleepers, CountTells
  <2> QED
    BY <2>1, <2>2, <2>3, <2>5 DEF Sleepers, QueueTells
<1>25. CASE Transmit
  BY <1>25, <1>b DEF Transmit, output, input
<1>26. CASE Arrive
  BY <1>26, <1>b DEF Arrive, output, input
<1>27. ASSUME NEW p \in Procs, Sleep(p) PROVE Sleepers'
  <2>0. ctx[p].at = "enqueue" /\ handler' = handler
    BY <1>27 DEF Sleep, At
  <2>1. \A q \in Procs : ctx'[q].at = IF q = p THEN "asleep" ELSE ctx[q].at
    BY <1>0, <1>27, Moves DEF Sleep, CallSteps
  <2>2. Waiting(Writers)' = Waiting(Writers) /\ Waiting(Readers)' = Waiting(Readers)
    BY <1>a, <2>0, <2>1 DEF Waiting
  <2>3. CASE p \in Writers
    <3>1. osema' = [osema EXCEPT !.queue = Append(@, p)] /\ osema'.count = osema.count /\ isema' = isema
      BY <1>27, <1>c, <2>3 DEF Sleep, Semaphores
    <3>2. p \notin Sleeping(Writers)
      BY <2>0 DEF Sleeping
    <3>3. QueueTells(osema', Sleeping(Writers) \cup {p})
      BY <1>c, <2>3, <3>1, <3>2, SleepTells DEF Sleepers
    <3>4. Sleeping(Writers)' = Sleeping(Writers) \cup {p} /\ Sleeping(Readers)' = Sleeping(Readers)
      BY <1>a, <2>1, <2>3 DEF Sleeping
    <3> QED
      BY <2>0, <2>2, <3>1, <3>3, <3>4 DEF Sleepers, CountTells, Waking
  <2>4. CASE p \in Readers
    <3>1. isema' = [isema EXCEPT !.queue = Append(@, p)] /\ isema'.count = isema.count /\ osema' = osema
      BY <1>27, <1>a, <1>c, <2>4 DEF Sleep, Semaphores
    <3>2. p \notin Sleeping(Readers)
      BY <2>0 DEF Sleeping
    <3>3. QueueTells(isema', Sleeping(Readers) \cup {p})
      BY <1>c, <2>4, <3>1, <3>2, SleepTells DEF Sleepers
    <3>4. Sleeping(Readers)' = Sleeping(Readers) \cup {p} /\ Sleeping(Writers)' = Sleeping(Writers)
      BY <1>a, <2>1, <2>4 DEF Sleeping
    <3> QED
      BY <2>0, <2>2, <3>1, <3>3, <3>4 DEF Sleepers, CountTells, Waking
  <2> QED
    BY <1>a, <2>3, <2>4
<1>28. CASE SignalWake
  <2>1. osema' = Released(osema) /\ isema' = isema
    BY <1>28 DEF SignalWake, input
  <2>2. /\ Waking("wake") = 1 /\ Waking("wake")' = 0 /\ Waking("rxwake") = 0 /\ Waking("rxwake")' = 0
    BY <1>0, <1>28, SignalMoves DEF SignalWake, HandlerAt, Waking
  <2>3. /\ Woken(osema) \subseteq Sleeping(Writers)
        /\ QueueTells(Released(osema), Sleeping(Writers) \ Woken(osema))
        /\ CountTells(Released(osema), Waiting(Writers) \ Woken(osema), 0)
    BY <1>c, <1>d, <2>2, WakeTells DEF Sleepers
  <2>4. \A q \in Procs : ctx'[q].at = IF q \in Woken(osema) THEN "ready" ELSE ctx[q].at
    BY <1>0, <1>28, Moves DEF SignalWake, Woken
  <2>5. /\ Sleeping(Writers)' = Sleeping(Writers) \ Woken(osema)
        /\ Waiting(Writers)' = Waiting(Writers) \ Woken(osema)
    BY <1>a, <2>4 DEF Sleeping, Waiting
  <2>6. Sleeping(Readers)' = Sleeping(Readers) /\ Waiting(Readers)' = Waiting(Readers)
    BY <1>a, <2>3, <2>4 DEF Sleeping, Waiting
  <2> QED
    BY <2>1, <2>2, <2>3, <2>5, <2>6 DEF Sleepers
<1>29. CASE ReceiveWake
  <2>1. isema' = Released(isema) /\ osema' = osema
    BY <1>29 DEF ReceiveWake, output
  <2>2. /\ Waking("rxwake") = 1 /\ Waking("rxwake")' = 0 /\ Waking("wake") = 0 /\ Waking("wake")' = 0
    BY <1>0, <1>29, SignalMoves DEF ReceiveWake, HandlerAt, Waking
  <2>3. /\ Woken(isema) \subseteq Sleeping(Readers)
        /\ QueueTells(Released(isema), Sleeping(Readers) \ Woken(isema))
        /\ CountTells(Released(isema), Waiting(Readers) \ Woken(isema), 0)
    BY <1>c, <1>d, <2>2, WakeTells DEF Sleepers
  <2>4. \A q \in Procs : ctx'[q].at = IF q \in Woken(isema) THEN "ready" ELSE ctx[q].at
    BY <1>0, <1>29, Moves DEF ReceiveWake, Woken
  <2>5. /\ Sleeping(Readers)' = Sleeping(Readers) \ Woken(isema)
        /\ Waiting(Readers)' = Waiting(Readers) \ Woken(isema)
    BY <1>a, <2>4 DEF Sleeping, Waiting
  <2>6. Sleeping(Writers)' = Sleeping(Writers) /\ Waiting(Writers)' = Waiting(Writers)
    BY <1>a, <2>3, <2>4 DEF Sleeping, Waiting
  <2> QED
    BY <2>1, <2>2, <2>3, <2>5, <2>6 DEF Sleepers
<1>30. CASE UNCHANGED vars
  BY <1>30, <1>b DEF vars, output, input
<1> QED
  BY <1>1, <1>2, <1>3, <1>4, <1>5, <1>6, <1>7, <1>8, <1>9, <1>10, <1>11, <1>12, <1>13, <1>14, <1>15,
     <1>16, <1>17, <1>18, <1>19, <1>20, <1>21, <1>22, <1>23, <1>24, <1>25, <1>26, <1>27, <1>28,
     <1>29, <1>30 DEF Next, Calling, Handling

Claims(procs) == {p \in procs : ctx[p].at \in {"enqueue", "asleep", "ready", "lock", "store", "read", "count"}}
ToSignalOut == IF handler.at \in SendSteps THEN handler.count ELSE 0
ToSignalIn  == IF handler.at \in SendSteps THEN 0 ELSE handler.count

(* SemaphoresCount by name; those that claim a place are counted.         *)
LEMMA CountsDef ==
  SemaphoresCount <=> /\ osema.count = UART_OBLEN - ocount - Cardinality(Claims(Writers)) - ToSignalOut
                      /\ isema.count = icount - Cardinality(Claims(Readers)) - ToSignalIn
BY DEF SemaphoresCount, Claims, ToSignalOut, ToSignalIn, SendSteps

LEMMA ClaimsFinite ==
  ASSUME NEW procs \in {Writers, Readers}
  PROVE  IsFiniteSet(Claims(procs)) /\ Cardinality(Claims(procs)) \in Nat
<1>1. IsFiniteSet(procs)
  BY ConsoleAssumption, FS_Subset DEF Procs
<1>2. Claims(procs) \subseteq procs
  BY DEF Claims
<1> QED
  BY <1>1, <1>2, FS_Subset, FS_CardinalityType

(* A call past its wait has found room, or a byte.                         *)
LEMMA Room ==
  ASSUME TypeOK, Sleepers, SemaphoresCount
  PROVE  /\ \A p \in Writers : ctx[p].at = "store" => ocount < UART_OBLEN
         /\ \A p \in Readers : ctx[p].at = "count" => icount > 0
<1>a. /\ osema.count = UART_OBLEN - ocount - Cardinality(Claims(Writers)) - ToSignalOut
      /\ isema.count = icount - Cardinality(Claims(Readers)) - ToSignalIn
  BY CountsDef
<1>0. ocount \in Int /\ icount \in Int /\ UART_OBLEN \in Int /\ osema.count \in Int /\ isema.count \in Int
      /\ ToSignalOut \in Nat /\ ToSignalIn \in Nat
  BY ConsoleAssumption DEF TypeOK, ToSignalOut, ToSignalIn
<1>1. ASSUME NEW count \in Int, NEW procs \in {Writers, Readers}, count + Cardinality(Waiting(procs)) >= 0,
             NEW p \in procs, ctx[p].at \in {"store", "count"}
      PROVE  count + Cardinality(Claims(procs)) > 0
  <2>1. IsFiniteSet(Waiting(procs)) /\ Cardinality(Waiting(procs)) \in Nat
    BY WaitersFinite
  <2>2. p \notin Waiting(procs) /\ Waiting(procs) \cup {p} \subseteq Claims(procs)
    BY <1>1 DEF Waiting, Claims
  <2>3. Cardinality(Waiting(procs) \cup {p}) = Cardinality(Waiting(procs)) + 1
    BY <2>1, <2>2, FS_AddElement
  <2>4. Cardinality(Waiting(procs) \cup {p}) <= Cardinality(Claims(procs))
    BY <2>2, ClaimsFinite, FS_Subset
  <2>5. Cardinality(Claims(procs)) \in Nat
    BY ClaimsFinite
  <2> QED
    BY <1>1, <2>1, <2>3, <2>4, <2>5
<1>s. /\ osema.count + Cardinality(Waiting(Writers)) >= 0
      /\ isema.count + Cardinality(Waiting(Readers)) >= 0
  <2>1. Cardinality(Waiting(Writers)) \in Nat /\ Cardinality(Waiting(Readers)) \in Nat
    BY WaitersFinite
  <2> QED
    BY <1>0, <2>1 DEF Sleepers, CountTells, Waking
<1>2. ASSUME NEW p \in Writers, ctx[p].at = "store" PROVE ocount < UART_OBLEN
  <2>1. osema.count + Cardinality(Claims(Writers)) > 0
    BY <1>0, <1>1, <1>2, <1>s
  <2>2. Cardinality(Claims(Writers)) \in Nat
    BY ClaimsFinite
  <2> QED
    BY <1>0, <1>a, <2>1, <2>2
<1>3. ASSUME NEW p \in Readers, ctx[p].at = "count" PROVE icount > 0
  <2>1. isema.count + Cardinality(Claims(Readers)) > 0
    BY <1>0, <1>1, <1>3, <1>s
  <2>2. Cardinality(Claims(Readers)) \in Nat
    BY ClaimsFinite
  <2> QED
    BY <1>0, <1>a, <2>1, <2>2
<1> QED
  BY <1>2, <1>3

(* The semaphores go on counting their rings.                             *)
LEMMA SemaphoresStep ==
  ASSUME TypeOK, Frames, Sleepers, SemaphoresCount, [Next]_vars
  PROVE  SemaphoresCount'
<1>0. ctx \in [Procs -> Contexts] /\ handler \in Handlers
  BY DEF TypeOK, Contexts, Handlers
<1>a. Writers \cap Readers = {} /\ Procs = Writers \cup Readers
  BY ConsoleAssumption DEF Procs
<1>c. /\ osema.count \in Int /\ isema.count \in Int /\ handler.count \in Nat
      /\ ocount \in Int /\ icount \in Int /\ UART_OBLEN \in Int
  BY <1>0, ConsoleAssumption DEF TypeOK, Handlers
<1>d. /\ osema.count = UART_OBLEN - ocount - Cardinality(Claims(Writers)) - ToSignalOut
      /\ isema.count = icount - Cardinality(Claims(Readers)) - ToSignalIn
  BY CountsDef
<1>e. /\ osema'.count = UART_OBLEN - ocount' - Cardinality(Claims(Writers)') - ToSignalOut'
      /\ isema'.count = icount' - Cardinality(Claims(Readers)') - ToSignalIn'
      => SemaphoresCount'
  BY DEF SemaphoresCount, Claims, ToSignalOut, ToSignalIn, SendSteps
<1>f. /\ IsFiniteSet(Claims(Writers)) /\ Cardinality(Claims(Writers)) \in Nat
      /\ IsFiniteSet(Claims(Readers)) /\ Cardinality(Claims(Readers)) \in Nat
  BY ClaimsFinite
<1>r. osema \in Semaphores(Writers) /\ isema \in Semaphores(Readers)
  BY DEF TypeOK, Semaphores
<1>b. ASSUME osema' = osema, isema' = isema, ocount' = ocount, icount' = icount,
             ToSignalOut' = ToSignalOut, ToSignalIn' = ToSignalIn,
             \A p \in Procs : ctx'[p].at \in {"enqueue", "asleep", "ready", "lock", "store", "read", "count"}
                                <=> ctx[p].at \in {"enqueue", "asleep", "ready", "lock", "store", "read", "count"}
      PROVE  SemaphoresCount'
  <2>1. Claims(Writers)' = Claims(Writers) /\ Claims(Readers)' = Claims(Readers)
    BY <1>a, <1>b DEF Claims
  <2> QED
    BY <1>b, <1>d, <1>e, <2>1
<1>1. ASSUME NEW p \in Procs, Putc(p) PROVE SemaphoresCount'
  BY <1>1, <1>0, <1>a, <1>b, <1>c
     DEF Putc, At, ToSignalOut, ToSignalIn, SendSteps, Frames, output, input
<1>2. ASSUME NEW p \in Procs, PutNotIdle(p) PROVE SemaphoresCount'
  BY <1>2, <1>0, <1>a, <1>b, <1>c, Moves
     DEF PutNotIdle, At, CallSteps, ToSignalOut, ToSignalIn, SendSteps, Frames, input
<1>3. ASSUME NEW p \in Procs, PutWrite(p) PROVE SemaphoresCount'
  BY <1>3, <1>0, <1>a, <1>b, <1>c, Moves
     DEF PutWrite, At, ToSignalOut, ToSignalIn, SendSteps, Frames, output, input
<1>4. ASSUME NEW p \in Procs, PutWait(p) PROVE SemaphoresCount'
  <2>1. p \in Writers /\ p \notin Claims(Writers)
    BY <1>0, <1>a, <1>4 DEF PutWait, At, Frames, ReaderSteps, Claims
  <2>2. \A q \in Procs : ctx'[q].at = IF q = p THEN IF Waits(osema) THEN "enqueue" ELSE "lock" ELSE ctx[q].at
    BY <1>0, <1>4, Moves DEF PutWait, CallSteps
  <2>3. Claims(Writers)' = Claims(Writers) \cup {p} /\ Claims(Readers)' = Claims(Readers)
    BY <1>a, <2>1, <2>2 DEF Claims
  <2>4. Cardinality(Claims(Writers)') = Cardinality(Claims(Writers)) + 1
    BY <1>f, <2>1, <2>3, FS_AddElement
  <2>5. osema'.count = osema.count - 1 /\ isema' = isema /\ ocount' = ocount /\ icount' = icount
    BY <1>4, <1>r DEF PutWait, CountDown, Semaphores, input
  <2>6. ToSignalOut' = ToSignalOut /\ ToSignalIn' = ToSignalIn
    BY <1>4 DEF PutWait, ToSignalOut, ToSignalIn
  <2>7. ToSignalOut \in Int /\ ToSignalIn \in Int
    BY <1>c DEF ToSignalOut, ToSignalIn
  <2> QED
    BY <1>c, <1>d, <1>e, <1>f, <2>3, <2>4, <2>5, <2>6, <2>7
<1>5. ASSUME NEW p \in Procs, PutLock(p) PROVE SemaphoresCount'
  BY <1>5, <1>0, <1>a, <1>b, <1>c, Moves
     DEF PutLock, At, CallSteps, ToSignalOut, ToSignalIn, SendSteps, Frames, output, input
<1>6. ASSUME NEW p \in Procs, PutStore(p) PROVE SemaphoresCount'
  <2>1. p \in Writers /\ p \in Claims(Writers)
    BY <1>0, <1>a, <1>6 DEF PutStore, At, Frames, ReaderSteps, Claims
  <2>2. \A q \in Procs : ctx'[q].at = IF q = p THEN "unlock" ELSE ctx[q].at
    BY <1>0, <1>6, Moves DEF PutStore, CallSteps, Contexts
  <2>3. Claims(Writers)' = Claims(Writers) \ {p} /\ Claims(Readers)' = Claims(Readers)
    BY <1>a, <2>1, <2>2 DEF Claims
  <2>4. Cardinality(Claims(Writers)') = Cardinality(Claims(Writers)) - 1
    BY <1>f, <2>1, <2>3, FS_RemoveElement
  <2>5. osema' = osema /\ isema' = isema /\ ocount' = ocount + 1 /\ icount' = icount
    BY <1>6, <2>1 DEF PutStore, At, Frames, output, input
  <2>6. ToSignalOut' = ToSignalOut /\ ToSignalIn' = ToSignalIn
    BY <1>6 DEF PutStore, ToSignalOut, ToSignalIn
  <2>7. ToSignalOut \in Int /\ ToSignalIn \in Int
    BY <1>c DEF ToSignalOut, ToSignalIn
  <2> QED
    BY <1>c, <1>d, <1>e, <1>f, <2>3, <2>4, <2>5, <2>6, <2>7
<1>7. ASSUME NEW p \in Procs, PutUnlock(p) PROVE SemaphoresCount'
  BY <1>7, <1>0, <1>a, <1>b, <1>c, Moves
     DEF PutUnlock, At, ToSignalOut, ToSignalIn, SendSteps, Frames, output, input
<1>8. ASSUME NEW p \in Procs, Getc(p) PROVE SemaphoresCount'
  <2>1. p \in Readers /\ p \notin Claims(Readers)
    BY <1>0, <1>a, <1>8 DEF Getc, At, Frames, WriterSteps, Claims
  <2>2. \A q \in Procs : ctx'[q].at = IF q = p THEN IF Waits(isema) THEN "enqueue" ELSE "read" ELSE ctx[q].at
    BY <1>0, <1>8, Moves DEF Getc, CallSteps
  <2>3. Claims(Readers)' = Claims(Readers) \cup {p} /\ Claims(Writers)' = Claims(Writers)
    BY <1>a, <2>1, <2>2 DEF Claims
  <2>4. Cardinality(Claims(Readers)') = Cardinality(Claims(Readers)) + 1
    BY <1>f, <2>1, <2>3, FS_AddElement
  <2>5. isema'.count = isema.count - 1 /\ osema' = osema /\ ocount' = ocount /\ icount' = icount
    BY <1>8, <1>r DEF Getc, CountDown, Semaphores, output
  <2>6. ToSignalOut' = ToSignalOut /\ ToSignalIn' = ToSignalIn
    BY <1>8 DEF Getc, ToSignalOut, ToSignalIn
  <2>7. ToSignalOut \in Int /\ ToSignalIn \in Int
    BY <1>c DEF ToSignalOut, ToSignalIn
  <2> QED
    BY <1>c, <1>d, <1>e, <1>f, <2>3, <2>4, <2>5, <2>6, <2>7
<1>9. ASSUME NEW p \in Procs, GetRead(p) PROVE SemaphoresCount'
  BY <1>9, <1>0, <1>a, <1>b, <1>c
     DEF GetRead, At, ToSignalOut, ToSignalIn, SendSteps, Frames, output, input
<1>10. ASSUME NEW p \in Procs, GetCount(p) PROVE SemaphoresCount'
  <2>1. p \in Readers /\ p \in Claims(Readers)
    BY <1>0, <1>a, <1>10 DEF GetCount, At, Frames, WriterSteps, Claims
  <2>2. \A q \in Procs : ctx'[q].at = IF q = p THEN "user" ELSE ctx[q].at
    BY <1>0, <1>10, Moves DEF GetCount, CallSteps, Contexts
  <2>3. Claims(Readers)' = Claims(Readers) \ {p} /\ Claims(Writers)' = Claims(Writers)
    BY <1>a, <2>1, <2>2 DEF Claims
  <2>4. Cardinality(Claims(Readers)') = Cardinality(Claims(Readers)) - 1
    BY <1>f, <2>1, <2>3, FS_RemoveElement
  <2>5. osema' = osema /\ isema' = isema /\ icount' = icount - 1 /\ ocount' = ocount
    BY <1>10, <2>1 DEF GetCount, At, Frames, output, input
  <2>6. ToSignalOut' = ToSignalOut /\ ToSignalIn' = ToSignalIn
    BY <1>10 DEF GetCount, ToSignalOut, ToSignalIn
  <2>7. ToSignalOut \in Int /\ ToSignalIn \in Int
    BY <1>c DEF ToSignalOut, ToSignalIn
  <2> QED
    BY <1>c, <1>d, <1>e, <1>f, <2>3, <2>4, <2>5, <2>6, <2>7
<1>11. ASSUME NEW p \in Procs, Resume(p) PROVE SemaphoresCount'
  BY <1>11, <1>0, <1>a, <1>b, <1>c, Moves
     DEF Resume, At, CallSteps, ToSignalOut, ToSignalIn, SendSteps, Frames, output, input
<1>12. CASE Interrupt
  BY <1>12, <1>0, <1>a, <1>b, <1>c
     DEF Interrupt, HandlerAt, ToSignalOut, ToSignalIn, SendSteps, Frames, Off, output, input
<1>13. CASE Test
  BY <1>13, <1>0, <1>a, <1>b, <1>c, HandlerMoves
     DEF Test, HandlerAt, HandlerSteps, ToSignalOut, ToSignalIn, SendSteps, Frames, output, input
<1>14. CASE Idle
  BY <1>14, <1>0, <1>a, <1>b, <1>c, HandlerMoves
     DEF Idle, HandlerAt, HandlerSteps, ToSignalOut, ToSignalIn, SendSteps, Frames, input
<1>15. CASE Send
  BY <1>15, <1>0, <1>a, <1>b, <1>c, HandlerMoves
     DEF Send, HandlerAt, HandlerSteps, ToSignalOut, ToSignalIn, SendSteps, Frames, output, input
<1>16. CASE Lock
  BY <1>16, <1>0, <1>a, <1>b, <1>c, HandlerMoves
     DEF Lock, HandlerAt, HandlerSteps, ToSignalOut, ToSignalIn, SendSteps, Frames, output, input
<1>17. CASE Advance
  <2>1. Claims(Writers)' = Claims(Writers) /\ Claims(Readers)' = Claims(Readers)
    BY <1>17 DEF Advance, Claims
  <2>2. osema' = osema /\ isema' = isema /\ ocount' = ocount - 1 /\ icount' = icount
    BY <1>17 DEF Advance, output, input
  <2>3. ToSignalOut = handler.count /\ ToSignalIn = 0 /\ ToSignalOut' = handler.count + 1 /\ ToSignalIn' = 0
    BY <1>0, <1>17 DEF Advance, HandlerAt, ToSignalOut, ToSignalIn, SendSteps, Handlers
  <2> QED
    BY <1>c, <1>d, <1>e, <1>f, <2>1, <2>2, <2>3
<1>18. CASE Unlock
  BY <1>18, <1>0, <1>a, <1>b, <1>c, HandlerMoves
     DEF Unlock, HandlerAt, HandlerSteps, ToSignalOut, ToSignalIn, SendSteps, Frames, output, input
<1>19. CASE More
  BY <1>19, <1>0, <1>a, <1>b, <1>c, HandlerMoves
     DEF More, HandlerAt, HandlerSteps, ToSignalOut, ToSignalIn, SendSteps, Frames, output, input
<1>20. CASE Signal
  <2>1. Claims(Writers)' = Claims(Writers) /\ Claims(Readers)' = Claims(Readers)
    BY <1>20 DEF Signal, Claims
  <2>2. osema'.count = osema.count + 1 /\ isema' = isema /\ ocount' = ocount /\ icount' = icount
    BY <1>20, <1>r DEF Signal, CountUp, Semaphores, input
  <2>3. ToSignalOut = handler.count /\ ToSignalIn = 0 /\ ToSignalOut' = handler.count - 1 /\ ToSignalIn' = 0
    BY <1>0, <1>c, <1>20, SignalMoves DEF Signal, HandlerAt, Frames, ToSignalOut, ToSignalIn, SendSteps
  <2> QED
    BY <1>c, <1>d, <1>e, <1>f, <2>1, <2>2, <2>3
<1>21. CASE Receive
  BY <1>21, <1>0, <1>a, <1>b, <1>c
     DEF Receive, HandlerAt, ToSignalOut, ToSignalIn, SendSteps, Frames, output, input
<1>22. CASE ReceiveStore
  <2>1. Claims(Writers)' = Claims(Writers) /\ Claims(Readers)' = Claims(Readers)
    BY <1>22 DEF ReceiveStore, Claims
  <2>2. osema' = osema /\ isema' = isema /\ icount' = icount + 1 /\ ocount' = ocount
    BY <1>22 DEF ReceiveStore, output, input
  <2>3. ToSignalIn = handler.count /\ ToSignalOut = 0 /\ ToSignalIn' = handler.count + 1 /\ ToSignalOut' = 0
    BY <1>0, <1>22 DEF ReceiveStore, HandlerAt, ToSignalOut, ToSignalIn, SendSteps, Handlers
  <2> QED
    BY <1>c, <1>d, <1>e, <1>f, <2>1, <2>2, <2>3
<1>23. CASE ReceiveMore
  BY <1>23, <1>0, <1>a, <1>b, <1>c, SignalMoves
     DEF ReceiveMore, HandlerAt, ToSignalOut, ToSignalIn, SendSteps, output, input
<1>24. CASE ReceiveSignal
  <2>1. Claims(Writers)' = Claims(Writers) /\ Claims(Readers)' = Claims(Readers)
    BY <1>24 DEF ReceiveSignal, Claims
  <2>2. isema'.count = isema.count + 1 /\ osema' = osema /\ ocount' = ocount /\ icount' = icount
    BY <1>24, <1>r DEF ReceiveSignal, CountUp, Semaphores, output
  <2>3. ToSignalIn = handler.count /\ ToSignalOut = 0 /\ ToSignalIn' = handler.count - 1 /\ ToSignalOut' = 0
    BY <1>0, <1>c, <1>24, SignalMoves DEF ReceiveSignal, HandlerAt, Frames, ToSignalOut, ToSignalIn, SendSteps
  <2> QED
    BY <1>c, <1>d, <1>e, <1>f, <2>1, <2>2, <2>3
<1>25. CASE Transmit
  BY <1>25, <1>0, <1>a, <1>b, <1>c
     DEF Transmit, ToSignalOut, ToSignalIn, SendSteps, Frames, output, input
<1>26. CASE Arrive
  BY <1>26, <1>0, <1>a, <1>b, <1>c
     DEF Arrive, ToSignalOut, ToSignalIn, SendSteps, Frames, output, input
<1>27. ASSUME NEW p \in Procs, Sleep(p) PROVE SemaphoresCount'
  <2>1. \A q \in Procs : ctx'[q].at = IF q = p THEN "asleep" ELSE ctx[q].at
    BY <1>0, <1>27, Moves DEF Sleep, CallSteps
  <2>2. Claims(Writers)' = Claims(Writers) /\ Claims(Readers)' = Claims(Readers)
    BY <1>27, <1>a, <2>1 DEF Sleep, At, Claims
  <2>3. osema'.count = osema.count /\ isema'.count = isema.count /\ ocount' = ocount /\ icount' = icount
    BY <1>27, <1>r DEF Sleep, Semaphores
  <2>4. ToSignalOut' = ToSignalOut /\ ToSignalIn' = ToSignalIn
    BY <1>27 DEF Sleep, ToSignalOut, ToSignalIn
  <2> QED
    BY <1>d, <1>e, <2>2, <2>3, <2>4
<1>28. CASE SignalWake
  <2>1. Woken(osema) \subseteq Sleeping(Writers)
    BY <1>28, <1>r, WaitersFinite, WakeTells DEF SignalWake, HandlerAt, Sleepers, Waking
  <2>2. \A q \in Procs : ctx'[q].at = IF q \in Woken(osema) THEN "ready" ELSE ctx[q].at
    BY <1>0, <1>28, Moves DEF SignalWake, Woken
  <2>3. Claims(Writers)' = Claims(Writers) /\ Claims(Readers)' = Claims(Readers)
    BY <1>a, <2>1, <2>2 DEF Claims, Sleeping
  <2>4. osema'.count = osema.count /\ isema' = isema /\ ocount' = ocount /\ icount' = icount
    BY <1>28, <1>r DEF SignalWake, Released, Semaphores, input
  <2>5. ToSignalOut = handler.count /\ ToSignalIn = 0 /\ ToSignalOut' = handler.count /\ ToSignalIn' = 0
    BY <1>0, <1>c, <1>28, SignalMoves DEF SignalWake, HandlerAt, ToSignalOut, ToSignalIn, SendSteps
  <2> QED
    BY <1>c, <1>d, <1>e, <1>f, <2>3, <2>4, <2>5
<1>29. CASE ReceiveWake
  <2>1. Woken(isema) \subseteq Sleeping(Readers)
    BY <1>29, <1>r, WaitersFinite, WakeTells DEF ReceiveWake, HandlerAt, Sleepers, Waking
  <2>2. \A q \in Procs : ctx'[q].at = IF q \in Woken(isema) THEN "ready" ELSE ctx[q].at
    BY <1>0, <1>29, Moves DEF ReceiveWake, Woken
  <2>3. Claims(Writers)' = Claims(Writers) /\ Claims(Readers)' = Claims(Readers)
    BY <1>a, <2>1, <2>2 DEF Claims, Sleeping
  <2>4. isema'.count = isema.count /\ osema' = osema /\ ocount' = ocount /\ icount' = icount
    BY <1>29, <1>r DEF ReceiveWake, Released, Semaphores, output
  <2>5. ToSignalIn = handler.count /\ ToSignalOut = 0 /\ ToSignalIn' = handler.count /\ ToSignalOut' = 0
    BY <1>0, <1>c, <1>29, SignalMoves DEF ReceiveWake, HandlerAt, ToSignalOut, ToSignalIn, SendSteps
  <2> QED
    BY <1>c, <1>d, <1>e, <1>f, <2>3, <2>4, <2>5
<1>30. CASE UNCHANGED vars
  BY <1>30, <1>b
     DEF vars, At, HandlerAt, CallSteps, HandlerSteps, ToSignalOut, ToSignalIn, SendSteps, Frames,
         Off, output, input
<1> QED
  BY <1>1, <1>2, <1>3, <1>4, <1>5, <1>6, <1>7, <1>8, <1>9, <1>10, <1>11, <1>12, <1>13, <1>14, <1>15,
     <1>16, <1>17, <1>18, <1>19, <1>20, <1>21, <1>22, <1>23, <1>24, <1>25, <1>26, <1>27, <1>28, <1>29, <1>30
     DEF Next, Calling, Handling

(* What is on the way was written or has arrived.                         *)
LEMMA FreshStep ==
  ASSUME TypeOK, Frames, Fresh, [Next]_vars
  PROVE  Fresh'
<1>0. ctx \in [Procs -> Contexts] /\ handler \in Handlers
  BY DEF TypeOK, Contexts, Handlers
<1>a. Writers \cap Readers = {} /\ Procs = Writers \cup Readers
  BY ConsoleAssumption DEF Procs
<1>b. put \in Int /\ arrived \in Int /\ MaxOut \in Int /\ MaxIn \in Int /\ 0 \in 0 .. put /\ 0 \in 0 .. arrived
      /\ put \in Nat /\ arrived \in Nat
  BY ConsoleAssumption DEF Fresh
<1>c. handler.c \in Chars \cup {None} /\ \A p \in Procs : ctx[p].c \in Chars \cup {None}
  BY <1>0 DEF Handlers, Contexts
<1>d. ostart \in 0 .. UART_OBLEN - 1
  BY DEF TypeOK
<1>1. ASSUME NEW p \in Procs, Putc(p) PROVE Fresh'
  <2>1. put' = put + 1 /\ put' \in 0 .. MaxOut /\ 0 .. put \subseteq 0 .. put'
    BY <1>1, <1>b DEF Putc, Fresh
  <2>2. \A q \in Writers : ctx'[q].c \in 0 .. put'
    BY <1>0, <1>1, <1>a, <1>b, <2>1 DEF Putc, User, Contexts, Fresh
  <2>3. line' \in Seq(0 .. put')
    BY <1>1, <2>1 DEF Putc, Fresh, uart
  <2> QED
    BY <1>1, <2>1, <2>2, <2>3 DEF Putc, Fresh, output, input, uart
<1>2. ASSUME NEW p \in Procs, PutNotIdle(p) PROVE Fresh'
  BY <1>2, <1>0, <1>a, <1>b, <1>c, <1>d, Moves
     DEF PutNotIdle, At, CallSteps, Fresh, None, Contexts, input, uart, history, ReaderSteps,
         WriterSteps, Frames
<1>3. ASSUME NEW p \in Procs, PutWrite(p) PROVE Fresh'
  <2>1. p \in Writers /\ holding' = ctx[p].c /\ holding' \in 0 .. put
    BY <1>0, <1>a, <1>3 DEF PutWrite, At, Write, Frames, ReaderSteps, Fresh
  <2>2. \A q \in Writers : ctx'[q].c \in 0 .. put
    BY <1>0, <1>a, <1>b, <1>3, Moves DEF PutWrite, Fresh, None
  <2> QED
    BY <1>3, <2>1, <2>2 DEF PutWrite, Fresh, output, input, history
<1>4. ASSUME NEW p \in Procs, PutWait(p) PROVE Fresh'
  BY <1>4, <1>0, <1>a, <1>b, <1>c, <1>d, Moves
     DEF PutWait, At, CallSteps, Fresh, None, Contexts, input, uart, history, ReaderSteps,
         WriterSteps, Frames
<1>5. ASSUME NEW p \in Procs, PutLock(p) PROVE Fresh'
  BY <1>5, <1>0, <1>a, <1>b, <1>c, <1>d, Moves
     DEF PutLock, At, CallSteps, Fresh, None, Contexts, output, input, uart, history, ReaderSteps,
         WriterSteps, Frames
<1>6. ASSUME NEW p \in Procs, PutStore(p) PROVE Fresh'
  <2>1. p \in Writers /\ ctx[p].c \in 0 .. put
    BY <1>0, <1>a, <1>6 DEF PutStore, At, Frames, ReaderSteps, Fresh
  <2>2. \A q \in Writers : ctx'[q].c \in 0 .. put
    BY <1>0, <1>a, <1>b, <1>6 DEF PutStore, Fresh, None, Contexts
  <2>3. out' \in [0 .. UART_OBLEN - 1 -> 0 .. put]
    BY <1>6, <2>1 DEF PutStore, Fresh
  <2> QED
    BY <1>6, <2>2, <2>3 DEF PutStore, Fresh, input, uart, history
<1>7. ASSUME NEW p \in Procs, PutUnlock(p) PROVE Fresh'
  BY <1>7, <1>0, <1>a, <1>b, <1>c, <1>d, Moves
     DEF PutUnlock, At, Fresh, None, User, Contexts, output, input, uart, history, ReaderSteps,
         WriterSteps, Frames
<1>8. ASSUME NEW p \in Procs, Getc(p) PROVE Fresh'
  BY <1>8, <1>0, <1>a, <1>b, <1>c, <1>d, Moves
     DEF Getc, At, CallSteps, Fresh, None, Contexts, output, uart, history, ReaderSteps,
         WriterSteps, Frames
<1>9. ASSUME NEW p \in Procs, GetRead(p) PROVE Fresh'
  BY <1>9, <1>0, <1>a, <1>b, <1>c, <1>d
     DEF GetRead, At, Fresh, None, Contexts, output, input, uart, history, ReaderSteps, WriterSteps,
         Frames
<1>10. ASSUME NEW p \in Procs, GetCount(p) PROVE Fresh'
  <2>1. got' \in Seq(Chars \cup {None})
    BY <1>c, <1>10, AppendProperties DEF GetCount, Fresh
  <2>2. \A q \in Writers : ctx'[q].c \in 0 .. put
    BY <1>0, <1>a, <1>b, <1>10, Moves DEF GetCount, Fresh, None
  <2> QED
    BY <1>10, <2>1, <2>2 DEF GetCount, Fresh, output, uart
<1>11. ASSUME NEW p \in Procs, Resume(p) PROVE Fresh'
  BY <1>11, <1>0, <1>a, <1>b, <1>c, <1>d, Moves
     DEF Resume, At, CallSteps, Fresh, None, Contexts, output, input, uart, history, ReaderSteps,
         WriterSteps, Frames
<1>12. CASE Interrupt
  BY <1>12, <1>0, <1>a, <1>b, <1>c, <1>d
     DEF Interrupt, HandlerAt, Fresh, None, Contexts, output, input, history, ReaderSteps,
         WriterSteps, Frames
<1>13. CASE Test
  BY <1>13, <1>0, <1>a, <1>b, <1>c, <1>d
     DEF Test, HandlerAt, HandlerSteps, Fresh, None, Contexts, output, input, uart, history,
         ReaderSteps, WriterSteps, Frames
<1>14. CASE Idle
  BY <1>14, <1>0, <1>a, <1>b, <1>c, <1>d
     DEF Idle, HandlerAt, HandlerSteps, Fresh, None, Contexts, input, uart, history, ReaderSteps,
         WriterSteps, Frames
<1>15. CASE Send
  BY <1>15, <1>0, <1>a, <1>b, <1>c, <1>d
     DEF Send, HandlerAt, HandlerSteps, Fresh, None, Write, Contexts, output, input, history,
         ReaderSteps, WriterSteps, Frames
<1>16. CASE Lock
  BY <1>16, <1>0, <1>a, <1>b, <1>c, <1>d
     DEF Lock, HandlerAt, HandlerSteps, Fresh, None, Contexts, output, input, uart, history,
         ReaderSteps, WriterSteps, Frames
<1>17. CASE Advance
  BY <1>17, <1>0, <1>a, <1>b, <1>c, <1>d
     DEF Advance, HandlerAt, Fresh, None, Contexts, input, uart, history, ReaderSteps, WriterSteps,
         Frames
<1>18. CASE Unlock
  BY <1>18, <1>0, <1>a, <1>b, <1>c, <1>d
     DEF Unlock, HandlerAt, HandlerSteps, Fresh, None, Contexts, output, input, uart, history,
         ReaderSteps, WriterSteps, Frames
<1>19. CASE More
  BY <1>19, <1>0, <1>a, <1>b, <1>c, <1>d
     DEF More, HandlerAt, HandlerSteps, Fresh, None, Contexts, output, input, uart, history,
         ReaderSteps, WriterSteps, Frames
<1>20. CASE Signal
  BY <1>20, <1>0, <1>a, <1>b, <1>c, <1>d
     DEF Signal, HandlerAt, Fresh, None, Contexts, input, uart, history, ReaderSteps,
         WriterSteps, Frames
<1>21. CASE Receive
  BY <1>21, <1>0, <1>a, <1>b, <1>c, <1>d
     DEF Receive, HandlerAt, Fresh, None, Contexts, output, input, history, ReaderSteps,
         WriterSteps, Frames
<1>22. CASE ReceiveStore
  BY <1>22, <1>0, <1>a, <1>b, <1>c, <1>d
     DEF ReceiveStore, HandlerAt, Fresh, None, Contexts, output, uart, ReaderSteps, WriterSteps,
         Frames
<1>23. CASE ReceiveMore
  BY <1>23, <1>0, <1>a, <1>b, <1>c, <1>d
     DEF ReceiveMore, HandlerAt, HandlerSteps, Fresh, None, Contexts, output, input, uart, history,
         ReaderSteps, WriterSteps, Frames
<1>24. CASE ReceiveSignal
  BY <1>24, <1>0, <1>a, <1>b, <1>c, <1>d
     DEF ReceiveSignal, HandlerAt, Fresh, None, Contexts, output, uart, history, ReaderSteps,
         WriterSteps, Frames
<1>25. CASE Transmit
  BY <1>25, <1>0, <1>a, <1>b, <1>c, <1>d
     DEF Transmit, Fresh, None, Contexts, output, input, history, ReaderSteps, WriterSteps, Frames
<1>26. CASE Arrive
  BY <1>26, <1>0, <1>a, <1>b, <1>c, <1>d
     DEF Arrive, Fresh, None, Contexts, output, input, ReaderSteps, WriterSteps, Frames
<1>27. ASSUME NEW p \in Procs, Sleep(p) PROVE Fresh'
  BY <1>27, <1>0, <1>a, <1>b, <1>c, <1>d, Moves
     DEF Sleep, At, CallSteps, Fresh, None, Contexts, uart, history, ReaderSteps, WriterSteps, Frames
<1>28. CASE SignalWake
  BY <1>28, <1>0, <1>a, <1>b, <1>c, <1>d, Moves
     DEF SignalWake, Fresh, None, Contexts, input, uart, history
<1>29. CASE ReceiveWake
  BY <1>29, <1>0, <1>a, <1>b, <1>c, <1>d, Moves
     DEF ReceiveWake, Fresh, None, Contexts, output, uart, history
<1>30. CASE UNCHANGED vars
  BY <1>30
     DEF vars, At, HandlerAt, CallSteps, HandlerSteps, Fresh, None, Write, User, Contexts, output,
         input, uart, history, ReaderSteps, WriterSteps, Frames
<1> QED
  BY <1>1, <1>2, <1>3, <1>4, <1>5, <1>6, <1>7, <1>8, <1>9, <1>10, <1>11, <1>12, <1>13, <1>14, <1>15,
     <1>16, <1>17, <1>18, <1>19, <1>20, <1>21, <1>22, <1>23, <1>24, <1>25, <1>26, <1>27, <1>28, <1>29, <1>30
     DEF Next, Calling, Handling

-----------------------------------------------------------------------------
(* Rings, and how often a character is in a sequence *)

(* Past the end of a ring is its start.                                   *)
LEMMA ModOnce ==
  ASSUME NEW L \in Nat \ {0}, NEW a \in 0 .. 2 * L - 1
  PROVE  a % L = IF a < L THEN a ELSE a - L
OBVIOUS

IsRing(S, L, buffer, start, count) ==
  /\ L \in Nat \ {0} /\ buffer \in [0 .. L - 1 -> S]
  /\ start \in 0 .. L - 1 /\ count \in 0 .. L

(* A ring as the sequence of what it holds.                               *)
LEMMA RingType ==
  ASSUME NEW S, NEW L, NEW buffer, NEW start, NEW count, IsRing(S, L, buffer, start, count)
  PROVE  /\ Ring(buffer, start, count, L) \in Seq(S)
         /\ Len(Ring(buffer, start, count, L)) = count
         /\ \A i \in 1 .. count : Ring(buffer, start, count, L)[i] = buffer[(start + i - 1) % L]
<1>0. /\ L \in Nat \ {0} /\ buffer \in [0 .. L - 1 -> S]
      /\ start \in 0 .. L - 1 /\ count \in 0 .. L
  BY DEF IsRing
<1>1. \A i \in 1 .. count : (start + i - 1) % L \in 0 .. L - 1
  BY <1>0, ModRange
<1>2. Ring(buffer, start, count, L) \in [1 .. count -> S]
  BY <1>0, <1>1 DEF Ring
<1>3. count \in Nat
  BY <1>0
<1> QED
  BY <1>0, <1>2, <1>3 DEF Ring

Stored(buffer, i, c) == [buffer EXCEPT ![i] = c]

(* Storing past the last character appends it.                            *)
LEMMA RingAppend ==
  ASSUME NEW S, NEW L, NEW buffer, NEW start, NEW count, IsRing(S, L, buffer, start, count),
         count < L, NEW c \in S, NEW after, after = Stored(buffer, (start + count) % L, c)
  PROVE  Ring(after, start, count + 1, L) = Append(Ring(buffer, start, count, L), c)
<1>0. /\ L \in Nat \ {0} /\ buffer \in [0 .. L - 1 -> S]
      /\ start \in 0 .. L - 1 /\ count \in 0 .. L - 1
  BY DEF IsRing
<1> DEFINE r == Ring(buffer, start, count, L)
           s == Ring(after, start, count + 1, L)
<1>1. count \in 0 .. L /\ count + 1 \in 0 .. L /\ (start + count) % L \in 0 .. L - 1
  BY <1>0, ModRange
<1>2. after \in [0 .. L - 1 -> S]
      /\ \A k \in 0 .. L - 1 : after[k] = IF k = (start + count) % L THEN c ELSE buffer[k]
  BY <1>0 DEF Stored
<1>3. /\ r \in Seq(S) /\ Len(r) = count
      /\ \A i \in 1 .. count : r[i] = buffer[(start + i - 1) % L]
  BY <1>0, <1>1, ModRange DEF Ring
<1>4. /\ s \in Seq(S) /\ Len(s) = count + 1
      /\ \A i \in 1 .. count + 1 : s[i] = after[(start + i - 1) % L]
  BY <1>0, <1>1, <1>2, ModRange DEF Ring
<1> HIDE DEF r, s
<1>5. ASSUME NEW i \in 1 .. count PROVE s[i] = r[i]
  <2>1. start + i - 1 \in 0 .. 2 * L - 1 /\ start + count \in 0 .. 2 * L - 1
    BY <1>0
  <2>2. (start + i - 1) % L # (start + count) % L
    BY <1>0, <2>1
  <2>3. (start + i - 1) % L \in 0 .. L - 1
    BY <1>0, ModRange
  <2>4. s[i] = after[(start + i - 1) % L]
    BY <1>0, <1>4
  <2>5. r[i] = buffer[(start + i - 1) % L]
    BY <1>0, <1>3
  <2> QED
    BY <1>0, <1>2, <2>2, <2>3, <2>4, <2>5
<1>6. s[count + 1] = c
  <2>1. s[count + 1] = after[(start + count) % L]
    BY <1>0, <1>1, <1>4
  <2> QED
    BY <1>0, <1>1, <1>2, <2>1
<1>7. /\ Append(r, c) \in Seq(S) /\ Len(Append(r, c)) = count + 1
      /\ \A i \in 1 .. count : Append(r, c)[i] = r[i]
      /\ Append(r, c)[count + 1] = c
  BY <1>0, <1>3, AppendProperties
<1>8. \A i \in 1 .. count + 1 : s[i] = Append(r, c)[i]
  BY <1>0, <1>1, <1>5, <1>6, <1>7
<1>9. s = Append(r, c)
  BY <1>0, <1>4, <1>7, <1>8, SeqEqual
<1> QED
  BY <1>0, <1>9 DEF r, s

(* Advancing the start takes the first character away.                    *)
LEMMA RingTail ==
  ASSUME NEW S, NEW L, NEW buffer, NEW start, NEW count, IsRing(S, L, buffer, start, count),
         count > 0
  PROVE  /\ Ring(buffer, start, count, L) \in Seq(S) /\ Ring(buffer, start, count, L) # <<>>
         /\ Head(Ring(buffer, start, count, L)) = buffer[start]
         /\ Tail(Ring(buffer, start, count, L)) = Ring(buffer, (start + 1) % L, count - 1, L)
<1>0. /\ L \in Nat \ {0} /\ buffer \in [0 .. L - 1 -> S]
      /\ start \in 0 .. L - 1 /\ count \in 1 .. L
  BY DEF IsRing
<1> DEFINE r == Ring(buffer, start, count, L)
           s == Ring(buffer, (start + 1) % L, count - 1, L)
<1>1. count \in 0 .. L /\ count - 1 \in 0 .. L /\ (start + 1) % L \in 0 .. L - 1
  BY <1>0, ModRange
<1>2. /\ r \in Seq(S) /\ Len(r) = count
      /\ \A i \in 1 .. count : r[i] = buffer[(start + i - 1) % L]
  BY <1>0, <1>1, ModRange DEF Ring
<1>3. /\ s \in Seq(S) /\ Len(s) = count - 1
      /\ \A i \in 1 .. count - 1 : s[i] = buffer[(((start + 1) % L) + i - 1) % L]
  BY <1>0, <1>1, ModRange DEF Ring
<1>4. ASSUME NEW i \in 1 .. count - 1 PROVE s[i] = r[i + 1]
  <2>0. L \in Nat \ {0} /\ start \in 0 .. L - 1 /\ count \in 1 .. L
    BY <1>0
  <2>1. start + 1 \in 0 .. 2 * L - 1 /\ start + i \in 0 .. 2 * L - 1
    BY <2>0
  <2>2. ((start + 1) % L) + i - 1 \in 0 .. 2 * L - 1
    BY <1>0, <1>1
  <2>3. (start + 1) % L = IF start + 1 < L THEN start + 1 ELSE start + 1 - L
    BY <2>0, <2>1
  <2>4. (start + i) % L = IF start + i < L THEN start + i ELSE start + i - L
    BY <2>0, <2>1
  <2>5. (((start + 1) % L) + i - 1) % L = IF ((start + 1) % L) + i - 1 < L THEN ((start + 1) % L) + i - 1
                                        ELSE ((start + 1) % L) + i - 1 - L
    BY <2>0, <2>2
  <2>6. (((start + 1) % L) + i - 1) % L = (start + i) % L
    <3>1. CASE start + 1 < L
      <4>1. ((start + 1) % L) + i - 1 = start + i
        BY <2>0, <2>3, <3>1
      <4> QED
        BY <1>0, <4>1
    <3>2. CASE start + 1 = L
      <4>1. ((start + 1) % L) + i - 1 = i - 1
        BY <2>0, <2>3, <3>2
      <4>2. start + i >= L /\ start + i - L = i - 1 /\ i - 1 < L
        BY <1>0, <3>2
      <4> QED
        BY <2>0, <2>4, <2>5, <4>1, <4>2
    <3> QED
      BY <1>0, <3>1, <3>2
  <2>7. i + 1 \in 1 .. count /\ start + (i + 1) - 1 = start + i
    BY <1>0
  <2> QED
    BY <1>0, <1>2, <1>3, <2>6, <2>7
<1>5. r[1] = buffer[start]
  <2>1. 1 \in 1 .. count /\ start + 1 - 1 = start /\ start \in 0 .. 2 * L - 1
    BY <1>0
  <2>2. start % L = start
    BY <1>0, <2>1, ModOnce
  <2> QED
    BY <1>0, <1>2, <2>1, <2>2
<1> HIDE DEF r, s
<1>6. r # <<>> /\ Tail(r) \in Seq(S) /\ Len(Tail(r)) = count - 1
      /\ \A i \in 1 .. count - 1 : Tail(r)[i] = r[i + 1]
  BY <1>0, <1>2
<1>7. Tail(r) = s
  BY <1>0, <1>3, <1>4, <1>6, SeqEqual
<1>8. Head(r) = buffer[start]
  BY <1>0, <1>2, <1>5
<1> QED
  BY <1>0, <1>2, <1>6, <1>7, <1>8 DEF r, s

Places(c, seq) == {i \in DOMAIN seq : seq[i] = c}

(* How often a character is in a sequence, appended to or cut.            *)
LEMMA TimesIs == ASSUME NEW c, NEW s PROVE Times(c, s) = Cardinality(Places(c, s))
BY DEF Times, Places

LEMMA TimesType ==
  ASSUME NEW S, NEW s \in Seq(S), NEW c
  PROVE  /\ IsFiniteSet(Places(c, s)) /\ Times(c, s) \in Nat
         /\ c \notin S => Times(c, s) = 0
<1>1. IsFiniteSet(1 .. Len(s)) /\ DOMAIN s = 1 .. Len(s) /\ \A i \in DOMAIN s : s[i] \in S
  BY FS_Interval
<1>2. IsFiniteSet(Places(c, s))
  BY <1>1, FS_Subset DEF Places
<1>3. c \notin S => Places(c, s) = {}
  BY <1>1 DEF Places
<1> QED
  BY <1>2, <1>3, TimesIs, FS_CardinalityType, FS_EmptySet

LEMMA TimesAppend ==
  ASSUME NEW S, NEW s \in Seq(S), NEW x \in S, NEW c
  PROVE  Times(c, Append(s, x)) = Times(c, s) + IF x = c THEN 1 ELSE 0
<1> DEFINE n == Len(s) + 1
<1>1. /\ DOMAIN s = 1 .. Len(s) /\ DOMAIN Append(s, x) = 1 .. n /\ n \notin DOMAIN s /\ Len(s) \in Nat
      /\ \A i \in 1 .. Len(s) : Append(s, x)[i] = s[i]
      /\ Append(s, x)[n] = x
  BY AppendProperties
<1>2. IsFiniteSet(Places(c, s)) /\ Times(c, s) \in Nat
  BY TimesType
<1>3. n \notin Places(c, s)
  BY <1>1 DEF Places
<1>4. CASE x = c
  <2>1. Places(c, Append(s, x)) = Places(c, s) \cup {n}
    BY <1>1, <1>4 DEF Places
  <2>2. Cardinality(Places(c, s) \cup {n}) = Cardinality(Places(c, s)) + 1
    BY <1>2, <1>3, FS_AddElement
  <2> QED
    BY <1>4, <2>1, <2>2, TimesIs
<1>5. CASE x # c
  <2>1. Places(c, Append(s, x)) = Places(c, s)
    BY <1>1, <1>5 DEF Places
  <2>2. Times(c, Append(s, x)) = Times(c, s)
    BY <2>1, TimesIs
  <2> QED
    BY <1>2, <1>5, <2>2
<1> QED
  BY <1>4, <1>5

LEMMA TimesOne ==
  ASSUME NEW x, NEW c
  PROVE  Times(c, <<x>>) = IF x = c THEN 1 ELSE 0
<1>1. Places(c, <<x>>) = IF x = c THEN {1} ELSE {}
  BY DEF Places
<1> QED
  BY <1>1, TimesIs, FS_EmptySet, FS_Singleton

LEMMA TimesTail ==
  ASSUME NEW S, NEW s \in Seq(S), s # <<>>, NEW c
  PROVE  Times(c, s) = Times(c, Tail(s)) + IF Head(s) = c THEN 1 ELSE 0
<1> DEFINE t == Tail(s)
           rest == Places(c, s) \ {1}
<1>1. /\ Len(s) \in Nat \ {0} /\ t \in Seq(S) /\ Len(t) = Len(s) - 1
      /\ DOMAIN s = 1 .. Len(s) /\ DOMAIN t = 1 .. Len(s) - 1
      /\ \A i \in 1 .. Len(s) - 1 : t[i] = s[i + 1]
      /\ Head(s) = s[1]
  OBVIOUS
<1> HIDE DEF t
<1>2. /\ IsFiniteSet(Places(c, s)) /\ IsFiniteSet(Places(c, t))
      /\ Times(c, s) \in Nat /\ Times(c, t) \in Nat
  BY <1>1, TimesType
<1>3. ExistsBijection(Places(c, t), rest)
  <2> DEFINE f == [i \in Places(c, t) |-> i + 1]
  <2>1. f \in [Places(c, t) -> rest]
    BY <1>1 DEF Places
  <2>2. \A i, j \in Places(c, t) : f[i] = f[j] => i = j
    BY <1>1 DEF Places
  <2>3. \A j \in rest : \E i \in Places(c, t) : f[i] = j
    <3> SUFFICES ASSUME NEW j \in rest PROVE j - 1 \in Places(c, t) /\ f[j - 1] = j
      OBVIOUS
    <3>1. j \in 2 .. Len(s) /\ s[j] = c
      BY <1>1 DEF Places
    <3>2. j - 1 \in 1 .. Len(s) - 1 /\ (j - 1) + 1 = j
      BY <1>1, <3>1
    <3>3. j - 1 \in Places(c, t)
      BY <1>1, <3>1, <3>2 DEF Places
    <3> QED
      BY <3>2, <3>3
  <2> HIDE DEF f, rest
  <2>4. f \in Bijection(Places(c, t), rest)
    BY <2>1, <2>2, <2>3, Fun_IsBij
  <2> QED
    BY <2>4 DEF ExistsBijection
<1>4. Cardinality(rest) = Cardinality(Places(c, t))
  BY <1>2, <1>3, FS_Bijection
<1>5. Cardinality(rest) = IF 1 \in Places(c, s) THEN Cardinality(Places(c, s)) - 1 ELSE Cardinality(Places(c, s))
  BY <1>2, FS_RemoveElement
<1>6. 1 \in Places(c, s) <=> Head(s) = c
  BY <1>1 DEF Places
<1>7. Times(c, s) = Cardinality(Places(c, s)) /\ Times(c, t) = Cardinality(Places(c, t))
  BY TimesIs
<1>8. Times(c, s) = Times(c, t) + IF Head(s) = c THEN 1 ELSE 0
  BY <1>2, <1>4, <1>5, <1>6, <1>7
<1> QED
  BY <1>8 DEF t

(* A character moves from one sequence to the next.                       *)
LEMMA MoveHead ==
  ASSUME NEW S, NEW s \in Seq(S), NEW t \in Seq(S), t # <<>>
  PROVE  Append(s, Head(t)) \o Tail(t) = s \o t
<1>1. Head(t) \in S /\ Tail(t) \in Seq(S) /\ Len(Tail(t)) = Len(t) - 1 /\ Len(t) \in Nat \ {0}
  OBVIOUS
<1>2. Append(s, Head(t)) \in Seq(S) /\ Len(Append(s, Head(t))) = Len(s) + 1
  BY <1>1
<1>3. /\ Append(s, Head(t)) \o Tail(t) \in Seq(S) /\ s \o t \in Seq(S)
      /\ Len(Append(s, Head(t)) \o Tail(t)) = Len(s \o t)
  BY <1>1, <1>2
<1>4. \A i \in 1 .. Len(s \o t) : (Append(s, Head(t)) \o Tail(t))[i] = (s \o t)[i]
  BY <1>1, <1>2
<1> QED
  BY <1>3, <1>4, SeqEqual

LEMMA AppendLast ==
  ASSUME NEW S, NEW s \in Seq(S), NEW t \in Seq(S), NEW c \in S
  PROVE  s \o Append(t, c) = Append(s \o t, c)
<1>1. /\ s \o Append(t, c) \in Seq(S) /\ Append(s \o t, c) \in Seq(S)
      /\ Len(s \o Append(t, c)) = Len(Append(s \o t, c))
  OBVIOUS
<1>2. \A i \in 1 .. Len(s \o Append(t, c)) : (s \o Append(t, c))[i] = Append(s \o t, c)[i]
  OBVIOUS
<1> QED
  BY <1>1, <1>2, SeqEqual

(* The input side keeps the order.                                        *)
LEMMA InputStep ==
  ASSUME TypeOK, Frames, Fresh, InputInOrder, [Next]_vars,
         \A p \in Readers : ctx[p].at = "count" => icount > 0
  PROVE  InputInOrder'
<1> DEFINE S == Chars \cup {None}
           r == Ring(in, istart, icount, UART_IBLEN)
<1>0. /\ in \in [0 .. UART_IBLEN - 1 -> S] /\ istart \in 0 .. UART_IBLEN - 1 /\ icount \in 0 .. UART_IBLEN
      /\ UART_IBLEN \in Nat \ {0} /\ handler.c \in S /\ \A p \in Procs : ctx[p].c \in S
      /\ accepted \in Seq(S) /\ got \in Seq(S)
  BY ConsoleAssumption DEF TypeOK, Fresh
<1>1r. r \in Seq(S)
  BY <1>0, RingType DEF IsRing
<1> HIDE DEF S
<1>b. ASSUME in' = in, istart' = istart, icount' = icount, accepted' = accepted, got' = got
      PROVE  InputInOrder'
  BY <1>b DEF InputInOrder, Ring
<1>1. ASSUME NEW p \in Procs, Putc(p) PROVE InputInOrder'
  BY <1>1, <1>b DEF Putc, input
<1>2. ASSUME NEW p \in Procs, PutNotIdle(p) PROVE InputInOrder'
  BY <1>2, <1>b DEF PutNotIdle, input, history
<1>3. ASSUME NEW p \in Procs, PutWrite(p) PROVE InputInOrder'
  BY <1>3, <1>b DEF PutWrite, input, history
<1>4. ASSUME NEW p \in Procs, PutWait(p) PROVE InputInOrder'
  BY <1>4, <1>b DEF PutWait, input, history
<1>5. ASSUME NEW p \in Procs, PutLock(p) PROVE InputInOrder'
  BY <1>5, <1>b DEF PutLock, input, history
<1>6. ASSUME NEW p \in Procs, PutStore(p) PROVE InputInOrder'
  BY <1>6, <1>b DEF PutStore, input, history
<1>7. ASSUME NEW p \in Procs, PutUnlock(p) PROVE InputInOrder'
  BY <1>7, <1>b DEF PutUnlock, input, history
<1>8. ASSUME NEW p \in Procs, Getc(p) PROVE InputInOrder'
  BY <1>8, <1>b DEF Getc, history
<1>9. ASSUME NEW p \in Procs, GetRead(p) PROVE InputInOrder'
  BY <1>9, <1>b DEF GetRead, input, history
<1>10. ASSUME NEW p \in Procs, GetCount(p) PROVE InputInOrder'
  <2>1. p \in Readers /\ ctx[p].at = "count"
    BY <1>10 DEF GetCount, At, Frames, WriterSteps, Procs
  <2>2. icount \in 1 .. UART_IBLEN /\ icount' = icount - 1 /\ istart' = (istart + 1) % UART_IBLEN
        /\ in' = in /\ accepted' = accepted /\ got' = Append(got, in[istart])
    BY <1>0, <1>10, <2>1 DEF GetCount, Frames
  <2>r. IsRing(S, UART_IBLEN, in, istart, icount) /\ icount > 0
    BY <1>0, <2>2 DEF IsRing
  <2>3. r # <<>> /\ Head(r) = in[istart] /\ Tail(r) = Ring(in, (istart + 1) % UART_IBLEN, icount - 1, UART_IBLEN)
    BY <2>r, RingTail
  <2> HIDE DEF r
  <2>4. Append(got, Head(r)) \o Tail(r) = got \o r
    BY <1>0, <1>1r, <2>3, MoveHead
  <2>5. InputInOrder' <=> Append(got, Head(r)) \o Tail(r) = accepted
    BY <2>2, <2>3 DEF InputInOrder
  <2> QED
    BY <2>4, <2>5 DEF InputInOrder, r
<1>11. ASSUME NEW p \in Procs, Resume(p) PROVE InputInOrder'
  BY <1>11, <1>b DEF Resume, input, history
<1>12. CASE Interrupt
  BY <1>12, <1>b DEF Interrupt, input, history
<1>13. CASE Test
  BY <1>13, <1>b DEF Test, input, history
<1>14. CASE Idle
  BY <1>14, <1>b DEF Idle, input, history
<1>15. CASE Send
  BY <1>15, <1>b DEF Send, input, history
<1>16. CASE Lock
  BY <1>16, <1>b DEF Lock, input, history
<1>17. CASE Advance
  BY <1>17, <1>b DEF Advance, input, history
<1>18. CASE Unlock
  BY <1>18, <1>b DEF Unlock, input, history
<1>19. CASE More
  BY <1>19, <1>b DEF More, input, history
<1>20. CASE Signal
  BY <1>20, <1>b DEF Signal, input, history
<1>21. CASE Receive
  BY <1>21, <1>b DEF Receive, input, history
<1>22. CASE ReceiveStore
  <2>1. icount \in 0 .. UART_IBLEN - 1
    BY <1>0, <1>22 DEF ReceiveStore, HandlerAt, Frames
  <2>2. /\ in' = [in EXCEPT ![(istart + icount) % UART_IBLEN] = handler.c] /\ icount' = icount + 1
        /\ istart' = istart /\ accepted' = Append(accepted, handler.c) /\ got' = got
    BY <1>22 DEF ReceiveStore
  <2>r. IsRing(S, UART_IBLEN, in, istart, icount) /\ icount < UART_IBLEN /\ handler.c \in S
    BY <1>0, <2>1 DEF IsRing
  <2>3. Ring(in', istart, icount + 1, UART_IBLEN) = Append(r, handler.c)
    <3>1. in' = Stored(in, (istart + icount) % UART_IBLEN, handler.c)
      BY <2>2 DEF Stored
    <3> QED
      BY <2>r, <3>1, RingAppend
  <2> HIDE DEF r
  <2>4. got \o Append(r, handler.c) = Append(got \o r, handler.c)
    BY <1>0, <1>1r, AppendLast
  <2>5. InputInOrder' <=> got \o Append(r, handler.c) = Append(accepted, handler.c)
    BY <2>2, <2>3 DEF InputInOrder
  <2> QED
    BY <2>4, <2>5 DEF InputInOrder, r
<1>23. CASE ReceiveMore
  BY <1>23, <1>b DEF ReceiveMore, input, history
<1>24. CASE ReceiveSignal
  BY <1>24, <1>b DEF ReceiveSignal, history
<1>25. CASE Transmit
  BY <1>25, <1>b DEF Transmit, input, history
<1>26. CASE Arrive
  BY <1>26, <1>b DEF Arrive, input
<1>27. ASSUME NEW p \in Procs, Sleep(p) PROVE InputInOrder'
  BY <1>27, <1>b DEF Sleep, history
<1>28. CASE SignalWake
  BY <1>28, <1>b DEF SignalWake, input, history
<1>29. CASE ReceiveWake
  BY <1>29, <1>b DEF ReceiveWake, history
<1>30. CASE UNCHANGED vars
  BY <1>30, <1>b DEF vars, input, history
<1> QED
  BY <1>1, <1>2, <1>3, <1>4, <1>5, <1>6, <1>7, <1>8, <1>9, <1>10, <1>11, <1>12, <1>13, <1>14, <1>15,
     <1>16, <1>17, <1>18, <1>19, <1>20, <1>21, <1>22, <1>23, <1>24, <1>25, <1>26, <1>27, <1>28, <1>29, <1>30
     DEF Next, Calling, Handling

(* The part of the ring that is still to be sent.                         *)
LEMMA RingRest ==
  ASSUME NEW S, NEW L, NEW buffer, NEW start, NEW count, IsRing(S, L, buffer, start, count)
  PROVE  /\ Ring(buffer, start, count, L) \in Seq(S)
         /\ SubSeq(Ring(buffer, start, count, L), 1, count) = Ring(buffer, start, count, L)
         /\ count > 0 => SubSeq(Ring(buffer, start, count, L), 2, count) = Tail(Ring(buffer, start, count, L))
<1> DEFINE r == Ring(buffer, start, count, L)
<1>1. r \in Seq(S) /\ Len(r) = count
  BY RingType
<1>2. ASSUME count > 0 PROVE r # <<>>
  BY <1>2, RingTail
<1> HIDE DEF r
<1>3. SubSeq(r, 1, count) = r
  BY <1>1, SubSeqFull
<1>4. ASSUME count > 0 PROVE SubSeq(r, 2, count) = Tail(r)
  BY <1>1, <1>2, <1>4, TailIsSubSeq
<1> QED
  BY <1>1, <1>3, <1>4 DEF r

With(c) == {p \in Writers : ctx[p].c = c}
Rest    == SubSeq(Pending, Sent + 1, ocount)
Total(c) == Times(c, line) + Times(c, <<holding>>) + Times(c, Rest) + Cardinality(With(c))

(* Each step moves a character at most from one place to the next.        *)
LEMMA OutputStep ==
  ASSUME TypeOK, Frames, Transmitter, Fresh, OutputConserved, [Next]_vars,
         \A p \in Writers : ctx[p].at = "store" => ocount < UART_OBLEN
  PROVE  OutputConserved'
<1> DEFINE S == 0 .. put
<1>0. ctx \in [Procs -> Contexts] /\ handler \in Handlers
  BY DEF TypeOK, Contexts, Handlers
<1>a. Writers \cap Readers = {} /\ Procs = Writers \cup Readers
  BY ConsoleAssumption DEF Procs
<1>1r. IsRing(S, UART_OBLEN, out, ostart, ocount)
  BY ConsoleAssumption DEF TypeOK, Fresh, IsRing
<1> HIDE DEF S
<1>2r. Sent \in {0, 1} /\ (Sent = 1 => ocount > 0) /\ Pending = Ring(out, ostart, ocount, UART_OBLEN)
  BY DEF Sent, Frames, Pending
<1>3r. /\ Pending \in Seq(S)
       /\ Sent = 0 => Rest = Pending
       /\ Sent = 1 => Rest = Tail(Pending) /\ Pending # <<>>
  <2>1. Pending \in Seq(S)
    BY <1>1r, <1>2r, RingRest
  <2>2. CASE Sent = 0
    BY <1>1r, <1>2r, <2>1, <2>2, RingRest DEF Rest
  <2>3. CASE Sent = 1
    <3>0. ocount > 0
      BY <1>2r, <2>3
    <3>1. SubSeq(Pending, 2, ocount) = Tail(Pending)
      BY <1>1r, <3>0, RingRest DEF Pending
    <3>2. Pending # <<>>
      BY <1>1r, <3>0, RingTail DEF Pending
    <3>3. Rest = SubSeq(Pending, 2, ocount)
      BY <2>3 DEF Rest
    <3>4. Rest = Tail(Pending)
      BY <3>1, <3>3
    <3> QED
      BY <2>1, <2>3, <3>2, <3>4
  <2> QED
    BY <1>2r, <2>1, <2>2, <2>3
<1>4r. Rest \in Seq(S)
  BY <1>2r, <1>3r
<1>t. /\ \A c \in 1 .. put : Total(c) = 1
      /\ (\A c \in 1 .. put' : Total(c)' = 1) => OutputConserved'
  BY DEF OutputConserved, Total, Rest, With
<1>c. /\ put \in Nat /\ line \in Seq(S) /\ holding \in S /\ \A p \in Writers : ctx[p].c \in S
  BY DEF Fresh, S
<1>n. \A c : /\ Times(c, line) \in Nat /\ Times(c, <<holding>>) \in Nat /\ Times(c, Rest) \in Nat
                     /\ IsFiniteSet(With(c)) /\ Cardinality(With(c)) \in Nat
  <2> SUFFICES ASSUME NEW c
               PROVE  /\ Times(c, line) \in Nat /\ Times(c, <<holding>>) \in Nat /\ Times(c, Rest) \in Nat
                      /\ IsFiniteSet(With(c)) /\ Cardinality(With(c)) \in Nat
    OBVIOUS
  <2>1. Times(c, line) \in Nat /\ Times(c, Rest) \in Nat
    BY <1>4r, <1>c, TimesType
  <2>2. Times(c, <<holding>>) \in Nat
    BY TimesOne
  <2>3. IsFiniteSet(With(c))
    <3>1. IsFiniteSet(Writers) /\ With(c) \subseteq Writers
      BY ConsoleAssumption, FS_Subset DEF Procs, With
    <3> QED
      BY <3>1, FS_Subset
  <2> QED
    BY <2>1, <2>2, <2>3, FS_CardinalityType
<1>b. ASSUME line' = line, holding' = holding, put' = put, out' = out, ostart' = ostart, ocount' = ocount,
             Sent' = Sent, \A p \in Writers : ctx'[p].c = ctx[p].c
      PROVE  OutputConserved'
  <2>1. Rest' = Rest
    BY <1>b DEF Rest, Pending, Ring
  <2>2. \A c \in 1 .. put : With(c)' = With(c)
    BY <1>b DEF With
  <2>3. \A c \in 1 .. put : Total(c)' = Total(c)
    BY <1>b, <2>1, <2>2 DEF Total
  <2> QED
    BY <1>b, <1>t, <2>3
<1>1. ASSUME NEW p \in Procs, Putc(p) PROVE OutputConserved'
  <2>1. /\ put' = put + 1 /\ line' = line /\ holding' = holding
        /\ Rest' = Rest /\ p \in Writers /\ ctx[p].c = None
        /\ \A q \in Procs : ctx'[q].c = IF q = p THEN put + 1 ELSE ctx[q].c
    BY <1>0, <1>1 DEF Putc, At, Frames, User, Contexts, Rest, Pending, Ring, Sent, output, uart
  <2>2. ASSUME NEW c \in 1 .. put PROVE Total(c)' = 1
    <3>1. With(c)' = With(c)
      BY <1>a, <1>c, <2>1 DEF With, None
    <3> QED
      BY <1>t, <2>1, <3>1 DEF Total
  <2>3. ASSUME NEW c, c = put + 1 PROVE Total(c)' = 1
    <3>1. c \notin S /\ c \in Int /\ c # None
      BY <1>c, <2>3 DEF S, None
    <3>2. Times(c, line) = 0 /\ Times(c, Rest) = 0
      BY <1>4r, <1>c, <3>1, TimesType
    <3>3. Times(c, <<holding>>) = 0
      BY <1>c, <3>1, TimesOne
    <3>4. With(c)' = {p}
      BY <1>a, <1>c, <2>1, <2>3, <3>1 DEF With
    <3>5. Cardinality(With(c)') = 1
      BY <3>4, FS_Singleton
    <3>6. Total(c)' = Times(c, line) + Times(c, <<holding>>) + Times(c, Rest) + Cardinality(With(c)')
      BY <2>1 DEF Total
    <3> QED
      BY <3>2, <3>3, <3>5, <3>6
  <2> QED
    <3>1. ASSUME NEW c \in 1 .. put' PROVE Total(c)' = 1
      <4>1. c \in 1 .. put \/ c = put + 1
        BY <1>c, <2>1
      <4> QED
        BY <2>2, <2>3, <4>1
    <3> QED
      BY <1>t, <3>1
<1>2. ASSUME NEW p \in Procs, PutNotIdle(p) PROVE OutputConserved'
  BY <1>2, <1>0, <1>a, <1>b, Moves
     DEF PutNotIdle, At, CallSteps, Sent, Frames, WriterSteps, ReaderSteps, None, uart, history
<1>3. ASSUME NEW p \in Procs, PutWrite(p) PROVE OutputConserved'
  <2>1. p \in Writers /\ holding = None
    BY <1>0, <1>a, <1>3 DEF PutWrite, At, Frames, ReaderSteps, Transmitter
  <2>2. /\ put' = put /\ line' = line /\ holding' = ctx[p].c /\ Rest' = Rest
        /\ \A q \in Procs : ctx'[q].c = IF q = p THEN None ELSE ctx[q].c
    BY <1>0, <1>3, Moves DEF PutWrite, Write, Rest, Pending, Ring, Sent, output, history
  <2>3. ASSUME NEW c \in 1 .. put PROVE Total(c)' = 1
    <3>1. With(c)' = IF ctx[p].c = c THEN With(c) \ {p} ELSE With(c)
      BY <1>a, <2>1, <2>2 DEF With, None
    <3>2. Cardinality(With(c)') = Cardinality(With(c)) - IF ctx[p].c = c THEN 1 ELSE 0
      <4>1. p \in With(c) <=> ctx[p].c = c
        BY <2>1 DEF With
      <4>2. IsFiniteSet(With(c)) /\ Cardinality(With(c)) \in Nat
        BY <1>n
      <4>3. Cardinality(With(c) \ {p}) = IF p \in With(c) THEN Cardinality(With(c)) - 1 ELSE Cardinality(With(c))
        BY <4>2, FS_RemoveElement
      <4> QED
        BY <3>1, <4>1, <4>2, <4>3
    <3>3. Times(c, <<holding>>) = 0 /\ Times(c, <<ctx[p].c>>) = IF ctx[p].c = c THEN 1 ELSE 0
      BY <2>1, TimesOne DEF None
    <3>4. Total(c) = 1
      BY <1>t
    <3> QED
      BY <1>n, <2>2, <3>2, <3>3, <3>4 DEF Total
  <2> QED
    BY <1>t, <2>2, <2>3
<1>4. ASSUME NEW p \in Procs, PutWait(p) PROVE OutputConserved'
  BY <1>4, <1>0, <1>a, <1>b, Moves
     DEF PutWait, At, CallSteps, Sent, Frames, WriterSteps, ReaderSteps, None, uart, history
<1>5. ASSUME NEW p \in Procs, PutLock(p) PROVE OutputConserved'
  BY <1>5, <1>0, <1>a, <1>b, Moves
     DEF PutLock, At, CallSteps, Sent, Frames, WriterSteps, ReaderSteps, None, output, uart, history
<1>6. ASSUME NEW p \in Procs, PutStore(p) PROVE OutputConserved'
  <2>1. p \in Writers /\ ocount < UART_OBLEN /\ ctx[p].c \in S
    BY <1>0, <1>a, <1>c, <1>6 DEF PutStore, At, Frames, ReaderSteps
  <2>2. /\ put' = put /\ line' = line /\ holding' = holding /\ Sent' = Sent
        /\ ostart' = ostart /\ ocount' = ocount + 1
        /\ out' = Stored(out, (ostart + ocount) % UART_OBLEN, ctx[p].c)
        /\ \A q \in Procs : ctx'[q].c = IF q = p THEN None ELSE ctx[q].c
    BY <1>0, <1>6 DEF PutStore, Stored, Sent, Contexts, uart, history
  <2>3. Pending' = Append(Pending, ctx[p].c)
    <3>1. Ring(out', ostart, ocount + 1, UART_OBLEN) = Append(Ring(out, ostart, ocount, UART_OBLEN), ctx[p].c)
      BY <1>1r, <2>1, <2>2, RingAppend
    <3> QED
      BY <2>2, <3>1 DEF Pending
  <2>4. Pending' \in Seq(S) /\ Len(Pending') = ocount + 1
    <3>1. Len(Pending) = ocount
      BY <1>1r, <1>2r, RingType
    <3> QED
      BY <1>3r, <2>1, <2>3, <3>1
  <2>5. Rest' = Append(Rest, ctx[p].c)
    <3>1. CASE Sent = 0
      <4>1. Rest' = SubSeq(Pending', 1, Len(Pending'))
        BY <2>2, <2>4, <3>1 DEF Rest
      <4> QED
        BY <1>3r, <2>3, <2>4, <3>1, <4>1, SubSeqFull
    <3>2. CASE Sent = 1
      <4>1. Rest' = SubSeq(Pending', 2, Len(Pending'))
        BY <2>2, <2>4, <3>2 DEF Rest
      <4>2. Pending' # <<>>
        BY <1>3r, <2>1, <2>3, AppendProperties
      <4>3. Rest' = Tail(Append(Pending, ctx[p].c))
        BY <2>3, <2>4, <4>1, <4>2, TailIsSubSeq
      <4> QED
        BY <1>3r, <3>2, <4>3, HeadTailAppend
    <3> QED
      BY <1>2r, <3>1, <3>2
  <2>6. ASSUME NEW c \in 1 .. put PROVE Total(c)' = 1
    <3>1. With(c)' = IF ctx[p].c = c THEN With(c) \ {p} ELSE With(c)
      BY <1>a, <2>1, <2>2 DEF With, None
    <3>2. Cardinality(With(c)') = Cardinality(With(c)) - IF ctx[p].c = c THEN 1 ELSE 0
      <4>1. p \in With(c) <=> ctx[p].c = c
        BY <2>1 DEF With
      <4>2. IsFiniteSet(With(c)) /\ Cardinality(With(c)) \in Nat
        BY <1>n
      <4>3. Cardinality(With(c) \ {p}) = IF p \in With(c) THEN Cardinality(With(c)) - 1 ELSE Cardinality(With(c))
        BY <4>2, FS_RemoveElement
      <4> QED
        BY <3>1, <4>1, <4>2, <4>3
    <3>3. Times(c, Append(Rest, ctx[p].c)) = Times(c, Rest) + IF ctx[p].c = c THEN 1 ELSE 0
      BY <1>4r, <2>1, TimesAppend
    <3>4. Total(c) = 1
      BY <1>t
    <3>5. Total(c)' = Times(c, line) + Times(c, <<holding>>) + Times(c, Append(Rest, ctx[p].c)) + Cardinality(With(c)')
      BY <2>2, <2>5 DEF Total
    <3> QED
      BY <1>n, <3>2, <3>3, <3>4, <3>5 DEF Total
  <2> QED
    BY <1>t, <2>2, <2>6
<1>7. ASSUME NEW p \in Procs, PutUnlock(p) PROVE OutputConserved'
  BY <1>7, <1>0, <1>a, <1>b, Moves
     DEF PutUnlock, At, Sent, Frames, WriterSteps, ReaderSteps, None, output, uart, history
<1>8. ASSUME NEW p \in Procs, Getc(p) PROVE OutputConserved'
  BY <1>8, <1>0, <1>a, <1>b, Moves
     DEF Getc, At, CallSteps, Sent, Frames, WriterSteps, ReaderSteps, None, output, uart, history
<1>9. ASSUME NEW p \in Procs, GetRead(p) PROVE OutputConserved'
  BY <1>9, <1>0, <1>a, <1>b
     DEF GetRead, At, Sent, Frames, WriterSteps, ReaderSteps, None, output, uart, history
<1>10. ASSUME NEW p \in Procs, GetCount(p) PROVE OutputConserved'
  BY <1>10, <1>0, <1>a, <1>b, Moves
     DEF GetCount, At, Sent, Frames, WriterSteps, ReaderSteps, None, output, uart
<1>11. ASSUME NEW p \in Procs, Resume(p) PROVE OutputConserved'
  BY <1>11, <1>0, <1>a, <1>b, Moves
     DEF Resume, At, CallSteps, Sent, Frames, WriterSteps, ReaderSteps, None, output, uart, history
<1>12. CASE Interrupt
  BY <1>12, <1>0, <1>a, <1>b
     DEF Interrupt, HandlerAt, Sent, Frames, WriterSteps, ReaderSteps, None, Off, output, history
<1>13. CASE Test
  BY <1>13, <1>0, <1>a, <1>b, HandlerMoves
     DEF Test, HandlerAt, HandlerSteps, Sent, Frames, WriterSteps, ReaderSteps, None, output, uart,
         history
<1>14. CASE Idle
  BY <1>14, <1>0, <1>a, <1>b, HandlerMoves
     DEF Idle, HandlerAt, HandlerSteps, Sent, Frames, WriterSteps, ReaderSteps, None, After, uart,
         history
<1>15. CASE Send
  <2>1. Sent = 0 /\ Sent' = 1 /\ holding = None /\ ocount > 0
    BY <1>0, <1>15, HandlerMoves DEF Send, HandlerAt, HandlerSteps, Sent, Frames, Transmitter
  <2>2. /\ put' = put /\ line' = line /\ holding' = out[ostart] /\ Pending' = Pending /\ ocount' = ocount
        /\ \A c \in 1 .. put : With(c)' = With(c)
    BY <1>15 DEF Send, Write, Pending, Ring, With, output, history
  <2>3. /\ Pending # <<>> /\ Head(Pending) = out[ostart]
        /\ SubSeq(Pending, 2, ocount) = Tail(Pending)
    <3>1. ocount > 0
      BY <2>1
    <3>2. Pending # <<>> /\ Head(Pending) = out[ostart]
      BY <1>1r, <3>1, RingTail DEF Pending
    <3>3. SubSeq(Pending, 2, ocount) = Tail(Pending)
      BY <1>1r, <3>1, RingRest DEF Pending
    <3> QED
      BY <3>2, <3>3
  <2>4. Rest = Pending /\ Rest' = Tail(Pending)
    <3>1. Rest' = SubSeq(Pending, 2, ocount)
      BY <2>1, <2>2 DEF Rest
    <3> QED
      BY <1>3r, <2>1, <2>3, <3>1
  <2>5. ASSUME NEW c \in 1 .. put PROVE Total(c)' = 1
    <3>1. Times(c, Pending) = Times(c, Tail(Pending)) + IF Head(Pending) = c THEN 1 ELSE 0
      BY <1>3r, <2>3, TimesTail
    <3>2. Times(c, <<holding>>) = 0 /\ Times(c, <<holding'>>) = IF Head(Pending) = c THEN 1 ELSE 0
      BY <2>1, <2>2, <2>3, TimesOne DEF None
    <3>3. Total(c) = 1
      BY <1>t
    <3>4. Total(c)' = Times(c, line) + Times(c, <<holding'>>) + Times(c, Tail(Pending)) + Cardinality(With(c))
      BY <2>2, <2>4 DEF Total
    <3>5. Tail(Pending) \in Seq(S)
      BY <1>3r, <2>3
    <3>6. Times(c, Tail(Pending)) \in Nat
      BY <3>5, TimesType
    <3>7. Total(c) = Times(c, line) + Times(c, <<holding>>) + Times(c, Pending) + Cardinality(With(c))
      BY <2>4 DEF Total
    <3>8. Times(c, line) \in Nat /\ Cardinality(With(c)) \in Nat
      BY <1>n
    <3> QED
      BY <3>1, <3>2, <3>3, <3>4, <3>6, <3>7, <3>8
  <2> QED
    BY <1>t, <2>2, <2>5
<1>16. CASE Lock
  BY <1>16, <1>0, <1>a, <1>b, HandlerMoves
     DEF Lock, HandlerAt, HandlerSteps, Sent, Frames, WriterSteps, ReaderSteps, None, output, uart,
         history
<1>17. CASE Advance
  <2>1. Sent = 1 /\ Sent' = 0 /\ ocount > 0
    BY <1>0, <1>17 DEF Advance, HandlerAt, Sent, Frames, Handlers
  <2>2. /\ put' = put /\ line' = line /\ holding' = holding
        /\ Pending' = Ring(out, (ostart + 1) % UART_OBLEN, ocount - 1, UART_OBLEN) /\ ocount' = ocount - 1
        /\ \A c \in 1 .. put : With(c)' = With(c)
    BY <1>17 DEF Advance, Pending, Ring, With, uart, history
  <2>3. Pending' = Tail(Pending)
    BY <1>1r, <1>2r, <2>1, <2>2, RingTail
  <2>4. IsRing(S, UART_OBLEN, out, (ostart + 1) % UART_OBLEN, ocount - 1)
    BY <1>1r, <2>1, ModRange DEF IsRing
  <2>5. Rest' = Pending'
    <3>1. Rest' = SubSeq(Pending', 1, ocount - 1)
      BY <2>1, <2>2 DEF Rest
    <3> QED
      BY <2>2, <2>4, <3>1, RingRest
  <2>6. Rest' = Rest
    BY <1>3r, <2>1, <2>3, <2>5
  <2>7. \A c \in 1 .. put : Total(c)' = Total(c)
    BY <2>2, <2>6 DEF Total
  <2> QED
    BY <1>t, <2>2, <2>7
<1>18. CASE Unlock
  BY <1>18, <1>0, <1>a, <1>b, HandlerMoves
     DEF Unlock, HandlerAt, HandlerSteps, Sent, Frames, WriterSteps, ReaderSteps, None, output,
         uart, history
<1>19. CASE More
  BY <1>19, <1>0, <1>a, <1>b, HandlerMoves
     DEF More, HandlerAt, HandlerSteps, Sent, Frames, WriterSteps, ReaderSteps, None, output, uart,
         history
<1>20. CASE Signal
  BY <1>20, <1>0, <1>a, <1>b, SignalMoves DEF Signal, HandlerAt, Sent, Frames, uart, history
<1>21. CASE Receive
  BY <1>21, <1>0, <1>a, <1>b
     DEF Receive, HandlerAt, Sent, Frames, WriterSteps, ReaderSteps, None, output, history
<1>22. CASE ReceiveStore
  BY <1>22, <1>0, <1>a, <1>b
     DEF ReceiveStore, HandlerAt, Sent, Frames, WriterSteps, ReaderSteps, None, output, uart
<1>23. CASE ReceiveMore
  BY <1>23, <1>0, <1>a, <1>b, SignalMoves DEF ReceiveMore, HandlerAt, Sent, output, uart, history
<1>24. CASE ReceiveSignal
  BY <1>24, <1>0, <1>a, <1>b, SignalMoves DEF ReceiveSignal, HandlerAt, Sent, Frames, output, uart, history
<1>25. CASE Transmit
  <2>1. /\ put' = put /\ line' = Append(line, holding) /\ holding' = None /\ Rest' = Rest
        /\ \A c \in 1 .. put : With(c)' = With(c)
    BY <1>25 DEF Transmit, Rest, Pending, Ring, Sent, With, output, history
  <2>2. ASSUME NEW c \in 1 .. put PROVE Total(c)' = 1
    <3>1. Times(c, Append(line, holding)) = Times(c, line) + IF holding = c THEN 1 ELSE 0
      BY <1>c, TimesAppend
    <3>2. Times(c, <<None>>) = 0 /\ Times(c, <<holding>>) = IF holding = c THEN 1 ELSE 0
      BY TimesOne DEF None
    <3>3. Total(c) = 1
      BY <1>t
    <3>4. Total(c)' = Times(c, Append(line, holding)) + Times(c, <<None>>) + Times(c, Rest) + Cardinality(With(c))
      BY <2>1 DEF Total
    <3>5. /\ Times(c, line) \in Nat /\ Times(c, <<holding>>) \in Nat
          /\ Times(c, Rest) \in Nat /\ Cardinality(With(c)) \in Nat
      BY <1>n
    <3> QED
      BY <3>1, <3>2, <3>3, <3>4, <3>5 DEF Total
  <2> QED
    BY <1>t, <2>1, <2>2
<1>26. CASE Arrive
  BY <1>26, <1>0, <1>a, <1>b DEF Arrive, Sent, Frames, WriterSteps, ReaderSteps, None, output
<1>27. ASSUME NEW p \in Procs, Sleep(p) PROVE OutputConserved'
  BY <1>27, <1>0, <1>a, <1>b, Moves DEF Sleep, CallSteps, Sent, uart, history
<1>28. CASE SignalWake
  BY <1>28, <1>0, <1>a, <1>b, Moves, SignalMoves DEF SignalWake, HandlerAt, Sent, uart, history
<1>29. CASE ReceiveWake
  BY <1>29, <1>0, <1>a, <1>b, Moves, SignalMoves DEF ReceiveWake, HandlerAt, Sent, output, uart, history
<1>30. CASE UNCHANGED vars
  BY <1>30, <1>b
     DEF vars, At, HandlerAt, CallSteps, HandlerSteps, Sent, Frames, WriterSteps, ReaderSteps, None,
         Off, After, output, uart, history
<1> QED
  BY <1>1, <1>2, <1>3, <1>4, <1>5, <1>6, <1>7, <1>8, <1>9, <1>10, <1>11, <1>12, <1>13, <1>14, <1>15,
     <1>16, <1>17, <1>18, <1>19, <1>20, <1>21, <1>22, <1>23, <1>24, <1>25, <1>26, <1>27, <1>28, <1>29, <1>30
     DEF Next, Calling, Handling

-----------------------------------------------------------------------------
(* The theorems *)

(* The initial state.                                                     *)
LEMMA InitHolds == Init => IInv
<1> SUFFICES ASSUME Init PROVE IInv
  OBVIOUS
<1>0. UART_OBLEN \in Nat \ {0} /\ UART_IBLEN \in Nat \ {0} /\ MaxOut \in Nat /\ MaxIn \in Nat
  BY ConsoleAssumption
<1>1. TypeOK
  <2>1. ctx \in [Procs -> Contexts] /\ handler \in Handlers
    BY DEF Init, User, Off, Contexts, Handlers, CallSteps, HandlerSteps, None
  <2>2. /\ out \in [0 .. UART_OBLEN - 1 -> Chars \cup {None}]
        /\ in \in [0 .. UART_IBLEN - 1 -> Chars \cup {None}]
    BY DEF Init
  <2>3. /\ ostart \in 0 .. UART_OBLEN - 1 /\ ocount \in 0 .. UART_OBLEN
        /\ istart \in 0 .. UART_IBLEN - 1 /\ icount \in 0 .. UART_IBLEN
    BY <1>0 DEF Init
  <2>4. osema \in [count : Int, queue : Seq(Writers)] /\ isema \in [count : Int, queue : Seq(Readers)]
    BY <1>0 DEF Init
  <2>5. /\ oidle \in BOOLEAN /\ olock \in Writers \cup {"free", "handler"}
        /\ {holding, received} \subseteq Chars \cup {None} /\ txris \in BOOLEAN
    BY DEF Init
  <2> QED
    BY <2>1, <2>2, <2>3, <2>4, <2>5 DEF TypeOK, Contexts, Handlers
<1>2. OneAtATime /\ Frames /\ Transmitter
  BY
     DEF Init, OneAtATime, Frames, Transmitter, Active, User, Off, Procs, WriterSteps, ReaderSteps,
         SendSteps, None
<1>3. Sleepers
  <2>1. /\ Sleeping(Writers) = {} /\ Sleeping(Readers) = {}
        /\ Waiting(Writers) = {} /\ Waiting(Readers) = {}
    BY DEF Init, Sleeping, Waiting, User, Procs
  <2>2. osema.count \in Nat /\ isema.count \in Nat /\ osema.queue = <<>> /\ isema.queue = <<>>
    BY <1>0 DEF Init
  <2>3. Waking("wake") = 0 /\ Waking("rxwake") = 0
    BY DEF Init, Off, Waking
  <2> QED
    BY <1>0, <2>1, <2>2, <2>3, FS_EmptySet DEF Sleepers, QueueTells, CountTells, ToSet
<1>4. Fresh
  BY <1>0 DEF Init, Fresh, None, User, Procs
<1>5. SemaphoresCount
  <2>1. Claims(Writers) = {} /\ Claims(Readers) = {}
    BY DEF Init, Claims, User, Procs
  <2>2. ToSignalOut = 0 /\ ToSignalIn = 0
    BY DEF Init, Off, ToSignalOut, ToSignalIn
  <2> QED
    BY <1>0, <2>1, <2>2, CountsDef, FS_EmptySet DEF Init
<1>6. OutputConserved
  BY DEF Init, OutputConserved
<1>7. InputInOrder
  <2>1. Ring(in, istart, icount, UART_IBLEN) = <<>>
    BY DEF Init, Ring
  <2> QED
    BY <2>1 DEF Init, InputInOrder
<1> QED
  BY <1>1, <1>2, <1>3, <1>4, <1>5, <1>6, <1>7 DEF IInv

(* Every step.                                                            *)
LEMMA StepHolds ==
  ASSUME SharedCores, IInv, [Next]_vars
  PROVE  IInv'
<1>1. /\ \A p \in Writers : ctx[p].at = "store" => ocount < UART_OBLEN
      /\ \A p \in Readers : ctx[p].at = "count" => icount > 0
  BY Room DEF IInv
<1>2. TypeOK'
  BY <1>1, TypeStep DEF IInv
<1>3. OneAtATime' /\ Frames' /\ Transmitter'
  BY OneStep, FramesStep, TransmitterStep DEF IInv
<1>4. Sleepers' /\ Fresh'
  BY SleepersStep, FreshStep DEF IInv
<1>5. SemaphoresCount'
  BY SemaphoresStep DEF IInv
<1>6. OutputConserved'
  BY <1>1, OutputStep DEF IInv
<1>7. InputInOrder'
  BY <1>1, InputStep DEF IInv
<1> QED
  BY <1>2, <1>3, <1>4, <1>5, <1>6, <1>7 DEF IInv

(* The inductive invariant holds of every behaviour of putc, getc, the    *)
(* handler and the UART.                                                  *)
THEOREM Invariance == ASSUME SharedCores PROVE Spec => []IInv
<1>1. IInv /\ [Next]_vars => IInv'
  BY StepHolds
<1> QED
  BY <1>1, InitHolds, PTL DEF Spec

(* No step of a call, the handler or the UART takes a variable out of its *)
(* range: the rings neither overflow nor underflow.                       *)
THEOREM TypeCorrect == ASSUME SharedCores PROVE Spec => []TypeOK
<1>1. IInv => TypeOK
  BY DEF IInv
<1> QED
  BY <1>1, Invariance, PTL

(* osema and isema count the places free and the bytes ready, whatever    *)
(* calls and the handler have still to do (printf.c, uarthandler.c).      *)
THEOREM Counted == ASSUME SharedCores PROVE Spec => []SemaphoresCount
<1>1. IInv => SemaphoresCount
  BY DEF IInv
<1> QED
  BY <1>1, Invariance, PTL

(* Every character given to putc is in exactly one place on its way to    *)
(* the line: none is lost, none is sent twice.                            *)
THEOREM Conserved == ASSUME SharedCores PROVE Spec => []OutputConserved
<1>1. IInv => OutputConserved
  BY DEF IInv
<1> QED
  BY <1>1, Invariance, PTL

(* getc returns the characters the handler found room for, in the order   *)
(* in which they came.                                                    *)
THEOREM InOrder == ASSUME SharedCores PROVE Spec => []InputInOrder
<1>1. IInv => InputInOrder
  BY DEF IInv
<1> QED
  BY <1>1, Invariance, PTL
=============================================================================
