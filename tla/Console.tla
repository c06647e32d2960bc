------------------------------- MODULE Console -------------------------------
(***************************************************************************)
(* The console of xinu-hw9: putc and getc (printf.c) and the interrupt     *)
(* handler of the UART (uarthandler.c, uartinit.c) on a pair of rings, the *)
(* flag oidle and two semaphores.                                          *)
(*                                                                         *)
(* putc and getc disable interrupts, so on a core one call runs at a time, *)
(* until wait puts it to sleep, and on core 0, where the UART interrupts,  *)
(* the handler keeps out of calls and they keep out of it.  Cores          *)
(* interleave at every step, those of wait and signaln included; whom      *)
(* signaln has made ready runs sooner or later.  The UART works as         *)
(* uartinit leaves it, with its FIFOs off: one character in the holding    *)
(* register, one in the receive register.                                  *)
(***************************************************************************)
EXTENDS Integers, Sequences, FiniteSets, SequencesExt

CONSTANTS
  Writers, Readers,     \* processes that call putc and getc
  Core,                 \* the core of each of them
  UART_OBLEN, UART_IBLEN,
  MaxOut, MaxIn         \* bounds: characters written, characters that arrive

Procs == Writers \cup Readers
None  == 0

ASSUME ConsoleAssumption ==
  /\ IsFiniteSet(Procs) /\ Writers \cap Readers = {} /\ {"free", "handler"} \cap Procs = {}
  /\ Core \in [Procs -> Nat]
  /\ UART_OBLEN \in Nat \ {0} /\ UART_IBLEN \in Nat \ {0}
  /\ MaxOut \in Nat /\ MaxIn \in Nat

VARIABLES
  out, ostart, ocount, oidle, osema,   \* serial_port: the output side,
  in, istart, icount, isema,           \* the input side,
  olock,                               \* and the lock: whoever holds it
  ctx,         \* where each process is in its call, and its locals
  handler,     \* where the handler is, and its locals
  holding, txris, received,   \* the UART: its registers (None: empty)
  line,        \* history: the characters transmitted
  put, arrived,   \* characters written, and arrived, so far (bounded)
  accepted,    \* history: the characters for which the input ring had room
  got          \* history: the characters returned by getc

output  == <<out, ostart, ocount, oidle, osema>>
input   == <<in, istart, icount, isema>>
uart    == <<holding, txris, received, line>>
history == <<put, arrived, accepted, got>>
vars    == <<output, input, olock, ctx, handler, uart, history>>

User == [at |-> "user", c |-> None, n |-> 0]
Off  == [at |-> "off", tx |-> FALSE, rx |-> FALSE, count |-> 0, c |-> None]

Init ==
  /\ out = [i \in 0 .. UART_OBLEN - 1 |-> None] /\ ostart = 0 /\ ocount = 0 /\ oidle = TRUE
  /\ osema = [count |-> UART_OBLEN, queue |-> <<>>]
  /\ in = [i \in 0 .. UART_IBLEN - 1 |-> None] /\ istart = 0 /\ icount = 0
  /\ isema = [count |-> 0, queue |-> <<>>]
  /\ olock = "free"
  /\ ctx = [p \in Procs |-> User] /\ handler = Off
  /\ holding = None /\ txris = FALSE /\ received = None /\ line = <<>>
  /\ put = 0 /\ arrived = 0 /\ accepted = <<>> /\ got = <<>>

(* A core is free when no call runs on it: none is between two waits.      *)
Busy(c) == \/ \E p \in Procs : Core[p] = c /\ ctx[p].at \notin {"user", "asleep", "ready"}
           \/ c = 0 /\ handler.at # "off"

At(p, step)   == ctx[p].at = step
Goto(p, step) == ctx' = [ctx EXCEPT ![p].at = step]
Return(p)     == ctx' = [ctx EXCEPT ![p] = User]

HandlerAt(step)   == handler.at = step
HandlerGoto(step) == handler' = [handler EXCEPT !.at = step]

(* The UART withdraws the transmit interrupt when it is given a character. *)
Write(c) == holding' = c /\ txris' = FALSE

(* wait counts down, and puts the process to sleep below zero.             *)
CountDown(sem) == [sem EXCEPT !.count = @ - 1]
Waits(sem)     == sem.count <= 0

(* signaln counts up, and from below zero wakes the first in the queue, if *)
(* the one it counted is in it yet.                                        *)
CountUp(sem)  == [sem EXCEPT !.count = @ + 1]
Wakes(sem)    == sem.count < 0
Released(sem) == [sem EXCEPT !.queue = IF @ = <<>> THEN @ ELSE Tail(@)]
Wake(sem)     == ctx' = IF sem.queue = <<>> THEN ctx ELSE [ctx EXCEPT ![Head(sem.queue)].at = "ready"]

-----------------------------------------------------------------------------
(* putc *)

Putc(p) ==
  /\ p \in Writers /\ At(p, "user") /\ ~Busy(Core[p]) /\ put < MaxOut
  /\ put' = put + 1
  /\ ctx' = [ctx EXCEPT ![p] = [User EXCEPT !.at = IF oidle THEN "idle" ELSE "wait", !.c = put + 1]]
  /\ UNCHANGED <<output, input, olock, handler, uart, arrived, accepted, got>>

PutNotIdle(p) ==
  /\ At(p, "idle")
  /\ oidle' = FALSE
  /\ Goto(p, "write")
  /\ UNCHANGED <<out, ostart, ocount, osema, input, olock, handler, uart, history>>

PutWrite(p) ==
  /\ At(p, "write")
  /\ Write(ctx[p].c)
  /\ Return(p)
  /\ UNCHANGED <<output, input, olock, handler, received, line, history>>

PutWait(p) ==
  /\ At(p, "wait")
  /\ osema' = CountDown(osema)
  /\ Goto(p, IF Waits(osema) THEN "enqueue" ELSE "lock")
  /\ UNCHANGED <<out, ostart, ocount, oidle, input, olock, handler, uart, history>>

(* wait, of putc and of getc, enqueues the process and gives up the core.  *)
Sleep(p) ==
  /\ At(p, "enqueue")
  /\ IF p \in Writers THEN osema' = [osema EXCEPT !.queue = Append(@, p)] /\ UNCHANGED isema
     ELSE isema' = [isema EXCEPT !.queue = Append(@, p)] /\ UNCHANGED osema
  /\ Goto(p, "asleep")
  /\ UNCHANGED <<out, ostart, ocount, oidle, in, istart, icount, olock, handler, uart, history>>

Resume(p) ==
  /\ At(p, "ready") /\ ~Busy(Core[p])
  /\ Goto(p, IF p \in Writers THEN "lock" ELSE "read")
  /\ UNCHANGED <<output, input, olock, handler, uart, history>>

PutLock(p) ==
  /\ At(p, "lock") /\ olock = "free"
  /\ olock' = p
  /\ Goto(p, "store")
  /\ UNCHANGED <<output, input, handler, uart, history>>

PutStore(p) ==
  /\ At(p, "store")
  /\ out' = [out EXCEPT ![(ostart + ocount) % UART_OBLEN] = ctx[p].c]
  /\ ocount' = ocount + 1
  /\ ctx' = [ctx EXCEPT ![p].at = "unlock", ![p].c = None]
  /\ UNCHANGED <<ostart, oidle, osema, input, olock, handler, uart, history>>

PutUnlock(p) ==
  /\ At(p, "unlock")
  /\ olock' = "free"
  /\ Return(p)
  /\ UNCHANGED <<output, input, handler, uart, history>>

-----------------------------------------------------------------------------
(* getc; the count of the ring is loaded and stored without the lock *)

Getc(p) ==
  /\ p \in Readers /\ At(p, "user") /\ ~Busy(Core[p])
  /\ isema' = CountDown(isema)
  /\ Goto(p, IF Waits(isema) THEN "enqueue" ELSE "read")
  /\ UNCHANGED <<output, in, istart, icount, olock, handler, uart, history>>

GetRead(p) ==
  /\ At(p, "read")
  /\ ctx' = [ctx EXCEPT ![p] = [at |-> "count", c |-> in[istart], n |-> icount]]
  /\ UNCHANGED <<output, input, olock, handler, uart, history>>

GetCountStuck(p) ==  \* mutant: the first byte stays the first
  /\ At(p, "count")
  /\ icount' = ctx[p].n - 1
  /\ got' = Append(got, ctx[p].c)
  /\ Return(p)
  /\ UNCHANGED <<output, in, istart, isema, olock, handler, uart, put, arrived, accepted>>

GetCount(p) ==
  /\ At(p, "count")
  /\ icount' = ctx[p].n - 1
  /\ istart' = (istart + 1) % UART_IBLEN
  /\ got' = Append(got, ctx[p].c)
  /\ Return(p)
  /\ UNCHANGED <<output, in, isema, olock, handler, uart, put, arrived, accepted>>

-----------------------------------------------------------------------------
(* The handler: reads the interrupt status, clears the transmit interrupt. *)

Interrupt ==
  /\ HandlerAt("off") /\ ~Busy(0)
  /\ txris \/ received # None
  /\ handler' = [Off EXCEPT !.at = IF txris THEN "test" ELSE "receive", !.tx = txris,
                            !.rx = received # None]
  /\ txris' = FALSE
  /\ UNCHANGED <<output, input, olock, ctx, holding, received, line, history>>

(* The receive part of the handler, or its end.                            *)
After(h) == IF h.rx THEN [h EXCEPT !.at = "receive", !.count = 0] ELSE Off

Test ==
  /\ HandlerAt("test")
  /\ HandlerGoto(IF ocount > 0 THEN "send" ELSE "idle")
  /\ UNCHANGED <<output, input, olock, ctx, uart, history>>

Idle ==
  /\ HandlerAt("idle")
  /\ oidle' = TRUE
  /\ handler' = After(handler)
  /\ UNCHANGED <<out, ostart, ocount, osema, input, olock, ctx, uart, history>>

Send ==
  /\ HandlerAt("send")
  /\ Write(out[ostart])
  /\ HandlerGoto("lock")
  /\ UNCHANGED <<output, input, olock, ctx, received, line, history>>

Lock ==
  /\ HandlerAt("lock") \/ HandlerAt("rxlock")
  /\ olock = "free" /\ olock' = "handler"
  /\ HandlerGoto(IF HandlerAt("lock") THEN "advance" ELSE "rxstore")
  /\ UNCHANGED <<output, input, ctx, uart, history>>

AdvanceUncounted ==  \* mutant: the handler does not count what it has sent
  /\ HandlerAt("advance")
  /\ ostart' = (ostart + 1) % UART_OBLEN
  /\ ocount' = ocount - 1
  /\ HandlerGoto("unlock")
  /\ UNCHANGED <<out, oidle, osema, input, olock, ctx, uart, history>>

Advance ==
  /\ HandlerAt("advance")
  /\ ostart' = (ostart + 1) % UART_OBLEN
  /\ ocount' = ocount - 1
  /\ handler' = [handler EXCEPT !.at = "unlock", !.count = @ + 1]
  /\ UNCHANGED <<out, oidle, osema, input, olock, ctx, uart, history>>

Unlock ==
  /\ HandlerAt("unlock") \/ HandlerAt("rxunlock")
  /\ olock' = "free"
  /\ HandlerGoto(IF HandlerAt("unlock") THEN "more" ELSE "rxmore")
  /\ UNCHANGED <<output, input, ctx, uart, history>>

MoreBlind ==  \* mutant: the flag register is not read
  /\ HandlerAt("more")
  /\ HandlerGoto(IF ocount > 0 THEN "send" ELSE "signal")
  /\ UNCHANGED <<output, input, olock, ctx, uart, history>>

More ==
  /\ HandlerAt("more")
  /\ HandlerGoto(IF holding = None /\ ocount > 0 THEN "send" ELSE "signal")
  /\ UNCHANGED <<output, input, olock, ctx, uart, history>>

(* The loop of signaln, or what comes after it.                            *)
Signalling(h) == IF h.count > 0 THEN [h EXCEPT !.at = "signal"] ELSE After(h)

Signal ==
  /\ HandlerAt("signal")
  /\ osema' = CountUp(osema)
  /\ handler' = LET h == [handler EXCEPT !.count = @ - 1]
                IN  IF Wakes(osema) THEN [h EXCEPT !.at = "wake"] ELSE Signalling(h)
  /\ UNCHANGED <<out, ostart, ocount, oidle, input, olock, ctx, uart, history>>

SignalWake ==
  /\ HandlerAt("wake")
  /\ osema' = Released(osema)
  /\ Wake(osema)
  /\ handler' = Signalling(handler)
  /\ UNCHANGED <<out, ostart, ocount, oidle, input, olock, uart, history>>

ReceiveBlind ==  \* mutant: the character is stored whether there is room or not
  /\ HandlerAt("receive")
  /\ received' = None
  /\ handler' = [handler EXCEPT !.at = "rxlock", !.c = received]
  /\ UNCHANGED <<output, input, olock, ctx, holding, txris, line, history>>

(* A character for which there is no room is dropped.                      *)
Receive ==
  /\ HandlerAt("receive")
  /\ received' = None
  /\ handler' = IF icount < UART_IBLEN THEN [handler EXCEPT !.at = "rxlock", !.c = received]
                ELSE [handler EXCEPT !.at = "rxmore"]
  /\ UNCHANGED <<output, input, olock, ctx, holding, txris, line, history>>

ReceiveStore ==
  /\ HandlerAt("rxstore")
  /\ in' = [in EXCEPT ![(istart + icount) % UART_IBLEN] = handler.c]
  /\ icount' = icount + 1
  /\ accepted' = Append(accepted, handler.c)
  /\ handler' = [handler EXCEPT !.at = "rxunlock", !.count = @ + 1, !.c = None]
  /\ UNCHANGED <<output, istart, isema, olock, ctx, uart, put, arrived, got>>

(* signaln refuses to count nothing.                                       *)
ReceiveSignalling(h) == IF h.count > 0 THEN [h EXCEPT !.at = "rxsignal"] ELSE Off

ReceiveMore ==
  /\ HandlerAt("rxmore")
  /\ handler' = IF received # None THEN [handler EXCEPT !.at = "receive"] ELSE ReceiveSignalling(handler)
  /\ UNCHANGED <<output, input, olock, ctx, uart, history>>

ReceiveSignal ==
  /\ HandlerAt("rxsignal")
  /\ isema' = CountUp(isema)
  /\ handler' = LET h == [handler EXCEPT !.count = @ - 1]
                IN  IF Wakes(isema) THEN [h EXCEPT !.at = "rxwake"] ELSE ReceiveSignalling(h)
  /\ UNCHANGED <<output, in, istart, icount, olock, ctx, uart, history>>

ReceiveWake ==
  /\ HandlerAt("rxwake")
  /\ isema' = Released(isema)
  /\ Wake(isema)
  /\ handler' = ReceiveSignalling(handler)
  /\ UNCHANGED <<output, in, istart, icount, olock, uart, history>>

-----------------------------------------------------------------------------
(* The UART: transmits what it holds, then interrupts until it is given    *)
(* more or the handler clears the interrupt; and receives.                 *)

Transmit ==
  /\ holding # None
  /\ line' = Append(line, holding)
  /\ holding' = None /\ txris' = TRUE
  /\ UNCHANGED <<output, input, olock, ctx, handler, received, history>>

(* What comes while the receive register is full is lost in the UART.      *)
Arrive ==
  /\ received = None /\ arrived < MaxIn
  /\ received' = arrived + 1
  /\ arrived' = arrived + 1
  /\ UNCHANGED <<output, input, olock, ctx, handler, holding, txris, line, put, accepted, got>>

-----------------------------------------------------------------------------
Calling(p) ==
  \/ Putc(p) \/ PutNotIdle(p) \/ PutWrite(p) \/ PutWait(p) \/ PutLock(p) \/ PutStore(p) \/ PutUnlock(p)
  \/ Getc(p) \/ GetRead(p) \/ GetCount(p)
  \/ Sleep(p) \/ Resume(p)

Handling ==
  \/ Interrupt \/ Test \/ Idle \/ Send \/ Lock \/ Advance \/ Unlock \/ More
  \/ Signal \/ SignalWake
  \/ Receive \/ ReceiveStore \/ ReceiveMore \/ ReceiveSignal \/ ReceiveWake

Next ==
  \/ \E p \in Procs : Calling(p)
  \/ Handling
  \/ Transmit \/ Arrive

Spec == Init /\ [][Next]_vars

-----------------------------------------------------------------------------
(* Properties *)

Chars == 1 .. MaxOut + MaxIn
CallSteps    == {"user", "idle", "write", "wait", "enqueue", "asleep", "ready", "lock", "store", "unlock",
                 "read", "count"}
HandlerSteps == {"off", "test", "idle", "send", "lock", "advance", "unlock", "more", "signal",
                 "wake", "receive", "rxlock", "rxstore", "rxunlock", "rxmore", "rxsignal", "rxwake"}

TypeOK ==
  /\ out \in [0 .. UART_OBLEN - 1 -> Chars \cup {None}]
  /\ ostart \in 0 .. UART_OBLEN - 1 /\ ocount \in 0 .. UART_OBLEN /\ oidle \in BOOLEAN
  /\ in \in [0 .. UART_IBLEN - 1 -> Chars \cup {None}]
  /\ istart \in 0 .. UART_IBLEN - 1 /\ icount \in 0 .. UART_IBLEN
  /\ osema \in [count : Int, queue : Seq(Writers)] /\ isema \in [count : Int, queue : Seq(Readers)]
  /\ olock \in Writers \cup {"free", "handler"}
  /\ ctx \in [Procs -> [at : CallSteps, c : Chars \cup {None}, n : Nat]]
  /\ handler \in [at : HandlerSteps, tx : BOOLEAN, rx : BOOLEAN, count : Nat, c : Chars \cup {None}]
  /\ {holding, received} \subseteq Chars \cup {None} /\ txris \in BOOLEAN

Times(c, seq) == Cardinality({i \in DOMAIN seq : seq[i] = c})
Ring(buffer, start, count, len) == [i \in 1 .. count |-> buffer[(start + i - 1) % len]]

(* The output ring; what the handler has just sent has left it.            *)
Pending == Ring(out, ostart, ocount, UART_OBLEN)
Sent    == IF handler.at \in {"lock", "advance"} THEN 1 ELSE 0

(* A character that putc was given is in one place: with the call, in the  *)
(* ring, in the UART or on the line.  None is lost and none sent twice.    *)
OutputConserved ==
  \A c \in 1 .. put :
    Times(c, line) + Times(c, <<holding>>) + Times(c, SubSeq(Pending, Sent + 1, ocount))
    + Cardinality({p \in Writers : ctx[p].c = c}) = 1

(* "Count of buffer space free", "Count of input bytes ready" (uart.h):    *)
(* each semaphore counts what its ring can take or give, less what calls   *)
(* past their wait will use and what the handler has yet to signal; so the *)
(* rings do not overflow and getc reads no byte that is not there.         *)
SemaphoresCount ==
  LET claims(procs) == Cardinality({p \in procs : ctx[p].at \in
                         {"enqueue", "asleep", "ready", "lock", "store", "read", "count"}})
      sending == handler.at \in {"send", "lock", "advance", "unlock", "more", "signal", "wake"}
  IN  /\ osema.count = UART_OBLEN - ocount - claims(Writers) - (IF sending THEN handler.count ELSE 0)
      /\ isema.count = icount - claims(Readers) - (IF sending THEN 0 ELSE handler.count)

(* Readers get the bytes for which there was room, all and in the order in *)
(* which they came.                                                        *)
InputInOrder == got \o Ring(in, istart, icount, UART_IBLEN) = accepted

(* "UART transmitter idle" (uart.h): when all is at rest and the next putc *)
(* would write to the UART at once, no character is left in the ring.      *)
NoneStranded ==
  (oidle /\ holding = None /\ ~txris /\ handler = Off /\ \A p \in Writers : ctx[p] = User)
    => ocount = 0
=============================================================================
