# Embedded Xinu (COSC 3250) in TLA+

The repository holds eight snapshots of a course kernel. `xinu-hw9` is the
final one: a preemptive, priority-scheduled kernel for the four cores of a
Raspberry Pi 3, in C and ARM assembly. `xinu-hw3` to `xinu-hw8` are earlier
states of the same files; `xinu-hw10` is a file system and a disk daemon for a
MIPS Xinu whose kernel is present only as a binary library. This directory
models `xinu-hw9` and the file system of `xinu-hw10`; paths below are relative
to `src/xinu-hw9/` unless they say otherwise.

## 1. Inventory

| Component | State | Operations | Hard behaviour | What makes it correct |
|---|---|---|---|---|
| Scheduler (`system/resched.c ready.c create.c kill.c clkhandler.c initialize.c`) | `proctab`, `currpid`, `readylist`, the quantums `preempt`, `promote_medium`, `promote_low`, `numproc`, `nextpid` | `resched`, `ready`, `create`, `newpid`, `kill`, `userret`, `clkhandler`, the null loops | code that runs with interrupts enabled is preempted anywhere; four cores share the process table without a lock; slots are used again | a process is in one place, none is lost, none starves; contexts are not overwritten; a core always finds a process |
| Queues (`system/queue.c`, `include/queue.h`) | `queuetab`: doubly linked lists with a head and a tail entry each | `enqueue`, `dequeue`, `remove`, `newqueue`, the macros `nonempty`, `firstid` | cores append to and take from one list at once; `remove` walks without a lock | the lists are FIFO and atomic; nothing is lost between two of them |
| Spinlocks (`system/spinlock.c spinlock_util.S`) | `locktab`, `nextlock` | `lock_create`, `lock_free`, `lock_acquire`, `lock_release` | contention; a table of fixed size | mutual exclusion; a lock is released on every path |
| Atomic counters (`system/atomic.S`) | words in memory | increment, decrement, increment modulo | contention | each is one step |
| Context switch (`system/ctxsw.S intutils.S irq_handler.S dispatch.c`) | registers, CPSR | `ctxsw`, `disable`, `restore`, `enable` | a new process inherits a masked CPSR | contexts are restored as saved |
| Semaphores (`system/wait.c signal.c signaln.c semcreate.c semfree.c`) | `semtab`: state, count, queue | the five calls | the count and the queue change in two steps, on any core | no wakeup is lost; the count is the number of free units or of waiters |
| Messages (`system/send.c sendnow.c recv.c recvnow.c`) | one message slot, a queue of senders and a lock per process | the four calls | blocking on both sides, rescheduling with a lock held | each message is received once; nobody waits for a message that is there |
| Heap (`system/getmem.c freemem.c malloc.c free.c`) | a free list per core | `getmem`, `freemem` | freeing another core's block, coalescing | blocks are disjoint and conserved |
| UART and console (`system/uarthandler.c uartinit.c kprintf.c printf.c`) | input and output rings, counters, `olock` | interrupt handler, `getc`, `putc` | handler against caller | characters in order, none lost while there is room |
| Boot, MMU, timer registers | hardware | set-up | – | – |
| File system (`src/xinu-hw10/file/`) | superblock, free-block list, directory, two semaphores as locks; the disk | `sbInit`, `sbOpen`, `sbGetBlock`, `sbFreeBlock`, `fileCreate`, `fileOpen`, `filePutChar`, `fileClose`, `fileDelete` | several disk writes per operation, pointers swapped for block numbers while a structure is written, error returns, a restart between two writes | a block is free or in one file, once, in memory and on the disk |

The components meet as follows. The timer interrupt calls `clkhandler`, which
calls `resched`. `wait`, `send`, `recv` and `kill` set the state of the current
process and call `resched`; `signal`, `semfree`, `send` and `recv` take a
process from a queue and call `ready`. All lists of processes are queues of
`queuetab`, each with a spinlock that `newqueue` tries to create. `create` and
`kill` call `getmem` and `freemem`. `putc` and `getc` wait on two semaphores that
the UART's handler signals. The file system waits on semaphores and reads and
writes the disk through `seek`, `read` and `write`.

`PROJECT.json` lists every component with its files and status, and under
`hazards` the places where the code is exposed to something a test would hardly
reach.

## 2. Modules

| Module | Content |
|---|---|
| `Scheduler` | process table and per-core scheduler |
| `ProcessQueues` | what the queue operations promise: atomic FIFO queues under concurrent calls |
| `Queue` | `queue.c` and its locks, one store at a time; implements `ProcessQueues` |
| `ReadyLists` | the scheduler as blocking calls see it: one FIFO list per core; used by `Semaphore` and `Messages` |
| `CountingSemaphores` | what the semaphores promise: units handed out are those created and signalled |
| `Semaphore` | the five semaphore calls on several cores; implements `CountingSemaphores` |
| `Mailboxes` | what the message calls promise: a posted message is kept, in order, and taken once |
| `Messages` | the four message calls on several cores; implements `Mailboxes` |
| `FreeMemory` | `getmem`, `malloc`, `freemem` and `free` on a list per core |
| `Console` | `putc`, `getc`, the UART's interrupt handler and the UART |
| `FileSystem` | free-block list, directory and disk of hw10, with failing writes and crashes |
| `SchedulerProofs`, `QueueProofs`, `SemaphoreProofs`, `MessagesProofs`, `FreeMemoryProofs`, `ConsoleProofs`, `FileSystemProofs` | the theorems |
| `ReadyListsProofs` | lemmas about `ReadyLists` that `SemaphoreProofs` and `MessagesProofs` use |
| `MCScheduler`, `MCQueue`, `MCSemaphore`, `MCMessages`, `MCFreeMemory`, `MCConsole`, `MCFileSystem` | values for the constants; each `.cfg` is named after the module it checks |

### Scheduler

A core `c` executes the context `cpu[c]` on behalf of process `currpid[c]`; the
contexts of the other processes are in `regs`, the save areas of their PCBs. A
context is the point in a kernel call (`pc`), the pid the call is about
(`arg`), the iterations `newpid` has made (`tries`) and the interrupt bit of
its CPSR (`irq`). Only `Resched` moves a context between `regs` and `cpu`, as
only `ctxsw` does in the code; `ctxsw` restores no CPSR into a new process, so
`FreshContext` has interrupts masked.

The ready lists have no lock (see Queue below). An operation on a list is one step
of `Scheduler`, which is what the code does only while no other core is at that
list. A core stays out of the lists of the others except in the append of `ready`,
and in the `remove` of a `kill` that does not find the process in a list of its
core. At those two places there are two outcomes: the core has the list to itself
and the operation is one step, or it meets another core there (`Meet`). What the
list is after a meeting depends on how the stores of `queue.c` interleave, which
`Queue` has and `Scheduler` has not: `torn` is set and the behaviour stops.
So everything that is said of several cores is said up to the first meeting, and
nothing of what comes after it; on one core there is none, but for a `kill` that
removes a process which is in no list. `ReadyLists`, and with it `Semaphore` and
`Messages`, treats the append of `ready` in the same way.

| Action | Code |
|---|---|
| `Resched` (with `AgedLists`, `RequeuedLists`, `Highest`) | `resched`, aging first, then requeue, then pick; one step, because it runs with interrupts disabled on its own core's lists |
| `Tick` | `clkhandler`: decrements `preempt`, reschedules at zero |
| `NullLoop` | the loops of `nulluser` and `core_nulluser`; the latter only while `numproc` exceeds the number of null processes |
| `Enable`, `Yield` | what programs do: `main` enables interrupts, `testcases` reschedules |
| `Create`, `NewpidNext`, `NewpidCheck`, `NewpidReturn`, `CreateCount`, `CreateSuspend`, `CreateFill` | `create`: the increment of `nextpid`, the read of it for the test, the count and the state of the slot are separate steps, since `create` masks no interrupt. `newpid` reads the static `nextpid` once more to return it, or returns what it has tested, as the compiler likes (`compile/Makefile:33` has `-Os`); `NewpidReturn` takes either. The stores that fill the slot in are one step: between `PRSUSP` and `ready` only a `kill` that was given the pid could look at them |
| `ReadyMark`, `ReadyEnqueue`, `ReadyResched` | `ready`: other cores see the state change before the enqueue; ticks of its own core are masked (`Unmasked`) |
| `Kill`, `KillCount`, `KillSwitch`, `KillResched`, `KillRemove`, `KillClear` | `kill`, with the fall-through of its switch; `remove` takes the process out of whatever list it is in |
| `Meet`, `Stopped` | two cores meet in a ready list, or `remove` follows the links that a process in no list has left from its last one; the end of the behaviour |

Programs call `create` only followed by `ready` on the result, as every caller
in the repository does. `ready`'s flag is a choice between rescheduling or not;
`core_affinity` is any core. The blocking states `PRRECV` and `PRSEND` belong
to the message calls and do not occur here.

Bounds: `MaxSpawn` limits the calls of `create` in a behaviour. It is the only
counter that could grow; the quantums wrap and `numproc` follows the slots.

### Queue

Entries are numbered as in the code: processes first, then head and tail of
each queue. `enqueue` is `EnqueueSelf`, `EnqueueLink`, `EnqueueTail`; `dequeue`
is `DequeueFirst` (which also decides for `EMPTY`), `DequeueUnlink`,
`DequeueBack`, `DequeueSelf`; `remove` is one `Walk` step for each iteration,
then `RemoveUnlink`, `RemoveBack`. Each lies between `Acquire` and `Release`.
Two stores share a step only where both go to the links of a process that no
list leads to. The lock word and the `core` field of `locktab`, which is
written only by the holder, are one variable.

The callers keep the contract the kernel's callers keep: a process handed to
`enqueue` is in no queue and in no other core's hands (`held`); a ready list is
dequeued and removed from by its own core only, other cores only append
(`Takers`); a core works on one queue operation at a time. The contract leaves
out a `kill` that is preempted inside `remove`, or that meets a process between
`ready`'s state change and its enqueue (see the hazards).

`NLOCK` in this module is the number of locks `newqueue` still finds. At boot
`lock_create` is called for 100 semaphore queues, the UART, the console, four
free lists, then twice for each of 50 processes, and last for the 12 ready
lists. The table has 150 entries, so the calls fail from process 22 on and **no
ready list has a lock**. What `QueueLocked.cfg` checks and the theorems with
`AllLocked` prove is therefore about the queues of the semaphores and, up to
process 21, of the senders. It says nothing of a ready list that two cores use:
`QueueUnlocked.cfg` has one, without its lock, and loses a process in it.

The memory model of `Queue` is sequential consistency at the granularity of stores. Under
a lock this is what the barriers of `spinlock_util.S` give.

### Semaphore

`ctx[p]` is where process `p` is in its call: the call (`op`), the step (`at`),
the semaphore, the count passed, the turns its loop has left, the process it
dequeued. Processes run on their core (`Affinity`) when it is their turn
(`currpid`); a process in a call keeps its core, since the calls disable
interrupts, and the cores interleave at every access to `semtab`.

| Action | Code |
|---|---|
| `Wait`, `Signal`, `Signaln`, `Semfree`, `Semcreate` | the call up to its first access; a bad semaphore returns `SYSERR` (`OnSem`) |
| `CountDown`, `Suspend`, `Enqueue`, `WaitResched`, `Awake` | `wait`: the decrement and its test, the state change, the enqueue, `resched`, the return |
| `CountUp`, `Dequeue`, `Ready`, `Enlist` | a turn of `signaln`: the increment and its test, the dequeue, the state store of `ready`, its enqueue; `signal` is one turn; `semfree` uses the last three |
| `Meet`, `Stopped` | the enqueue of `ready` meets another core in the ready list |
| `Nonempty`, `Zero`, `Free` | `semfree`: its loop condition and its two stores |
| `SemallocNext`, `SemallocLook`, `SemallocMark`, `SemcreateFill` | `semcreate` and `semalloc`, which reads the shared `nextsem` anew each time |
| `Preempt` | a tick outside a call, or the null process looking for work |

`signal` tests a local variable it never assigned (`signal.c:48`), so `Wakes`
gives it either outcome. The scheduler is one FIFO list for each core, with the
null process when it is empty; `Scheduler` has the priorities. The queue
operations are atomic: the semaphores' queues are created first at boot and do
have their locks. A `kill` of a waiting process is not in the model. Programs use ids that `semcreate` has returned (`known`),
freed and reused ones included. `MaxCalls` bounds the calls of a behaviour.

The refinement mapping takes a unit to be given when the waiter is dequeued, not
when it is signalled: the units of a semaphore are its count plus the number of
processes that `wait` has turned away and nobody has dequeued. `guessed` is a
history variable: the semaphores on which `signal` has been called, whose
sleepers the count no longer tells.

### Messages

`msg_var` is `hasMessage`, `msgin`, `msgout` and `msgqueue`; `lock[r]` is the
holder of `core_com_lock` of process `r`. `HasLock` says which processes have one:
by the count above the locks run out at process 22, and from then on
`lock_acquire` and `lock_release` do nothing. The calls do not touch the
interrupt mask, so whether a call can be preempted depends on the program
(`Interruptible`).

| Action | Code |
|---|---|
| `Send`, `Sendnow`, `Recv`, `Recvnow` | the calls |
| `Acquire`, `Release`, `SendUnlock` | the lock; `recv` keeps it over `resched` |
| `Look` | `sendnow`'s test before it has the lock |
| `Test`, `Block`, `Enqueue`, `CallResched`, `Awake` | a sender finds the slot full: `PRSEND`, `msgout` and queue, unlock, `resched`, return |
| `Deposit`, `Flag`, `Wake` | message, flag, and the test of the receiver's state |
| `Mark`, `Enlist`, `Yield` | `ready`, when the test has found `PRRECV`: whatever the state is by now, it is stored, the process enqueued, and `resched` called if it has the sender's core. `WakeSender` is the first of these in `recv` |
| `Meet`, `Stopped` | the enqueue of `ready` meets another core in the ready list |
| `GetTest`, `Sleep`, `TakeMessage`, `Clear`, `Dequeue`, `Refill`, `WakeSender`, `Reset` | the receiving side; `recvnow` stops after `Clear` |

The refinement mapping takes the slot, then the message `recv` moves from queue
to slot, then the `msgout` of the queued senders, as one mailbox. A receiver
that uses `recvnow` is not `Ordered`: it can leave an empty slot in front of
waiting senders, and a later sender overtakes them.

### FreeMemory

Addresses and sizes count units of 8 bytes; `next[a]` and `length[a]` are the
words of a `memblk` at `a`. The list head of core `c` is a cell of its own,
because `freemem` treats `&freelist[c]` as a block: it adds the head's `length`
to its address to see whether a block abuts it. `HeadAddr` is that address. In
the kernel image it lies below the heap. A `memhead` has 20 bytes, so at least one
of the heads of any two neighbouring cores is not on a multiple of 8 and can match
no block; a head that is, which depends on the linker, can match one in region 0
only. The run has the heads off the grid; `FreeMemoryHead.cfg` has them on it, and
there `freemem` joins a block with the head. Addresses are counted modulo the
2^29 units of the address space, and the heap is assumed to be smaller than that.
`GetmemRead` reads the head before the lock
is taken; the rest of a call is one step, since it runs with interrupts disabled
and the lock of the list held. `Write` is a program that uses its block:
`freemem`'s overlap test reads the second word of the block it is given. Two
things end a behaviour (`Stopped`): `wild`, when `freemem` walks past the end of
the list through address 0 or the rest of a split block would lie outside the
heap, and, unless `Follow`, a `getmem` from an old head
(`stale`).

### Console

The rings, counters and `oidle` of `serial_port`, the two semaphores with the
processes that sleep on them, `olock`, the position of each call (`ctx`) and of
the handler, and the UART: holding register, transmit interrupt, receive
register, the line. `putc` and `getc` are one step for each shared access
(`Putc` ... `PutUnlock`, `Getc` ... `GetCount`), the handler too (`Interrupt`
... `ReceiveWake`). So are the two halves of `wait` (`PutWait` or `Getc`, which
count down, and `Sleep`, which enqueues) and each turn of `signaln` (`Signal`,
`ReceiveSignal` count up, `SignalWake`, `ReceiveWake` dequeue): a signal between the
two halves of a `wait` finds the queue empty and wakes nobody, as in
`SemaphoreLost.cfg`. Whom `signaln` has made ready runs sooner or later (`Resume`);
the ready lists are not part of this model. The UART is the external part: `uartinit` leaves the FIFOs
off, so it holds one character each way, and it withdraws the transmit interrupt
when it is given a character.

Writers share one core. Two cores that test `oidle` at once both take the direct
way to the UART, and one character is lost; a reader off the handler's core
races with it on `icount`. The properties are checked where the code does keep
them.

### FileSystem

The free list is a chain of segments (`struct freeblock`), each in a free block of
its own. In memory it is a chain of `Cells`, on the disk of block numbers; a call
swaps the pointers of the structure it writes for numbers (`Number`,
`DIRBLOCKNUM`), writes, and swaps them back in a later step (`Unswizzle`,
`LastDone`, `Relink`). A call is one step up to each `wait`, `seek` and `write`.

| Action | Code |
|---|---|
| `FormattedDisk`; `SegmentsOf`, `FilesOf` | `sbInit`; `sbOpen` |
| `Create`, `Slot`, `Assign` | `fileCreate`, which takes its slot before it has a block |
| `ReadHead`, `FreeLock` | the head of the list is read before the lock is taken, in `sbGetBlock` and `sbFreeBlock` |
| `GetEntry`, `GetLast`, `LastDone`, `GetSegment`, `Unswizzle` | `sbGetBlock`: an entry, the block of the last segment, the block of an empty one |
| `PutFirst`, `PutSegment`, `Relink`, `PutEntry` | `sbFreeBlock`: the first segment, one more, an entry of the last one |
| `Open`, `PutChar`, `Close`, `Closed`, `Delete`, `Unlink`, `Unlinked`, `Refused`, `DirLock`, `DirDone` | the file calls |
| `Seek`, `Write`, `WriteFails` | the disk; which error return follows depends on the call |
| `Crash` | power off; the next boot calls `sbOpen` |

`sbFreeBlock` gives `write` the size of a superblock for a segment; the disk driver
in the repository (`device/disk/xinu-disk.c`) transfers whole blocks, so `Written`
stores the segment. `wild` ends a behaviour in which a word that is no pointer, or no
block number, has been followed (`Astray`, `Seek`). `unsaved` is a history variable:
a new segment, or the end of a `fileDelete`, has not reached the disk. `JUNK` is a word of memory that
nobody wrote and is taken to be no block. `Room` bounds the number of segments in
memory by the number of cells, one more than there are blocks.

## 3. Runs

| Run | Instance | Shows |
|---|---|---|
| `sched_uni` | 1 core, 3 slots, 3 creations, priorities low and high, kills with interrupts masked | `TypeOK`, `ReadyMeansListed`, `OnePlace`, `CreatedContextIntact`, `ContextKept`, and under fairness `NoStarvation` |
| `sched_smp` | 2 cores, 5 slots, 2 creations, no slot used twice | `PlaceMatchesState`, `NullEligible`, `NumprocAccounts` |
| `sched_newpid` | 1 core, two creators | violation: `newpid` gives one slot to two creators |
| `queue_locked` | 2 cores, 3 processes, a queue both take from and one with a single taker, each with its lock | `TypeOK`, `MutualExclusion`, `LinksMirror`, `NoneLost`, `Linearizable` (refinement of `ProcessQueues`), and under fairness `LockReleased` |
| `sem_uni` | 1 core, 3 processes, 2 semaphores, 6 calls of all five kinds | `WaitersMatchCount`, `FreedKeepsNobody`, `UnitsNotOverdrawn` (refinement of `CountingSemaphores`), and under fairness `WokenReturns` |
| `sem_smp` | 2 cores with 2 processes each, 1 semaphore, 7 calls of `wait`, `signaln`, `semcreate` | `TypeOK`, `OnePlace`, `UnitsNotOverdrawn` |
| `messages` | 2 cores, 4 processes, 3 messages, all four calls; one receiver with a lock, one without | `TypeOK`, `NoSleepWithMessage`, `SendersWaitForFullSlot`, `OnePlace`, `MailDelivered` (refinement of `Mailboxes`) |
| `msg_recv` | 2 cores, a receiver that waits before its message comes | violation: `recv` sleeps with the lock its sender needs, and neither returns |
| `heap` | 2 cores with regions of 5 units, requests of 1 and 2 units, allocated on one core and freed on both | `TypeOK`, `EveryUnitOnce`, `LengthIsListSize`, `Coalesced`, `MallocTakenBack` |
| `console` | two writers on core 1, a reader on the handler's core 0, rings of 2, 5 characters out and 3 in | `TypeOK`, `OutputConserved`, `SemaphoresCount`, `InputInOrder` |
| `fs_faults` | 1 process, 4 blocks in segments of 2 entries, 2 files, 4 creations, one write that fails and one crash | `TypeOK`, `BlocksOnce`, `DiskConsistent` |
| `fs_segment` | the same without faults | violation: the block of a new segment is not written, and the list on the disk holds a block twice |

Further configurations show the limits of the passing runs. Each ends in a
counterexample of the property it names.

| Configuration | Violated | Why |
|---|---|---|
| `SchedulerReuse.cfg` | `CreatedContextIntact` | `kill` frees a slot before its process has left it, and `create` on the other core takes it |
| `SchedulerMasked.cfg` | `NoStarvation` | a child that never enables interrupts keeps its core: aging and preemption do not help |
| `QueueUnlocked.cfg` | `NoneLost` | the ready list has no lock, and two cores enqueue at once |
| `SemaphoreLost.cfg` | `WaitersMatchCount` | a signal between the decrement and the enqueue of a `wait` is lost |
| `FreeMemoryStale.cfg` | `BlocksDisjoint` | `getmem` works from a head that a `freemem` has replaced: memory is given out twice |
| `FreeMemoryRefused.cfg` | `NoneRefused` | a program has written the second word of its `getmem` block, `freemem` takes it for a length and refuses a good block |
| `FreeMemoryHead.cfg` | `LengthIsListSize` | the head of a list ends where a block begins, and `freemem` joins the two |
| `MessagesSwitched.cfg` | `OnePlace` | a sender with interrupts enabled is switched off between `PRSEND` and its enqueue, and is in no list for ever |
| `ConsoleIdle.cfg` | `NoneStranded` | the handler marks the transmitter idle while a writer it has woken has yet to store its character |
| `FileSystemShared.cfg` | `BlocksOnce` | two processes delete one file and free its block twice |

Why the bounds are enough. On one core three slots are the null process, MAIN
and a child, and three creations use the child's slot again while another
process holds a stale pid; a quantum of 2 separates the promotions of medium and
low priority and lets a tick arrive at every step. On two cores each has its
null process and a child of its own, and MAIN competes with both. For the
queues two cores are all that can meet at one link with a third spinning, and
three processes give a list with a first, a middle and a last element, so
`remove` is exercised at each and `dequeue` meets `enqueue` on a list of length
one. For the semaphores, six calls on one core are a `semcreate`,
two waits, a `semfree` or signal of both, and a wait on the entry used again;
seven on two cores let two waiters and two signallers be inside at once. Three
messages fill a slot, queue a sender behind it, and leave one to be sent while
the first is taken. Five units hold a split, a block between two free
neighbours, and both kinds of coalescing; the second core frees into a list it
does not allocate from, as `kill` does. Rings of two wrap, fill and empty within
five characters, with both writers asleep on a full one. Six disk blocks are one
full segment and one that is not, so the four creations and the deletions in
between walk `sbGetBlock` and `sbFreeBlock` through all of their cases, an empty
list included; one failure and one crash meet every write of the calls named in
`FailIn` and `CrashIn`.

What the violations mean for the passing runs: `sched_uni` has one creator, and
`sched_smp` no slot that is used twice; within those limits the properties hold
at every interleaving up to the first meeting in a ready list. The lock of a queue
exists in `queue_locked`. In `messages` `sendnow` alone sends to its receiver
(`Single`), who calls `send` is masked (`MaskedSenders`), and a receiver without a
lock hears from its own core only (`Guarded`); each of these gives a counterexample
when it is dropped (see the hazards). In
`heap` nothing follows a `getmem` from an old head. In `fs_faults` no crash falls
into `fileDelete`, which frees the block on the disk before it unlinks the file,
and `DiskConsistent` says nothing after a new segment that is not written
(`unsaved`).

Two further limits of the semaphores show when the constants of
`SemaphoreSmp.cfg` are widened. With `Signallers` on two cores
`UnitsNotOverdrawn` fails: a `signal` that takes its unassigned variable for
zero wakes a process that went to sleep after another one took the unit. With
`Freers` there, `FreedKeepsNobody` fails: a `wait` on the other core can fall
between the last `nonempty` of `semfree` and its state change. `sem_smp` has
neither, and `sem_uni` has both.

`kill` of another process is checked with interrupts masked (`KillOthers` is
`{FALSE}`): a killer that can be preempted between `kill`'s steps may free a
slot that has been taken again.

### Findings

Three of the runs end in a violation of what a comment in the source says.

* `sched_newpid`: `newpid` returns "a free process id" (`create.c:111`) that it has
  not reserved; `create` marks the slot only later, and a second creator gets it
  too.
* `msg_recv`: "wait for a mesage and return it" (`recv.c:12`): `recv` reschedules
  while it holds the lock that `send` needs to deposit the message.
* `fs_segment`: "write the changed free list segment(s) back to disk"
  (`src/xinu-hw10/file/sbFreeBlock.c:16`): when the last segment is full, the new
  one is not written.

Two more disagreements between comments and code show in the configurations that
mark limits.

* `QueueUnlocked.cfg`: `enqueue` is to "Insert a process at the tail of a queue"
  (`queue.c:15`), under a lock. The ready lists are appended to by several cores,
  and their `lock_create` fails (`queue.c:153`), silently: two appends at once lose
  a process.
* `FreeMemoryRefused.cfg`: `freemem` "can only fail because of memory corruption or
  specifying an invalid memory block" (`freemem.c:22-23`). Its overlap test reads
  the length of the block from the block itself (`freemem.c:104`), before it stores
  it there (line 116): a program that has used the second word of memory it got
  from `getmem` can be refused. `malloc` keeps the length in that word, and what
  holds is `MallocTakenBack`.

### Fairness

`Fairness` of `Scheduler` is weak fairness of the timer (the hardware re-arms it
in every `clkhandler`), of kernel code and of the null loops, on each core; of
programs it assumes only that those in `Enablers` call `enable`, as `main` does
first. A process whose program never yields is included: the tick preempts it.
`FairSpec` of `Queue` is weak fairness of each core's steps inside an operation,
which run with interrupts disabled. A core that spins is not assumed to win the
lock, so `LockReleased` says that holders come out, not that every contender
gets in. `FairSpec` of `Semaphore` is weak fairness of the steps inside a call,
which nothing on the core interrupts, and of the tick; that programs do run with
interrupts enabled is assumed here (`SchedulerMasked.cfg` shows what happens when
they do not). `FairSpec` of `Messages`, of which `msg_recv` checks a liveness
property, is the same: a running call goes on and the clock keeps ticking, so the
receiver of the counterexample is stuck for want of a message, not of a turn. The
heap, the console and the file system are checked for safety only.

### Mutants

Beside several actions stands a variant, marked `mutant`, that a plausible slip
would produce: a promoted process that is not enqueued, a quantum tested before
its decrement, an enqueue on the caller's core, a forgotten release, a receiver
that is not made ready, a segment that is not written back. Each
property of a passing run is violated when the action is replaced by one of
them; `PROJECT.json` pairs them.

## 4. Proofs

TLAPS checks every theorem below for all values of the constants that the named
assumptions of the modules allow. Where a theorem has a hypothesis of its own, it
restricts the program that runs on the kernel or the number of cores, and the
configuration that checks the same property satisfies it. The restriction is
never for the prover's sake: section 3 or a hazard names the counterexample TLC
finds without it. The theorems of `SchedulerProofs`, `SemaphoreProofs` and
`MessagesProofs` are about the models with `torn`: for several cores they say what
holds until two of them meet in a ready list.

| Theorem | Statement | Hypothesis |
|---|---|---|
| `SchedulerProofs!TypeCorrect` | `[]TypeOK` | – |
| `SchedulerProofs!NullAlwaysEligible`, `NeverTwice`, `StateTells`, `NoneLost`, `FilledIntact`, `SavedIntact` | `[]NullEligible`, `[]OnePlace`, `[]PlaceMatchesState`, `[]ReadyMeansListed`, `[]CreatedContextIntact`, `ContextKept` | `Separated` |
| `SchedulerProofs!SlotsCounted` | `[]NumprocAccounts` | `Separated`, `KillOthers = {}` |
| `QueueProofs!QueueTypeCorrect` | `[]TypeOK` | – |
| `QueueProofs!QueueMutualExclusion` | `[]MutualExclusion` | – |
| `QueueProofs!ListsMirrored`, `NoneIsLost` | `[]LinksMirror`, `[]NoneLost` | `AllLocked` |
| `QueueProofs!Linearized` | `Linearizable` (refinement of `ProcessQueues`) | `AllLocked` |
| `SemaphoreProofs!TypeCorrect`, `Conserved` | `[]TypeOK`, `[]OnePlace` | – |
| `SemaphoreProofs!SmpNotOverdrawn` | `UnitsNotOverdrawn` (refinement of `CountingSemaphores`) | `ManyCores` |
| `SemaphoreProofs!UniNotOverdrawn`, `CountMatched`, `FreedReleases` | `UnitsNotOverdrawn`, `[]WaitersMatchCount`, `[]FreedKeepsNobody` | `NCORES = 1` |
| `MessagesProofs!TypeCorrect`, `NeverSleepsOnMessage`, `SendersWait` | `[]TypeOK`, `[]NoSleepWithMessage`, `[]SendersWaitForFullSlot` | `Guarded` |
| `MessagesProofs!Conserved` | `[]OnePlace` | `Guarded`, `MaskedSenders` |
| `MessagesProofs!Delivery` | `MailDelivered` (refinement of `Mailboxes`) | `Guarded`, `Single` |
| `FreeMemoryProofs!TypeCorrect` | `[]TypeOK` | – |
| `FreeMemoryProofs!UnitOnce`, `ListSize`, `FullyCoalesced`, `MallocNotRefused` | `[]EveryUnitOnce`, `[]LengthIsListSize`, `[]Coalesced`, `[]MallocTakenBack` | `Clear` |
| `ConsoleProofs!TypeCorrect`, `Counted`, `Conserved`, `InOrder` | `[]TypeOK`, `[]SemaphoresCount`, `[]OutputConserved`, `[]InputInOrder` | `SharedCores` |
| `FileSystemProofs!FileSystemTypeInv`, `FileSystemTypeOK` | `[]TypeInv`, `[]TypeOK` | – |
| `FileSystemProofs!FileSystemInv`, `FileSystemBlocksOnce`, `FileSystemDiskConsistent` | `[]Inv`, `[]BlocksOnce`, `[]DiskConsistent` | `Single`, `"delete" \notin CrashIn` |

### Scheduler

`TypeCorrect` is not only about types: every quantum stays in `1 .. QUANTUM`.
The variables are unsigned longs tested with `<= 0`, and a missed reset would
wrap them.

`NullAlwaysEligible`: every core's null process runs on it or is in one of its
lists, so `resched` never dequeues `EMPTY` and never indexes `proctab[-2]`, until
two cores meet in a ready list. Alone this is not inductive: a null process could be freed by `kill`, filled in
by `create`, or enqueued on another core by `ready`. The invariant adds that no
context of any process or core has a null process as its argument, that no null
process is free, and that none is ever on another core. From that, no call
touches a null process but `resched` of its own core, and a round of aging and
requeueing keeps the members of a core's lists together. Since `newpid` may read
`nextpid` after its test, this needs that nobody else advances it (`ReadsAgree`),
which one creator gives.

The other five follow from `SchedInv`: the types, the invariant above, `Places`,
`NewSlots` and `ReadsAgree`.
`Places` says that a core lists no process twice, only processes that are
`PRREADY` and its own; that what a core runs is `PRCURR`, unless it is at the end
of a `kill`; that a ready process is listed or on its way; and what a call knows of
the pid it is about. The last part is what makes the rest inductive. A call that
is switched off (`KnowsOff`) is at no step that would have to finish first: before
the enqueue of `ready` and inside `kill` interrupts are masked, so its core cannot
be taken away. A call that runs (`KnowsOn`) holds a slot that `create` found free,
or one that it has just made `PRREADY` and that is still in no list.

`Separated` is what the code needs of its callers. Two creators can be given one
slot (`sched_newpid`), so one process creates. `kill` frees a slot before its
process has left it, and on a second core `create` can take it meanwhile
(`SchedulerReuse.cfg`), so either there is one core or no slot is used twice;
`NewSlots` is the invariant for the second case: above `nextpid` every slot is
unused. And `kill` of another process is safe on one core with interrupts masked
only. `SchedulerUni.cfg` and `SchedulerSmp.cfg` satisfy one disjunct each.

`SlotsCounted` counts sets of processes: those in use, those at `create_suspend` and
those between `kill_count` and the end of `kill`. Each step adds one process to one
of them, takes one out, or moves one between two, and `numproc` follows
(`MoveBusy`); `resched` moves contexts about but leaves the three sets alone
(`SwitchBusy`). It needs `SchedInv` to know where the context of a process is, and
`OwnKills`, that a `kill` under way is of the process that runs it. Without
`KillOthers = {}` it is false on one core too: TLC has a process that is preempted
inside its own `kill`, after the decrement, killed by another one and so
discounted twice. `SchedulerSmp.cfg`, which checks the property, satisfies it.

### Queues

`QueueTypeCorrect` and `QueueMutualExclusion` hold whether or not the queues have
locks (the second is about locks that exist). The invariant adds that only heads
have no predecessor, and what a core's frame holds at each label; so no store
goes through `EMPTY`, and `remove` never mistakes another entry for a head.

### Semaphores

`ReadyListsProofs` has the lemmas that `Semaphore` and `Messages` share: what
`Resched`, `MarkReady` and `ListReady` do to a process, one process at a time, and that they
keep the lists apart (`Apart`: a process stands at one position of one list).

`PlaceInv` is `TypeOK`, `OnKnown` (a call is about a semaphore that `semcreate`
has returned) and `Placement`. `OnePlace` alone is not inductive: it counts the
places of a process but says nothing of the steps between two places. `Called`
adds at which steps a process may be off its core and what its state is there,
`Exclusive` that a queue, a ready list and the hands of a process about to make
another one ready exclude each other, `Placed` that a process that does not go on
running is in exactly one of them. A process that `Ready` has marked is still in the
hands of its waker, until `Enlist`. It holds whatever the cores do to each other on
`semtab`.

The counts need more. `Matching` ties each step to the calls that go through it.
On one core (`UniInv`) a semaphore nobody is freeing is `Balanced`: as long as no
`signal` has guessed, its waiters are those its negative count stands for plus
those whom a dequeue is about to release, and always the pending dequeues are at
most the count plus the waiters. On several cores (`SmpInv`), with `signaln`
alone, the waiters are at least those two together; they may be more,
because a signal between the decrement and the enqueue of a `wait` is lost
(`SemaphoreLost.cfg`), which is why `WaitersMatchCount` is proved for one core
only.
`Disciplined` is what either invariant gives the refinement; from it each step is
a step of `CountingSemaphores` or a stutter.

`ManyCores` says that nobody calls `signal` or `semfree` and that creators share a
core: with `Signallers` or `Freers` on two cores the properties fail, as section 3
tells, and two creators can be given one semaphore.

### Messages

`PlaceInv` is the same idea, with blocked senders in the queue of a receiver or in
its hands, with the process that `ready` has marked and not enqueued yet, and with
`Filled`: what is about to be read as a message is one. It needs `Guarded`: the
state that `Wake` has tested is that of `Mark` only if nobody else wakes the receiver
in between. A sender that is switched off before its enqueue is in no list and in
nobody's hands; `Conserved` excludes that with `MaskedSenders`, from which
`EnqueueRuns` follows: who stands there has its core.

`GuardInv` adds that the process at a step that touches a slot is alone there. A
receiver with a lock is guarded by it (`Holder`): `recv` keeps the lock over
`resched`, so the lock belongs to the sleeper too. A receiver without a lock is
guarded only by its core, and only while interrupts are masked (`Alone`), which is
the hypothesis `Guarded`; process 22 of the kernel and those after it have no lock.
`Slots` then says what that one process may rely on and that a receiver with a
message sleeps only until the `wake` that is under way.

`MailInv` adds what a call knows of the slot it works on (`Rooms`, `Mails`), that a
sender waits in the queue of its own receiver (`Home`), and that a message is on
its way or in a mailbox, not both (`Fresh`); without the last, taking a message
twice could pass for taking two equal ones. `Single` is needed because `sendnow`
looks at the slot before it has the lock: a second sender can fill the slot in
between, and `sendnow` overwrites the message. `MCMessages` states
`Guarded /\ Single` as an assumption, so TLC confirms that the checked program has
both. The mapping to `Mailboxes` has three parts, the slot, what the receiver has
in hand, and the rest of the queue; each action is shown to change one of them as
a step of `Mailboxes` does, or to move a message from one part to the next, which
is a stutter.

### Heap

`TypeCorrect` needs nothing but `Called`, that a core inside `getmem` asks for
something. It includes the behaviours in which a call has gone astray.

The other four are about behaviours in which no call has (`Sound`), as the
properties themselves are, and follow from `IInv == TypeInv /\ (Sound => HeapInv)`.
None of the four is inductive. `HeapInv` says where everything is: every list is
a `Part` (`Lists`); its head keeps the number of units it covers (`Counts`); the
blocks of programs lie within one region (`Inside`); every unit is in one free
block, one owned block or one refused block (`Tiled`); an owned block has its size
in its second word and, after `malloc`, its own address in the first, unless a
program has written there (`Marks`), which it does in blocks of `getmem` only; and
so only those are refused (`Denied`).
`Marks` is what connects the calls: `free` passes on the size it finds, and
`freemem`'s overlap test reads it.

`Walk` is a recursive function. That its definition has a solution, and that a
walk along a chain meets all of its cells and only those, is proved by induction
over the set of numbers for which it is so (`SetInduction`, which comes from the
library's `WFMin` and has no operator parameter). After that the proofs reason about
a list as a set of cells (`Chain`: each cell is followed by the least of those
above it) and about its blocks (`Part`: in the region, apart, and with gaps except
where the set `E` allows two to touch). Four lemmas say what the calls do to a
`Part`: leave a block out, shorten it at the lower end, insert one, join two that
touch. `getmem` is one of the first two (`UnlinkHeap`, `SplitHeap`). `freemem` inserts
a block that may touch both neighbours, and its two joins take the exceptions away
again (`CoalescedPart`).

`Clear` says that no block of a core lies where the head of its list would end.
Without it `freemem` takes the head for a free block; the section on `FreeMemory`
tells for which heads that is possible, and `FreeMemoryHead.cfg` shows what happens.

### Console

`SharedCores` is the deployment `Console` describes: the writers share a core and
the readers have the handler's. `IInv` adds to the four properties: at most one
active call on a core, and none on core 0 while the handler runs there
(`OneAtATime`); what a call and the handler know at each step (`Frames`); that
while `oidle` is set, or a call is about to write to the UART, nothing else is
under way there (`Transmitter`), which is what makes the direct way of `putc`
safe; that the sleepers are the queue, and that the waiters, asleep or on their way
to the queue, are at least as many as the count is below zero and the handler is
about to wake (`Sleepers`); and that nothing on the way out was not written (`Fresh`).
They may be more: a signal that finds the queue empty wakes nobody, and the process
that was on its way there sleeps on. That is enough, since no place of the ring is
given to more calls than there are places.
`SemaphoresCount` is used as it is, and `OutputConserved` and `InputInOrder` are
read through `Ring`, whose lemmas say what an append at the end and a take at the
start of a ring do to the sequence it holds.

### File system

The types are proved for any number of processes and all faults. `TypeInv` says
besides `TypeOK` what the disk holds (`DiskOK`), where a frame can be and with which
locals (`FrameOK`, `PhaseOK`), and that a link in memory is a pointer, except the one
the holder of `sb_freelock` has put a number for (`LinksOK`); after a failed write has
left the lock behind, nobody follows the links any more (`Held`).

The rest has two hypotheses. `Single`: one process, as the shell is; with two,
`FileSystemShared.cfg` violates `BlocksOnce`. And no crash in the middle of
`fileDelete`, which frees the block on the disk before the directory there drops the
file; with one, `DiskConsistent` fails. Any number of writes may fail, in any call.

`BlocksOnce` and `DiskConsistent` count how often a block occurs in lists that are
defined by following links, and neither is inductive: `BlocksOnce` is silent while
the list is locked, and a block that `Walk` or `Chain` does not meet now may be met
after the next step. The inductive invariant `Inv` speaks of places instead: the own
block and each entry of every segment in memory, whether linked or not, each file,
and the hand of the process (`Places`). `MemOK` says that no two of them hold the same
block (`Once`), and a step is then a map from places to places that sends no two to
the same one (`OnceMoved`, `OnceOneMoved`). `DiskInv` ties the disk to memory: every
live segment is on the disk in its own block, with the number of the next segment
for the pointer to it (`SegMatch`), unless it is the one a call has yet to write
(`Pending`); the superblock is that of memory up to what `sbGetBlock` and `sbFreeBlock` have
written ahead (`SuperMatch`); and a file in the directory of the disk is one in memory,
but for the one being deleted (`DirOK`). From this the list on the disk has every block
in one place (`ListOK`), before and after each write: that is what a crash finds. A
call that has left the list locked is outside of it, and the list on the disk stays as
it was (`Stuck`). After a crash `sbOpen` builds memory from a disk that is sound
(`Sound`), and `Inv` holds again (`RestartMem`, `RestartDisk`). For this the chain on the
disk must meet no block twice (`ChainOnce`): a chain that ends does not, because two
places of it that meet stay together to the end (`ChainShift`). The last step is to
count: of four sets that go to one place at most one has a member (`CountOnce`).

### Only model-checked

* Liveness (`NoStarvation`, `LockReleased`, `WokenReturns`) and the violations: the
  prover has no ENABLED.

## 5. Not modelled

* Names, arguments and stack contents of processes; `clktime` and `clkticks`; the
  bad-pid returns of the message calls, whose processes stay alive here; a `kill`
  of a process that waits on a semaphore or for a message.
* `lock_free`, which has no caller; the scan of `lock_alloc`, which runs on one
  core at boot.
* All formatting: `printf` and `kprintf` call `putc` and the busy-waiting output
  character by character; the menu of `testcases.c`; the shell of hw10.
* In the file system: contents, lengths and cursors of files (`fileGetChar`,
  `fileSeek`), names (a slot stands for its name), a `malloc` that fails, a
  block of which the disk has stored a part.
* What becomes of a ready list in which two cores have met, and of the kernel after
  it: the models stop there.
* Device registers, the MMU and the boot assembly: sequential set-up of hardware
  whose behaviour is not in the repository.
* `src/xinu-hw10/device/disk/xinu-disk.c`, the host's end of the disk protocol,
  answers one request at a time; the driver it talks to is in a binary library,
  so neither retries nor lost characters can be modelled from code. The headers
  of hw10 describe devices of that library.
* `libxc` and the other archives, which are binary.
* `xinu-hw3` to `xinu-hw8`: each is an earlier state of the files modelled here.
  They make up most of the lines of the repository, so the share of lines that
  has a model is small although the kernel of `xinu-hw9` has few operations
  without one.

## 6. Plan

1. Composition of `Scheduler` and `Queue`: the stores of an append that meets another
   core, in place of `Meet`, and a tick inside `remove`; and of `Scheduler` with the blocking calls: `kill` of a process that waits.
2. Liveness of the console: with a transmitter that works, every character that
   `putc` has stored is sent as long as somebody keeps writing.
