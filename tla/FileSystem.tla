------------------------------ MODULE FileSystem ------------------------------
(***************************************************************************)
(* The file system of xinu-hw10 (file/): the list of free disk blocks, the *)
(* directory, and what of them is on the disk.                             *)
(*                                                                         *)
(* The free list is a chain of segments, each kept in a free block of its  *)
(* own: in memory a chain of struct freeblock (cells), on disk of block    *)
(* numbers.  A call writes a structure the way it is in memory, after it   *)
(* has put block numbers in place of pointers, and puts them back later.   *)
(* A call is one step up to each wait, seek and write.                     *)
(*                                                                         *)
(* Faults: a write that fails, and a crash, after which sbOpen rebuilds    *)
(* everything from the disk.                                               *)
(***************************************************************************)
EXTENDS Integers, FiniteSets, FiniteSetsExt

CONSTANTS
  Procs,
  DISKBLOCKTOTAL,
  FREEBLOCKMAX,   \* entries of a segment
  DIRENTRIES,
  FailIn,         \* calls in which a write may fail
  CrashIn,        \* calls in which the machine may crash
  MaxFailures, MaxCrashes, MaxCreates   \* bounds: failed writes, crashes, calls of fileCreate

NULL    == 0
SYSERR  == -1
SUPERBLOCKNUM == 0
DIRBLOCKNUM   == 1
Blocks  == 2 .. DISKBLOCKTOTAL - 1
JUNK    == DISKBLOCKTOTAL     \* a word of memory never written: no block
Slots   == 0 .. DIRENTRIES - 1
Entries == 0 .. FREEBLOCKMAX - 1
Cell(i) == -3 - i             \* a pointer; block numbers are positive
Cells   == {Cell(i) : i \in 0 .. DISKBLOCKTOTAL}
DIR     == -2                 \* the pointer to the directory

ASSUME FileSystemAssumption ==
  /\ DISKBLOCKTOTAL \in Nat /\ DISKBLOCKTOTAL > 3
  /\ FREEBLOCKMAX \in Nat \ {0} /\ DIRENTRIES \in Nat \ {0}
  /\ FailIn \cup CrashIn \subseteq {"create", "close", "delete"}
  /\ {MaxFailures, MaxCrashes, MaxCreates} \subseteq Nat
  /\ "free" \notin Procs
  (* sbInit writes a last segment that is not full.                        *)
  /\ (DISKBLOCKTOTAL - 2) % (FREEBLOCKMAX + 1) # 0

VARIABLES
  seg, live,                \* the struct freeblock at each cell; the cells allocated
  sb_freelst, sb_dirlst,    \* the superblock
  filetab,                  \* the directory
  sb_freelock, sb_dirlock,  \* the semaphores: their holder, or "free"
  disk, current,            \* the blocks of the disk; where the last seek went
  ctx,                      \* where each process is in its call, and its locals
  failures, crashes, creates,   \* so far (bounded)
  unsaved,                  \* history: a new segment, or the end of a fileDelete, is not on disk
  wild                      \* a word that is no pointer, or no block, has been followed

super  == <<sb_freelst, sb_dirlst>>
locks  == <<sb_freelock, sb_dirlock>>
device == <<disk, current>>
faults == <<failures, crashes, unsaved>>
vars   == <<seg, live, super, filetab, locks, device, ctx, faults, creates, wild>>

User  == [call |-> "none", at |-> "user", fd |-> 0, block |-> NULL, cell |-> NULL, save |-> NULL,
          what |-> "none"]
Blank == [num |-> JUNK, count |-> 0, next |-> NULL, free |-> [i \in Entries |-> JUNK]]

-----------------------------------------------------------------------------
(* sbInit: segments of consecutive blocks, the last one not full.          *)
Heads == {b \in Blocks : \E i \in 0 .. DISKBLOCKTOTAL : b = 2 + i * (FREEBLOCKMAX + 1)}

Formatted(b) ==
  LET end == b + FREEBLOCKMAX + 1
  IN  [num   |-> b,
       count |-> Min({end, DISKBLOCKTOTAL}) - b - 1,
       next  |-> IF end < DISKBLOCKTOTAL THEN end ELSE NULL,
       free  |-> [i \in Entries |-> IF b + i + 1 < DISKBLOCKTOTAL THEN b + i + 1 ELSE JUNK]]

Superblock(free, dir) == [type |-> "super", freelst |-> free, dirlst |-> dir]
Directory(files)      == [type |-> "dir", files |-> files]
Segment(s)            == [type |-> "seg", seg |-> s]
Data                  == [type |-> "data"]

FormattedDisk ==
  [b \in 0 .. DISKBLOCKTOTAL - 1 |->
     CASE b = SUPERBLOCKNUM -> Superblock(2, DIRBLOCKNUM)
       [] b = DIRBLOCKNUM   -> Directory([fd \in Slots |-> [state |-> {}, block |-> JUNK]])
       [] b \in Heads       -> Segment(Formatted(b))
       [] OTHER             -> Data]

(* sbOpen: the segments that follow one another on a disk ...              *)
Chain(d) ==
  LET chain[i \in 0 .. DISKBLOCKTOTAL] ==
        IF i = 0 THEN d[SUPERBLOCKNUM].freelst
        ELSE IF chain[i - 1] \in Blocks /\ d[chain[i - 1]].type = "seg"
             THEN d[chain[i - 1]].seg.next ELSE NULL
  IN  chain

Readable(d) ==
  /\ d[SUPERBLOCKNUM].type = "super" /\ d[SUPERBLOCKNUM].dirlst = DIRBLOCKNUM
  /\ d[DIRBLOCKNUM].type = "dir"
  /\ LET chain == Chain(d)
     IN  /\ \A i \in DOMAIN chain :
              chain[i] # NULL => chain[i] \in Blocks /\ d[chain[i]].type = "seg"
         /\ chain[DISKBLOCKTOTAL] = NULL

(* ... and memory as it is built from them.                                *)
CellsOf(d) == {Cell(i) : i \in {j \in 0 .. DISKBLOCKTOTAL : Chain(d)[j] # NULL}}

SegmentsOf(d) ==
  [c \in Cells |->
     IF c \notin CellsOf(d) THEN Blank
     ELSE LET s == d[Chain(d)[-3 - c]].seg
          IN  [s EXCEPT !.next = IF @ = NULL THEN NULL ELSE c - 1]]

FilesOf(d) == [fd \in Slots |-> [d[DIRBLOCKNUM].files[fd] EXCEPT !.state = @ \cap {"used"}]]

Init ==
  /\ disk = FormattedDisk /\ current = DIRBLOCKNUM
  /\ seg = SegmentsOf(disk) /\ live = CellsOf(disk)
  /\ sb_freelst = Cell(0) /\ sb_dirlst = DIR
  /\ filetab = FilesOf(disk)
  /\ sb_freelock = "free" /\ sb_dirlock = "free"
  /\ ctx = [p \in Procs |-> User]
  /\ failures = 0 /\ crashes = 0 /\ creates = 0 /\ unsaved = FALSE
  /\ wild = FALSE

At(p, step)   == ~wild /\ ctx[p].at = step
Goto(p, step) == ctx' = [ctx EXCEPT ![p].at = step]
Return(p)     == ctx' = [ctx EXCEPT ![p] = User]
GoesWild      == wild' = TRUE /\ UNCHANGED <<seg, live, super, filetab, locks, device, ctx, faults, creates>>

(* Go on to seek and write a structure.                                    *)
Save(p, c, what) == [c EXCEPT !.at = "seek", !.what = what]

Crash ==
  /\ ~wild /\ crashes < MaxCrashes
  /\ \A p \in Procs : ctx[p].call \in CrashIn \cup {"none"}
  /\ crashes' = crashes + 1
  /\ IF Readable(disk)
     THEN /\ seg' = SegmentsOf(disk) /\ live' = CellsOf(disk)
          /\ sb_freelst' = IF live' = {} THEN NULL ELSE Cell(0)
          /\ sb_dirlst' = DIR
          /\ filetab' = FilesOf(disk)
          /\ sb_freelock' = "free" /\ sb_dirlock' = "free"
          /\ ctx' = [p \in Procs |-> User]
          /\ current' = DIRBLOCKNUM
          /\ UNCHANGED wild
     ELSE wild' = TRUE /\ UNCHANGED <<seg, live, super, filetab, locks, current, ctx>>
  /\ UNCHANGED <<disk, failures, creates, unsaved>>

-----------------------------------------------------------------------------
(* seek, write *)

Target(p) ==
  CASE ctx[p].what = "data"  -> filetab[ctx[p].fd].block
    [] ctx[p].what = "dir"   -> IF sb_dirlst = DIR THEN DIRBLOCKNUM ELSE SYSERR
    [] ctx[p].what = "super" -> SUPERBLOCKNUM
    [] OTHER                 -> seg[ctx[p].cell].num

Seek(p) ==
  /\ At(p, "seek")
  /\ IF Target(p) \in 0 .. DISKBLOCKTOTAL - 1
     THEN /\ current' = Target(p)
          /\ Goto(p, "write")
          /\ UNCHANGED <<seg, live, super, filetab, locks, disk, faults, creates, wild>>
     ELSE GoesWild

(* A write stores a whole block; the length sbFreeBlock gives is not used  *)
(* (xinu-disk.c).                                                          *)
Written(p) ==
  CASE ctx[p].what = "data"  -> Data
    [] ctx[p].what = "dir"   -> Directory(filetab)
    [] ctx[p].what = "super" -> Superblock(sb_freelst, sb_dirlst)
    [] OTHER                 -> Segment(seg[ctx[p].cell])

Write(p) ==
  /\ At(p, "write")
  /\ disk' = [disk EXCEPT ![current] = Written(p)]
  /\ Goto(p, CASE ctx[p].what = "data"  -> "closed"
               [] ctx[p].what = "dir"   -> "dirdone"
               [] ctx[p].what = "seg"   -> "unswizzle"
               [] ctx[p].what = "back"  -> "freed"
               [] ctx[p].what = "super" -> IF ctx[p].call = "create" THEN "last" ELSE "relink")
  /\ UNCHANGED <<seg, live, super, filetab, locks, current, faults, creates, wild>>

(* sbGetBlock returns at once, with its lock.  fileClose does not look.    *)
WriteFails(p) ==
  /\ At(p, "write") /\ ctx[p].call \in FailIn /\ failures < MaxFailures
  /\ failures' = failures + 1
  /\ unsaved' = (unsaved \/ ctx[p].call = "delete")
  /\ IF ctx[p].call = "create" THEN ctx' = [ctx EXCEPT ![p].at = "assign", ![p].block = SYSERR]
     ELSE Goto(p, CASE ctx[p].what = "data" -> "closed"
                    [] ctx[p].what = "dir"  -> "dirdone"
                    [] OTHER                -> "refused")
  /\ UNCHANGED <<seg, live, super, filetab, locks, device, crashes, creates, wild>>

-----------------------------------------------------------------------------
(* The locks *)

DirLock(p) ==
  /\ At(p, "dirlock") /\ sb_dirlock = "free"
  /\ sb_dirlock' = p
  /\ ctx' = [ctx EXCEPT ![p] = CASE @.call = "create" -> [@ EXCEPT !.at = "slot"]
                                [] @.call = "delete" -> [@ EXCEPT !.at = "unlink"]
                                [] @.call = "close"  -> Save(p, @, "dir")]
  /\ UNCHANGED <<seg, live, super, filetab, sb_freelock, device, faults, creates, wild>>

DirDone(p) ==
  /\ At(p, "dirdone")
  /\ sb_dirlock' = "free"
  /\ Return(p)
  /\ UNCHANGED <<seg, live, super, filetab, sb_freelock, device, faults, creates, wild>>

(* The head of the free list is read before the lock is taken.             *)
ReadHead(p) ==
  /\ At(p, "head")
  /\ ctx' = [ctx EXCEPT ![p] =
       IF @.call = "create" /\ sb_freelst = NULL THEN [@ EXCEPT !.at = "assign", !.block = SYSERR]
       ELSE [@ EXCEPT !.at = "freelock", !.cell = sb_freelst]]
  /\ UNCHANGED <<seg, live, super, filetab, locks, device, faults, creates, wild>>

FreeLock(p) ==
  /\ At(p, "freelock") /\ sb_freelock = "free"
  /\ sb_freelock' = p
  /\ Goto(p, IF ctx[p].call = "create" THEN "get" ELSE "put")
  /\ UNCHANGED <<seg, live, super, filetab, sb_dirlock, device, faults, creates, wild>>

-----------------------------------------------------------------------------
(* fileCreate *)

Create(p) ==
  /\ At(p, "user") /\ creates < MaxCreates
  /\ creates' = creates + 1
  /\ ctx' = [ctx EXCEPT ![p] = [User EXCEPT !.call = "create", !.at = "dirlock"]]
  /\ UNCHANGED <<seg, live, super, filetab, locks, device, faults, wild>>

(* The slot is taken before it has a block.                                *)
Slot(p) ==
  LET unused == {fd \in Slots : filetab[fd].state = {}}
  IN  /\ At(p, "slot")
      /\ IF unused = {} THEN Return(p) /\ UNCHANGED filetab
         ELSE /\ filetab' = [filetab EXCEPT ![Min(unused)].state = {"used", "open"}]
              /\ ctx' = [ctx EXCEPT ![p].fd = Min(unused), ![p].at = "head"]
      /\ sb_dirlock' = "free"
      /\ UNCHANGED <<seg, live, super, sb_freelock, device, faults, creates, wild>>

Assign(p) ==
  /\ At(p, "assign")
  /\ filetab' = [filetab EXCEPT ![ctx[p].fd].block = ctx[p].block]
  /\ Return(p)
  /\ UNCHANGED <<seg, live, super, locks, device, faults, creates, wild>>

-----------------------------------------------------------------------------
(* sbGetBlock, with the lock *)

Number(c) == IF c = NULL THEN NULL ELSE seg[c].num
Getting(p, count) == At(p, "get") /\ ctx[p].cell \in live /\ seg[ctx[p].cell].count = count

GetEntryKept(p) ==      \* mutant: the entry given out is still counted
  LET c == ctx[p].cell
      s == seg[c]
  IN  /\ At(p, "get") /\ c \in live /\ s.count > 0
      /\ seg' = [seg EXCEPT ![c].next = Number(@)]
      /\ ctx' = [ctx EXCEPT ![p] = Save(p, [@ EXCEPT !.block = s.free[s.count - 1], !.save = s.next], "seg")]
      /\ UNCHANGED <<live, super, filetab, locks, device, faults, creates, wild>>

GetEntryUnsaved(p) ==   \* mutant: the segment is not written back
  LET c == ctx[p].cell
      s == seg[c]
      n == s.count - 1
  IN  /\ At(p, "get") /\ c \in live /\ s.count > 0
      /\ seg' = [seg EXCEPT ![c] = [s EXCEPT !.count = n, !.free[n] = NULL, !.next = Number(@)]]
      /\ ctx' = [ctx EXCEPT ![p].block = s.free[n], ![p].save = s.next, ![p].at = "unswizzle"]
      /\ UNCHANGED <<live, super, filetab, locks, device, faults, creates, wild>>

(* The last entry of the first segment; an entry of 0 is an error.         *)
GetEntry(p) ==
  LET c == ctx[p].cell
      s == seg[c]
      n == s.count - 1
  IN  /\ At(p, "get") /\ c \in live /\ s.count > 0
      /\ seg' = [seg EXCEPT ![c] = [s EXCEPT !.count = n, !.free[n] = NULL, !.next = Number(@)]]
      /\ ctx' = [ctx EXCEPT ![p] = Save(p, [@ EXCEPT !.block = IF s.free[n] = NULL THEN SYSERR ELSE s.free[n],
                                                     !.save = s.next], "seg")]
      /\ UNCHANGED <<live, super, filetab, locks, device, faults, creates, wild>>

(* The first segment is empty and the last: its own block is given out.    *)
GetLast(p) ==
  LET c == ctx[p].cell
  IN  /\ Getting(p, 0) /\ seg[c].next = NULL
      /\ sb_freelst' = NULL /\ sb_dirlst' = DIRBLOCKNUM
      /\ ctx' = [ctx EXCEPT ![p] = Save(p, [@ EXCEPT !.block = seg[c].num], "super")]
      /\ UNCHANGED <<seg, live, filetab, locks, device, faults, creates, wild>>

LastDone(p) ==
  /\ At(p, "last")
  /\ sb_dirlst' = DIR
  /\ live' = live \ {ctx[p].cell}
  /\ sb_freelock' = "free"
  /\ Goto(p, "assign")
  /\ UNCHANGED <<seg, sb_freelst, filetab, sb_dirlock, device, faults, creates, wild>>

(* The first segment is empty: it takes the contents of the next one, and  *)
(* the block of that one is given out.                                     *)
GetSegment(p) ==
  LET c == ctx[p].cell
      n == seg[c].next
      t == seg[n]
  IN  /\ Getting(p, 0) /\ n \in live
      /\ seg' = [seg EXCEPT ![c].count = t.count, ![c].next = Number(t.next),
                            ![c].free = [i \in Entries |-> IF i < t.count THEN t.free[i] ELSE @[i]]]
      /\ live' = live \ {n}
      /\ ctx' = [ctx EXCEPT ![p] = Save(p, [@ EXCEPT !.block = t.num, !.save = t.next], "seg")]
      /\ UNCHANGED <<super, filetab, locks, device, faults, creates, wild>>

Unswizzle(p) ==
  /\ At(p, "unswizzle")
  /\ seg' = [seg EXCEPT ![ctx[p].cell].next = ctx[p].save]
  /\ sb_freelock' = "free"
  /\ Goto(p, "assign")
  /\ UNCHANGED <<live, super, filetab, sb_dirlock, device, faults, creates, wild>>

-----------------------------------------------------------------------------
(* fileOpen, filePutChar, fileClose.  A file's slot stands for its name.   *)

Is(fd, flag) == flag \in filetab[fd].state

Open(p, fd) ==
  /\ At(p, "user") /\ Is(fd, "used") /\ ~Is(fd, "open")
  /\ filetab' = [filetab EXCEPT ![fd].state = @ \cup {"open"}]
  /\ current' = IF filetab[fd].block \in Blocks THEN filetab[fd].block ELSE current
  /\ UNCHANGED <<seg, live, super, locks, disk, ctx, faults, creates, wild>>

(* A file that has been closed is not refused, nor by fileClose.           *)
PutChar(p, fd) ==
  /\ At(p, "user") /\ filetab[fd].state # {}
  /\ filetab' = [filetab EXCEPT ![fd].state = @ \cup {"dirty"}]
  /\ UNCHANGED <<seg, live, super, locks, device, ctx, faults, creates, wild>>

Close(p, fd) ==
  LET call == [User EXCEPT !.call = "close", !.fd = fd]
  IN  /\ At(p, "user") /\ filetab[fd].state # {}
      /\ ctx' = [ctx EXCEPT ![p] = IF Is(fd, "dirty") THEN Save(p, call, "data")
                                   ELSE [call EXCEPT !.at = "closed"]]
      /\ UNCHANGED <<seg, live, super, filetab, locks, device, faults, creates, wild>>

Closed(p) ==
  /\ At(p, "closed")
  /\ filetab' = [filetab EXCEPT ![ctx[p].fd].state = @ \ {"dirty", "open"}]
  /\ Goto(p, "dirlock")
  /\ UNCHANGED <<seg, live, super, locks, device, faults, creates, wild>>

-----------------------------------------------------------------------------
(* fileDelete, of a file that fileOpen has found *)

Delete(p, fd) ==
  /\ At(p, "user") /\ Is(fd, "open")
  /\ ctx' = [ctx EXCEPT ![p] = [User EXCEPT !.call = "delete", !.at = "dirlock", !.fd = fd]]
  /\ UNCHANGED <<seg, live, super, filetab, locks, device, faults, creates, wild>>

Unlink(p) ==
  /\ At(p, "unlink")
  /\ IF sb_dirlst # DIR THEN GoesWild
     ELSE /\ filetab' = [filetab EXCEPT ![ctx[p].fd].state = {}]
          /\ ctx' = [ctx EXCEPT ![p].block = filetab[ctx[p].fd].block, ![p].at = "head"]
          /\ UNCHANGED <<seg, live, super, locks, device, faults, creates, wild>>

Unlinked(p) ==
  /\ At(p, "freed")
  /\ sb_freelock' = "free"
  /\ ctx' = [ctx EXCEPT ![p] = Save(p, @, "dir")]
  /\ UNCHANGED <<seg, live, super, filetab, sb_dirlock, device, faults, creates, wild>>

(* The superblock is left as it was to be written.                         *)
Refused(p) ==
  /\ At(p, "refused")
  /\ sb_freelock' = "free" /\ sb_dirlock' = "free"
  /\ Return(p)
  /\ UNCHANGED <<seg, live, super, filetab, device, faults, creates, wild>>

-----------------------------------------------------------------------------
(* sbFreeBlock, with the lock *)

(* The way from the first segment to the last.                             *)
Walk(c) ==
  LET walk[i \in 0 .. DISKBLOCKTOTAL] ==
        IF i = 0 THEN c ELSE IF walk[i - 1] \in live THEN seg[walk[i - 1]].next ELSE walk[i - 1]
  IN  walk
Whole(c)  == \E i \in 0 .. DISKBLOCKTOTAL : Walk(c)[i] = NULL
LastOf(c) == CHOOSE d \in live : seg[d].next = NULL /\ \E i \in 0 .. DISKBLOCKTOTAL : Walk(c)[i] = d

Fresh(num) == [Blank EXCEPT !.num = num]
Unused     == Max(Cells \ live)
Room       == live # Cells        \* bound: the cells

(* No segment at all: the block becomes the first one.                     *)
PutFirst(p) ==
  /\ At(p, "put") /\ ctx[p].cell = NULL /\ Room
  /\ live' = live \cup {Unused}
  /\ seg' = [seg EXCEPT ![Unused] = Fresh(ctx[p].block)]
  /\ sb_freelst' = ctx[p].block /\ sb_dirlst' = DIRBLOCKNUM
  /\ ctx' = [ctx EXCEPT ![p] = Save(p, [@ EXCEPT !.cell = Unused, !.save = Unused], "super")]
  /\ UNCHANGED <<filetab, locks, device, faults, creates, wild>>

(* The last segment is full: the block becomes one more.  Its own contents *)
(* are not written, those of the full segment are, with a pointer in them. *)
PutSegment(p) ==
  LET c    == ctx[p].cell
      last == LastOf(c)
  IN  /\ At(p, "put") /\ c # NULL /\ Whole(c) /\ seg[last].count >= FREEBLOCKMAX
      /\ sb_freelst \in live /\ Room
      /\ live' = live \cup {Unused}
      /\ seg' = [seg EXCEPT ![Unused] = Fresh(ctx[p].block), ![last].next = Unused]
      /\ sb_freelst' = seg[sb_freelst].num /\ sb_dirlst' = DIRBLOCKNUM
      /\ ctx' = [ctx EXCEPT ![p] = Save(p, [@ EXCEPT !.cell = last, !.save = sb_freelst], "super")]
      /\ unsaved' = TRUE
      /\ UNCHANGED <<filetab, locks, device, failures, crashes, creates, wild>>

Relink(p) ==
  /\ At(p, "relink")
  /\ sb_freelst' = ctx[p].save /\ sb_dirlst' = DIR
  /\ ctx' = [ctx EXCEPT ![p] = Save(p, @, "back")]
  /\ UNCHANGED <<seg, live, filetab, locks, device, faults, creates, wild>>

PutEntryFull(p) ==     \* mutant: one entry too many
  LET c    == ctx[p].cell
      last == LastOf(c)
  IN  /\ At(p, "put") /\ c # NULL /\ Whole(c) /\ seg[last].count <= FREEBLOCKMAX
      /\ seg' = [seg EXCEPT ![last].free[seg[last].count] = ctx[p].block, ![last].count = @ + 1]
      /\ ctx' = [ctx EXCEPT ![p] = Save(p, [@ EXCEPT !.cell = last], "back")]
      /\ UNCHANGED <<live, super, filetab, locks, device, faults, creates, wild>>

PutEntry(p) ==
  LET c    == ctx[p].cell
      last == LastOf(c)
  IN  /\ At(p, "put") /\ c # NULL /\ Whole(c) /\ seg[last].count < FREEBLOCKMAX
      /\ seg' = [seg EXCEPT ![last].free[seg[last].count] = ctx[p].block, ![last].count = @ + 1]
      /\ ctx' = [ctx EXCEPT ![p] = Save(p, [@ EXCEPT !.cell = last], "back")]
      /\ UNCHANGED <<live, super, filetab, locks, device, faults, creates, wild>>

(* The head that was read, or a link, is no segment any more.              *)
Astray(p) ==
  LET c == ctx[p].cell
  IN  /\ CASE At(p, "get") -> IF c \in live THEN seg[c].count = 0 /\ seg[c].next \notin live \cup {NULL}
                              ELSE TRUE
            [] At(p, "put") -> c # NULL /\ ~(Whole(c) /\ sb_freelst \in live)
            [] OTHER        -> FALSE
      /\ GoesWild

-----------------------------------------------------------------------------
Stopped == wild /\ UNCHANGED vars

(* A leaked lock, or no room in the bounds, may leave nothing to do.       *)
Step(p) ==
  \/ Seek(p) \/ Write(p) \/ WriteFails(p)
  \/ DirLock(p) \/ DirDone(p) \/ ReadHead(p) \/ FreeLock(p)
  \/ Create(p) \/ Slot(p) \/ Assign(p)
  \/ GetEntry(p) \/ GetLast(p) \/ LastDone(p) \/ GetSegment(p) \/ Unswizzle(p)
  \/ Closed(p) \/ Unlink(p) \/ Unlinked(p) \/ Refused(p)
  \/ PutFirst(p) \/ PutSegment(p) \/ Relink(p) \/ PutEntry(p) \/ Astray(p)
  \/ \E fd \in Slots : Open(p, fd) \/ PutChar(p, fd) \/ Close(p, fd) \/ Delete(p, fd)

Next == Crash \/ Stopped \/ \E p \in Procs : Step(p)

Spec == Init /\ [][Next]_vars

-----------------------------------------------------------------------------
(* Properties *)

Steps == {"user", "dirlock", "slot", "head", "freelock", "get", "put", "seek", "write", "unswizzle",
          "last", "assign", "closed", "dirdone", "unlink", "freed", "refused", "relink"}
Words == Cells \cup {DIR, SYSERR} \cup 0 .. DISKBLOCKTOTAL

TypeOK ==
  /\ seg \in [Cells -> [num : Words, count : 0 .. FREEBLOCKMAX, next : Words, free : [Entries -> Words]]]
  /\ live \subseteq Cells
  /\ sb_freelst \in Words /\ sb_dirlst \in {DIR, DIRBLOCKNUM}
  /\ filetab \in [Slots -> [state : SUBSET {"used", "open", "dirty"}, block : Words]]
  /\ {sb_freelock, sb_dirlock} \subseteq Procs \cup {"free"}
  /\ current \in 0 .. DISKBLOCKTOTAL - 1
  /\ ctx \in [Procs -> [call : {"none", "create", "close", "delete"}, at : Steps, fd : Slots,
                        block : Words, cell : Words, save : Words,
                        what : {"none", "data", "dir", "super", "seg", "back"}]]
  /\ {wild, unsaved} \subseteq BOOLEAN

(* How often a block is in a set of segments, as its own or as an entry,   *)
(* and in a set of files.                                                  *)
InSegments(b, segs, S(_)) ==
  Cardinality({x \in segs : S(x).num = b})
  + Cardinality({x \in segs \X Entries : x[2] < S(x[1]).count /\ S(x[1]).free[x[2]] = b})
InFiles(b, fds, files) == Cardinality({fd \in fds : "used" \in files[fd].state /\ files[fd].block = b})

(* "Use the superblock's locks to guarantee mutually exclusive access to   *)
(* the free list" (sbFreeBlock.c): whenever the list is at rest a block is *)
(* in it once, or in one file, or in the hands of a call, whatever writes  *)
(* have failed, and after a restart too, if the list on the disk was sound.*)
BlocksOnce ==
  (~wild /\ sb_freelock = "free" /\ (crashes = 0 \/ ~unsaved)) =>
    LET list  == {Walk(sb_freelst)[i] : i \in 0 .. DISKBLOCKTOTAL} \cap live
        slots == {fd \in Slots : \A p \in Procs : ctx[p].call = "create" => ctx[p].fd # fd}
        hands(b) == Cardinality({p \in Procs : ctx[p].block = b /\ ctx[p].at \in {"head", "freelock", "assign"}})
    IN  \A b \in Blocks :
          InSegments(b, list, LAMBDA c : seg[c]) + InFiles(b, slots, filetab) + hands(b) <= 1

(* On the disk, where a restart would find it, a block is free or in one   *)
(* file, but never two of them; a call may be anywhere, except for a       *)
(* fileDelete, which frees the block before it unlinks the file.           *)
DiskSound ==
  (~wild /\ Readable(disk) /\ \A p \in Procs : ctx[p].call # "delete") =>
    LET chain == {Chain(disk)[i] : i \in 0 .. DISKBLOCKTOTAL} \ {NULL}
    IN  \A b \in Blocks :
          InSegments(b, chain, LAMBDA n : disk[n].seg) + InFiles(b, Slots, disk[DIRBLOCKNUM].files) <= 1

(* So it is as long as sbFreeBlock has added no segment but a first one,   *)
(* and fileDelete has met no failing write: "write the changed free list   *)
(* segment(s) back to disk" (sbFreeBlock.c), but the block of any other new *)
(* segment is not written and keeps what it was last used for: DiskSound   *)
(* alone fails.                                                            *)
DiskConsistent == ~unsaved => DiskSound
===============================================================================
