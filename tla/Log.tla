-------------------------------- MODULE Log --------------------------------
(***************************************************************************)
(* The write-ahead log of the file system: begin_op, log_write, end_op and *)
(* the commit of a group of calls, crashes at any point, and recovery.     *)
(*                                                                         *)
(* The content of a block is the number of the call that wrote it last.    *)
(* An action is one critical section of log.lock or one disk write; a      *)
(* write of a sector is atomic.                                            *)
(***************************************************************************)
EXTENDS Integers, Sequences, FiniteSets

CONSTANTS
  Procs,          \* processes that make file system calls
  Blocks,         \* home locations on the disk
  MAXOPBLOCKS,    \* blocks that begin_op reserves for a call
  OPBLOCKS,       \* most blocks one call writes
  LOGSIZE,        \* block numbers the header has room for
  NLOG,           \* sb.nlog: blocks of the log on the disk, the header included
  MAXWRITES,      \* bound: calls of log_write in one file system call
  MAXOPS,         \* bound: file system calls in a behaviour
  MAXCRASHES      \* bound: crashes in a behaviour

Zero   == 0
Absent == -1
Ops    == 0 .. MAXOPS

\* The most blocks that a call has written when it comes to log_write once more.
MostWritten == IF MAXWRITES <= OPBLOCKS THEN MAXWRITES - 1 ELSE OPBLOCKS

\* What the other calls, and this one, have reserved and not used makes up for the log being
\* smaller than LOGSIZE, and for log_write's test of the size before it looks for the block.
ASSUME LogAssumption ==
  /\ IsFiniteSet(Procs) /\ Procs # {}
  /\ MAXOPBLOCKS \in Nat \ {0} /\ OPBLOCKS \in 0 .. MAXOPBLOCKS
  /\ LOGSIZE \in Nat /\ LOGSIZE >= MAXOPBLOCKS /\ NLOG \in Nat \ {0}
  /\ MAXWRITES \in Nat /\ MAXOPS \in Nat /\ MAXCRASHES \in Nat
  /\ MostWritten < MAXOPBLOCKS /\ LOGSIZE - (MAXOPBLOCKS - MostWritten) < NLOG - 1

VARIABLES
  \* the disk
  home,           \* home locations
  logblock,       \* the blocks of the log
  header,         \* the block numbers in the header block; <<>> is n = 0
  \* memory
  cache, dirty,   \* the buffer cache: contents or Absent, and B_DIRTY
  lh,             \* log.lh, as a sequence
  outstanding, committing,
  tail,           \* the local of write_log and install_trans
  pc, id, wrote, writes, \* per process: where it is, its call, what it has written
  \* bounds
  nops, ncrashes,
  panicked

disk == <<home, logblock, header>>
vars == <<disk, cache, dirty, lh, outstanding, committing, tail, pc, id, wrote, writes,
          nops, ncrashes, panicked>>

Fresh ==
  /\ cache = [b \in Blocks |-> Absent] /\ dirty = [b \in Blocks |-> FALSE]
  /\ lh = <<>> /\ outstanding = 0 /\ committing = FALSE /\ tail = 0
  /\ pc = [p \in Procs |-> "idle"] /\ id = [p \in Procs |-> 0]
  /\ wrote = [p \in Procs |-> {}] /\ writes = [p \in Procs |-> 0]

\* mkfs leaves an empty log; recovery of it has been done.
Init ==
  /\ home = [b \in Blocks |-> Zero]
  /\ logblock = [i \in 1 .. (NLOG - 1) |-> Zero]
  /\ header = <<>>
  /\ Fresh
  /\ nops = 0 /\ ncrashes = 0 /\ panicked = "no"

Goto(p, label) == pc' = [pc EXCEPT ![p] = label]

\* bread: the cached content, or what the disk has.
bread(b) == IF cache[b] = Absent THEN home[b] ELSE cache[b]

\* The fault of WakeAll: nobody is woken.
WakeNone(q) == q
\* wakeup(&log): every sleeper tests its condition again.
WakeAll(q) == [p \in Procs |-> IF q[p] = "sleeping" THEN "begin" ELSE q[p]]

\* Block b is in the list s of block numbers, log.lh.block or that of the header on the disk.
Logged(s, b) == \E i \in 1 .. Len(s) : s[i] = b

-----------------------------------------------------------------------------
\* A process starts a file system call.
Start(p) ==
  /\ pc[p] = "idle" /\ nops < MAXOPS
  /\ nops' = nops + 1
  /\ id' = [id EXCEPT ![p] = nops + 1]
  /\ wrote' = [wrote EXCEPT ![p] = {}] /\ writes' = [writes EXCEPT ![p] = 0]
  /\ Goto(p, "begin")
  /\ UNCHANGED <<disk, cache, dirty, lh, outstanding, committing, tail, ncrashes, panicked>>

\* The fault of LogHasRoom: it forgets the calls in progress.
ForgetsOthers == Len(lh) + MAXOPBLOCKS <= LOGSIZE
\* The blocks that are logged and those the calls in progress, and this one, may log.
LogHasRoom == Len(lh) + (outstanding + 1) * MAXOPBLOCKS <= LOGSIZE

\* One turn of the loop of begin_op.
begin_op(p) ==
  /\ pc[p] = "begin"
  /\ \/ /\ ~committing /\ LogHasRoom
        /\ outstanding' = outstanding + 1
        /\ Goto(p, "op")
     \/ /\ committing \/ ~LogHasRoom
        /\ Goto(p, "sleeping")
        /\ UNCHANGED outstanding
  /\ UNCHANGED <<disk, cache, dirty, lh, committing, tail, id, wrote, writes, nops, ncrashes, panicked>>

\* A call reads block b, modifies it, and hands it to log_write.  The two tests come
\* before the search for a block that is already in the log, and before log.lock is taken:
\* other calls only add to the log meanwhile, so that a test made later fails no less often.
log_write(p, b) ==
  /\ pc[p] = "op"
  /\ writes[p] < MAXWRITES /\ Cardinality(wrote[p] \cup {b}) <= OPBLOCKS
  /\ IF Len(lh) >= LOGSIZE \/ Len(lh) >= NLOG - 1
       THEN panicked' = "too big a transaction" /\ UNCHANGED lh
     ELSE IF outstanding < 1 THEN panicked' = "log_write outside of trans" /\ UNCHANGED lh
     ELSE lh' = (IF Logged(lh, b) THEN lh ELSE Append(lh, b)) /\ UNCHANGED panicked
  /\ cache' = [cache EXCEPT ![b] = id[p]]
  /\ dirty' = [dirty EXCEPT ![b] = TRUE]
  /\ wrote' = [wrote EXCEPT ![p] = @ \cup {b}]
  /\ writes' = [writes EXCEPT ![p] = @ + 1]
  /\ UNCHANGED <<disk, outstanding, committing, tail, pc, id, nops, ncrashes>>

\* end_op up to its call of commit.
end_op(p) ==
  /\ pc[p] = "op"
  /\ outstanding' = outstanding - 1
  /\ IF committing THEN panicked' = "log.committing" /\ UNCHANGED <<committing, pc>>
     ELSE /\ committing' = (outstanding = 1)
          /\ pc' = IF outstanding = 1 THEN [pc EXCEPT ![p] = "commit"]
                   ELSE WakeAll([pc EXCEPT ![p] = "idle"])
          /\ UNCHANGED panicked
  /\ tail' = 0
  /\ UNCHANGED <<disk, cache, dirty, lh, id, wrote, writes, nops, ncrashes>>

\* commit has nothing to do when nothing was logged.
commit(p) ==
  /\ pc[p] = "commit"
  /\ Goto(p, IF lh = <<>> THEN "committed" ELSE "write_log")
  /\ UNCHANGED <<disk, cache, dirty, lh, outstanding, committing, tail, id, wrote, writes,
                 nops, ncrashes, panicked>>

\* write_log: copy the next modified block from the cache to the log.
write_log(p) ==
  /\ pc[p] = "write_log"
  /\ \/ /\ tail < Len(lh)
        /\ logblock' = [logblock EXCEPT ![tail + 1] = bread(lh[tail + 1])]
        /\ tail' = tail + 1
        /\ UNCHANGED pc
     \/ /\ tail = Len(lh)
        /\ tail' = 0
        /\ Goto(p, "write_head")
        /\ UNCHANGED logblock
  /\ UNCHANGED <<home, header, cache, dirty, lh, outstanding, committing, id, wrote, writes,
                 nops, ncrashes, panicked>>

\* write_head: "the true point at which the current transaction commits".
write_head(p) ==
  /\ pc[p] = "write_head"
  /\ header' = lh
  /\ Goto(p, "install")
  /\ UNCHANGED <<home, logblock, cache, dirty, lh, outstanding, committing, tail, id, wrote, writes,
                 nops, ncrashes, panicked>>

\* One iteration of install_trans: the block goes home through the cache, whose copy
\* is clean after the write.
InstallNext ==
  LET b == lh[tail + 1]
  IN  /\ home' = [home EXCEPT ![b] = logblock[tail + 1]]
      /\ cache' = [cache EXCEPT ![b] = logblock[tail + 1]]
      /\ dirty' = [dirty EXCEPT ![b] = FALSE]
      /\ tail' = tail + 1

install_trans(p) ==
  /\ pc[p] = "install"
  /\ \/ tail < Len(lh) /\ InstallNext /\ UNCHANGED <<lh, pc>>
     \/ /\ tail = Len(lh)
        /\ tail' = 0 /\ lh' = <<>>
        /\ Goto(p, "erase")
        /\ UNCHANGED <<home, cache, dirty>>
  /\ UNCHANGED <<logblock, header, outstanding, committing, id, wrote, writes, nops, ncrashes, panicked>>

\* The second write_head of commit.
erase(p) ==
  /\ pc[p] = "erase"
  /\ header' = lh
  /\ Goto(p, "committed")
  /\ UNCHANGED <<home, logblock, cache, dirty, lh, outstanding, committing, tail, id, wrote, writes,
                 nops, ncrashes, panicked>>

\* end_op after commit.
committed(p) ==
  /\ pc[p] = "committed"
  /\ committing' = FALSE
  /\ pc' = WakeAll([pc EXCEPT ![p] = "idle"])
  /\ UNCHANGED <<disk, cache, dirty, lh, outstanding, tail, id, wrote, writes, nops, ncrashes, panicked>>

-----------------------------------------------------------------------------
\* The fault of Evictable: bget ignores B_DIRTY.
AnyBuffer(b) == cache[b] # Absent
Evictable(b) == cache[b] # Absent /\ ~dirty[b]

\* bget recycles the buffer of a block nobody uses and that is not in the log.
Evict(b) ==
  /\ Evictable(b)
  /\ cache' = [cache EXCEPT ![b] = Absent]
  /\ UNCHANGED <<disk, dirty, lh, outstanding, committing, tail, pc, id, wrote, writes,
                 nops, ncrashes, panicked>>

\* Power failure: memory is lost, and the next boot starts with recovery, which may
\* fail in the same way.
Crash ==
  /\ ncrashes < MAXCRASHES
  /\ ncrashes' = ncrashes + 1
  /\ pc' = [p \in Procs |-> "down"]
  /\ cache' = [b \in Blocks |-> Absent] /\ dirty' = [b \in Blocks |-> FALSE]
  /\ outstanding' = 0 /\ committing' = FALSE /\ tail' = 0
  /\ lh' = header       \* read_head
  /\ id' = [p \in Procs |-> 0]
  /\ wrote' = [p \in Procs |-> {}] /\ writes' = [p \in Procs |-> 0]
  /\ UNCHANGED <<disk, nops, panicked>>

Down == \A p \in Procs : pc[p] = "down"

\* recover_from_log: install what is committed, then clear the log.
recover_from_log ==
  /\ Down
  /\ \/ tail < Len(lh) /\ InstallNext /\ UNCHANGED <<header, lh, pc>>
     \/ /\ tail = Len(lh)
        /\ header' = <<>> /\ lh' = <<>> /\ tail' = 0
        /\ pc' = [p \in Procs |-> "idle"]
        /\ UNCHANGED <<home, cache, dirty>>
  /\ UNCHANGED <<logblock, outstanding, committing, id, wrote, writes, nops, ncrashes, panicked>>

Step(p) ==
  \/ begin_op(p) \/ end_op(p) \/ commit(p) \/ write_log(p) \/ write_head(p)
  \/ install_trans(p) \/ erase(p) \/ committed(p)

\* Nobody has anything to run: the scheduler idles.
Idle == nops = MAXOPS /\ (\A p \in Procs : pc[p] \in {"idle", "sleeping"}) /\ UNCHANGED vars

Next ==
  /\ panicked = "no"
  /\ \/ \E p \in Procs : Start(p) \/ Step(p) \/ \E b \in Blocks : log_write(p, b)
     \/ \E b \in Blocks : Evict(b)
     \/ Crash \/ recover_from_log \/ Idle

Spec == Init /\ [][Next]_vars

\* A call that has begun ends, and the committing process and recovery make progress.
FairSpec == Spec /\ WF_vars(recover_from_log) /\ \A p \in Procs : WF_vars(panicked = "no" /\ Step(p))

-----------------------------------------------------------------------------
Labels == {"idle", "begin", "sleeping", "op", "commit", "write_log", "write_head", "install",
           "erase", "committed", "down"}

\* Every variable has its type.
TypeOK ==
  /\ home \in [Blocks -> Ops] /\ logblock \in [1 .. (NLOG - 1) -> Ops]
  /\ header \in Seq(Blocks) /\ lh \in Seq(Blocks)
  /\ Len(header) <= LOGSIZE /\ Len(lh) <= LOGSIZE
  /\ cache \in [Blocks -> Ops \cup {Absent}] /\ dirty \in [Blocks -> BOOLEAN]
  /\ outstanding \in 0 .. Cardinality(Procs) /\ committing \in BOOLEAN
  /\ tail \in 0 .. LOGSIZE
  /\ pc \in [Procs -> Labels]
  /\ id \in [Procs -> Ops] /\ wrote \in [Procs -> SUBSET Blocks] /\ writes \in [Procs -> Nat]
  /\ nops \in Ops

\* What a crash now would leave in block b once recovery is through.
Recovered(b) ==
  IF Logged(header, b) THEN logblock[CHOOSE i \in 1 .. Len(header) : header[i] = b] ELSE home[b]

\* The log makes the disk atomic for groups of calls, through crashes at every disk
\* write of commit and of recovery itself: AtomicDisk is implemented with write_head
\* as the instant of commit.
Atomic == INSTANCE AtomicDisk WITH
  Values <- Ops, Calls <- Procs,
  current <- [b \in Blocks |-> IF Down THEN Recovered(b) ELSE bread(b)],
  stable  <- [b \in Blocks |-> Recovered(b)],
  active  <- {p \in Procs : pc[p] = "op"}

CrashAtomic == Atomic!DSpec

\* The reservation made by begin_op suffices when calls stay within OPBLOCKS: none
\* finds the log full, calls log_write outside a transaction, or ends while a commit is
\* running.  And while a commit runs no call is in progress, so that nothing is written to
\* a block between its copy to the log and the header write.
CommitAlone ==
  TypeOK /\ panicked = "no" /\ (committing => outstanding = 0 /\ Cardinality({p \in Procs : pc[p] \in
                  {"commit", "write_log", "write_head", "install", "erase", "committed"}}) = 1)

\* A process that sleeps in begin_op wakes up.
SleepersWake == \A p \in Procs : pc[p] = "sleeping" ~> pc[p] # "sleeping"
=============================================================================
