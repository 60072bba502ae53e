-------------------------------- MODULE Disk --------------------------------
(***************************************************************************)
(* The buffer cache, the sleep locks of its buffers, and the queue of      *)
(* requests of the disk driver with its interrupts.                        *)
(*                                                                         *)
(* An action is one critical section of bcache.lock, of the spin lock in a *)
(* sleep lock, or of idelock; sleep gives its lock up as it goes to sleep  *)
(* (module Proc).  A process has one buffer at a time; that write_log,     *)
(* install_trans, bmap and itrunc have one while they get another is left  *)
(* out, and with it the waiting of one holder for another.                 *)
(***************************************************************************)
EXTENDS Integers, Sequences, FiniteSets

CONSTANTS
  Procs,
  NBUF,         \* buffers 1 .. NBUF
  Blocks,       \* block numbers
  Written,      \* the blocks that processes write
  Values,       \* contents of a block
  Image,        \* what mkfs wrote
  MAXPINNED,    \* most buffers that log_write keeps dirty
  Errors        \* whether idewait(1) may find an error after a read

Bufs == 1 .. NBUF
None == "none"
NoBlock == 0

ASSUME DiskAssumption ==
  /\ NBUF \in Nat \ {0} /\ MAXPINNED \in Nat /\ Blocks \subseteq Nat \ {NoBlock} /\ Values # {}
  /\ Image \in [Blocks -> Values] /\ FALSE \in Errors /\ Errors \subseteq BOOLEAN
  /\ IsFiniteSet(Procs) /\ None \notin Procs

VARIABLES
  mru,                \* bcache.head: buffers, the most recently used first
  buf,                \* per buffer: blockno, valid, dirty, refcnt, data
  lock,               \* per buffer: the process that holds its sleep lock
  idequeue,           \* buffers with a request, the active one first
  disk,               \* contents of the blocks on the disk
  cmd,                \* the command the disk works on: operation, block and data
  pc,
  cur,                \* the buffer a process has or is about to have
  panicked

cache == <<mru, buf, lock>>
drive == <<idequeue, disk, cmd>>
vars  == <<cache, drive, pc, cur, panicked>>

NoCmd == [op |-> None]
NoData == CHOOSE v \in Values : TRUE

\* binit, with the device 0 that no process reads.
Init ==
  /\ mru = [i \in Bufs |-> NBUF + 1 - i]
  /\ \E v \in Values :
       buf = [b \in Bufs |-> [blockno |-> NoBlock, valid |-> FALSE, dirty |-> FALSE, refcnt |-> 0,
                              data |-> v]]
  /\ lock = [b \in Bufs |-> None]
  /\ idequeue = <<>> /\ cmd = NoCmd
  /\ disk = Image
  /\ pc = [p \in Procs |-> "idle"] /\ cur = [p \in Procs |-> 1]
  /\ panicked = "no"

Goto(p, l)  == pc' = [pc EXCEPT ![p] = l]
Panic(why)  == panicked' = why /\ UNCHANGED <<cache, drive, pc, cur>>
holdingsleep(p, b) == lock[b] = p

\* wakeup of the processes asleep on the lock of buffer b, and on its request; the fault of
\* Wake: nobody is woken.
NotWoken(q, asleep, b, again) == q
Wake(q, asleep, b, again) == [p \in Procs |-> IF q[p] = asleep /\ cur[p] = b THEN again ELSE q[p]]

-----------------------------------------------------------------------------
\* bget.  The fault: a buffer is recycled although it is dirty.
Cached(n) == {b \in Bufs : buf[b].blockno = n}
Clean(b) == buf[b].refcnt = 0
Recyclable(b) == buf[b].refcnt = 0 /\ ~buf[b].dirty

Hit(b) == [buf EXCEPT ![b].refcnt = @ + 1]

bget(p, n) ==
  /\ pc[p] = "idle"
  /\ \/ \E b \in Cached(n) :
          /\ buf' = Hit(b)
          /\ cur' = [cur EXCEPT ![p] = b]
          /\ Goto(p, "acquiresleep")
          /\ UNCHANGED <<mru, lock, drive, panicked>>
     \/ /\ Cached(n) = {}
        /\ IF \A i \in Bufs : ~Recyclable(mru[i]) THEN Panic("bget: no buffers")
           ELSE /\ \E i \in Bufs :
                     /\ Recyclable(mru[i]) /\ \A j \in Bufs : j > i => ~Recyclable(mru[j])
                     /\ buf' = [buf EXCEPT ![mru[i]] = [@ EXCEPT !.blockno = n, !.valid = FALSE,
                                                                !.dirty = FALSE, !.refcnt = 1]]
                     /\ cur' = [cur EXCEPT ![p] = mru[i]]
                /\ Goto(p, "acquiresleep")
                /\ UNCHANGED <<mru, lock, drive, panicked>>

\* One turn of the loop of acquiresleep, and, with the lock, the rest of bread: the
\* buffer is valid, or has to be read.
acquiresleep(p) ==
  /\ pc[p] = "acquiresleep"
  /\ \/ /\ lock[cur[p]] = None
        /\ lock' = [lock EXCEPT ![cur[p]] = p]
        /\ Goto(p, IF buf[cur[p]].valid THEN "use" ELSE "iderw")
     \/ /\ lock[cur[p]] # None
        /\ Goto(p, "asleep lock")
        /\ UNCHANGED lock
  /\ UNCHANGED <<mru, buf, drive, cur, panicked>>

\* The process changes its buffer and calls bwrite, or only log_write.
Change(p) ==
  /\ pc[p] = "use" /\ buf[cur[p]].blockno \in Written
  /\ \E v \in Values : buf' = [buf EXCEPT ![cur[p]].data = v, ![cur[p]].dirty = TRUE]

bwrite(p) ==
  /\ pc[p] = "use"
  /\ IF ~holdingsleep(p, cur[p]) THEN Panic("bwrite")
     ELSE /\ Change(p)
          /\ Goto(p, "iderw")
          /\ UNCHANGED <<mru, lock, drive, cur, panicked>>

log_write(p) ==
  /\ Change(p)
  /\ Cardinality({b \in Bufs : buf[b].dirty} \cup {cur[p]}) <= MAXPINNED
  /\ UNCHANGED <<mru, lock, drive, pc, cur, panicked>>

\* The list with b moved to its head.
ToHead(b) ==
  LET k == CHOOSE i \in Bufs : mru[i] = b
  IN  [i \in Bufs |-> IF i = 1 THEN b ELSE IF i <= k THEN mru[i - 1] ELSE mru[i]]

\* brelse in two steps: the sleep lock, then the count and the list.
releasesleep(p) ==
  LET b == cur[p] IN
  /\ pc[p] = "use"
  /\ IF ~holdingsleep(p, b) THEN Panic("brelse")
     ELSE /\ lock' = [lock EXCEPT ![b] = None]
          /\ pc' = Wake([pc EXCEPT ![p] = "brelse"], "asleep lock", b, "acquiresleep")
          /\ UNCHANGED <<mru, buf, drive, cur, panicked>>

brelse(p) ==
  LET b == cur[p] IN
  /\ pc[p] = "brelse"
  /\ buf' = [buf EXCEPT ![b].refcnt = @ - 1]
  /\ mru' = IF buf[b].refcnt = 1 THEN ToHead(b) ELSE mru
  /\ Goto(p, "idle")
  /\ UNCHANGED <<lock, drive, cur, panicked>>

-----------------------------------------------------------------------------
\* The command for buffer b: a write takes the data with it.  The fault: always a read.
AlwaysRead(b) == [op |-> "read", blockno |-> buf[b].blockno, data |-> NoData]
idestart(b) ==
  IF buf[b].dirty
  THEN [op |-> "write", blockno |-> buf[b].blockno, data |-> buf[b].data]
  ELSE [op |-> "read",  blockno |-> buf[b].blockno, data |-> NoData]

\* iderw up to its first sleep.
iderw(p) ==
  LET b == cur[p] IN
  /\ pc[p] = "iderw"
  /\ IF ~holdingsleep(p, b) THEN Panic("iderw: buf not locked")
     ELSE IF buf[b].valid /\ ~buf[b].dirty THEN Panic("iderw: nothing to do")
     ELSE /\ idequeue' = Append(idequeue, b)
          /\ cmd' = IF idequeue = <<>> THEN idestart(b) ELSE cmd
          /\ Goto(p, "asleep disk")
          /\ UNCHANGED <<cache, disk, cur, panicked>>

\* Awake again: the loop of iderw, and the return to bread or bwrite.
synced(p) ==
  LET b == cur[p] IN
  /\ pc[p] = "synced?"
  /\ \/ /\ buf[b].valid /\ ~buf[b].dirty
        /\ Goto(p, "use")
     \/ /\ ~buf[b].valid \/ buf[b].dirty
        /\ Goto(p, "asleep disk")
  /\ UNCHANGED <<cache, drive, cur, panicked>>

\* The disk has done its command and interrupts: b is what its request asked for.  After
\* an error the data is not read, and the buffer valid all the same.  The fault of StartNext:
\* the next request is not started.
Served(b, error) ==
  [buf EXCEPT ![b].valid = TRUE, ![b].dirty = FALSE,
              ![b].data = IF buf[b].dirty \/ error THEN @ ELSE disk[cmd.blockno]]

StartNone(q) == NoCmd
StartNext(q) == IF q = <<>> THEN NoCmd ELSE idestart(Head(q))

ideintr ==
  /\ cmd # NoCmd /\ idequeue # <<>>
  /\ LET b == Head(idequeue) IN
       /\ \E error \in Errors : buf' = Served(b, error)
       /\ pc' = Wake(pc, "asleep disk", b, "synced?")
  /\ disk' = IF cmd.op = "write" THEN [disk EXCEPT ![cmd.blockno] = cmd.data] ELSE disk
  /\ idequeue' = Tail(idequeue)
  /\ cmd' = StartNext(Tail(idequeue))
  /\ UNCHANGED <<mru, lock, cur, panicked>>

-----------------------------------------------------------------------------
\* Steps that a process in the kernel takes without being asked.
Kernel(p) ==
  acquiresleep(p) \/ iderw(p) \/ synced(p) \/ brelse(p)

Calls(p) == (\E n \in Blocks : bget(p, n)) \/ bwrite(p) \/ log_write(p) \/ releasesleep(p)

\* After a panic the machine spins.
Going == panicked = "no"
Next ==
  \/ Going /\ (ideintr \/ \E p \in Procs : Kernel(p) \/ Calls(p))
  \/ ~Going /\ UNCHANGED vars

Spec == Init /\ [][Next]_vars

\* The disk completes what it is told to do, and processes in the kernel are run.
FairSpec == Spec /\ WF_vars(Going /\ ideintr) /\ \A p \in Procs : WF_vars(Going /\ Kernel(p))

-----------------------------------------------------------------------------
Labels == {"idle", "acquiresleep", "asleep lock", "use", "iderw", "asleep disk", "synced?", "brelse"}

\* Every variable has its type.
TypeOK ==
  /\ mru \in [Bufs -> Bufs]
  /\ buf \in [Bufs -> [blockno : Blocks \cup {NoBlock}, valid : BOOLEAN, dirty : BOOLEAN,
                       refcnt : 0 .. Cardinality(Procs), data : Values]]
  /\ lock \in [Bufs -> Procs \cup {None}]
  /\ idequeue \in Seq(Bufs) /\ Len(idequeue) <= Cardinality(Procs)
  /\ disk \in [Blocks -> Values]
  /\ pc \in [Procs -> Labels]
  /\ cur \in [Procs -> Bufs]

\* The processes that have a reference to buffer b.
Referrers(b) == {p \in Procs : pc[p] # "idle" /\ cur[p] = b}

\* Buffer b has a request.
Queued(b) == \E i \in 1 .. Len(idequeue) : idequeue[i] = b

\* refcnt counts the processes between bget and brelse; no two buffers hold the same block;
\* and the list has each buffer once.
Counted ==
  /\ TypeOK
  /\ \A b \in Bufs : buf[b].refcnt = Cardinality(Referrers(b))
  /\ \A n \in Blocks : Cardinality(Cached(n)) <= 1
  /\ \A b \in Bufs : \E i \in Bufs : mru[i] = b

\* No wakeup is lost: who sleeps for a lock sleeps for one that is held, and is counted in
\* refcnt so that the buffer is not recycled meanwhile; who sleeps for the disk has its
\* request in the queue; and the disk works on the first request.  bwrite, brelse and iderw do
\* not panic, and bget does only when every buffer is some process's or kept dirty by the log,
\* never for a count that was not taken back.
NoLostWakeup ==
  /\ Counted /\ panicked \in {"no", "bget: no buffers"}
  /\ panicked # "no" => \A b \in Bufs : buf[b].dirty \/ Referrers(b) # {}
  /\ \A p \in Procs : /\ pc[p] = "asleep lock" => lock[cur[p]] # None
                      /\ pc[p] = "asleep disk" => Queued(cur[p])
  /\ IF idequeue = <<>> THEN cmd = NoCmd ELSE cmd # NoCmd /\ cmd = idestart(Head(idequeue))

\* The process has the content of block n, between bread and brelse.
Has(p, n) ==
  /\ pc[p] \in {"use", "iderw", "asleep disk", "synced?"}
  /\ buf[cur[p]].blockno = n /\ buf[cur[p]].valid

\* What a block holds, in a valid buffer or else on the disk, and who may use it.
Latest(n) ==
  IF \E b \in Cached(n) : buf[b].valid THEN buf[CHOOSE b \in Cached(n) : TRUE].data ELSE disk[n]
Owner(n) ==
  IF \E p \in Procs : Has(p, n) THEN CHOOSE p \in Procs : Has(p, n) ELSE None

Store == INSTANCE BlockStore WITH
  Users <- Procs, Contents <- Values, Nobody <- None,
  content <- [n \in Blocks |-> Latest(n)], owner <- [n \in Blocks |-> Owner(n)]

\* Through hits, recycling, queueing and log_write's dirty buffers every block keeps its
\* latest content, and one process at a time has it.
IsBlockStore == Store!BSpec

\* When bwrite returns the block is on the disk, as the log relies on.
Durable ==
  [][\A p \in Procs : pc[p] = "synced?" /\ pc'[p] = "use"
       => disk[buf[cur[p]].blockno] = buf[cur[p]].data]_vars

\* Every request is served, unless bget panics: its process comes back from the disk.
RequestsFinish ==
  \A p \in Procs : (pc[p] = "iderw") ~> (pc[p] = "use" \/ panicked = "bget: no buffers")
=============================================================================
