# A verification of xv6 with huge pages

This directory holds a TLA+ development of the kernel and user library in
`src/solution`: xv6 for the x86, with huge pages of 4 MB (`shugebrk`), a user
allocator over two heaps (`vmalloc`, `vfree`) and the transparent use of huge
pages by `malloc` (THP). Paths below are relative to `src/solution` unless they
start with `src/`.

Every module is read off the code. An action is a critical section, or one
access to shared memory where the code has no lock, so that the interleavings of
the model are those the locks allow. Data is reduced to what a property can tell
apart. The operators whose comment calls them a *fault* are wrong variants of
the definition that follows them; they are not part of any specification, and
putting one in the place of its definition breaks the property it is listed with
in `PROJECT.json`.

## The system and its modules

```
 user library   malloc/vmalloc/free            Umalloc
 ------------------------------------------------------------------------
 system calls   sbrk shugebrk fork exec exit wait            VM
                fork exit wait kill sleep, scheduler, traps  Proc
                pipe read write close fork                   Pipe  -> ByteStream
                open link unlink read close                  Inode
                mkdir chdir link unlink, paths               Tree
                read write of file contents                  Files
                console read, write, keys                    Console -> LineDiscipline
 services       log (begin_op .. commit, recovery)           Log   -> AtomicDisk
                buffer cache, sleep locks, IDE driver        Disk  -> BlockStore
                kalloc/kfree, spin lock, boot                Kalloc -> PageAllocator
```

An arrow leads to the abstract specification that a module is shown to
implement. `MC*` modules and their `.cfg` files are the instances for TLC.
The proofs are in `KallocProofs`, `LogProofs`, `PipeProofs` and `DiskProofs`, in `InodeSteps` and
`InodeProofs`, and in `ProcSteps` and `ProcProofs`, the second of each two extending the first.

| module | code | state | actions |
|---|---|---|---|
| `VM` | `vm.c`, `exec.c`, memory side of `proc.c` | `freelist`, `freehugelist`, physical memory `mem`, `proc` table, C locals `k`, `ptlock` | one per call of `kalloc`, `kfree`, `khugealloc`, `khugefree` inside `allocuvm`, `allochugeuvm`, `deallocuvm`, `freevm`, `copyuvm`, `setupkvm`, `exec`, `wait`; user stores |
| `Kalloc` | `kalloc.c`, `spinlock.c`, `main.c` | the links in the pages, `kmem`, its lock, how far `main` is | one per memory access |
| `Umalloc` | `umalloc.c`, `sys_setthp` | headers, `freep`/`hugefreep`, the two breaks, `GLOBAL_THP` | one per library call (the program has one thread) |
| `Proc` | `proc.c`, `trap.c`, `spinlock.c`, `sys_sleep` | process table, stack of labels per kernel thread, `struct cpu`, `ptable.lock`, `tickslock` | the code between two points where another processor or an interrupt can tell the difference |
| `Pipe` | `pipe.c`, `file.c` | circular buffer, counters modulo `UINT`, ends, file references, `killed` | one per critical section or copied byte |
| `Disk` | `bio.c`, `sleeplock.c`, `ide.c` | buffers in order of use, sleep locks, request queue, disk, command in progress | one per critical section of `bcache.lock`, a sleep lock or `idelock` |
| `Log` | `log.c` | disk, log, header, cache, `log.lh`, `outstanding`, `committing` | one per critical section of `log.lock` or disk write; `Crash` |
| `Inode` | `fs.c` (inodes), `sysfile.c` | inodes on the disk, the cache with `ref` and `valid`, one directory, locks, an open file per process | one per critical section of `icache.lock` or stretch under a sleep lock |
| `Tree` | `fs.c` (paths), `sysfile.c` | inodes with type and `nlink`, the entries of every directory, inode locks, the pointers of each process to inodes, where its path lookup is | one per stretch from one wait for an inode's lock to the next |
| `Files` | `fs.c` (blocks), `file.c` | bitmap, blocks, inodes on the disk and in memory, a file and an offset per process, the blocks logged in the transaction | one per block allocated, freed or copied; `Crash` |
| `Console` | `console.c` | the ring with `r`, `w`, `e` modulo `UINT`, readers and their sleep, `killed`, cursor | one per critical section of `cons.lock`; `kill` between two of its steps |

How the modules fit together: `Proc` shows that `sleep` gives up its lock and
marks the process asleep without losing a wakeup; `Pipe`, `Disk` and `Log` take
that as one step. `Kalloc` shows that `kalloc` and `kfree` are atomic; `VM` takes
each as one step. `Disk` shows that a buffer is a block with one owner, that it
is not written behind its owner's back and that `bwrite` returns with the block
on the disk; `Log` builds on that. `Log` shows that calls between `begin_op` and
`end_op` are atomic under crashes; `Inode` and `Tree` have therefore no crashes, and
`Files` crashes only when no transaction is open, which is the state every crash goes
back to. `Inode` shows that the cache counts references right, with one directory whose
own inode is never put; `Tree` takes the count as given, as the set of pointers, and has
all the directories. `Files` takes names and counts from both.

## Inventory

Concurrency and failures in the code, and where they are modelled:

- processors in one free list, and the lock that is switched on during boot
  (`kalloc.c`): `Kalloc`
- processes between any two allocations of `fork`, `exec`, `sbrk`; memory that
  runs out at each of them (`vm.c`, `exec.c`): `VM`
- context switch with `ptable.lock` held, interrupts, sleep and wakeup, orphans,
  kill (`proc.c`, `trap.c`): `Proc`
- sleeping readers and writers, counters that wrap, ends closed under others
  (`pipe.c`, `file.c`): `Pipe`
- buffers recycled and locked by several processes, request queue and interrupt
  (`bio.c`, `ide.c`): `Disk`
- group commit, crash and recovery (`log.c`): `Log`
- inodes unlinked while open, freed and allocated again (`fs.c`, `sysfile.c`):
  `Inode`
- directories removed while others look them up, work in them or stand in them;
  locks taken along a path in either direction (`fs.c`, `sysfile.c`): `Tree`
- blocks freed and handed out again, writes split into transactions with a crash
  between them (`fs.c`, `file.c`): `Files`
- interrupts that fill and edit a ring that processes sleep on (`console.c`):
  `Console`
- two free lists under any sequence of calls, THP switched by another process
  (`umalloc.c`): `Umalloc`
- not modelled: see the end.

## What the runs check

| run | instance | shows |
|---|---|---|
| `vm_base` | 3 processes, 14 pages of 2 bytes, no huge pages; `sbrk` of 3 and -2 bytes, programs of 3 bytes | `Ownership`: each base page has exactly one holder at every step, in every out-of-memory exit too. `SizeMapped`: `sz` is what is mapped. No panic |
| `vm_huge` | 2 processes, 10 base pages, 2 huge pages, `shugebrk` of one and two pages, stores of junk and of the addresses of huge pages | `Ownership`, for huge pages too; `HugeSizeMapped`; `HugeKept`: a huge page goes out of use only in `freevm` and under a page a failed `shugebrk` left mapped; `Private`: a child starts with a copy of its parent's memory, and nobody's memory is changed by another process; no panic but `khugefree`'s (`PanicsOnlyInKhugefree`). All until `khugefree` is called for a page in use |
| `kalloc_boot` | 2 processors, 3 pages in `kinit1`, 1 in `kinit2` | `LockUsed` across the moment the lock is switched on, `PagesAccounted`, and `PageAllocator` implemented |
| `umalloc_heap` | heaps of 8 and 6 units, blocks of 2 and 4 units, a gap of one unit, and three requests that are zero or negative as an `int` | `HeapTiled`, `SortedAndJoined`, `GrowsOnlyWhenNeeded` |
| `log_crash` | 3 processes, 2 blocks, 3 calls, 2 crashes | `AtomicDisk` implemented (`CrashAtomic`); `CommitAlone`: no panic, and nothing runs beside a commit; `SleepersWake` |
| `proc_family` | 2 processors, 3 processes | `StackExclusive`, `NoLostWakeup` (every process has a parent that can wait for it), `InterruptsRestored` (no panic of `acquire`, `release` or `sched`) |
| `pipe_share` | 3 processes, a pipe of 2 bytes, counters modulo 4, one process killed | `ByteStream` implemented (`IsByteStream`), `HeldIsOpen`, `NoLostWakeup`, `EndOfFile` |
| `disk_cache` | 2 processes, 3 buffers, 4 blocks, 2 pinned buffers | `BlockStore` implemented (`IsBlockStore`), `Durable`, `RequestsFinish`, `NoLostWakeup` with the reference counts; no panic but `bget`'s, with every buffer held or dirty |
| `inode_links` | 2 processes, 2 names, 3 inodes, 3 slots | `RefsCounted`, `LinksCounted`, `WriteThrough`, `FreedAtLast`; no panic but that of a full disk |
| `tree_dirs` | 2 processes, names `a` and `b`, 3 inodes; `mkdir` and `unlink` of `/a` and `/a/b`, `chdir` to `/a`, `/a/b` and `/`, `unlink` of `/a/..` and `b`, `create` of `../b` and `b`, `link` of `../b` to `/a` and of `/b` to `/a/..` | `LinksCounted`, `TreeShape`, `LocksOrdered`, each with the exceptions listed under the disagreements |
| `files_crash` | 2 processes, 2 files of up to two blocks of two bytes, the second one indirect, each block with a bitmap block of its own | `BlocksAccounted`, `ReadsBack`, `WithinReservation` |
| `console_line` | 2 processes, 2 letters, a ring of 3, a screen of 3 by 2 | `LineDiscipline` implemented (`IsLineDiscipline`), `NoLostWakeup`, `CursorOnScreen` |

The type invariant `TypeOK` of a module is the first conjunct of its bookkeeping
invariant (`Ownership`, `LockUsed`, `HeapTiled`, `CommitAlone`, `StackExclusive`,
`HeldIsOpen`, `RefsCounted`, `LinksCounted` of `Tree`, `BlocksAccounted`, and
`NoLostWakeup` of `Disk` and `Console`). In `VM`, `Tree`, `Files`
and `Console` a panic stops every process, so that a run without deadlock is one without panic; `vm_huge`
and `tree_dirs`, which do not check deadlock, state which panics they allow. In `Disk` and `Inode` a
panicked machine spins for ever, and `NoLostWakeup` and `FreedAtLast` say which panics are reached.

### Bounds, and why they are enough

- `VM`: two bytes per page and sizes of 3 give page boundaries and halves; the
  pages run out in the middle of each of `fork`, `exec` and `sbrk` when three
  processes compete for 14. Two huge pages let one request fail after its first
  page was mapped; what the first word of that page is then decides what the rollback does, and
  `StoreWords` gives it the address of either huge page or junk. `SbrkRequests` and the other request sets are the bound on
  the arguments.
- `Kalloc`: four pages, of which the stacks and the page table of boot use
  three, so that lists of every length from empty occur with both processors in
  the code.
- `Umalloc`: two sizes, with four units at a time from the kernel, give splits,
  exact fits, joins above, below and on both sides, and refusal. With `UINT = 64` three more
  requests reach `sbrk` as a negative number larger than the heap, one smaller, and 0. `Gaps` makes the
  heap discontiguous, as a program's own `sbrk` does.
- `Log`: `MAXOPS` calls, `MAXCRASHES` crashes, `MAXWRITES` writes in a call, of at most
  `OPBLOCKS` blocks. Two crashes allow one in the recovery from another.
- `Proc`: `Programs` gives each process the calls it may make; with three
  processes a child can outlive its parent and be handed to init.
- `Pipe`: transfers of 3 bytes through 2 force every reader and writer to sleep
  in the middle; counters modulo 4 wrap all the time.
- `Disk`: four blocks in three buffers force recycling, with up to two buffers
  kept dirty as `log_write` does (`MAXPINNED`), so that `bget` can run out. A process holds one
  buffer at a time; `bmap`, `itrunc`, `write_log` and `install_trans` hold two, in a fixed order,
  which makes the panic of `bget` more likely than in the model.
- `Inode`: a process has one open file and one call in progress. With a slot per
  inode `iget` cannot run out; `ialloc` can, and panics.
- `Tree`: the calls of `TreeCalls` are chosen so that a directory can be removed while
  it is some process's current directory, while a lookup goes through it in either
  direction, and while a name is about to be made in it. Three levels and three inodes let
  an inode be freed and given to another file while `..` of a removed directory still
  names it, and let `ialloc` find the disk full.
- `Files`: reads and writes of one and three bytes start and end inside blocks, cross a
  boundary and reach the limit of a file; with `MAXOPBLOCKS = 6` a write of three bytes is
  split. Every block has its own bitmap block (`BPB = 1`), the worst case for the log.
  `Marks` is the offset at which the processes write different bytes.
- `Console`: a ring of three characters is full before most lines end, indices modulo 6
  wrap; the cursor starts at every cell.

### Views and symmetry

`VM` (`Shape`) forgets the numbers of frames, which no action or property
compares except for equality; the free pages hold the same junk, so this is sound
while `Ownership` holds, which each run with the view checks. `Umalloc`
(`ReadableState`), `Proc`, `Pipe`, `Inode`, `Tree` and `Console` (`Live`) leave out values that are
overwritten before they are read. `Disk` (`Shape`) names a buffer by its place in
the list. `Files` (`Live`) does both: the number of a block makes no difference, but
how many are marked and held does. `pipe_share`, `inode_links`, `tree_dirs`, `files_crash`
and `console_line` also use symmetry: the processes other than the one that makes the pipe,
the processes and the names of `Inode`, and the processes of the others. None of these runs
has a liveness property.

### Fairness and deadlock

`Log!FairSpec`: a call that has begun ends, and the committing process and
recovery make progress. The scheduler runs every runnable process again, and
nothing in `commit` waits for another process. `Disk!FairSpec`: the disk
completes what it was told to do, and a process in the kernel that can step does.
Weak fairness suffices in both: no process can be overtaken for ever on its way to what it
waits for in these instances. The other modules have no liveness
property. There it would depend on spin and sleep locks being granted fairly,
which the code does not promise. The fairness of `Disk` ends with a panic,
after which nothing runs. All runs check deadlock except `vm_huge`, whose
kernel may have stopped in `khugefree`, `umalloc_heap`, which follows a program up to a block without memory
(`Unbacked`), and `tree_dirs`, where the code can deadlock: `LocksOrdered` says how.

## What is proved

The theorems hold for every value of the constants that satisfies the assumption of the
module; the runs check the same properties on small instances. In each component the
properties are not inductive as they stand, and follow from an invariant that is.

### Kalloc

`KallocProofs` proves, for any number of processors and pages, what `kalloc_boot` checks for
two and four:

- `TypeCorrect`: `Spec => []TypeOK`. `kalloc` never returns or follows junk.
- `ListExclusive`: `Spec => []MutualExclusion`.
- `LockNeverMisused`: `Spec => []NoPanic`.
- `LockRespected`: `Spec => []LockUsed`, the three together.
- `NoPageLost`: `Spec => []PagesAccounted`.
- `Refinement`: `Spec => ImplementsAllocator`, that is, every behaviour of the
  linked list under its lock is one of the atomic `PageAllocator`.

The one assumption is `KallocAssumption`: there is a processor, and `kinit1` frees
more pages than there are processors, which is what lets `main` use the results
of `kalloc` without a test (4 MB against `NCPU` stacks and the page tables).

The argument. `IInv` is `TypeOK /\ LockInv /\ LocalInv /\ PagesAccounted`:

- `LockInv` says who can be where. Until `kinit2` has set `use_lock` only the boot
  processor allocates; from then on at most one processor is between the two
  stores of the lock, and `lk->cpu` names it exactly between the recording of the
  owner and its erasure. It implies `MutualExclusion` and `NoPanic`, and needs
  nothing but types to be preserved (`LockStep`).
- `LocalInv` says what the locals of a call are worth while its processor is
  inside: the page to be pushed already links to the head of the list, the page
  to be popped *is* the head. It is preserved because nobody else is inside
  (`LocalStep`).
- `PagesAccounted` says that pages that are not free have one holder and the
  others are the list, each once. That the list is complete is an existential
  over sequences of pages. `ListPushed` and `ListPopped` give the witness after
  the two steps that change the list, `ListKept` covers all others, and a
  pigeonhole lemma (`FS_Injection`) bounds the length.
- `TypeStep` needs all of these: `freelist = r->next` is a page or 0 only because
  the head of the list is a free page and its link is not junk.

The refinement maps `free` to the pages nobody holds and the result of a call to
the local `r` once it is settled. Popping (or finding the list empty) is the step
`Alloc` or `AllocFails`, pushing is `Free`, and every other access stutters.

### Log

For any number of processes, blocks, calls and crashes:

- `LogProofs!CommitsAlone`: `Spec => []CommitAlone`. No panic, and a commit has the log for
  itself.
- `LogProofs!Atomicity`: `Spec => CrashAtomic`. The log implements `AtomicDisk`.

`LogAssumption` relates the sizes. A call logs at most `OPBLOCKS` different blocks, in at most
`MAXWRITES` calls of `log_write`, and `begin_op` reserves `MAXOPBLOCKS`. `log_write` tests the
size of the log on the disk, header included, before it looks whether the block is logged
already, so that a call needs one block more than it has written when it comes to `log_write`
once more (`MostWritten`); what is left of its own reservation has to make up for the header.
With the sizes of the code (`MAXOPBLOCKS` 10, `LOGSIZE` and `sb.nlog` 30) the assumption says
`OPBLOCKS <= 8`, for any number of `log_write`s. The calls of the file system stay within that:
a transaction of `filewrite` logs at most seven blocks (four of data, one of the bitmap, the
indirect block, the inode), the others at most eight. With `OPBLOCKS` equal to `MAXOPBLOCKS` it is false; see the disagreements.

The argument. `IInv` is `TypeOK /\ GroupInv /\ RoomInv /\ DataInv`:

- `GroupInv`: `outstanding` counts the open calls; at most one process is in
  `commit`, and then `committing` is set and no call is open.
- `RoomInv`: the blocks logged and the blocks that open calls have reserved and not
  used fit in `LOGSIZE`. The reserved blocks are a set of pairs (`Reserved`), so that their sum
  is a cardinality: `begin_op` adds the pairs of one call, a `log_write` of a new block takes
  one away, `end_op` drops the rest.
- `DataInv` says where the latest content of each block is, by how far the commit
  has come: in the cache and dirty until the header is written; then in the log, and at home as far as
  `tail`; at home when the header is erased. Its case for `install_trans` had to be
  strengthened: blocks that are installed are clean, which is what makes an eviction during the installation harmless.

In the refinement `stable` is what recovery would leave if the machine stopped now.
`write_head` is the commit, a `log_write` is a write, and all other disk writes (of the log,
of home locations, of the erased header, in recovery too) leave both `stable` and what `bread` returns alone.

### Pipe

For any number of processes that fork, close, exit and are killed at any point, any numbers of bytes
in reads and writes, any `PIPESIZE` and any range of the counters that `PIPESIZE` divides
(`PipeAssumption`; 512 divides 2^32):

- `PipeProofs!HeldOpen`: `Spec => []HeldIsOpen`.
- `PipeProofs!NoLeak`: `Spec => []FreedAtLast`. The page is freed once nobody has an end.
- `PipeProofs!WakeupsKept`: `Spec => []NoLostWakeup`.
- `PipeProofs!ReadsToTheEnd`: `Spec => EndOfFile`, an action property.
- `PipeProofs!Refinement`: `Spec => IsByteStream`.

The argument. `IInv` is `TypeOK /\ FileInv /\ WaitInv`:

- `FileInv`: `ref` is the number of processes with a descriptor; an end is open as long as it is
  held or its last holder is on the way to `pipeclose`, and only one is; a call of `piperead` or
  `pipewrite` keeps its descriptor; `lock` names the one process at a label where it is held.
- `WaitInv` is what `NoLostWakeup` becomes while the lock is held: a sleeping reader finds
  the pipe empty, *or* a writer is in its critical section and will call `wakeup` before it
  leaves (or was killed, the exception); the same for writers. It also says that a reader begins
  to copy only with bytes there or the write end closed, from which `EndOfFile` follows.
- `TypeOK` has the counters at most `PIPESIZE` apart modulo `UINT`. `PutCounts` and `GetCounts` show that
  the tests `nwrite == nread + PIPESIZE` and `nread == nwrite` in wrapping arithmetic are right
  about that distance.

For the refinement `PlaceWraps` shows that a byte's place does not change when its number
wraps, which needs `PIPESIZE` to divide `UINT`, and `PlacesDiffer` that `put` does not
overwrite a byte that is in the queue. `PutAppends` and `GetTakes` are the two steps that are
not stutters, but for the return of a read and the making of a new pipe.

### Disk

For any numbers of processes, buffers, blocks and contents (`DiskAssumption`):

- `DiskProofs!WakeupsKept`: `Spec => []NoLostWakeup`, with read errors too. The tests in `bwrite`,
  `brelse` and `iderw` never fail. `bget` may panic, and nothing in the code rules it out
  (`NPROC` is 64, `NBUF` and `LOGSIZE` are both 30); it does so only when every buffer is some
  process's or dirty.
- `DiskProofs!WrittenIsOnDisk`: `Spec => Durable`, and
- `DiskProofs!Refinement`: `Spec => IsBlockStore`, both if no read ends with an error
  (`TRUE \notin Errors`). After an error they are false.

The argument. The inductive invariant is `TypeInv /\ CacheInv /\ PanicInv`, in which

- `ProcInv` says what each process knows of its buffer at each label: whether it has the lock,
  that the buffer is for some block, that after `acquiresleep` it is valid or to be read, that a
  process asleep for the disk has its buffer in the queue and one that was woken finds it served.
- `BufInv` says the converse: a lock names a process that is at this buffer and has it.
- `QueueInv`: no buffer is queued twice, each is locked by a process asleep for it, and the
  command is the one for the first. Hence `ideintr` wakes exactly the process whose request was
  served (`IntrView`), and the queue is never longer than there are processes.
- `RefInv`, `OneEach`, `ListInv`: `refcnt` is the number of processes with the buffer. That is why a
  recycled buffer is neither locked nor queued (`RefsTell`), although `bget` does not look at
  the lock; and why a buffer found in the cache is still for the same block when
  `acquiresleep` has its lock.

`PanicInv` says that the one panic is `bget`'s and that then no buffer is recyclable; by `RefInv` each
is dirty or some process's.

For the refinement `CleanInv` adds that a valid buffer that is not dirty equals the disk, so that
recycling it loses nothing. `Latest` and `Owner` are the content and the owner of a block;
`LatestIs` and `OwnerIs` show that they do not depend on a choice. `acquiresleep` of a valid
buffer and the interrupt for a read are `Take`, `releasesleep` is `Give`, and a change is
`Change`; hits, recycling, queueing and the interrupt for a write do not show.

### Inode

For any numbers of processes, names, inodes and slots of the cache (`InodeAssumption`: the sets
are finite, and none is empty but perhaps that of the processes):

- `InodeProofs!References`: `Spec => []RefsCounted`.
- `InodeProofs!LinkCounts`: `Spec => []LinksCounted`.
- `InodeProofs!Coherence`: `Spec => []WriteThrough`.
- `InodeProofs!FreedWithLast`: `Spec => []FreedAtLast`.
- `InodeProofs!NoPanicButFull`: the only panics that can be reached are those of `iget` in a full
  cache and of `ialloc` on a full disk (`Full`). Those of `ilock` and `unlink` are not. The run has
  a slot for each inode, so that it does not meet the first.

The argument. `IInv` is `Typed /\ Counted /\ UseInv`, and those panics at most:

- `Counted` is `RefsCounted` with what each label says of the pointers. `CountStep` is the one
  lemma about cardinalities: a set that a step changes by at most one process grows or shrinks
  by one.
- `UseInv` says which uses keep an inode allocated (`Holds`): all references but those `iput` has
  done with, and the inode that `ialloc` has found and not got a slot for. From it: a used inode is
  allocated (`Alive`); one that `iput` truncates is used by nobody else (`Truncs`), since `iput` looked
  at `ref` and `nlink` with the inode locked and no name can lead to it any more; one that it has freed,
  with the slot still in its hands, is used by nobody but a `create` that has allocated it again (`Freed`).
- That last case is what makes `WriteThrough` hard. Between `iupdate` and `ip->valid = 0` the slot
  has what the disk no longer has, if another process takes the inode in between. `Sync` excepts the time
  of `Freeing`, and `WriteThrough` holds because the slot is locked throughout it.
- `Kept` is `FreedAtLast` by uses in place of references; `raced` marks the inodes it is not true for.

`TypeOK` says that `ref` and `nlink` are natural numbers. In `IInv` they are integers (`Typed`), so
that a step of arithmetic has its type without an argument; `Natural` and `References` show that
they are not negative, from what they count.
`InodeSteps` has the lemmas about the steps. They use a few laws of cardinality and that a set of
numbers has a least element, as a hypothesis (`CountLaws`), which `InodeProofs!Laws` proves from the library's theorems.

### Proc

For any numbers of processors and processes, any programs and any sequence of timer interrupts
(`ProcAssumption`; `init` does not exit and nobody kills it, see the disagreements):

- `ProcProofs!Stacks`: `Spec => []StackExclusive`.
- `ProcProofs!Interrupts`: `Spec => []InterruptsRestored`, and with it that no test of `sched`,
  `acquire`, `release`, `popcli` and `exit` panics.
- `ProcProofs!Wakeups`: `Spec => []NoLostWakeup`.

The argument. `IInv` is `TypeOK /\ CpuInv /\ Single /\ ProcInv` (`RunInv`) with `WakeInv`:

- `Fits` and `SchedFits` say which stacks of labels there are. An interrupt comes only where
  interrupts are on, hence above few labels (`Open`), and a process leaves the processor at four places (`Away`).
- `CpuInv`: the processor holds a lock exactly at the labels where the code has it, `ncli` is the
  number of locks held, and `iflag` and `intena` are what the label, and the one that `sched` will
  return to, need (`Ints`). For a process that is off the processors, `saved` is that `intena`
  (`Keeps`): the processor on which it goes on may have had another.
- `ProcInv`: the state of a process is told by its stack and by whether a processor has it
  (`StateOn`, `StateOff`). A process is `RUNNABLE` or `SLEEPING` while it still has a processor only from its
  change of state to `swtch`, with `ptable.lock` held, so that no scheduler can pick it; this is
  why `StackExclusive` needs that lock and not the states alone.
- `WakeInv` is `NoLostWakeup` made true at every step: a child that `fork` is making belongs to it alone
  (`ForkInv`), which is needed because `fork` writes `np->parent` without the lock; parents are alive
  (`ParentInv`), also in the middle of `exit`, which hands its children to `init` and wakes it in one critical
  section; a process that sleeps for the clock has ticks left, or the processor that counted the
  last one is about to wake it (`SleepInv`).

`RunInv` is kept by a step whatever the parents are, but for a few facts of `WakeInv`: `init` is not killed, a
process is not its own parent, and the slot that `fork` works on is an embryo. So the two
halves are proved to be kept by lemmas of their own for each action (`...Right` in `ProcSteps` and `...Wake` in `ProcProofs`), and
both start from general ones about a step that goes on, returns or enters `sched` (`GoesTo`, `Returns`, `Enters`; `PlainStep`, `GotoKeeps`, `ReturnKeeps`, `EnterKeeps`).

### Only model-checked

The remaining properties are model-checked on the instances above and not proved. Liveness
(`SleepersWake`, `RequestsFinish`) stays with TLC, for the prover does not handle
fairness. So do properties of operators defined by recursion over sequences or trees, which
need induction over data: `IsLineDiscipline` of `Console`, `HeapTiled`, `SortedAndJoined` and
`GrowsOnlyWhenNeeded` of `Umalloc` (a free list is what following its links finds), and what
`ReadsBack` of `Files` says of whole files. The
invariants of `VM` (`Ownership`, `SizeMapped`, `HugeSizeMapped`, `HugeKept`, `Private`,
`PanicsOnlyInKhugefree`) and `Tree` (`LinksCounted`, `TreeShape`, `LocksOrdered`), `BlocksAccounted` and `WithinReservation` of
`Files`, and `NoLostWakeup` and `CursorOnScreen` of `Console` have no proof yet: nothing is known to stand in the way.

## Disagreements between the code and its documentation

None has a run that fails: a property states what does hold, and names the case in
which the code does otherwise as its one exception.

- Huge pages are never freed: `freevm` does nothing at an entry with `PTE_PS`, and
  `deallocuvm` looks for a page table inside the huge page, against `vm.c:404` ("Free a page table and all the physical
  memory pages in the user part"). When `shugebrk` runs out of huge pages half way, the pages it has
  mapped stay mapped above `hugesz`; the next `shugebrk` maps others over them, and they are lost too.
  `HugeKept` shows that a huge page is lost in no other way.
- The log is one block short: `begin_op` counts on `LOGSIZE` data blocks
  (`param.h:11`), `mkfs` lays out `LOGSIZE` blocks with the header
  (`mkfs.c:25`), and `log_write` panics at `log.size - 1` (`log.c:218`). Three calls that stay
  within `MAXOPBLOCKS` can fill it.
  `log_write` tests the size before it looks for the block in the log, so a call that
  rewrites a block of its own may meet the panic as well. `LogAssumption` says how much less a
  call may write (`OPBLOCKS`): eight blocks, which no call of the file system exceeds, and
  `CommitsAlone` proves that this is enough.
- `kill` matches pid 0, or the pid of a failed `fork`, to a free slot
  (`proc.c:508`) and sets its `killed`, which `allocproc` does not clear: the next process in
  the slot is killed from the start, against `proc.h:49` ("If non-zero, have been killed").
  `Proc` has this behaviour; its properties hold with it.
- `iput` looks at `ref` and decrements it in two critical sections. Two processes that
  drop the last two references of an unlinked inode at once both see two, and the
  inode stays allocated for ever, against `fs.c:118-120` ("iput() frees if the
  reference and link counts have fallen to zero"). `FreedAtLast` shows that this is the
  only way: the history variable `raced` marks the inodes it happened to.
- `pipewrite` of a killed process on a full pipe returns without waking the readers
  (`pipe.c:86-88`). A reader asleep on the pipe stays asleep although there are bytes.
  `NoLostWakeup` of `Pipe` names the exception; the history variable `cut` marks it.
- A `kill` between the test of `killed` and the `sleep` that follows wakes nobody
  (`pipe.c:107`, `console.c:246`). The process notices at its next wakeup. `Pipe` has this
  interleaving; in `Console`, where `NoLostWakeup` names it, the next wakeup is the next line.
- `create` and `unlink` call `iunlockput` on the parent with the child locked
  (`sysfile.c:225`, `280`), and `iput` takes the parent's lock once more (`fs.c:334`). A process
  that has the parent locked and waits for the child, as another `unlink` does, then waits for
  ever, and so does the first: the "child before parent" that keeping `ilock` apart from `iget`
  was to avoid (`fs.c:146-150`). `link(x, "d/..")` finds the name taken and puts the parent of
  `d` with `d` locked, `link(x, ".")` puts the very directory it has locked. `LocksOrdered`
  shows that a deadlock always has one of these in it (`PutsParent`, `PutsUpward`); the other
  calls of `iput` under a lock, of a child under its parent's, are not the cause of one.
- `create` and `link` do not look whether the directory they have just locked has been removed
  since its path was looked up (`sysfile.c:146`, `249`). The name they make goes when the
  directory is freed, and the inode stays allocated and counted. `LinksCounted` of `Tree` shows
  that links are counted right otherwise; the history variable `late` marks these inodes.
- `unlink` of a directory takes back the parent's link for `..` while the directory may be in
  use as a current directory (`sysfile.c:222`). When the parent is then removed too, `..` names a
  free inode, and a lookup through it panics in `ilock` or meets another file. `TreeShape` shows
  that a call works on a freed inode, and that `ilock` panics in it, only after `..`.
- A crash while an unlinked file is open leaves its inode and blocks allocated
  (`fs.c:327-328`); nothing looks for such inodes at boot. `BlocksAccounted` shows that these are
  the only ones; the history variable `orphan` marks them.
- A transaction that frees a file logs one bitmap block for every group of `BPB` blocks
  (`itrunc`), for which `filewrite`'s calculation has no room; on the disk `mkfs` makes there is
  only one (`FSSIZE` < `BPB`). `WithinReservation` is about writes, and tight: a write of
  the run logs exactly `MAXOPBLOCKS` blocks.
- After a read error `ideintr` wakes the process without reading the sector, and marks the
  buffer valid (`ide.c:118-122`), against `ide.c:136` and `bio.c:95`. The constant
  `Errors` of `Disk` has that outcome; the run, and the theorems that have no errors as a hypothesis, are about a disk without.
- `vmalloc(n, VMALLOC_SIZE_BASE)` calls `malloc`, which with THP on may use huge pages,
  against `src/README.md:88`. Undefined flags are accepted (`umalloc.c:173`,
  `src/README.md:109`).
- `malloc` switches to huge pages above 1000000 bytes, not 1 MB (`umalloc.c:132`,
  `src/README.md:90-92`). `nunits` wraps for requests near 2^32 (`umalloc.c:139`). From 2^31 on
  `nu * sizeof(Header)` reaches `sbrk` as a number that is not positive (`umalloc.c:97`, `120`): `sbrk`
  succeeds without adding memory, and `malloc` returns a block with none behind it. `HeapTiled`
  holds up to there.
- `shugebrk(0)` subtracts `HUGE_VA_OFFSET` from `hugesz` once more (`proc.c:193`,
  `proc.h:40`); `shugebrk` of a negative size unmaps base pages, because `deallocuvm` is
  given offsets (`proc.c:190`). The instances call `shugebrk` with positive sizes.
- `deallocuvm` takes the first word of a huge page for a page table entry. What the process
  stored there decides whether `khugefree` panics (`vm.c:343`) or frees the huge page the word
  names, whoever has it. `PanicsOnlyInKhugefree` shows that this is the only panic of these paths; the properties of `VM` hold
  until a page in use is freed, which the history variable `misfreed` marks and where the model stops.
- `allochugeuvm` has no test against `KERNBASE` (`vm.c:285`, `src/README.md:111-113`) and
  `mappages` no test for a huge page that is mapped already (`src/README.md:115`).
  `SizeAssumption` holds for the machine and makes the first unnecessary; `HugeKept`
  shows that for want of the second only pages above `hugesz` are mapped over. `vfree` has no test for pointers into
  the kernel (`src/README.md:117`).
- `sbrk(-sz)` frees everything, returns -1 and leaves `sz` as it was, because
  `deallocuvm` returns 0, which `growproc` takes for an error.
- A `kill` of `init`, or a failed `fork` in `init.c:25-28`, ends in the panic "init
  exiting". `Proc` leaves both out (`KillTargets`, `Programs[1]` without `exit`).

## What is left out of the models

- `VM`: permission bits, segment registers, `copyout`, `clearpteu`, the bytes `loaduvm`
  reads; the two panics of `copyuvm` are one. `Proc` and `VM` share `proc.c`: one has its
  scheduling, the other its memory.
- `Proc`: pids are not numbered (they are never given twice), `cwd` and open files are in
  other modules. No liveness.
- `Disk`: one buffer per process at a time, and so the waiting of a process that has one buffer
  for another; port I/O, the second drive.
- `Inode`: one directory, whose own inode is only its lock; a process has one open file.
- `Tree`: devices, and open files that stay open (`Inode` has them); the size of a directory and
  where an entry is in it; names longer than `DIRSIZ`, which are cut off; `exec`'s lookup, which
  is `namei` once more.
- `Files`: devices; `open` and `unlink` are single steps, and a process has one file.
- `Console`: `^P`'s listing, the scan codes of `kbd.c`, the serial port's registers, `cprintf`.
- Not modelled: keyboard and serial line; `syscall.c`'s fetching of arguments (pointer tests
  in one thread, on a `sz` that `VM` has); descriptors and `dup` (an array of one process); boot
  code, interrupt controllers, `mp.c`; `string.c` but for `memmove`; `mkfs` and the user programs.

## Plan

1. Prove more, in this order: `Console` (`NoLostWakeup`), `VM` (`Ownership`), `Files` (`BlocksAccounted`), `Tree` (`LocksOrdered`).
2. Model more where it pays: read errors of the disk as a run of `Disk`, `Tree` with open files.
