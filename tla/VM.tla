--------------------------------- MODULE VM ---------------------------------
(***************************************************************************)
(* Virtual memory of the kernel: the two page allocators, page directories *)
(* and page tables, and the system calls that build, grow, shrink, copy    *)
(* and destroy an address space (sbrk, shugebrk, fork, exec, exit, wait).  *)
(*                                                                         *)
(* Physical memory is the function mem: a frame is an array of NENTRIES    *)
(* words, read as page directory, page table or data as the code reads it. *)
(* A word is 0 (present bit clear), a frame number (a present entry that   *)
(* points to the frame; the frame is huge exactly when PTE_PS is set) or   *)
(* Odd (present bit set, not the address of an allocatable frame: junk     *)
(* left by kfree, a kernel mapping, or user data).  Permission bits are    *)
(* left out.  A directory is identified by its frame.                      *)
(*                                                                         *)
(* Every action is one critical section of kmem.lock, khugemem.lock or     *)
(* ptable.lock together with the private work around it, so processes in   *)
(* the kernel interleave at each kalloc, kfree, khugealloc and khugefree.  *)
(***************************************************************************)
EXTENDS Integers, Sequences, FiniteSets

CONSTANTS
  NPROC,         \* size of the process table; process 1 is initproc
  NFRAMES,       \* base pages managed by kalloc
  NHUGE,         \* huge pages managed by khugealloc
  PGSIZE,        \* bytes per base page
  NENTRIES,      \* entries of a page directory and of a page table
  HPDX,          \* directory index of HUGE_VA_OFFSET
  KPDX,          \* directory index of KERNBASE
  SbrkRequests,  \* arguments processes pass to sbrk
  HugeRequests,  \* arguments processes pass to shugebrk
  SegmentEnds,   \* vaddr+memsz of the segments of the programs to exec
  StoreWords     \* words processes store in their huge pages, any they like

Procs      == 1 .. NPROC
Frames     == 1 .. NFRAMES
HugeFrames == (NFRAMES + 1) .. (NFRAMES + NHUGE)
Index      == 0 .. (NENTRIES - 1)
NULL       == 0
Odd        == -1
Word       == Frames \cup HugeFrames \cup {0, Odd}
initproc   == 1

HUGE_PAGE_SIZE == NENTRIES * PGSIZE
VASIZE         == NENTRIES * HUGE_PAGE_SIZE       \* 2^32 in the code
HUGE_VA_OFFSET == HPDX * HUGE_PAGE_SIZE
KERNBASE       == KPDX * HUGE_PAGE_SIZE
NKPT           == NENTRIES - KPDX                 \* kernel page tables

\* The sizes of the machine.  The last two conjuncts are what keeps the two
\* heaps apart and out of the kernel: neither allocuvm nor allochugeuvm checks
\* for it (PHYSTOP < HUGE_VA_OFFSET, and 512 MB of huge pages above it).
ASSUME SizeAssumption ==
  /\ NPROC \in Nat \ {0} /\ NHUGE \in Nat /\ PGSIZE \in Nat \ {0}
  /\ NENTRIES \in Nat /\ HPDX \in Nat \ {0} /\ KPDX \in Nat
  /\ HPDX < KPDX /\ KPDX < NENTRIES
  /\ NFRAMES \in Nat /\ NFRAMES >= NKPT + 4
  /\ NFRAMES <= HPDX * NENTRIES
  /\ HPDX + NHUGE <= KPDX

ASSUME RequestAssumption ==
  /\ SbrkRequests \subseteq Int /\ HugeRequests \subseteq Int
  /\ SegmentEnds \subseteq Nat
  /\ StoreWords \subseteq Word

\* Faulty variants, which round the wrong way; every
\* property below fails for one of the faulty variants of this module.
HugeRoundDown(x)   == (x \div HUGE_PAGE_SIZE) * HUGE_PAGE_SIZE
HugeRoundPast(x)   == (x \div HUGE_PAGE_SIZE) * HUGE_PAGE_SIZE + HUGE_PAGE_SIZE

PDX(va)            == va \div HUGE_PAGE_SIZE
PTX(va)            == (va \div PGSIZE) % NENTRIES
PGADDR(d, t)       == d * HUGE_PAGE_SIZE + t * PGSIZE
PGROUNDUP(x)       == ((x + PGSIZE - 1) \div PGSIZE) * PGSIZE
HUGEPGROUNDUP(x)   == ((x + HUGE_PAGE_SIZE - 1) \div HUGE_PAGE_SIZE) * HUGE_PAGE_SIZE
uint(x)            == x % VASIZE

VARIABLES
  freelist,      \* kmem.freelist, head first
  freehugelist,  \* khugemem.freehugelist, head first
  mem,           \* contents of the frames
  ptlock,        \* process that holds ptable.lock while it calls kfree, or NULL
  proc,          \* the process table
  k,             \* what each process is doing in the kernel: its C locals
  panicked,      \* the message of panic(), or "no"
  misfreed       \* history: khugefree was handed a huge page that is mapped or free

vars == <<freelist, freehugelist, mem, ptlock, proc, k, panicked, misfreed>>

\* struct proc.  RUNNING stands for RUNNABLE, RUNNING and SLEEPING.
ProcRecord ==
  [state: {"UNUSED", "EMBRYO", "RUNNING", "ZOMBIE"}, parent: 0 .. NPROC,
   kstack: Frames \cup {NULL}, pgdir: Frames \cup {NULL},
   sz: 0 .. (VASIZE - 1), hugesz: 0 .. (VASIZE - 1)]

\* The system call in progress (call), where in it the process is (pc), where
\* allocuvm or deallocuvm returns to (then), the child of fork or wait (np), the
\* directory being built or discarded by fork and exec (d), a page allocated
\* and not yet mapped (page), loop cursor and limit (a, lim), the size the call
\* is about to set (res).
Frame ==
  [call: {"none", "sbrk", "shugebrk", "fork", "exec", "wait"},
   pc: {"none", "user", "allocproc", "setupkvm", "kmap", "segment", "args",
        "allocuvm", "mappages", "allochugeuvm", "deallocuvm", "freept",
        "copyuvm", "copyhuge", "undo", "fail", "commit"},
   then: {"none", "segment", "args", "freept", "fail", "commit"},
   np: 0 .. NPROC, d: Frames \cup {NULL}, page: Frames \cup {NULL},
   a: 0 .. VASIZE, lim: 0 .. VASIZE, res: 0 .. VASIZE]

Idle == [call |-> "none", pc |-> "user", then |-> "none", np |-> NULL, d |-> NULL,
         page |-> NULL, a |-> 0, lim |-> 0, res |-> 0]

ZeroPage == [i \in Index |-> 0]        \* memset(p, 0, PGSIZE)
OddPage  == [i \in Index |-> Odd]      \* memset(p, 1, PGSIZE); kernel mappings

-----------------------------------------------------------------------------
\* What userinit leaves: one process with a kernel stack, a directory with its
\* kernel page tables, and one page of memory; the rest is on the free list, which
\* freerange filled in ascending order.
Init ==
  LET upage == NFRAMES - 2 - NKPT
      upt   == NFRAMES - 3 - NKPT
  IN  /\ freelist = [i \in 1 .. (NFRAMES - 4 - NKPT) |-> NFRAMES - 3 - NKPT - i]
      /\ freehugelist = [i \in 1 .. NHUGE |-> NFRAMES + NHUGE + 1 - i]
      /\ mem = [f \in Frames \cup HugeFrames |->
                  CASE f = NFRAMES - 1 ->
                         [i \in Index |-> CASE i = 0     -> upt
                                            [] i >= KPDX -> NFRAMES - 2 - (i - KPDX)
                                            [] OTHER     -> 0]
                    [] f = upt   -> [ZeroPage EXCEPT ![0] = upage]
                    [] f = upage -> ZeroPage
                    [] OTHER     -> OddPage]
      /\ ptlock = NULL
      /\ proc = [p \in Procs |->
                   IF p = initproc
                     THEN [state |-> "RUNNING", parent |-> NULL, kstack |-> NFRAMES,
                           pgdir |-> NFRAMES - 1, sz |-> PGSIZE, hugesz |-> 0]
                     ELSE [state |-> "UNUSED", parent |-> NULL, kstack |-> NULL,
                           pgdir |-> NULL, sz |-> 0, hugesz |-> 0]]
      /\ k = [p \in Procs |-> IF p = initproc THEN Idle ELSE [Idle EXCEPT !.pc = "none"]]
      /\ panicked = "no"
      /\ misfreed = FALSE

-----------------------------------------------------------------------------
\* A process owns its page directory from fork's last step to the end of wait.
HasPgdir(p) == proc[p].state \in {"RUNNING", "ZOMBIE"}

Directories ==
  {proc[p].pgdir : p \in {q \in Procs : HasPgdir(q)}} \cup ({k[p].d : p \in Procs} \ {NULL})

\* The places of the user part at which a huge page is mapped.
HugeMaps == {e \in Directories \X (0 .. (KPDX - 1)) : mem[e[1]][e[2]] \in HugeFrames}

\* Huge page h is on freehugelist or mapped in the user part of some directory.
HugeHeld(h) ==
  \/ \E i \in 1 .. Len(freehugelist) : freehugelist[i] = h
  \/ \E e \in HugeMaps : mem[e[1]][e[2]] = h

\* The page directory the current call of allocuvm, mappages, deallocuvm or
\* freevm was given.
Dir(p) ==
  CASE k[p].call \in {"sbrk", "shugebrk"} -> proc[p].pgdir
    [] k[p].call = "wait"                 -> proc[k[p].np].pgdir
    [] OTHER                              -> k[p].d

\* *walkpgdir(dir, va, 0), or 0 where walkpgdir returns 0.  A huge entry is
\* followed like any other: the huge page is read as if it were a page table.
Pte(dir, va) ==
  LET pde == mem[dir][PDX(va)]
  IN  IF pde = 0 THEN 0 ELSE mem[pde][PTX(va)]

\* A running process is in user mode and its first page, the text, is mapped.
InUser(p) ==
  /\ proc[p].state = "RUNNING"
  /\ k[p].pc = "user"
  /\ Pte(proc[p].pgdir, 0) # 0

Goto(p, label) == k' = [k EXCEPT ![p].pc = label]
Return(p)      == k' = [k EXCEPT ![p] = Idle]

Panic(message) ==
  /\ panicked' = message
  /\ UNCHANGED <<freelist, freehugelist, mem, ptlock, proc, k>>

\* kalloc returns the head of the list; kfree puts f at the head and fills f with
\* junk, which the callers below write into mem together with their own stores.
kalloc(f) == freelist # <<>> /\ f = Head(freelist) /\ freelist' = Tail(freelist)
kfree(f)  == freelist' = <<f>> \o freelist
NoMemory  == freelist = <<>> /\ UNCHANGED freelist

\* khugealloc, and its fault: the page stays on the list.
KeepHead(h)   == freehugelist # <<>> /\ h = Head(freehugelist) /\ UNCHANGED freehugelist
khugealloc(h) == freehugelist # <<>> /\ h = Head(freehugelist) /\ freehugelist' = Tail(freehugelist)
NoHugeMemory  == freehugelist = <<>> /\ UNCHANGED freehugelist

\* khugefree puts h at the head of the list, with the link in the first word of h; h is
\* filled with junk.  When the word that named h is the first word of h itself, deallocuvm
\* clears the link after the call.
khugefree(h, own) == freehugelist' = <<h>> \o (IF h = own THEN <<>> ELSE freehugelist)

\* memmove of a whole page from frame f, and its fault: the copy is left cleared.
NotCopied(f) == ZeroPage
memmove(f)   == mem[f]

\* The fault of DeallocStart: the page that holds newsz goes too.
StartInside(dir, newsz) == (newsz \div PGSIZE) * PGSIZE

\* deallocuvm starts at newsz rounded up to the kind of page newsz lies in.
DeallocStart(dir, newsz) ==
  IF mem[dir][PDX(newsz)] \in HugeFrames THEN HUGEPGROUNDUP(newsz) ELSE PGROUNDUP(newsz)

\* The fault of freevm: the page tables are freed but not what they map.
TablesOnly(p) ==
  k' = [k EXCEPT ![p].pc = "freept", ![p].page = NULL, ![p].a = 0]

\* freevm(Dir): deallocuvm(Dir, KERNBASE, 0), then the page tables, then Dir.
EnterFreevm(p) ==
  k' = [k EXCEPT ![p].pc = "deallocuvm", ![p].then = "freept", ![p].page = NULL,
                 ![p].a = 0, ![p].lim = KERNBASE]

\* The fault of OldSize: the huge heap is rolled back at its offset, not its address.
OldOffset(p) ==
  CASE k[p].call = "sbrk"     -> proc[p].sz
    [] k[p].call = "shugebrk" -> proc[p].hugesz
    [] OTHER                  -> k[p].res

\* The size the failed allocuvm or allochugeuvm started from.
OldSize(p) ==
  CASE k[p].call = "sbrk"     -> proc[p].sz
    [] k[p].call = "shugebrk" -> uint(HUGE_VA_OFFSET + proc[p].hugesz)
    [] OTHER                  -> k[p].res

\* deallocuvm(pgdir, newsz, oldsz) after a failed allocation.
Rollback(p) ==
  k' = [k EXCEPT ![p].pc = "deallocuvm", ![p].then = "fail",
                 ![p].a = DeallocStart(Dir(p), OldSize(p))]

-----------------------------------------------------------------------------
\* sbrk(n) up to the loop of allocuvm or deallocuvm.  In the cases left out
\* growproc returns having changed nothing.  initproc never gives up its text.
Sbrk(p, n) ==
  LET old == proc[p].sz
      new == uint(old + n)
  IN  /\ InUser(p)
      /\ \/ /\ n > 0 /\ new < KERNBASE /\ new >= old
            /\ k' = [k EXCEPT ![p] = [Idle EXCEPT !.call = "sbrk", !.pc = "allocuvm",
                                                  !.a = PGROUNDUP(old), !.lim = new]]
         \/ /\ n < 0 /\ new < old /\ (p = initproc => new > 0)
            /\ k' = [k EXCEPT ![p] = [Idle EXCEPT !.call = "sbrk", !.pc = "deallocuvm",
                                                  !.then = "commit", !.lim = old, !.res = new,
                                                  !.a = DeallocStart(proc[p].pgdir, new)]]
      /\ UNCHANGED <<freelist, freehugelist, mem, ptlock, proc, panicked>>

\* shugebrk(n) up to the loop.  The argument 0, and a negative argument larger
\* than the huge heap, reach the final assignment of growhugeproc at once.
Shugebrk(p, n) ==
  LET old == proc[p].hugesz
      new == uint(old + n)
  IN  /\ InUser(p)
      /\ \/ /\ n > 0 /\ uint(new + HUGE_VA_OFFSET) >= uint(old + HUGE_VA_OFFSET)
            /\ k' = [k EXCEPT ![p] =
                       [Idle EXCEPT !.call = "shugebrk", !.pc = "allochugeuvm",
                                    !.a = HUGEPGROUNDUP(uint(old + HUGE_VA_OFFSET)),
                                    !.lim = uint(new + HUGE_VA_OFFSET)]]
            /\ UNCHANGED proc
         \/ /\ n < 0 /\ new < old
            /\ k' = [k EXCEPT ![p] =
                       [Idle EXCEPT !.call = "shugebrk", !.pc = "deallocuvm",
                                    !.then = "commit", !.lim = old, !.res = new,
                                    !.a = DeallocStart(proc[p].pgdir, new)]]
            /\ UNCHANGED proc
         \/ /\ n = 0 \/ (n < 0 /\ new >= old /\ old # 0)
            /\ proc' = [proc EXCEPT ![p].hugesz = uint(old - HUGE_VA_OFFSET)]
            /\ UNCHANGED k
      /\ UNCHANGED <<freelist, freehugelist, mem, ptlock, panicked>>

\* One iteration of allocuvm up to its call of mappages, its out-of-memory exit, or
\* its return, with what growproc and exec do with the new size.
allocuvm(p) ==
  /\ k[p].pc = "allocuvm"
  /\ \/ /\ k[p].a < k[p].lim
        /\ \/ \E f \in Frames :
                /\ kalloc(f)
                /\ mem' = [mem EXCEPT ![f] = ZeroPage]
                /\ k' = [k EXCEPT ![p].pc = "mappages", ![p].page = f]
           \/ NoMemory /\ Rollback(p) /\ UNCHANGED mem
        /\ UNCHANGED proc
     \/ /\ k[p].a >= k[p].lim
        /\ \/ /\ k[p].call = "sbrk"
              /\ proc' = [proc EXCEPT ![p].sz = k[p].lim]
              /\ Return(p)
           \/ /\ k[p].call = "exec"
              /\ k' = [k EXCEPT ![p].pc = k[p].then, ![p].res = k[p].lim]
              /\ UNCHANGED proc
        /\ UNCHANGED <<freelist, mem>>
  /\ UNCHANGED <<freehugelist, ptlock, panicked>>

\* After mappages, allocuvm and copyuvm go on with the next page.
NextPage(p) ==
  k' = [k EXCEPT ![p].pc = IF k[p].call = "fork" THEN "copyuvm" ELSE "allocuvm",
                 ![p].page = NULL, ![p].a = k[p].a + PGSIZE]

\* mappages(dir, a, PGSIZE, page): walkpgdir finds the page table or allocates and
\* clears one; when it cannot, copyuvm frees the page and gives up, allocuvm rolls
\* back first.
mappages(p) ==
  LET dir == Dir(p)
      va  == k[p].a
      pde == mem[dir][PDX(va)]
  IN  /\ k[p].pc = "mappages"
      /\ \/ /\ pde # 0 /\ mem[pde][PTX(va)] # 0
            /\ Panic("remap")
         \/ /\ pde # 0 /\ mem[pde][PTX(va)] = 0
            /\ mem' = [mem EXCEPT ![pde][PTX(va)] = k[p].page]
            /\ NextPage(p)
            /\ UNCHANGED <<freelist, freehugelist, ptlock, proc, panicked>>
         \/ /\ pde = 0
            /\ \E pgtab \in Frames :
                 /\ kalloc(pgtab)
                 /\ mem' = [mem EXCEPT ![dir][PDX(va)] = pgtab,
                                       ![pgtab] = [ZeroPage EXCEPT ![PTX(va)] = k[p].page]]
            /\ NextPage(p)
            /\ UNCHANGED <<freehugelist, ptlock, proc, panicked>>
         \/ /\ pde = 0 /\ NoMemory
            /\ IF k[p].call = "fork" THEN Goto(p, "fail") ELSE Rollback(p)
            /\ UNCHANGED <<freehugelist, mem, ptlock, proc, panicked>>

\* One iteration of allochugeuvm.  The huge branch of mappages overwrites the
\* directory entry without looking at it and never fails.
allochugeuvm(p) ==
  /\ k[p].pc = "allochugeuvm"
  /\ \/ /\ k[p].a < k[p].lim
        /\ \E h \in HugeFrames :
             /\ khugealloc(h)
             /\ mem' = [mem EXCEPT ![h] = ZeroPage, ![Dir(p)][PDX(k[p].a)] = h]
        /\ k' = [k EXCEPT ![p].a = k[p].a + HUGE_PAGE_SIZE]
        /\ UNCHANGED proc
     \/ /\ k[p].a < k[p].lim /\ NoHugeMemory
        /\ Rollback(p)
        /\ UNCHANGED <<mem, proc>>
     \/ /\ k[p].a >= k[p].lim
        /\ proc' = [proc EXCEPT ![p].hugesz = uint(k[p].lim - HUGE_VA_OFFSET)]
        /\ Return(p)
        /\ UNCHANGED <<freehugelist, mem>>
  /\ UNCHANGED <<freelist, ptlock, panicked>>

\* One iteration of deallocuvm.  The first word of a huge page, which belongs to the
\* process, is taken for a page table entry: not present, the page is stepped over;
\* the address of some huge page, khugefree frees that page; any other word, it panics.
\* A directory entry that is not present is skipped; a mapped base page is freed.
deallocuvm(p) ==
  LET dir == Dir(p)
      va  == k[p].a
      pde == mem[dir][PDX(va)]
      pte == Pte(dir, va)
  IN  /\ k[p].pc = "deallocuvm"
      /\ \/ /\ va >= k[p].lim
            /\ k' = [k EXCEPT ![p].pc = k[p].then, ![p].a = 0]
            /\ UNCHANGED <<freelist, freehugelist, mem, ptlock, proc, panicked, misfreed>>
         \/ /\ va < k[p].lim
            /\ \/ /\ pde \in HugeFrames /\ pte \in Frames \cup {Odd}
                  /\ Panic("khugefree") /\ UNCHANGED misfreed
               \/ pde \in Frames /\ pte = Odd /\ Panic("kfree") /\ UNCHANGED misfreed
               \/ /\ pde \in HugeFrames /\ pte \in HugeFrames
                  /\ khugefree(pte, pde)
                  /\ mem' = [mem EXCEPT ![pte] = OddPage, ![pde][PTX(va)] = 0]
                  /\ k' = [k EXCEPT ![p].a = va + HUGE_PAGE_SIZE]
                  /\ misfreed' = HugeHeld(pte)
                  /\ UNCHANGED <<freelist, ptlock, proc, panicked>>
               \/ /\ \/ /\ pde \in HugeFrames /\ pte = 0
                        /\ k' = [k EXCEPT ![p].a = va + HUGE_PAGE_SIZE]
                        /\ UNCHANGED <<freelist, mem>>
                     \/ /\ pde = 0
                        /\ k' = [k EXCEPT ![p].a = PGADDR(PDX(va) + 1, 0)]
                        /\ UNCHANGED <<freelist, mem>>
                     \/ /\ pde \in Frames /\ pte = 0
                        /\ k' = [k EXCEPT ![p].a = va + PGSIZE]
                        /\ UNCHANGED <<freelist, mem>>
                     \/ /\ pde \in Frames /\ pte \in Frames
                        /\ kfree(pte)
                        /\ mem' = [mem EXCEPT ![pte] = OddPage, ![pde][PTX(va)] = 0]
                        /\ k' = [k EXCEPT ![p].a = va + PGSIZE]
                  /\ UNCHANGED <<freehugelist, ptlock, proc, panicked, misfreed>>

\* growproc and growhugeproc after deallocuvm: the result 0 counts as failure.
commit(p) ==
  /\ k[p].pc = "commit"
  /\ k[p].call \in {"sbrk", "shugebrk"}
  /\ proc' = CASE k[p].res = 0        -> proc
               [] k[p].call = "sbrk"  -> [proc EXCEPT ![p].sz = k[p].res]
               [] OTHER               -> [proc EXCEPT ![p].hugesz = uint(k[p].res - HUGE_VA_OFFSET)]
  /\ Return(p)
  /\ UNCHANGED <<freelist, freehugelist, mem, ptlock, panicked>>

\* The error exit of allocuvm, allochugeuvm and copyuvm: free the page that could
\* not be mapped; then sbrk and shugebrk return -1, fork and exec call freevm.
fail(p) ==
  /\ k[p].pc = "fail"
  /\ \/ /\ k[p].page # NULL
        /\ kfree(k[p].page)
        /\ mem' = [mem EXCEPT ![k[p].page] = OddPage]
        /\ k' = [k EXCEPT ![p].page = NULL]
     \/ /\ k[p].page = NULL
        /\ IF k[p].call \in {"sbrk", "shugebrk"} THEN Return(p) ELSE EnterFreevm(p)
        /\ UNCHANGED <<freelist, mem>>
  /\ UNCHANGED <<freehugelist, ptlock, proc, panicked>>

\* freevm after deallocuvm: free each page table (the entry keeps pointing to it),
\* do nothing for a huge page, then free the directory and return to the caller: fork
\* undoes allocproc, exec returns, wait gives the slot back and unlocks the table.
freept(p) ==
  LET dir == Dir(p)
      i   == k[p].a
      c   == k[p].np
  IN  /\ k[p].pc = "freept"
      /\ \/ /\ i < NENTRIES /\ mem[dir][i] \in Frames
            /\ kfree(mem[dir][i])
            /\ mem' = [mem EXCEPT ![mem[dir][i]] = OddPage]
            /\ k' = [k EXCEPT ![p].a = i + 1]
            /\ UNCHANGED <<ptlock, proc>>
         \/ /\ i < NENTRIES /\ mem[dir][i] \notin Frames
            /\ k' = [k EXCEPT ![p].a = i + 1]
            /\ UNCHANGED <<freelist, mem, ptlock, proc>>
         \/ /\ i = NENTRIES
            /\ kfree(dir)
            /\ mem' = [mem EXCEPT ![dir] = OddPage]
            /\ \/ /\ k[p].call = "fork"
                  /\ k' = [k EXCEPT ![p].pc = "undo", ![p].d = NULL]
                  /\ UNCHANGED <<ptlock, proc>>
               \/ /\ k[p].call = "exec"
                  /\ Return(p)
                  /\ UNCHANGED <<ptlock, proc>>
               \/ /\ k[p].call = "wait"
                  /\ proc' = [proc EXCEPT ![c].state = "UNUSED", ![c].parent = NULL]
                  /\ ptlock' = NULL
                  /\ Return(p)
      /\ UNCHANGED <<freehugelist, panicked>>

-----------------------------------------------------------------------------
\* fork: allocproc takes the first free slot of the table.
Fork(p) ==
  /\ InUser(p) /\ ptlock = NULL
  /\ \E q \in Procs :
       /\ proc[q].state = "UNUSED"
       /\ \A r \in Procs : r < q => proc[r].state # "UNUSED"
       /\ proc' = [proc EXCEPT ![q].state = "EMBRYO"]
       /\ k' = [k EXCEPT ![p] = [Idle EXCEPT !.call = "fork", !.pc = "allocproc", !.np = q]]
  /\ UNCHANGED <<freelist, freehugelist, mem, ptlock, panicked>>

\* The kernel stack of the child; without one the slot is given back.
allocproc(p) ==
  LET c == k[p].np
  IN  /\ k[p].pc = "allocproc"
      /\ \/ \E f \in Frames :
              /\ kalloc(f)
              /\ proc' = [proc EXCEPT ![c].kstack = f]
              /\ Goto(p, "setupkvm")
         \/ /\ NoMemory
            /\ proc' = [proc EXCEPT ![c].kstack = NULL, ![c].state = "UNUSED"]
            /\ Return(p)
      /\ UNCHANGED <<freehugelist, mem, ptlock, panicked>>

\* setupkvm: allocate and clear the directory.
setupkvm(p) ==
  /\ k[p].pc = "setupkvm"
  /\ \/ \E f \in Frames :
          /\ kalloc(f)
          /\ mem' = [mem EXCEPT ![f] = ZeroPage]
          /\ k' = [k EXCEPT ![p].pc = "kmap", ![p].d = f, ![p].a = KPDX]
     \/ /\ NoMemory
        /\ IF k[p].call = "fork" THEN Goto(p, "undo") ELSE Return(p)
        /\ UNCHANGED mem
  /\ UNCHANGED <<freehugelist, ptlock, proc, panicked>>

\* setupkvm: one page table of the kernel part.  The direct map of the huge pages
\* (the last entry of kmap) takes no frame and is left out.
kmap(p) ==
  LET i == k[p].a
  IN  /\ k[p].pc = "kmap"
      /\ \/ /\ i < NENTRIES
            /\ \/ \E f \in Frames :
                    /\ kalloc(f)
                    /\ mem' = [mem EXCEPT ![k[p].d][i] = f, ![f] = OddPage]
                    /\ k' = [k EXCEPT ![p].a = i + 1]
               \/ NoMemory /\ EnterFreevm(p) /\ UNCHANGED mem
         \/ /\ i = NENTRIES
            /\ k' = [k EXCEPT ![p].pc = IF k[p].call = "fork" THEN "copyuvm" ELSE "segment",
                              ![p].a = 0]
            /\ UNCHANGED <<freelist, mem>>
      /\ UNCHANGED <<freehugelist, ptlock, proc, panicked>>

\* copyuvm: copy the base page at a into a fresh page, which mappages then maps.
copyuvm(p) ==
  LET pte == Pte(proc[p].pgdir, k[p].a)
  IN  /\ k[p].pc = "copyuvm"
      /\ \/ /\ k[p].a < proc[p].sz /\ pte = 0
            /\ Panic("copyuvm: page not present")
         \/ /\ k[p].a < proc[p].sz /\ pte # 0
            /\ \/ \E f \in Frames :
                    /\ kalloc(f)
                    /\ mem' = [mem EXCEPT ![f] = memmove(pte)]
                    /\ k' = [k EXCEPT ![p].pc = "mappages", ![p].page = f]
               \/ NoMemory /\ EnterFreevm(p) /\ UNCHANGED mem
            /\ UNCHANGED <<freehugelist, ptlock, proc, panicked>>
         \/ /\ k[p].a >= proc[p].sz
            /\ k' = [k EXCEPT ![p].pc = "copyhuge", ![p].a = HUGE_VA_OFFSET]
            /\ UNCHANGED <<freelist, freehugelist, mem, ptlock, proc, panicked>>

\* copyuvm: copy and map the huge page at a; after the last one fork fills in the
\* child and makes it runnable.
copyhuge(p) ==
  LET va  == k[p].a
      c   == k[p].np
      end == uint(HUGE_VA_OFFSET + proc[p].hugesz)
  IN  /\ k[p].pc = "copyhuge"
      /\ \/ /\ va < end
            /\ \E h \in HugeFrames :
                 /\ khugealloc(h)
                 /\ mem' = [mem EXCEPT ![h] = memmove(mem[proc[p].pgdir][PDX(va)]),
                                       ![k[p].d][PDX(va)] = h]
            /\ k' = [k EXCEPT ![p].a = va + HUGE_PAGE_SIZE]
            /\ UNCHANGED proc
         \/ /\ va < end /\ NoHugeMemory
            /\ EnterFreevm(p)
            /\ UNCHANGED <<mem, proc>>
         \/ /\ va >= end /\ ptlock = NULL
            /\ proc' = [proc EXCEPT ![c].state = "RUNNING", ![c].parent = p,
                                    ![c].pgdir = k[p].d, ![c].sz = proc[p].sz,
                                    ![c].hugesz = proc[p].hugesz]
            /\ k' = [k EXCEPT ![p] = Idle, ![c] = Idle]
            /\ UNCHANGED <<freehugelist, mem>>
      /\ UNCHANGED <<freelist, ptlock, panicked>>

\* fork without an address space: free the kernel stack and the slot.
undo(p) ==
  LET c == k[p].np
  IN  /\ k[p].pc = "undo"
      /\ kfree(proc[c].kstack)
      /\ mem' = [mem EXCEPT ![proc[c].kstack] = OddPage]
      /\ proc' = [proc EXCEPT ![c].kstack = NULL, ![c].pgdir = NULL, ![c].state = "UNUSED"]
      /\ Return(p)
      /\ UNCHANGED <<freehugelist, ptlock, panicked>>

-----------------------------------------------------------------------------
\* exec once the ELF header has been accepted.
Exec(p) ==
  /\ InUser(p)
  /\ k' = [k EXCEPT ![p] = [Idle EXCEPT !.call = "exec", !.pc = "setupkvm"]]
  /\ UNCHANGED <<freelist, freehugelist, mem, ptlock, proc, panicked>>

\* exec between two program headers: the next segment, an error (a bad header, a
\* short read, a segment that reaches KERNBASE), or the two pages of the stack.
segment(p) ==
  LET s == PGROUNDUP(k[p].res)
  IN  /\ k[p].pc = "segment"
      /\ \/ \E end \in SegmentEnds :
              /\ end < KERNBASE /\ end >= k[p].res
              /\ k' = [k EXCEPT ![p].pc = "allocuvm", ![p].then = "segment",
                                ![p].a = s, ![p].lim = end]
         \/ EnterFreevm(p)
         \/ /\ s + 2 * PGSIZE < KERNBASE
            /\ k' = [k EXCEPT ![p].pc = "allocuvm", ![p].then = "args", ![p].res = s,
                              ![p].a = s, ![p].lim = s + 2 * PGSIZE]
      /\ UNCHANGED <<freelist, freehugelist, mem, ptlock, proc, panicked>>

\* exec after the stack: the arguments do not fit, or the new image is installed
\* and the old one handed to freevm.
args(p) ==
  /\ k[p].pc = "args"
  /\ \/ EnterFreevm(p) /\ UNCHANGED proc
     \/ /\ proc' = [proc EXCEPT ![p].pgdir = k[p].d, ![p].sz = k[p].res, ![p].hugesz = 0]
        /\ k' = [k EXCEPT ![p].pc = "deallocuvm", ![p].then = "freept", ![p].a = 0,
                          ![p].lim = KERNBASE, ![p].d = proc[p].pgdir]
  /\ UNCHANGED <<freelist, freehugelist, mem, ptlock, panicked>>

\* The children go to initproc and the process leaves the processor for good.
BecomeZombie(p) ==
  /\ proc' = [q \in Procs |->
                IF q = p THEN [proc[p] EXCEPT !.state = "ZOMBIE"]
                ELSE IF proc[q].parent = p THEN [proc[q] EXCEPT !.parent = initproc]
                ELSE proc[q]]
  /\ k' = [k EXCEPT ![p].pc = "none"]
  /\ UNCHANGED <<freelist, freehugelist, mem, ptlock, panicked>>

\* exit, called by the process or by trap for a process without its text page.  initproc
\* is assumed not to call it: init.c does when its fork fails, and the kernel panics.
Exit(p) ==
  /\ proc[p].state = "RUNNING" /\ k[p].pc = "user"
  /\ \/ p = initproc /\ ~InUser(p) /\ Panic("init exiting")
     \/ p # initproc /\ ptlock = NULL /\ BecomeZombie(p)

\* wait that finds a zombie child (the first in the table): ptable.lock stays held
\* while the child's kernel stack and address space are freed.
Wait(p) ==
  /\ InUser(p) /\ ptlock = NULL
  /\ \E c \in Procs :
       /\ proc[c].parent = p /\ proc[c].state = "ZOMBIE"
       /\ \A q \in Procs : q < c => ~(proc[q].parent = p /\ proc[q].state = "ZOMBIE")
       /\ kfree(proc[c].kstack)
       /\ mem' = [mem EXCEPT ![proc[c].kstack] = OddPage]
       /\ proc' = [proc EXCEPT ![c].kstack = NULL]
       /\ k' = [k EXCEPT ![p] = [Idle EXCEPT !.call = "wait", !.pc = "deallocuvm", !.np = c,
                                             !.then = "freept", !.lim = KERNBASE]]
  /\ ptlock' = p
  /\ UNCHANGED <<freehugelist, panicked>>

\* The process stores w in the first word of one of its huge pages, or some word in one of
\* its base pages, where the kernel never reads it: Odd stands for all of those.
Store(p, w) ==
  LET dir == proc[p].pgdir
  IN  /\ InUser(p)
      /\ \E i \in 0 .. (KPDX - 1) :
           \/ mem[dir][i] \in HugeFrames /\ mem' = [mem EXCEPT ![mem[dir][i]][0] = w]
           \/ /\ mem[dir][i] \in Frames
              /\ \E j \in Index : /\ mem[mem[dir][i]][j] # 0
                                  /\ mem' = [mem EXCEPT ![mem[mem[dir][i]][j]][0] = Odd]
      /\ UNCHANGED <<freelist, freehugelist, ptlock, proc, k, panicked>>

-----------------------------------------------------------------------------
\* The model follows the code up to a panic, or to a khugefree of a huge page that is in
\* use: from there on the links of freehugelist are where a process can overwrite them.
Going == panicked = "no" /\ ~misfreed

\* A step of process p inside a system call.
Kernel(p) ==
  /\ Going
  /\ \/ deallocuvm(p)
     \/ /\ \/ allocuvm(p) \/ mappages(p) \/ allochugeuvm(p)
           \/ commit(p) \/ fail(p) \/ freept(p)
           \/ allocproc(p) \/ setupkvm(p) \/ kmap(p) \/ copyuvm(p) \/ copyhuge(p) \/ undo(p)
           \/ segment(p) \/ args(p)
        /\ UNCHANGED misfreed

\* A step of process p in user mode: a store or the start of a system call.
User(p) ==
  /\ Going
  /\ \/ \E n \in SbrkRequests : Sbrk(p, n)
     \/ \E n \in HugeRequests : Shugebrk(p, n)
     \/ Fork(p) \/ Exec(p) \/ Exit(p) \/ Wait(p)
     \/ \E w \in StoreWords : Store(p, w)
  /\ UNCHANGED misfreed

Next == \E p \in Procs : Kernel(p) \/ User(p)

Spec == Init /\ [][Next]_vars

-----------------------------------------------------------------------------
\* Every variable has its type.
TypeOK ==
  /\ freelist \in Seq(Frames)
  /\ freehugelist \in Seq(HugeFrames)
  /\ mem \in [Frames \cup HugeFrames -> [Index -> Word]]
  /\ ptlock \in 0 .. NPROC
  /\ proc \in [Procs -> ProcRecord]
  /\ k \in [Procs -> Frame]
  /\ panicked \in {"no", "remap", "kfree", "khugefree", "copyuvm: page not present",
                   "init exiting"}
  /\ misfreed \in BOOLEAN

\* freevm has already freed the page table this entry still points to.
Stale(dir, i) == \E p \in Procs : k[p].pc = "freept" /\ Dir(p) = dir /\ i < k[p].a

LiveEntries == {e \in Directories \X Index : mem[e[1]][e[2]] \in Frames /\ ~Stale(e[1], e[2])}

\* Who holds which base page: the free list, a process (kernel stack, directory,
\* directory under construction, page in hand), a directory entry, or an entry of a
\* page table of the user part.
Holdings(live) ==
  {<<"free", i, 0, 0, freelist[i]>> : i \in 1 .. Len(freelist)}
  \cup {<<"kstack", p, 0, 0, proc[p].kstack>> : p \in {q \in Procs : proc[q].kstack # NULL}}
  \cup {<<"pgdir", p, 0, 0, proc[p].pgdir>> : p \in {q \in Procs : HasPgdir(q)}}
  \cup {<<"d", p, 0, 0, k[p].d>> : p \in {q \in Procs : k[q].d # NULL}}
  \cup {<<"page", p, 0, 0, k[p].page>> : p \in {q \in Procs : k[q].page # NULL}}
  \cup {<<"pde", e[1], e[2], 0, mem[e[1]][e[2]]>> : e \in live}
  \cup {<<"pte", e[1], e[2], j, mem[mem[e[1]][e[2]]][j]>> :
          <<e, j>> \in {x \in {e \in live : e[2] < KPDX} \X Index :
                          mem[mem[x[1][1]][x[1][2]]][x[2]] # 0}}

\* Every base page is held by exactly one holder at every step of every call, the
\* out-of-memory exits of fork, exec and sbrk included: nothing allocated by kalloc is
\* leaked, freed twice, or reachable from two address spaces.  A huge page is mapped at
\* most once, and not while it is on freehugelist, until khugefree is called for a page in use
\* (vm.c:349 calls it with an address it reads from the process's own memory).
Ownership ==
  /\ TypeOK
  /\ LET H == Holdings(LiveEntries)
     IN  {h[5] : h \in H} = Frames /\ Cardinality(H) = NFRAMES
  /\ ~misfreed =>
     LET M == HugeMaps
     IN  /\ \A e1, e2 \in M : mem[e1[1]][e1[2]] = mem[e2[1]][e2[2]] => e1 = e2
         /\ \A e \in M, i \in 1 .. Len(freehugelist) : freehugelist[i] # mem[e[1]][e[2]]

\* In user mode exactly the base pages below sz are mapped, after failed calls too.
SizeMapped ==
  \A p \in Procs : InUser(p) =>
    \A n \in 0 .. (HPDX * NENTRIES - 1) :
      Pte(proc[p].pgdir, n * PGSIZE) # 0 <=> n * PGSIZE < proc[p].sz

\* In user mode every huge page below hugesz is mapped by a huge entry, after a shugebrk that
\* failed half way too, if shugebrk is only called with n > 0: growhugeproc subtracts
\* HUGE_VA_OFFSET from a size that has not got it when n is 0 or negative (proc.c:190-193).
HugeSizeMapped ==
  (\A n \in HugeRequests : n > 0) => \A p \in Procs : InUser(p) =>
    \A i \in HPDX .. (KPDX - 1) :
      i * HUGE_PAGE_SIZE < HUGE_VA_OFFSET + proc[p].hugesz
        => mem[proc[p].pgdir][i] \in HugeFrames

\* Whatever the processes store in their pages, as long as khugefree is not called for a huge
\* page in use: mappages never finds its entry in use, kfree is never handed something else
\* than a page, copyuvm misses no page below sz, also after a shugebrk rolled back over a huge
\* page it had mapped.  The one panic left is khugefree's, for the first word of a huge page.
PanicsOnlyInKhugefree == panicked \in {"no", "khugefree"}

\* A huge page goes out of use in two ways only, until khugefree is called for a page in use:
\* where freevm gives up the directory that maps it (freevm passes over huge pages, although it
\* is to free "all the physical memory pages in the user part", vm.c:404-430), and where shugebrk
\* maps a page over one that lies above hugesz.  An earlier shugebrk has left it there when it
\* failed: its rollback steps over huge pages, and the huge branch of mappages does not look for
\* an existing mapping.  No page below hugesz is ever mapped over, and no fork or failure by
\* itself loses one.
HugeKept ==
  [][\A h \in HugeFrames : HugeHeld(h) /\ ~HugeHeld(h)' =>
        \/ misfreed'
        \/ \E p \in Procs : k[p].pc = "freept" /\ k'[p].pc # "freept"
        \/ \E p \in Procs :
             /\ k[p].pc = "allochugeuvm" /\ mem[proc[p].pgdir][PDX(k[p].a)] = h
             /\ PDX(k[p].a) * HUGE_PAGE_SIZE >= HUGE_VA_OFFSET + proc[p].hugesz]_vars

\* The memory process p sees: the contents of its pages, by virtual page number for
\* the base heap and by directory index for the huge heap.
View(p) ==
  LET dir == proc[p].pgdir
  IN  [base |-> [n \in 0 .. (HPDX * NENTRIES - 1) |->
                   LET w == Pte(dir, n * PGSIZE) IN IF w \in Frames THEN mem[w] ELSE OddPage],
       huge |-> [i \in HPDX .. (KPDX - 1) |->
                   IF i * HUGE_PAGE_SIZE < HUGE_VA_OFFSET + proc[p].hugesz
                     THEN mem[mem[dir][i]] ELSE OddPage]]

\* When fork makes the child runnable it sees what its parent sees, and what a process in user
\* mode sees changes only by its own steps, whatever the others allocate, free, fork or exec,
\* until khugefree is called for a huge page in use, which it fills with junk.
Private ==
  [][/\ \A c \in Procs : proc[c].state = "EMBRYO" /\ proc'[c].state = "RUNNING"
          => View(c)' = View(proc'[c].parent)
     /\ \A p \in Procs : InUser(p) /\ View(p)' # View(p) => User(p) \/ misfreed']_vars

=============================================================================
