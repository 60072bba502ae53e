------------------------------- MODULE Kalloc -------------------------------
(***************************************************************************)
(* The physical page allocator: the free list that runs through the pages, *)
(* kmem.lock, and the start of the machine, during which the lock is not   *)
(* used.  The allocator of huge pages is the same code with khugemem for   *)
(* kmem; it is used only after the other processors have started.          *)
(*                                                                         *)
(* Each action is one access to shared memory: a processor can be between  *)
(* any two of them while the others run.                                   *)
(***************************************************************************)
EXTENDS Integers

CONSTANTS
  NCPU,     \* processors; 1 is the boot processor
  NLOW,     \* pages kinit1 puts on the list
  NFRAMES   \* all pages; kinit2 adds the others

CPUs   == 1 .. NCPU
Frames == 1 .. NFRAMES
NULL   == 0
Junk   == -1          \* memset(v, 1, PGSIZE)
Nobody == 0
bsp    == 1           \* the processor that runs main()

\* kinit1 frees enough pages for kvmalloc and the stacks of startothers: main uses
\* what kalloc returns without looking.
ASSUME KallocAssumption ==
  /\ NCPU \in Nat \ {0} /\ NLOW \in Nat /\ NFRAMES \in Nat
  /\ NLOW > NCPU /\ NLOW <= NFRAMES

VARIABLES
  next,       \* the first word of each page: struct run
  freelist,   \* kmem.freelist
  use_lock,   \* kmem.use_lock
  locked, cpu,\* kmem.lock
  phase,      \* how far main() is
  p,          \* the next page of freerange
  started,    \* processors that run
  pc, r, v,   \* per processor: the next access, the local r, the argument v
  inuse,      \* pages allocated and not being freed
  panicked

vars == <<next, freelist, use_lock, locked, cpu, phase, p, started, pc, r, v, inuse, panicked>>
lockvars == <<use_lock, locked, cpu>>
mainvars == <<phase, p, started>>

Init ==
  /\ next = [f \in Frames |-> Junk] /\ freelist = NULL
  /\ use_lock = FALSE /\ locked = FALSE /\ cpu = Nobody
  /\ phase = "kinit1" /\ p = 1 /\ started = {bsp}
  /\ pc = [c \in CPUs |-> "idle"]
  /\ r = [c \in CPUs |-> NULL] /\ v = [c \in CPUs |-> NULL]
  /\ inuse = {} /\ panicked = "no"

Goto(c, label) == pc' = [pc EXCEPT ![c] = label]

-----------------------------------------------------------------------------
\* holding(&kmem.lock)
holding(c) == locked /\ cpu = c

\* The first test of use_lock.
Enter(c, first) == Goto(c, IF use_lock THEN "acquire" ELSE first)

\* kfree(f): the page is filled with junk before the lock is taken.
kfree(c, f) ==
  /\ pc[c] = "idle"
  /\ next' = [next EXCEPT ![f] = Junk]
  /\ v' = [v EXCEPT ![c] = f]
  /\ Enter(c, "link")
  /\ UNCHANGED <<freelist, r>>

\* kalloc()
kalloc(c) ==
  /\ pc[c] = "idle"
  /\ v' = [v EXCEPT ![c] = NULL]
  /\ Enter(c, "read")
  /\ UNCHANGED <<next, freelist, r>>

\* acquire: panic when this processor holds the lock, else spin until xchg finds it
\* free.
acquire(c) ==
  /\ pc[c] = "acquire"
  /\ \/ holding(c) /\ panicked' = "acquire" /\ UNCHANGED <<locked, pc>>
     \/ ~holding(c) /\ ~locked /\ locked' = TRUE /\ Goto(c, "owner") /\ UNCHANGED panicked

\* lk->cpu = mycpu()
owner(c) ==
  /\ pc[c] = "owner"
  /\ cpu' = c
  /\ Goto(c, IF v[c] = NULL THEN "read" ELSE "link")

\* r->next = kmem.freelist, and its fault: the link is not stored
LinkDropped(c) ==
  /\ pc[c] = "link"
  /\ Goto(c, "push") /\ UNCHANGED next

link(c) ==
  /\ pc[c] = "link"
  /\ next' = [next EXCEPT ![v[c]] = freelist]
  /\ Goto(c, "push")

\* kmem.freelist = r, and the second test of use_lock
push(c) ==
  /\ pc[c] = "push"
  /\ freelist' = v[c]
  /\ Goto(c, IF use_lock THEN "release" ELSE "return")

\* r = kmem.freelist; if (r) ...
read(c) ==
  /\ pc[c] = "read"
  /\ r' = [r EXCEPT ![c] = freelist]
  /\ Goto(c, IF freelist # NULL THEN "pop" ELSE IF use_lock THEN "release" ELSE "return")

\* kmem.freelist = r->next, and its fault: the list keeps its head
PopKeepsHead(c) ==
  /\ pc[c] = "pop"
  /\ Goto(c, IF use_lock THEN "release" ELSE "return") /\ UNCHANGED freelist

pop(c) ==
  /\ pc[c] = "pop"
  /\ freelist' = next[r[c]]
  /\ Goto(c, IF use_lock THEN "release" ELSE "return")

\* release: panic unless holding, then lk->cpu = 0 ...
release(c) ==
  /\ pc[c] = "release"
  /\ \/ ~holding(c) /\ panicked' = "release" /\ UNCHANGED <<cpu, pc>>
     \/ holding(c) /\ cpu' = Nobody /\ Goto(c, "unlock") /\ UNCHANGED panicked

\* ... and lk->locked = 0.
unlock(c) ==
  /\ pc[c] = "unlock"
  /\ locked' = FALSE
  /\ Goto(c, "return")

\* The caller has the page, if there was one.
return(c) ==
  /\ pc[c] = "return"
  /\ inuse' = IF v[c] = NULL /\ r[c] # NULL THEN inuse \cup {r[c]} ELSE inuse
  /\ r' = [r EXCEPT ![c] = NULL]
  /\ v' = [v EXCEPT ![c] = NULL]
  /\ Goto(c, "idle")

\* One access of processor c inside kalloc or kfree.
Access(c) ==
  \/ acquire(c) /\ UNCHANGED <<next, freelist, use_lock, cpu, mainvars, r, v, inuse>>
  \/ owner(c)   /\ UNCHANGED <<next, freelist, use_lock, locked, mainvars, r, v, inuse, panicked>>
  \/ link(c)    /\ UNCHANGED <<freelist, lockvars, mainvars, r, v, inuse, panicked>>
  \/ push(c)    /\ UNCHANGED <<next, lockvars, mainvars, r, v, inuse, panicked>>
  \/ read(c)    /\ UNCHANGED <<next, freelist, lockvars, mainvars, v, inuse, panicked>>
  \/ pop(c)     /\ UNCHANGED <<next, lockvars, mainvars, r, v, inuse, panicked>>
  \/ release(c) /\ UNCHANGED <<next, freelist, use_lock, locked, mainvars, r, v, inuse>>
  \/ unlock(c)  /\ UNCHANGED <<next, freelist, use_lock, cpu, mainvars, r, v, inuse, panicked>>
  \/ return(c)  /\ UNCHANGED <<next, freelist, lockvars, mainvars, panicked>>

-----------------------------------------------------------------------------
\* kinit1 and kinit2: freerange up to page last, then go on with main().  kinit2
\* turns the lock on when it is done.
freerange(from, last, then, lock) ==
  /\ phase = from /\ pc[bsp] = "idle"
  /\ \/ /\ p <= last
        /\ kfree(bsp, p)
        /\ p' = p + 1
        /\ UNCHANGED <<phase, use_lock>>
     \/ /\ p > last
        /\ phase' = then
        /\ use_lock' = lock
        /\ UNCHANGED <<p, next, freelist, pc, r, v>>
  /\ UNCHANGED <<locked, cpu, started, inuse, panicked>>

\* The fault of kinit2: the lock stays off.
Kinit2NoLock == freerange("kinit2", NFRAMES, "userinit", FALSE)

kinit1 == freerange("kinit1", NLOW, "kvmalloc", FALSE)
kinit2 == freerange("kinit2", NFRAMES, "userinit", TRUE)

\* kvmalloc, and later userinit, allocate.
BootAlloc(from, then) ==
  /\ phase = from
  /\ kalloc(bsp)
  /\ phase' = then
  /\ UNCHANGED <<lockvars, p, started, inuse, panicked>>

\* startothers: a stack for each processor, which is up before the next one starts
\* and then waits in the scheduler for a process to run.
startothers ==
  /\ phase = "startothers"
  /\ \/ \E c \in CPUs \ started :
          /\ \A d \in CPUs : d < c => d \in started
          /\ kalloc(bsp)
          /\ started' = started \cup {c}
          /\ UNCHANGED phase
     \/ /\ started = CPUs /\ pc[bsp] = "idle"
        /\ phase' = "kinit2"
        /\ UNCHANGED <<started, next, freelist, pc, r, v>>
  /\ UNCHANGED <<lockvars, p, inuse, panicked>>

\* userinit makes the first process runnable when it is done ...
runnable ==
  /\ phase = "runnable" /\ pc[bsp] = "idle"
  /\ phase' = "run"
  /\ UNCHANGED <<next, freelist, lockvars, p, started, pc, r, v, inuse, panicked>>

\* ... and from then on every processor runs system calls that allocate and free.
Call(c) ==
  /\ phase = "run"
  /\ \/ kalloc(c) /\ UNCHANGED inuse
     \/ \E f \in inuse : kfree(c, f) /\ inuse' = inuse \ {f}
  /\ UNCHANGED <<lockvars, mainvars, panicked>>

main ==
  \/ kinit1 \/ BootAlloc("kvmalloc", "startothers") \/ startothers \/ kinit2
  \/ BootAlloc("userinit", "runnable") \/ runnable

Next == panicked = "no" /\ (main \/ \E c \in CPUs : Access(c) \/ Call(c))

Spec == Init /\ [][Next]_vars

-----------------------------------------------------------------------------
\* Every variable has its type.
TypeOK ==
  /\ next \in [Frames -> Frames \cup {NULL, Junk}]
  /\ freelist \in Frames \cup {NULL}
  /\ use_lock \in BOOLEAN /\ locked \in BOOLEAN /\ cpu \in CPUs \cup {Nobody}
  /\ phase \in {"kinit1", "kvmalloc", "startothers", "kinit2", "userinit", "runnable", "run"}
  /\ p \in 1 .. (NFRAMES + 1) /\ started \subseteq CPUs
  /\ pc \in [CPUs -> {"idle", "acquire", "owner", "link", "push", "read", "pop",
                      "release", "unlock", "return"}]
  /\ r \in [CPUs -> Frames \cup {NULL}] /\ v \in [CPUs -> Frames \cup {NULL}]
  /\ inuse \subseteq Frames
  /\ panicked \in {"no", "acquire", "release"}

\* Processor c is between the two tests of use_lock.
Critical(c) == pc[c] \in {"link", "push", "read", "pop"}

\* Two processors are never inside the list at once, although the lock is turned on
\* while the machine is already running on all of them.
MutualExclusion == \A c, d \in CPUs : Critical(c) /\ Critical(d) => c = d

\* acquire and release never find the lock in the wrong hands; in particular no call
\* entered without the lock is left with it.
NoPanic == panicked = "no"

\* kmem.lock does its work from the moment kinit2 turns it on, in a call that was under way
\* just as in a new one: nobody enters the list beside another processor, nobody releases
\* what it did not acquire, and no call reads junk.
LockUsed == TypeOK /\ MutualExclusion /\ NoPanic

\* The page processor c is about to put on the list, and the one it took off.
Freeing(c) == v[c] # NULL /\ pc[c] \in {"acquire", "owner", "link", "push"}
Taken(c)   == v[c] = NULL /\ r[c] # NULL /\ pc[c] \in {"release", "unlock", "return"}
InHand(c)  == IF Freeing(c) THEN {v[c]} ELSE IF Taken(c) THEN {r[c]} ELSE {}

\* The pages main has not freed yet, and the pages that are not free.
Unfreed == {f \in Frames : f >= p}
Held    == Unfreed \cup inuse \cup UNION {InHand(c) : c \in CPUs}

\* A page that is not free has one holder: main, a caller, or one processor's hand.
HeldOnce ==
  /\ Unfreed \cap inuse = {}
  /\ \A c \in CPUs : InHand(c) \cap (Unfreed \cup inuse) = {}
  /\ \A c, d \in CPUs : c # d => InHand(c) \cap InHand(d) = {}

\* The list that starts at kmem.freelist consists of the n pages of s, in order, which
\* are different and are all the pages that nobody holds.
Lists(n, s) ==
  /\ freelist = IF n = 0 THEN NULL ELSE s[1]
  /\ \A i \in 1 .. n : next[s[i]] = IF i = n THEN NULL ELSE s[i + 1]
  /\ \A i, j \in 1 .. n : s[i] = s[j] => i = j
  /\ {s[i] : i \in 1 .. n} = Frames \ Held

ListComplete == \E n \in 0 .. NFRAMES : \E s \in [1 .. n -> Frames] : Lists(n, s)

\* No page is lost, in two places or handed out twice: at every memory access of kalloc
\* and kfree, each is not yet freed by main, in use, in the hand of one processor, or
\* else on the free list, once.
PagesAccounted == HeldOnce /\ ListComplete

\* What the call of kalloc on processor c is about to return, once that is settled.
Result(c) == IF v[c] = NULL /\ pc[c] \in {"release", "unlock", "return"} THEN r[c] ELSE Junk

\* kalloc and kfree are atomic to their callers: popping the list is the instant of
\* kalloc (reading it, when it is empty), pushing that of kfree.
Allocator == INSTANCE PageAllocator WITH
  Pages <- Frames, Clients <- CPUs, NULL <- NULL, None <- Junk,
  free <- Frames \ Held, held <- Held, ret <- [c \in CPUs |-> Result(c)]

ImplementsAllocator == Allocator!ASpec
=============================================================================
