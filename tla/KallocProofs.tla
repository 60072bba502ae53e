--------------------------- MODULE KallocProofs -----------------------------
(*****************************************************************************)
(* Proofs about Kalloc for any number of processors and pages: the inductive *)
(* invariant, what the steps do to the lock, the locals of kalloc and kfree, *)
(* the free list and the other pages, and the refinement of PageAllocator.   *)
(*****************************************************************************)
EXTENDS Kalloc, FiniteSetTheorems, TLAPS

\* Processor c is between xchg and the store that frees the lock, or would be if the
\* lock were on.
Inside(c) == pc[c] \in {"owner", "link", "push", "read", "pop", "release", "unlock"}

\* Processor c is where lk->cpu names it.
Owns(c) == pc[c] \in {"link", "push", "read", "pop", "release"}

\* The lock: off until kinit2 is done, and until then only the boot processor
\* allocates; from then on one processor at a time is inside, and lk->cpu says which.
LockInv ==
  /\ use_lock <=> phase \in {"userinit", "runnable", "run"}
  /\ phase # "run" => \A c \in CPUs : c # bsp => pc[c] = "idle"
  /\ ~use_lock => /\ ~locked /\ cpu = Nobody
                  /\ pc[bsp] \in {"idle", "link", "push", "read", "pop", "return"}
  /\ use_lock => /\ \A c, d \in CPUs : Inside(c) /\ Inside(d) => c = d
                 /\ \A c \in CPUs : Inside(c) => locked
                 /\ \A c \in CPUs : cpu = c <=> Owns(c)
  /\ panicked = "no"

\* The locals of kalloc and kfree, by where the processor is.
LocalInv ==
  \A c \in CPUs :
    /\ pc[c] = "idle" => v[c] = NULL
    /\ pc[c] \in {"link", "push"} => v[c] # NULL
    /\ pc[c] \in {"read", "pop"} => v[c] = NULL
    /\ pc[c] = "push" => next[v[c]] = freelist
    /\ pc[c] = "pop" => r[c] = freelist /\ freelist # NULL
    /\ pc[c] \in {"idle", "acquire", "owner", "link", "push", "read"} => r[c] = NULL
    /\ v[c] # NULL => r[c] = NULL

IInv == TypeOK /\ LockInv /\ LocalInv /\ PagesAccounted

-----------------------------------------------------------------------------
\* The boot processor is one of the processors.
LEMMA BspIsCpu == bsp \in CPUs /\ \A c \in CPUs : c # Nobody
  BY KallocAssumption DEF CPUs, bsp, Nobody

-----------------------------------------------------------------------------
\* The steps of one processor inside kalloc and kfree, and the steps of main.
LEMMA StepCases ==
  ASSUME Next
  PROVE  \/ kinit1 \/ kinit2 \/ startothers \/ runnable
         \/ BootAlloc("kvmalloc", "startothers") \/ BootAlloc("userinit", "runnable")
         \/ \E c \in CPUs : Access(c) \/ Call(c)
  BY DEF Next, main

\* Every step keeps the lock discipline, the switch from no lock to lock included.
LEMMA LockStep == ASSUME TypeOK, LockInv, [Next]_vars PROVE LockInv'
<1> USE BspIsCpu DEF LockInv, TypeOK, Inside, Owns, lockvars, mainvars, Goto
<1>1. CASE kinit1
  BY <1>1 DEF kinit1, freerange, kfree, Enter
<1>2. CASE kinit2
  BY <1>2 DEF kinit2, freerange, kfree, Enter
<1>3. CASE startothers
  BY <1>3 DEF startothers, kalloc, Enter
<1>4. CASE runnable
  BY <1>4 DEF runnable
<1>5. CASE BootAlloc("kvmalloc", "startothers")
  BY <1>5 DEF BootAlloc, kalloc, Enter
<1>6. CASE BootAlloc("userinit", "runnable")
  BY <1>6 DEF BootAlloc, kalloc, Enter
<1>7. ASSUME NEW c \in CPUs, Access(c) PROVE LockInv'
  <2>1. CASE acquire(c) /\ UNCHANGED <<next, freelist, use_lock, cpu, mainvars, r, v, inuse>>
    BY <2>1 DEF acquire, holding
  <2>2. CASE owner(c) /\ UNCHANGED <<next, freelist, use_lock, locked, mainvars, r, v, inuse, panicked>>
    BY <2>2 DEF owner
  <2>3. CASE link(c) /\ UNCHANGED <<freelist, lockvars, mainvars, r, v, inuse, panicked>>
    BY <2>3 DEF link
  <2>4. CASE push(c) /\ UNCHANGED <<next, lockvars, mainvars, r, v, inuse, panicked>>
    BY <2>4 DEF push
  <2>5. CASE read(c) /\ UNCHANGED <<next, freelist, lockvars, mainvars, v, inuse, panicked>>
    BY <2>5 DEF read
  <2>6. CASE pop(c) /\ UNCHANGED <<next, lockvars, mainvars, r, v, inuse, panicked>>
    BY <2>6 DEF pop
  <2>7. CASE release(c) /\ UNCHANGED <<next, freelist, use_lock, locked, mainvars, r, v, inuse>>
    BY <2>7 DEF release, holding
  <2>8. CASE unlock(c) /\ UNCHANGED <<next, freelist, use_lock, cpu, mainvars, r, v, inuse, panicked>>
    BY <2>8 DEF unlock
  <2>9. CASE return(c) /\ UNCHANGED <<next, freelist, lockvars, mainvars, panicked>>
    BY <2>9 DEF return
  <2> QED
    BY Zenon, <1>7, <2>1, <2>2, <2>3, <2>4, <2>5, <2>6, <2>7, <2>8, <2>9 DEF Access
<1>8. ASSUME NEW c \in CPUs, Call(c) PROVE LockInv'
  BY <1>8 DEF Call, kalloc, kfree, Enter
<1>9. CASE UNCHANGED vars
  BY <1>9 DEF vars
<1> QED
  BY <1>1, <1>2, <1>3, <1>4, <1>5, <1>6, <1>7, <1>8, <1>9, StepCases

\* At most one processor is between the two tests of use_lock.
LEMMA LockExcludes ==
  ASSUME LockInv PROVE MutualExclusion /\ NoPanic
  BY SMTT(30), BspIsCpu DEF LockInv, MutualExclusion, Critical, Inside, NoPanic

\* Every step keeps the locals right; no processor pushes on, or pops, a list that
\* changed after it read the head.
LEMMA LocalStep == ASSUME TypeOK, LockInv, LocalInv, HeldOnce, [Next]_vars PROVE LocalInv'
<1> USE BspIsCpu, KallocAssumption
    DEF LocalInv, TypeOK, lockvars, mainvars, Goto
<1>0. MutualExclusion
  BY LockExcludes
<1>a. \A f \in Frames : f # NULL
  BY DEF Frames, NULL
<1>1. ASSUME phase # "run", kfree(bsp, p), p \in Frames PROVE LocalInv'
  <2>1. \A c \in CPUs : pc[c] # "push"
    BY <1>1 DEF LockInv, kfree
  <2> QED
    BY <1>1, <1>a, <2>1 DEF kfree, Enter
<1>2. CASE kinit1 \/ kinit2
  <2>1. CASE kfree(bsp, p)
    BY <1>1, <1>2, <2>1 DEF kinit1, kinit2, freerange, Frames
  <2> QED
    BY <1>2, <2>1 DEF kinit1, kinit2, freerange
<1>3. CASE startothers
  BY <1>3 DEF startothers, kalloc, Enter
<1>4. CASE runnable
  BY <1>4 DEF runnable
<1>5. CASE BootAlloc("kvmalloc", "startothers")
  BY <1>5 DEF BootAlloc, kalloc, Enter
<1>6. CASE BootAlloc("userinit", "runnable")
  BY <1>6 DEF BootAlloc, kalloc, Enter
<1>7. ASSUME NEW c \in CPUs, Access(c) PROVE LocalInv'
  <2>1. CASE acquire(c) /\ UNCHANGED <<next, freelist, use_lock, cpu, mainvars, r, v, inuse>>
    BY <2>1 DEF acquire, holding
  <2>2. CASE owner(c) /\ UNCHANGED <<next, freelist, use_lock, locked, mainvars, r, v, inuse, panicked>>
    BY <2>2 DEF owner
  <2>3. CASE link(c) /\ UNCHANGED <<freelist, lockvars, mainvars, r, v, inuse, panicked>>
    BY <2>3, <1>0 DEF link, MutualExclusion, Critical
  <2>4. CASE push(c) /\ UNCHANGED <<next, lockvars, mainvars, r, v, inuse, panicked>>
    BY <2>4, <1>0 DEF push, MutualExclusion, Critical
  <2>5. CASE read(c) /\ UNCHANGED <<next, freelist, lockvars, mainvars, v, inuse, panicked>>
    BY <2>5 DEF read
  <2>6. CASE pop(c) /\ UNCHANGED <<next, lockvars, mainvars, r, v, inuse, panicked>>
    BY <2>6, <1>0 DEF pop, MutualExclusion, Critical
  <2>7. CASE release(c) /\ UNCHANGED <<next, freelist, use_lock, locked, mainvars, r, v, inuse>>
    BY <2>7 DEF release, holding
  <2>8. CASE unlock(c) /\ UNCHANGED <<next, freelist, use_lock, cpu, mainvars, r, v, inuse, panicked>>
    BY <2>8 DEF unlock
  <2>9. CASE return(c) /\ UNCHANGED <<next, freelist, lockvars, mainvars, panicked>>
    BY <2>9 DEF return
  <2> QED
    BY Zenon, <1>7, <2>1, <2>2, <2>3, <2>4, <2>5, <2>6, <2>7, <2>8, <2>9 DEF Access
<1>8. ASSUME NEW c \in CPUs, Call(c) PROVE LocalInv'
  <2>1. CASE kalloc(c) /\ UNCHANGED inuse
    BY <1>8, <2>1 DEF Call, kalloc, Enter
  <2>2. ASSUME NEW f \in inuse, kfree(c, f) PROVE LocalInv'
    <3>1. \A d \in CPUs : pc[d] = "push" => v[d] # f
      BY DEF HeldOnce, InHand, Freeing
    <3> QED
      BY <1>8, <1>a, <2>2, <3>1 DEF Call, kfree, Enter
  <2> QED
    BY <1>8, <2>1, <2>2 DEF Call
<1>9. CASE UNCHANGED vars
  BY <1>9 DEF vars
<1> QED
  BY <1>2, <1>3, <1>4, <1>5, <1>6, <1>7, <1>8, <1>9, StepCases

-----------------------------------------------------------------------------
\* The list is as complete as it was when the free pages and their links stay.
LEMMA ListKept ==
  ASSUME ListComplete, freelist' = freelist, Held' = Held,
         \A f \in Frames \ Held : next'[f] = next[f]
  PROVE  ListComplete'
<1>0. PICK n \in 0 .. NFRAMES : \E s \in [1 .. n -> Frames] : Lists(n, s)
  BY DEF ListComplete
<1>1. PICK s \in [1 .. n -> Frames] : Lists(n, s)
  BY <1>0
<1>2. \A i \in 1 .. n : s[i] \in Frames \ Held
  BY <1>1 DEF Lists
<1>3. Lists(n, s)'
  BY <1>1, <1>2 DEF Lists
<1> QED
  BY <1>1, <1>3 DEF ListComplete

\* The head of the list is free, and so is its successor.
LEMMA HeadIsFree ==
  ASSUME ListComplete, freelist # NULL
  PROVE  freelist \in Frames \ Held /\ next[freelist] \in Frames \cup {NULL}
<1>0. PICK n \in 0 .. NFRAMES : \E s \in [1 .. n -> Frames] : Lists(n, s)
  BY DEF ListComplete
<1>1. PICK s \in [1 .. n -> Frames] : Lists(n, s)
  BY <1>0
<1>2. n # 0 /\ 1 \in 1 .. n /\ freelist = s[1]
  BY <1>1 DEF Lists
<1>3. s[1] \in Frames \ Held
  BY <1>1, <1>2 DEF Lists
<1>4. next[s[1]] = NULL \/ (n > 1 /\ next[s[1]] = s[2])
  BY <1>1, <1>2 DEF Lists
<1> QED
  BY <1>2, <1>3, <1>4

\* An empty list means that no page is free.
LEMMA EmptyList == ASSUME ListComplete, freelist = NULL PROVE Frames \ Held = {}
<1>0. PICK n \in 0 .. NFRAMES : \E s \in [1 .. n -> Frames] : Lists(n, s)
  BY DEF ListComplete
<1>1. PICK s \in [1 .. n -> Frames] : Lists(n, s)
  BY <1>0
<1>2. n = 0
  BY <1>1 DEF Lists, Frames, NULL
<1> QED
  BY <1>1, <1>2 DEF Lists

\* A list of different pages is no longer than there are pages.
LEMMA Pigeonhole ==
  ASSUME NEW n \in Nat, NEW s \in [1 .. n -> Frames],
         \A i, j \in 1 .. n : s[i] = s[j] => i = j
  PROVE  n <= NFRAMES
<1>1. IsFiniteSet(1 .. n) /\ Cardinality(1 .. n) = n
  BY FS_Interval
<1>2. IsFiniteSet(Frames) /\ Cardinality(Frames) = NFRAMES
  BY FS_Interval, KallocAssumption DEF Frames
<1>3. s \in Injection(1 .. n, Frames)
  BY DEF Injection, IsInjective
<1> QED
  BY <1>1, <1>2, <1>3, FS_Injection

\* push: the list of the pages of s becomes <<f>> \o s.
LEMMA ListPushed ==
  ASSUME TypeOK, ListComplete, NEW f \in Held \cap Frames,
         next[f] = freelist, freelist' = f, next' = next, Held' = Held \ {f}
  PROVE  ListComplete'
<1>0. PICK n \in 0 .. NFRAMES : \E s \in [1 .. n -> Frames] : Lists(n, s)
  BY DEF ListComplete
<1>1. PICK s \in [1 .. n -> Frames] : Lists(n, s)
  BY <1>0
<1> DEFINE t == [i \in 1 .. (n + 1) |-> IF i = 1 THEN f ELSE s[i - 1]]
<1>2. n \in Nat /\ n + 1 \in Nat
  BY <1>0
<1>3. t \in [1 .. (n + 1) -> Frames]
  BY <1>2
<1>4. \A i \in 1 .. n : s[i] # f
  BY <1>1 DEF Lists
<1>5. \A i, j \in 1 .. (n + 1) : t[i] = t[j] => i = j
  BY <1>1, <1>2, <1>4 DEF Lists
<1>6. n + 1 \in 0 .. NFRAMES
  <2> HIDE DEF t
  <2> QED
    BY <1>2, <1>3, <1>5, Pigeonhole, KallocAssumption
<1>7. Frames \ Held' = {t[i] : i \in 1 .. (n + 1)}
  <2>1. Frames \ Held' = {s[i] : i \in 1 .. n} \cup {f}
    BY <1>1 DEF Lists
  <2>2. {s[i] : i \in 1 .. n} \cup {f} \subseteq {t[i] : i \in 1 .. (n + 1)}
    <3>1. \A i \in 1 .. n : s[i] = t[i + 1] /\ i + 1 \in 1 .. (n + 1)
      BY <1>2
    <3>2. f = t[1] /\ 1 \in 1 .. (n + 1)
      BY <1>2
    <3> HIDE DEF t
    <3> QED
      BY <3>1, <3>2
  <2>3. {t[i] : i \in 1 .. (n + 1)} \subseteq {s[i] : i \in 1 .. n} \cup {f}
    BY <1>2
  <2> QED
    BY Zenon, <2>1, <2>2, <2>3
<1>8. freelist' = t[1] /\ n + 1 # 0
  BY <1>2
<1>9. \A i \in 1 .. (n + 1) : next'[t[i]] = IF i = n + 1 THEN NULL ELSE t[i + 1]
  <2> SUFFICES ASSUME NEW i \in 1 .. (n + 1)
               PROVE  next[t[i]] = IF i = n + 1 THEN NULL ELSE t[i + 1]
    BY Zenon
  <2>1. CASE i = 1
    BY <1>1, <1>2, <2>1 DEF Lists
  <2>2. CASE i # 1
    <3>1. i - 1 \in 1 .. n /\ t[i] = s[i - 1]
      BY <1>2, <2>2
    <3>2. next[s[i - 1]] = IF i - 1 = n THEN NULL ELSE s[(i - 1) + 1]
      BY <1>1, <3>1 DEF Lists
    <3> QED
      BY <1>2, <2>2, <3>1, <3>2
  <2> QED
    BY <2>1, <2>2
<1> HIDE DEF t
<1>10. Lists(n + 1, t)'
  BY <1>5, <1>7, <1>8, <1>9 DEF Lists
<1> QED
  BY <1>3, <1>6, <1>10 DEF ListComplete

\* pop: the list of the pages of s becomes Tail(s).
LEMMA ListPopped ==
  ASSUME TypeOK, ListComplete, freelist # NULL,
         freelist' = next[freelist], next' = next, Held' = Held \cup {freelist}
  PROVE  ListComplete'
<1>0. PICK n \in 0 .. NFRAMES : \E s \in [1 .. n -> Frames] : Lists(n, s)
  BY DEF ListComplete
<1>1. PICK s \in [1 .. n -> Frames] : Lists(n, s)
  BY <1>0
<1> DEFINE t == [i \in 1 .. (n - 1) |-> s[i + 1]]
<1>2. n \in Nat /\ n # 0 /\ n - 1 \in 0 .. NFRAMES /\ freelist = s[1]
  BY <1>0, <1>1, KallocAssumption DEF Lists
<1>3. t \in [1 .. (n - 1) -> Frames]
  BY <1>2
<1>4. \A i, j \in 1 .. (n - 1) : t[i] = t[j] => i = j
  BY <1>1, <1>2 DEF Lists
<1>5. Frames \ Held' = {t[i] : i \in 1 .. (n - 1)}
  <2>1. Frames \ Held' = {s[i] : i \in 1 .. n} \ {s[1]}
    BY <1>1, <1>2 DEF Lists
  <2>2. {s[i] : i \in 1 .. n} \ {s[1]} \subseteq {t[i] : i \in 1 .. (n - 1)}
    <3>1. \A i \in 1 .. n : i # 1 => i - 1 \in 1 .. (n - 1) /\ t[i - 1] = s[i]
      BY <1>2
    <3> HIDE DEF t
    <3> QED
      BY <3>1
  <2>3. {t[i] : i \in 1 .. (n - 1)} \subseteq {s[i] : i \in 1 .. n} \ {s[1]}
    <3>1. \A i \in 1 .. (n - 1) : t[i] = s[i + 1] /\ i + 1 \in 1 .. n /\ s[i + 1] # s[1]
      BY <1>1, <1>2 DEF Lists
    <3> QED
      BY <3>1
  <2> QED
    BY Zenon, <2>1, <2>2, <2>3
<1>6. freelist' = IF n - 1 = 0 THEN NULL ELSE t[1]
  BY <1>1, <1>2 DEF Lists
<1>7. \A i \in 1 .. (n - 1) : next'[t[i]] = IF i = n - 1 THEN NULL ELSE t[i + 1]
  <2> SUFFICES ASSUME NEW i \in 1 .. (n - 1)
               PROVE  next[t[i]] = IF i = n - 1 THEN NULL ELSE t[i + 1]
    BY Zenon
  <2>1. i + 1 \in 1 .. n /\ t[i] = s[i + 1]
    BY <1>2
  <2>2. next[s[i + 1]] = IF i + 1 = n THEN NULL ELSE s[(i + 1) + 1]
    BY <1>1, <2>1 DEF Lists
  <2> QED
    BY <1>2, <2>1, <2>2
<1> HIDE DEF t
<1>8. Lists(n - 1, t)'
  BY <1>4, <1>5, <1>6, <1>7 DEF Lists
<1> QED
  BY <1>2, <1>3, <1>8 DEF ListComplete

-----------------------------------------------------------------------------
\* Steps that move no page.
LEMMA NoPageMoved ==
  ASSUME PagesAccounted, p' = p, inuse' = inuse, freelist' = freelist,
         \A d \in CPUs : InHand(d)' = InHand(d),
         \A f \in Frames \ Held : next'[f] = next[f]
  PROVE  PagesAccounted' /\ Held' = Held
<1>1. Unfreed' = Unfreed
  BY DEF Unfreed
<1>2. Held' = Held
  BY <1>1 DEF Held
<1>3. HeldOnce'
  BY <1>1 DEF PagesAccounted, HeldOnce
<1> QED
  BY <1>2, <1>3, ListKept DEF PagesAccounted

\* kfree starts: the page f moves from main or its caller into the hand of c.
LEMMA PageInHand ==
  ASSUME TypeOK, LocalInv, PagesAccounted, NEW c \in CPUs, NEW f \in Unfreed \cup inuse,
         kfree(c, f), Unfreed' = Unfreed \ {f}, inuse' = inuse \ {f}
  PROVE  PagesAccounted' /\ Held' = Held
<1>0. f \in Frames /\ f # NULL
  BY DEF Unfreed, TypeOK, Frames, NULL
<1>1. InHand(c) = {}
  BY DEF kfree, InHand, Freeing, Taken
<1>2. InHand(c)' = {f}
  BY <1>0 DEF kfree, InHand, Freeing, Taken, Enter, Goto, TypeOK
<1>3. \A d \in CPUs : d # c => InHand(d)' = InHand(d)
  BY DEF kfree, InHand, Freeing, Taken, Enter, Goto, TypeOK
<1>4. HeldOnce'
  BY <1>1, <1>2, <1>3 DEF PagesAccounted, HeldOnce
<1>5. Held' = Held
  <2>1. UNION {InHand(d) : d \in CPUs}' = {f} \cup UNION {InHand(d) : d \in CPUs}
    <3>1. \A x : x \in UNION {InHand(d) : d \in CPUs}' <=> \E d \in CPUs : x \in InHand(d)'
      OBVIOUS
    <3>2. \A x : x \in UNION {InHand(d) : d \in CPUs} <=> \E d \in CPUs : x \in InHand(d)
      OBVIOUS
    <3> QED
      BY <1>1, <1>2, <1>3, <3>1, <3>2
  <2> QED
    BY <2>1 DEF Held
<1>6. \A g \in Frames \ Held : next'[g] = next[g]
  BY DEF Held, kfree, TypeOK
<1> QED
  BY <1>4, <1>5, <1>6, ListKept DEF PagesAccounted, kfree

\* freerange frees the next page, if there is one.
LEMMA FreerangePages ==
  ASSUME TypeOK, LocalInv, PagesAccounted, kinit1 \/ kinit2
  PROVE  PagesAccounted' /\ Held' = Held
<1> USE BspIsCpu
<1>1. CASE p \in Frames /\ kfree(bsp, p) /\ p' = p + 1 /\ inuse' = inuse
  <2>1. p \in Unfreed /\ p \notin inuse
    BY <1>1 DEF PagesAccounted, HeldOnce, Unfreed, Frames
  <2>2. Unfreed' = Unfreed \ {p}
    BY <1>1, KallocAssumption DEF Unfreed, Frames
  <2> QED
    BY <1>1, <2>1, <2>2, PageInHand
<1>2. CASE UNCHANGED <<p, next, freelist, pc, r, v, inuse>>
  BY <1>2, NoPageMoved DEF InHand, Freeing, Taken
<1> QED
  BY <1>1, <1>2, KallocAssumption DEF kinit1, kinit2, freerange, Frames, TypeOK

\* kalloc starts: nothing moves.
LEMMA KallocPages ==
  ASSUME TypeOK, LocalInv, PagesAccounted, NEW c \in CPUs, kalloc(c), p' = p, inuse' = inuse
  PROVE  PagesAccounted' /\ Held' = Held
<1>1. pc[c] = "idle" /\ pc'[c] \in {"acquire", "read"} /\ v'[c] = NULL
  BY DEF kalloc, Enter, Goto, TypeOK
<1>2. InHand(c) = {} /\ InHand(c)' = {}
  BY <1>1 DEF InHand, Freeing, Taken
<1>3. \A d \in CPUs : d # c => InHand(d)' = InHand(d)
  BY DEF kalloc, Enter, Goto, TypeOK, InHand, Freeing, Taken
<1>4. \A d \in CPUs : InHand(d)' = InHand(d)
  BY Zenon, <1>2, <1>3
<1> QED
  BY <1>4, NoPageMoved DEF kalloc

\* What a step of processor c does to the set of pages that are not free.
Moves(c) ==
  /\ pc[c] = "push" => v[c] \in Held \cap Frames /\ Held' = Held \ {v[c]}
  /\ pc[c] = "pop" => freelist \in Frames \ Held /\ Held' = Held \cup {freelist}
  /\ pc[c] \notin {"push", "pop"} => Held' = Held

\* Every access of kalloc and kfree keeps every page accounted for.
LEMMA AccessPages ==
  ASSUME TypeOK, LockInv, LocalInv, PagesAccounted, NEW c \in CPUs, Access(c)
  PROVE  PagesAccounted' /\ Moves(c)
<1> USE DEF TypeOK, lockvars, mainvars, Goto, InHand, Freeing, Taken, LocalInv
<1>0. ListComplete /\ HeldOnce
  BY DEF PagesAccounted
<1>1. CASE acquire(c) /\ UNCHANGED <<next, freelist, use_lock, cpu, mainvars, r, v, inuse>>
  BY <1>1, NoPageMoved DEF acquire, Moves
<1>2. CASE owner(c) /\ UNCHANGED <<next, freelist, use_lock, locked, mainvars, r, v, inuse, panicked>>
  BY <1>2, NoPageMoved DEF owner, Moves
<1>3. CASE link(c) /\ UNCHANGED <<freelist, lockvars, mainvars, r, v, inuse, panicked>>
  <2>1. v[c] \in Held
    BY <1>3 DEF link, Held
  <2>2. \A f \in Frames \ Held : next'[f] = next[f]
    BY <1>3, <2>1 DEF link
  <2>3. \A d \in CPUs : InHand(d)' = InHand(d)
    BY <1>3 DEF link
  <2> QED
    BY <1>3, <2>2, <2>3, NoPageMoved DEF link, Moves
<1>4. CASE push(c) /\ UNCHANGED <<next, lockvars, mainvars, r, v, inuse, panicked>>
  <2>1. InHand(c) = {v[c]} /\ InHand(c)' = {} /\ v[c] \in Frames /\ next[v[c]] = freelist
    BY <1>4 DEF push
  <2>2. \A d \in CPUs : d # c => InHand(d)' = InHand(d)
    BY <1>4 DEF push
  <2>3. Unfreed' = Unfreed /\ inuse' = inuse
    BY <1>4 DEF Unfreed
  <2>4. HeldOnce'
    <3> HIDE DEF InHand
    <3> QED
      BY <1>0, <2>1, <2>2, <2>3 DEF HeldOnce
  <2>5. Held' = Held \ {v[c]} /\ v[c] \in Held
    <3>1. \A x : x \in Held <=> x \in Unfreed \/ x \in inuse \/ \E d \in CPUs : x \in InHand(d)
      BY DEF Held
    <3>2. \A x : x \in Held' <=> x \in Unfreed' \/ x \in inuse' \/ \E d \in CPUs : x \in InHand(d)'
      BY DEF Held
    <3> HIDE DEF InHand
    <3> QED
      BY <1>0, <2>1, <2>2, <2>3, <3>1, <3>2 DEF HeldOnce
  <2> QED
    BY <1>0, <1>4, <2>1, <2>4, <2>5, ListPushed DEF push, PagesAccounted, Moves
<1>5. CASE read(c) /\ UNCHANGED <<next, freelist, lockvars, mainvars, v, inuse, panicked>>
  <2>0. pc'[c] \in {"pop", "release", "return"} /\ (freelist # NULL => pc'[c] = "pop")
    BY <1>5 DEF read
  <2>a. r'[c] = freelist /\ v'[c] = NULL
    BY <1>5 DEF read
  <2>b. InHand(c) = {} /\ InHand(c)' = {}
    BY <1>5, <2>0, <2>a DEF read
  <2>c. \A d \in CPUs : d # c => InHand(d)' = InHand(d)
    BY <1>5 DEF read
  <2>1. \A d \in CPUs : InHand(d)' = InHand(d)
    BY Zenon, <2>b, <2>c
  <2> QED
    BY Zenon, <1>5, <2>1, NoPageMoved DEF read, Moves
<1>6. CASE pop(c) /\ UNCHANGED <<next, lockvars, mainvars, r, v, inuse, panicked>>
  <2>0. freelist \in Frames \ Held /\ r[c] = freelist /\ freelist # NULL
    BY <1>0, <1>6, HeadIsFree DEF pop
  <2>1. InHand(c) = {} /\ InHand(c)' = {freelist}
    BY <1>6, <2>0 DEF pop
  <2>2. \A d \in CPUs : d # c => InHand(d)' = InHand(d)
    BY <1>6 DEF pop
  <2>3. Unfreed' = Unfreed /\ inuse' = inuse
    BY <1>6 DEF Unfreed
  <2>a. \A x : x \in Held <=> x \in Unfreed \/ x \in inuse \/ \E d \in CPUs : x \in InHand(d)
    BY DEF Held
  <2>4. HeldOnce'
    <3> HIDE DEF InHand
    <3> QED
      BY <1>0, <2>0, <2>1, <2>2, <2>3, <2>a DEF HeldOnce
  <2>5. Held' = Held \cup {freelist}
    <3>2. \A x : x \in Held' <=> x \in Unfreed' \/ x \in inuse' \/ \E d \in CPUs : x \in InHand(d)'
      BY DEF Held
    <3> HIDE DEF InHand
    <3> QED
      BY SMTT(30), <2>1, <2>2, <2>3, <2>a, <3>2
  <2> QED
    BY SMTT(30), <1>0, <1>6, <2>0, <2>4, <2>5, ListPopped DEF pop, PagesAccounted, Moves
<1>7. CASE release(c) /\ UNCHANGED <<next, freelist, use_lock, locked, mainvars, r, v, inuse>>
  BY <1>7, NoPageMoved DEF release, Moves
<1>8. CASE unlock(c) /\ UNCHANGED <<next, freelist, use_lock, cpu, mainvars, r, v, inuse, panicked>>
  BY <1>8, NoPageMoved DEF unlock, Moves
<1>9. CASE return(c) /\ UNCHANGED <<next, freelist, lockvars, mainvars, panicked>>
  <2>1. inuse' = inuse \cup InHand(c) /\ InHand(c)' = {}
    BY <1>9 DEF return
  <2>2. \A d \in CPUs : d # c => InHand(d)' = InHand(d)
    BY <1>9 DEF return
  <2>3. Unfreed' = Unfreed
    BY <1>9 DEF Unfreed
  <2>4. HeldOnce'
    <3> HIDE DEF InHand
    <3> QED
      BY <1>0, <2>1, <2>2, <2>3 DEF HeldOnce
  <2>5. Held' = Held
    <3>1. \A x : x \in Held <=> x \in Unfreed \/ x \in inuse \/ \E d \in CPUs : x \in InHand(d)
      BY DEF Held
    <3>2. \A x : x \in Held' <=> x \in Unfreed' \/ x \in inuse' \/ \E d \in CPUs : x \in InHand(d)'
      BY DEF Held
    <3> HIDE DEF InHand
    <3>3. ASSUME NEW x PROVE x \in Held' <=> x \in Held
      BY <2>1, <2>2, <2>3, <3>1, <3>2
    <3> QED
      BY Zenon, <3>3
  <2> QED
    BY <1>0, <1>9, <2>4, <2>5, ListKept DEF return, PagesAccounted, Moves
<1> QED
  BY Zenon, <1>1, <1>2, <1>3, <1>4, <1>5, <1>6, <1>7, <1>8, <1>9 DEF Access

\* Every step keeps every page accounted for.
LEMMA PagesStep ==
  ASSUME TypeOK, LockInv, LocalInv, PagesAccounted, [Next]_vars
  PROVE  PagesAccounted'
<1> USE BspIsCpu
<1>1. CASE kinit1 \/ kinit2
  BY <1>1, FreerangePages
<1>2. CASE startothers
  <2>1. CASE kalloc(bsp)
    BY <1>2, <2>1, KallocPages DEF startothers
  <2>2. CASE UNCHANGED <<next, freelist, pc, r, v>>
    BY <1>2, <2>2, NoPageMoved DEF startothers, InHand, Freeing, Taken
  <2> QED
    BY <1>2, <2>1, <2>2 DEF startothers
<1>3. CASE runnable
  BY <1>3, NoPageMoved DEF runnable, InHand, Freeing, Taken
<1>4. CASE BootAlloc("kvmalloc", "startothers") \/ BootAlloc("userinit", "runnable")
  BY <1>4, KallocPages DEF BootAlloc
<1>5. ASSUME NEW c \in CPUs, Access(c) PROVE PagesAccounted'
  BY <1>5, AccessPages
<1>6. ASSUME NEW c \in CPUs, Call(c) PROVE PagesAccounted'
  <2>1. CASE kalloc(c) /\ UNCHANGED inuse
    BY <1>6, <2>1, KallocPages DEF Call, mainvars
  <2>2. ASSUME NEW f \in inuse, kfree(c, f), inuse' = inuse \ {f} PROVE PagesAccounted'
    <3>1. Unfreed' = Unfreed /\ f \notin Unfreed
      BY <1>6 DEF Call, mainvars, Unfreed, PagesAccounted, HeldOnce
    <3> QED
      BY <2>2, <3>1, PageInHand
  <2> QED
    BY <1>6, <2>1, <2>2 DEF Call
<1>7. CASE UNCHANGED vars
  BY <1>7, NoPageMoved DEF vars, InHand, Freeing, Taken
<1> QED
  BY <1>1, <1>2, <1>3, <1>4, <1>5, <1>6, <1>7, StepCases

-----------------------------------------------------------------------------
\* At the start no page has been freed and the list is empty.
LEMMA InitIInv == Init => IInv
<1> SUFFICES ASSUME Init PROVE IInv
  OBVIOUS
<1> USE DEF Init
<1>1. TypeOK
  <2>1. started \subseteq CPUs
    BY BspIsCpu
  <2>2. p \in 1 .. (NFRAMES + 1)
    BY KallocAssumption
  <2> QED
    BY Zenon, <2>1, <2>2 DEF TypeOK
<1>2. LockInv
  BY BspIsCpu DEF LockInv, Inside, Owns
<1>3. LocalInv
  BY DEF LocalInv
<1>4. \A c \in CPUs : InHand(c) = {}
  BY DEF InHand, Freeing, Taken
<1>5. Unfreed = Frames
  BY KallocAssumption DEF Unfreed, Frames
<1>6. HeldOnce
  BY <1>4 DEF HeldOnce
<1>7. ListComplete
  <2> DEFINE s == [i \in 1 .. 0 |-> NULL]
  <2>1. s \in [1 .. 0 -> Frames]
    OBVIOUS
  <2>2. Lists(0, s)
    BY <1>5 DEF Lists, Held
  <2>3. 0 \in 0 .. NFRAMES
    BY KallocAssumption
  <2> HIDE DEF s
  <2> QED
    BY Zenon, <2>1, <2>2, <2>3 DEF ListComplete
<1> QED
  BY <1>1, <1>2, <1>3, <1>6, <1>7 DEF IInv, PagesAccounted

\* Every step keeps the types; kalloc never takes junk for the next page because the
\* head of the list is free.
LEMMA TypeStep ==
  ASSUME TypeOK, LockInv, LocalInv, PagesAccounted, [Next]_vars
  PROVE  TypeOK'
<1> USE BspIsCpu, KallocAssumption DEF TypeOK, lockvars, mainvars, Goto, Enter
<1>1. CASE kinit1 \/ kinit2
  <2>1. UNCHANGED <<locked, cpu, started, inuse, panicked>>
    BY <1>1 DEF kinit1, kinit2, freerange
  <2>2. phase' \in {"kinit1", "kvmalloc", "kinit2", "userinit"} /\ use_lock' \in BOOLEAN
    BY Zenon, <1>1 DEF kinit1, kinit2, freerange
  <2>3. CASE kfree(bsp, p) /\ p' = p + 1 /\ p \in Frames
    BY <2>1, <2>2, <2>3 DEF kfree, Frames
  <2>4. CASE UNCHANGED <<p, next, freelist, pc, r, v>>
    BY <2>1, <2>2, <2>4
  <2> QED
    BY <1>1, <2>3, <2>4 DEF kinit1, kinit2, freerange, Frames
<1>3. CASE startothers
  BY <1>3 DEF startothers, kalloc
<1>4. CASE runnable
  BY <1>4 DEF runnable
<1>5. CASE BootAlloc("kvmalloc", "startothers")
  BY <1>5 DEF BootAlloc, kalloc
<1>6. CASE BootAlloc("userinit", "runnable")
  BY <1>6 DEF BootAlloc, kalloc
<1>7. ASSUME NEW c \in CPUs, Access(c) PROVE TypeOK'
  <2>1. CASE acquire(c) /\ UNCHANGED <<next, freelist, use_lock, cpu, mainvars, r, v, inuse>>
    BY Zenon, <2>1 DEF acquire
  <2>2. CASE owner(c) /\ UNCHANGED <<next, freelist, use_lock, locked, mainvars, r, v, inuse, panicked>>
    BY <2>2 DEF owner
  <2>3. CASE link(c) /\ UNCHANGED <<freelist, lockvars, mainvars, r, v, inuse, panicked>>
    BY Zenon, <2>3 DEF link
  <2>4. CASE push(c) /\ UNCHANGED <<next, lockvars, mainvars, r, v, inuse, panicked>>
    BY <2>4 DEF push
  <2>5. CASE read(c) /\ UNCHANGED <<next, freelist, lockvars, mainvars, v, inuse, panicked>>
    BY <2>5 DEF read
  <2>6. CASE pop(c) /\ UNCHANGED <<next, lockvars, mainvars, r, v, inuse, panicked>>
    <3>1. next[r[c]] \in Frames \cup {NULL}
      BY <2>6, HeadIsFree DEF pop, PagesAccounted, LocalInv
    <3> QED
      BY <2>6, <3>1 DEF pop
  <2>7. CASE release(c) /\ UNCHANGED <<next, freelist, use_lock, locked, mainvars, r, v, inuse>>
    BY <2>7 DEF release
  <2>8. CASE unlock(c) /\ UNCHANGED <<next, freelist, use_lock, cpu, mainvars, r, v, inuse, panicked>>
    BY Zenon, <2>8 DEF unlock
  <2>9. CASE return(c) /\ UNCHANGED <<next, freelist, lockvars, mainvars, panicked>>
    BY <2>9 DEF return
  <2> QED
    BY Zenon, <1>7, <2>1, <2>2, <2>3, <2>4, <2>5, <2>6, <2>7, <2>8, <2>9 DEF Access
<1>8. ASSUME NEW c \in CPUs, Call(c) PROVE TypeOK'
  BY <1>8 DEF Call, kalloc, kfree
<1>9. CASE UNCHANGED vars
  BY <1>9 DEF vars
<1> HIDE DEF TypeOK
<1> QED
  BY SMTT(30), <1>1, <1>3, <1>4, <1>5, <1>6, <1>7, <1>8, <1>9, StepCases

-----------------------------------------------------------------------------
\* The invariant is inductive.
THEOREM Invariance == Spec => []IInv
<1>1. IInv /\ [Next]_vars => IInv'
  BY TypeStep, LockStep, LocalStep, PagesStep DEF IInv, PagesAccounted
<1> QED
  BY InitIInv, <1>1, PTL DEF Spec

\* The variables of the allocator keep their types: kalloc never returns junk.
THEOREM TypeCorrect == Spec => []TypeOK
<1>1. IInv => TypeOK
  BY DEF IInv
<1> QED
  BY <1>1, Invariance, PTL

\* Two processors are never inside the free list at once, for any number of them,
\* although the lock is turned on while they all run.
THEOREM ListExclusive == Spec => []MutualExclusion
<1>1. IInv => MutualExclusion
  BY LockExcludes DEF IInv
<1> QED
  BY <1>1, Invariance, PTL

\* acquire and release never find kmem.lock in the wrong hands.
THEOREM LockNeverMisused == Spec => []NoPanic
<1>1. IInv => NoPanic
  BY LockExcludes DEF IInv
<1> QED
  BY <1>1, Invariance, PTL

\* All that kmem.lock is for, in one statement.
THEOREM LockRespected == Spec => []LockUsed
<1>1. TypeOK /\ MutualExclusion /\ NoPanic => LockUsed
  BY DEF LockUsed
<1> QED
  BY <1>1, TypeCorrect, ListExclusive, LockNeverMisused, PTL

\* No page is lost, in two places or handed out twice, for any number of pages and
\* processors.
THEOREM NoPageLost == Spec => []PagesAccounted
<1>1. IInv => PagesAccounted
  BY DEF IInv
<1> QED
  BY <1>1, Invariance, PTL

-----------------------------------------------------------------------------
\* At boot no page is free, as in PageAllocator.
LEMMA AllocatorInit == ASSUME Init PROVE Allocator!AInit
<1>1. \A c \in CPUs : InHand(c) = {} /\ Result(c) = Junk
  BY DEF Init, InHand, Freeing, Taken, Result
<1>2. Unfreed = Frames
  BY KallocAssumption DEF Init, Unfreed, Frames
<1>3. Held = Frames
  BY <1>1, <1>2 DEF Held, Init
<1> QED
  BY <1>1, <1>3 DEF Allocator!AInit

\* An access of processor c leaves the locals of the others alone, and with them their results.
LEMMA OthersKept ==
  ASSUME TypeOK, NEW c \in CPUs, Access(c)
  PROVE  \A d \in CPUs : d # c => Result(d)' = Result(d)
<1>1. \A d \in CPUs : d # c => pc'[d] = pc[d] /\ r'[d] = r[d] /\ v'[d] = v[d]
  <2> USE DEF TypeOK, Goto
  <2>1. CASE acquire(c) /\ UNCHANGED <<next, freelist, use_lock, cpu, mainvars, r, v, inuse>>
    BY <2>1 DEF acquire
  <2>2. CASE owner(c) /\ UNCHANGED <<next, freelist, use_lock, locked, mainvars, r, v, inuse, panicked>>
    BY <2>2 DEF owner
  <2>3. CASE link(c) /\ UNCHANGED <<freelist, lockvars, mainvars, r, v, inuse, panicked>>
    BY <2>3 DEF link
  <2>4. CASE push(c) /\ UNCHANGED <<next, lockvars, mainvars, r, v, inuse, panicked>>
    BY <2>4 DEF push
  <2>5. CASE read(c) /\ UNCHANGED <<next, freelist, lockvars, mainvars, v, inuse, panicked>>
    BY <2>5 DEF read
  <2>6. CASE pop(c) /\ UNCHANGED <<next, lockvars, mainvars, r, v, inuse, panicked>>
    BY <2>6 DEF pop
  <2>7. CASE release(c) /\ UNCHANGED <<next, freelist, use_lock, locked, mainvars, r, v, inuse>>
    BY <2>7 DEF release
  <2>8. CASE unlock(c) /\ UNCHANGED <<next, freelist, use_lock, cpu, mainvars, r, v, inuse, panicked>>
    BY <2>8 DEF unlock
  <2>9. CASE return(c) /\ UNCHANGED <<next, freelist, lockvars, mainvars, panicked>>
    BY SMTT(30), <2>9 DEF return
  <2> HIDE DEF TypeOK, Goto
  <2> QED
    BY Zenon, <2>1, <2>2, <2>3, <2>4, <2>5, <2>6, <2>7, <2>8, <2>9 DEF Access
<1> QED
  BY SMTT(30), <1>1 DEF Result

\* Every access is a step of PageAllocator or changes nothing there.
LEMMA AccessAllocates ==
  ASSUME IInv, NEW c \in CPUs, Access(c)
  PROVE  [Allocator!ANext]_(Allocator!avars)
<1>0. TypeOK /\ LockInv /\ LocalInv /\ PagesAccounted /\ Moves(c)
  BY AccessPages DEF IInv
<1>a. \A d \in CPUs : d # c => Result(d)' = Result(d)
  BY <1>0, OthersKept
<1>b. ASSUME Held' = Held, Result(c)' = Result(c) PROVE UNCHANGED Allocator!avars
  BY Zenon, <1>a, <1>b DEF Allocator!avars
<1>1. CASE acquire(c) /\ UNCHANGED <<next, freelist, use_lock, cpu, mainvars, r, v, inuse>>
  <2>1. Result(c)' = Result(c)
    BY SMTT(30), <1>0, <1>1 DEF acquire, Goto, Result, TypeOK
  <2> QED
    BY <1>0, <1>1, <1>b, <2>1 DEF acquire, Moves
<1>2. CASE owner(c) /\ UNCHANGED <<next, freelist, use_lock, locked, mainvars, r, v, inuse, panicked>>
  <2>1. Result(c)' = Result(c)
    BY <1>0, <1>2 DEF owner, Goto, Result, TypeOK
  <2> QED
    BY Zenon, <1>0, <1>2, <1>b, <2>1 DEF owner, Moves
<1>3. CASE link(c) /\ UNCHANGED <<freelist, lockvars, mainvars, r, v, inuse, panicked>>
  <2>1. Result(c)' = Result(c)
    BY <1>0, <1>3 DEF link, Goto, Result, TypeOK
  <2> QED
    BY <1>0, <1>3, <1>b, <2>1 DEF link, Moves
<1>4. CASE push(c) /\ UNCHANGED <<next, lockvars, mainvars, r, v, inuse, panicked>>
  <2>1. Held' = Held \ {v[c]} /\ v[c] \in Held \cap Frames
    BY <1>0, <1>4 DEF push, Moves, LocalInv
  <2>2. Result(c)' = Result(c)
    BY SMTT(30), <1>0, <1>4 DEF push, Goto, Result, TypeOK, LocalInv
  <2>3. Allocator!Free
    BY <1>a, <2>1, <2>2 DEF Allocator!Free
  <2> QED
    BY SMTT(30), <2>3 DEF Allocator!ANext
<1>5. CASE read(c) /\ UNCHANGED <<next, freelist, lockvars, mainvars, v, inuse, panicked>>
  <2>1. Held' = Held /\ Result(c) = Junk /\ v[c] = NULL
    BY Zenon, <1>0, <1>5 DEF read, Moves, Result, LocalInv
  <2>2. CASE freelist = NULL
    <3>1. Result(c)' = NULL
      BY <1>0, <1>5, <2>1, <2>2 DEF read, Goto, Result, TypeOK
    <3>2. Frames \ Held = {}
      BY <1>0, <2>2, EmptyList DEF PagesAccounted
    <3>3. Allocator!AllocFails(c)
      BY Zenon, <1>a, <2>1, <3>1, <3>2 DEF Allocator!AllocFails
    <3> QED
      BY <3>3 DEF Allocator!ANext
  <2>3. CASE freelist # NULL
    <3>1. Result(c)' = Junk
      BY <1>0, <1>5, <2>1, <2>3 DEF read, Goto, Result, TypeOK
    <3> QED
      BY <1>b, <2>1, <3>1
  <2> QED
    BY SMTT(30), <2>2, <2>3
<1>6. CASE pop(c) /\ UNCHANGED <<next, lockvars, mainvars, r, v, inuse, panicked>>
  <2>1. freelist \in Frames \ Held /\ Held' = Held \cup {freelist}
    BY <1>0, <1>6 DEF pop, Moves
  <2>2. Result(c) = Junk /\ Result(c)' = freelist
    BY <1>0, <1>6 DEF pop, Goto, Result, TypeOK, LocalInv
  <2>3. Allocator!Alloc(c)
    BY Zenon, <1>a, <2>1, <2>2 DEF Allocator!Alloc
  <2> QED
    BY SMTT(30), <2>3 DEF Allocator!ANext
<1>7. CASE release(c) /\ UNCHANGED <<next, freelist, use_lock, locked, mainvars, r, v, inuse>>
  <2>1. Result(c)' = Result(c)
    BY <1>0, <1>7 DEF release, Goto, Result, TypeOK
  <2> QED
    BY <1>0, <1>7, <1>b, <2>1 DEF release, Moves
<1>8. CASE unlock(c) /\ UNCHANGED <<next, freelist, use_lock, cpu, mainvars, r, v, inuse, panicked>>
  <2>1. Result(c)' = Result(c)
    BY <1>0, <1>8 DEF unlock, Goto, Result, TypeOK
  <2> QED
    BY <1>0, <1>8, <1>b, <2>1 DEF unlock, Moves
<1>9. CASE return(c) /\ UNCHANGED <<next, freelist, lockvars, mainvars, panicked>>
  <2>1. Held' = Held /\ Result(c)' = Junk
    BY <1>0, <1>9 DEF return, Goto, Result, Moves, TypeOK
  <2>2. CASE v[c] = NULL
    <3>1. Result(c) = r[c] /\ r[c] \in Frames \cup {NULL}
      BY <1>0, <1>9, <2>2 DEF return, Result, TypeOK
    <3>2. Result(c) # Junk
      BY <3>1 DEF Frames, NULL, Junk
    <3>3. Allocator!Return(c)
      BY Zenon, <1>a, <2>1, <3>2 DEF Allocator!Return
    <3> QED
      BY <3>3 DEF Allocator!ANext
  <2>3. CASE v[c] # NULL
    <3>1. Result(c) = Junk
      BY <2>3 DEF Result
    <3> QED
      BY <1>b, <2>1, <3>1
  <2> QED
    BY <2>2, <2>3
<1> QED
  BY <1>1, <1>2, <1>3, <1>4, <1>5, <1>6, <1>7, <1>8, <1>9 DEF Access

\* A step of main, and the start of a call, change nothing in PageAllocator.
LEMMA CallsStutter ==
  ASSUME IInv,
         \/ kinit1 \/ kinit2 \/ startothers \/ runnable
         \/ BootAlloc("kvmalloc", "startothers") \/ BootAlloc("userinit", "runnable")
         \/ \E c \in CPUs : Call(c)
  PROVE  UNCHANGED Allocator!avars
<1>0. TypeOK /\ LockInv /\ LocalInv /\ PagesAccounted
  BY DEF IInv
<1>1. ASSUME NEW c \in CPUs, kalloc(c) \/ \E f : kfree(c, f)
      PROVE  \A d \in CPUs : Result(d)' = Result(d)
  BY <1>0, <1>1 DEF kalloc, kfree, Enter, Goto, Result, TypeOK, LocalInv
<1>2. ASSUME UNCHANGED <<pc, r, v>>
      PROVE  \A d \in CPUs : Result(d)' = Result(d) /\ InHand(d)' = InHand(d)
  BY <1>2 DEF Result, InHand, Freeing, Taken
<1>3. ASSUME Held' = Held, \A d \in CPUs : Result(d)' = Result(d)
      PROVE  UNCHANGED Allocator!avars
  BY <1>3 DEF Allocator!avars
<1>4. CASE kinit1 \/ kinit2
  <2>1. Held' = Held
    BY <1>0, <1>4, FreerangePages
  <2>2. kfree(bsp, p) \/ UNCHANGED <<pc, r, v>>
    BY <1>4 DEF kinit1, kinit2, freerange
  <2>3. \A d \in CPUs : Result(d)' = Result(d)
    BY <1>1, <1>2, <2>2, BspIsCpu
  <2> QED
    BY <1>3, <2>1, <2>3
<1>5. CASE startothers \/ runnable
  <2>1. kalloc(bsp) \/ UNCHANGED <<next, freelist, pc, r, v>>
    BY Zenon, <1>5 DEF startothers, runnable
  <2>2. UNCHANGED <<p, inuse>>
    BY <1>5 DEF startothers, runnable
  <2>3. Held' = Held
    BY <1>0, <1>2, <2>1, <2>2, BspIsCpu, KallocPages, NoPageMoved
  <2>4. \A d \in CPUs : Result(d)' = Result(d)
    BY <1>1, <1>2, <2>1, BspIsCpu
  <2> QED
    BY <1>3, <2>3, <2>4
<1>6. CASE BootAlloc("kvmalloc", "startothers") \/ BootAlloc("userinit", "runnable")
  <2>1. kalloc(bsp) /\ UNCHANGED <<p, inuse>>
    BY <1>6 DEF BootAlloc
  <2>2. \A d \in CPUs : Result(d)' = Result(d)
    BY <1>1, <2>1, BspIsCpu
  <2> QED
    BY <1>0, <1>3, <2>1, <2>2, BspIsCpu, KallocPages
<1>7. ASSUME NEW c \in CPUs, Call(c) PROVE UNCHANGED Allocator!avars
  <2>0. UNCHANGED p
    BY <1>7 DEF Call, mainvars
  <2>1. CASE kalloc(c) /\ UNCHANGED inuse
    <3>1. \A d \in CPUs : Result(d)' = Result(d)
      BY <1>1, <2>1
    <3> QED
      BY <1>0, <1>3, <2>0, <2>1, <3>1, KallocPages
  <2>2. ASSUME NEW f \in inuse, kfree(c, f), inuse' = inuse \ {f}
        PROVE  UNCHANGED Allocator!avars
    <3>1. Unfreed' = Unfreed /\ f \notin Unfreed
      BY <1>0, <2>0 DEF Unfreed, PagesAccounted, HeldOnce
    <3>2. Held' = Held
      BY <1>0, <2>2, <3>1, PageInHand
    <3>3. \A d \in CPUs : Result(d)' = Result(d)
      BY <1>1, <2>2
    <3> QED
      BY <1>3, <3>2, <3>3
  <2> QED
    BY <1>7, <2>1, <2>2 DEF Call
<1> QED
  BY <1>4, <1>5, <1>6, <1>7

\* kalloc and kfree are atomic to their callers: the list that runs through the pages,
\* its lock and its start without a lock implement PageAllocator.
THEOREM Refinement == Spec => ImplementsAllocator
<1>1. IInv /\ [Next]_vars => [Allocator!ANext]_(Allocator!avars)
  <2> SUFFICES ASSUME IInv, [Next]_vars PROVE [Allocator!ANext]_(Allocator!avars)
    OBVIOUS
  <2>1. CASE Next
    BY <2>1, StepCases, AccessAllocates, CallsStutter
  <2>2. CASE UNCHANGED vars
    <3>1. Held' = Held
      BY <2>2 DEF vars, Held, Unfreed, InHand, Freeing, Taken
    <3>2. \A c \in CPUs : Result(c)' = Result(c)
      BY <2>2 DEF vars, Result
    <3> QED
      BY <3>1, <3>2 DEF Allocator!avars
  <2> QED
    BY <2>1, <2>2
<1> QED
  BY AllocatorInit, Invariance, <1>1, PTL DEF Spec, ImplementsAllocator, Allocator!ASpec
=============================================================================
