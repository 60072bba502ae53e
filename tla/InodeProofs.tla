---------------------------- MODULE InodeProofs ----------------------------
(***************************************************************************)
(* Proofs about Inode for any number of processes, names, inodes and slots *)
(* of the cache: reference counts and link counts are right, the cache is  *)
(* write-through, and an inode is freed with its last reference.           *)
(***************************************************************************)
EXTENDS InodeSteps, FiniteSetTheorems, TLAPS

-----------------------------------------------------------------------------
\* A set of natural numbers has a least element, which is its Min.
LEMMA LeastExists ==
  ASSUME NEW S \in SUBSET Nat, S # {}
  PROVE  \E x \in S : \A y \in S : x <= y
<1> DEFINE R == OpToRel(<, Nat)
<1>1. \A x, y \in Nat : <<x, y>> \in R <=> x < y
  BY Zenon DEF OpToRel
<1>2. \E x \in S : \A y \in S : ~ (<<y, x>> \in R)
  BY Zenon, NatLessThanWellFounded, WFMin
<1> HIDE DEF R
<1>3. PICK x \in S : \A y \in S : ~ (<<y, x>> \in R)
  BY Zenon, <1>2
<1>4. x \in Nat /\ \A y \in S : y \in Nat
  OBVIOUS
<1>5. \A y \in S : ~(y < x)
  BY Zenon, <1>1, <1>3, <1>4
<1>6. \A y \in S : x <= y
  BY <1>4, <1>5
<1> QED
  BY Zenon, <1>6

\* The laws that the steps count by.
LEMMA Laws == CountLaws
<1>1. EmptyLaw /\ CardLaw
  BY FS_CardinalityType, FS_EmptySet DEF EmptyLaw, CardLaw
<1>2. SingleLaw
  BY FS_Singleton DEF SingleLaw
<1>3. SubsetLaw
  BY FS_Subset DEF SubsetLaw
<1>4. ElementLaw
  BY FS_AddElement, FS_RemoveElement DEF ElementLaw
<1>5. LeastLaw
  BY LeastExists DEF LeastLaw, Min
<1> QED
  BY Zenon, <1>1, <1>2, <1>3, <1>4, <1>5 DEF CountLaws

-----------------------------------------------------------------------------
LEMMA InitInv == Init => IInv
<1> SUFFICES ASSUME Init PROVE IInv
  OBVIOUS
<1> USE DEF Init
<1>1. Typed
  <2>1. [type |-> 0, nlink |-> 0] \in Dinodes
    BY DEF Dinodes
  <2>2. [inum |-> None, ref |-> 0, valid |-> FALSE, type |-> 0, nlink |-> 0] \in Cached
    BY DEF Cached
  <2>3. (CHOOSE n \in Names : TRUE) \in Names
    BY InodeAssumption
  <2> QED
    BY <2>1, <2>2, <2>3 DEF Typed, Labels, None
<1>2. \A p \in Procs : pc[p] = "user" /\ file[p] = None /\ ~KeepsIp(p) /\ pc[p] \notin Putting
  BY DEF KeepsIp, HasIp, Putting
<1>3. Counted
  <2>1. ASSUME NEW s \in Slots PROVE Refs(s) = 0
    <3>1. Opens(s) = {} /\ Walks(s) = {} /\ Puts(s) = {}
      BY <1>2 DEF Opens, Walks, Puts, None, Slots
    <3> QED
      BY <3>1, Laws, CardOf DEF Refs
  <2>2. \A s \in Slots : icache[s].ref = 0
    OBVIOUS
  <2> QED
    BY <1>2, <2>1, <2>2 DEF Counted, RefersTo, Creating
<1>4. UseInv
  <2>1. LockInv
    BY <1>2, InodeAssumption DEF LockInv, HoldsDir, HoldsSlot, Creating
  <2>2. \A p \in Procs : \A i : ~Holds(p, i)
    BY <1>2 DEF Holds, HasFile, HasWalk, HasPut, Allocs
  <2>3. LinksCounted
    <3>1. \A i \in Inums : Entries(i) = {} /\ Pending(i) = {} /\ dinode[i].type = 0
      BY <1>2 DEF Entries, Pending, None, Inums
    <3> QED
      BY <3>1 DEF LinksCounted
  <2>4. Alive /\ Kept /\ \A s \in Slots : Sync(s)
    BY <2>2 DEF Alive, Kept, Sync
  <2>5. \A p \in Procs : Fresh(p) /\ Truncs(p) /\ Freed(p) /\ Valid(p) /\ Named(p)
    BY <1>2 DEF Fresh, Truncs, Freed, Valid, Named, Allocs, Creating
  <2> QED
    BY <2>1, <2>3, <2>4, <2>5 DEF UseInv
<1> QED
  BY <1>1, <1>3, <1>4 DEF IInv

LEMMA Invariance == Spec => [](IInv /\ Natural)
<1>1. Init => IInv /\ Natural
  <2>1. Init => Natural
    BY DEF Init, Natural
  <2> QED
    BY <2>1, InitInv
<1>2. IInv /\ Natural /\ [Next]_vars => (IInv /\ Natural)'
  <2> SUFFICES ASSUME IInv, Natural, [Next]_vars PROVE IInv' /\ Natural'
    OBVIOUS
  <2>0. Typed /\ Counted /\ UseInv
    BY DEF IInv
  <2>1. ASSUME UNCHANGED <<dinode, dir, dirlock, icache, lock, file, pc, call, raced>>
        PROVE  Typed' /\ Counted' /\ UseInv' /\ Natural'
    BY <2>0, <2>1, StillInv DEF Natural
  <2>2. CASE UNCHANGED vars
    BY <2>1, <2>2 DEF vars, IInv
  <2>3. ASSUME NEW p \in Procs, Step(p), panicked = "no" PROVE IInv' /\ Natural'
    <3>1. panicked' \in {"no"} \cup Full
      BY <2>0, <2>3, Laws, OnlyFull
    <3>2. CASE Goes(p)
      BY <2>0, <2>3, <3>1, <3>2, Laws, CountedGoes, UseGoes, NaturalGoes DEF IInv
    <3> QED
      BY <2>1, <2>3, <3>1, <3>2, PanicStops DEF IInv
  <2> QED
    BY <2>2, <2>3 DEF Next
<1> QED
  BY <1>1, <1>2, PTL DEF Spec

\* An inode's reference count is the number of pointers to its slot, whatever calls of iget
\* and iput run at once, and no inode is in two slots (fs.c:238-272).
THEOREM References == Spec => []RefsCounted
<1>1. IInv /\ Natural => RefsCounted
  <2> SUFFICES ASSUME IInv, Natural PROVE RefsCounted
    OBVIOUS
  <2>1. \A s \in Slots : icache[s].ref \in Nat
    <3>1. \A s \in Slots : icache[s].ref = Refs(s)
      BY DEF IInv, Counted
    <3>2. \A s \in Slots : Refs(s) \in Nat
      BY Laws, RefsFinite DEF Refs
    <3> QED
      BY <3>1, <3>2
  <2>2. dinode \in [Inums -> [type : {0, T_FILE}, nlink : Nat]]
    <3>1. \A i \in Inums : dinode[i] \in [type : {0, T_FILE}, nlink : Nat]
      BY DEF IInv, Typed, Dinodes, Natural
    <3> QED
      BY <3>1 DEF IInv, Typed
  <2>3. icache \in [Slots -> [inum : Inums \cup {None}, ref : Nat, valid : BOOLEAN,
                              type : {0, T_FILE}, nlink : Nat]]
    <3>1. \A s \in Slots : icache[s] \in [inum : Inums \cup {None}, ref : Nat, valid : BOOLEAN,
                                          type : {0, T_FILE}, nlink : Nat]
      BY Zenon, <2>1 DEF IInv, Typed, Cached, Natural
    <3> QED
      BY <3>1 DEF IInv, Typed
  <2> QED
    BY <2>2, <2>3 DEF IInv, Typed, Counted, RefsCounted, TypeOK
<1> QED
  BY <1>1, Invariance, PTL

\* The link count on the disk is the number of names, but for the calls of link and unlink
\* that are under way, and no name refers to a free inode (sysfile.c:140-151, 219-229).
THEOREM LinkCounts == Spec => []LinksCounted
<1>1. IInv => LinksCounted
  BY DEF IInv, UseInv
<1> QED
  BY <1>1, Invariance, PTL

\* A valid slot that is not locked has what the disk has, also after its inode has been
\* freed and allocated again (fs.c:216-219).
THEOREM Coherence == Spec => []WriteThrough
<1>1. IInv => WriteThrough
  <2> SUFFICES ASSUME IInv, NEW s \in Slots, icache[s].ref > 0, icache[s].valid, lock[s] = Nobody
               PROVE  dinode[icache[s].inum] = [type |-> icache[s].type, nlink |-> icache[s].nlink]
    BY DEF WriteThrough
  <2>1. ~Freeing(s)
    <3> SUFFICES ASSUME NEW q \in Procs, pc[q] = "freed", put[q] = s PROVE FALSE
      BY DEF Freeing
    <3>1. lock[s] = q
      BY DEF IInv, UseInv, LockInv, HoldsSlot
    <3> QED
      BY <3>1, InodeAssumption
  <2> QED
    BY <2>1 DEF IInv, UseInv, Sync
<1> QED
  BY <1>1, Invariance, PTL

\* An open file's inode is allocated, and an allocated inode has a link, a reference, a
\* create about to refer to it, or has lost its last two references at once (fs.c:327-351);
\* and neither ilock nor unlink ever panics over an inode.
THEOREM FreedWithLast == Spec => []FreedAtLast
<1>1. IInv => FreedAtLast
  <2> SUFFICES ASSUME IInv PROVE FreedAtLast
    OBVIOUS
  <2>0. Typed /\ Counted /\ Alive /\ Kept
    BY DEF IInv, UseInv
  <2>1. ASSUME NEW p \in Procs, file[p] # None PROVE dinode[icache[file[p]].inum].type # 0
    <3>1. file[p] \in Slots /\ icache[file[p]].ref > 0 /\ icache[file[p]].inum \in Inums
      BY <2>0, <2>1, Laws, InUse, SlotInode
    <3> QED
      BY <2>0, <2>1, <3>1 DEF Alive, Holds, HasFile
  <2>2. ASSUME NEW i \in Inums, i \notin raced, dinode[i].type # 0, dinode[i].nlink = 0
        PROVE  \/ \E s \in Slots : icache[s].ref > 0 /\ icache[s].inum = i
               \/ \E p \in Procs : pc[p] = "ialloced" /\ ip[p] = i
    <3>1. PICK p \in Procs : Holds(p, i)
      BY <2>0, <2>2 DEF Kept
    <3>2. HasFile(p, i) \/ HasWalk(p, i) \/ HasPut(p, i) => \E s \in Slots : icache[s].ref > 0 /\ icache[s].inum = i
      BY <2>0, Laws, InUse DEF HasFile, HasWalk, HasPut, Putting
    <3> QED
      BY <3>1, <3>2 DEF Holds, Allocs
  <2>3. panicked \in {"no"} \cup Full
    BY DEF IInv
  <2> QED
    BY <2>1, <2>2, <2>3 DEF FreedAtLast
<1> QED
  BY <1>1, Invariance, PTL

\* The only panics of the inode layer's that are ever reached are iget's, of a full cache, and
\* ialloc's, of a full disk: ilock meets no free and no unreferenced inode, and unlink no inode
\* without a link (fs.c:194-213, 258-259, 287-311, sysfile.c:211-212).
THEOREM NoPanicButFull == Spec => [](panicked \in {"no"} \cup Full)
<1>1. IInv => panicked \in {"no"} \cup Full
  BY DEF IInv
<1> QED
  BY <1>1, Invariance, PTL

=============================================================================
