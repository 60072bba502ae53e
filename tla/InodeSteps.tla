----------------------------- MODULE InodeSteps -----------------------------
(***************************************************************************)
(* What the steps of Inode preserve, for any number of processes, names,   *)
(* inodes and slots of the cache: the reference counts, the link counts,   *)
(* the locks, and the agreement of cache and disk.                         *)
(***************************************************************************)
EXTENDS Inode, TLAPS

\* The labels of a process, and those of create.
Labels   == HasIp \cup Putting \cup {"user", "ialloc", "ialloced"}
Creating == {"ialloc", "ialloced", "created"}

\* The types that no count has a part in: a count is an integer.
Dinodes == [type : {0, T_FILE}, nlink : Int]
Cached  == [inum : Inums \cup {None}, ref : Int, valid : BOOLEAN, type : {0, T_FILE}, nlink : Int]
Typed ==
  /\ dinode \in [Inums -> Dinodes]
  /\ dir \in [Names -> Inums \cup {None}]
  /\ dirlock \in Procs \cup {Nobody}
  /\ icache \in [Slots -> Cached]
  /\ lock \in [Slots -> Procs \cup {Nobody}]
  /\ file \in [Procs -> Slots \cup {None}]
  /\ pc \in [Procs -> Labels]
  /\ name \in [Procs -> Names]
  /\ ip \in [Procs -> Nat]
  /\ put \in [Procs -> Slots \cup {None}]
  /\ back \in [Procs -> {"user", "taken"}]
  /\ raced \subseteq Inums

\* A reference is to a slot, and a process that opens a file has none open.
RefersTo(p) ==
  /\ KeepsIp(p) => ip[p] \in Slots
  /\ pc[p] = "ialloced" => ip[p] \in Inums
  /\ pc[p] \in Putting => put[p] \in Slots
  /\ pc[p] \in Creating \cup {"open"} => file[p] = None

\* References are counted, and an inode has one slot.
Counted ==
  /\ \A p \in Procs : RefersTo(p)
  /\ \A s \in Slots : icache[s].ref = Refs(s)
  /\ \A s \in Slots : icache[s].ref > 0 => icache[s].inum \in Inums
  /\ \A s, t \in Slots :
       icache[s].ref > 0 /\ icache[t].ref > 0 /\ icache[s].inum = icache[t].inum => s = t

-----------------------------------------------------------------------------
\* What the proofs use of cardinalities and of least elements.  InodeProofs proves it from
\* the library's theorems about finite sets, which the proofs of the steps do without.
EmptyLaw == IsFiniteSet({}) /\ Cardinality({}) = 0
CardLaw ==
  \A S : IsFiniteSet(S) => Cardinality(S) \in Nat /\ (Cardinality(S) = 0 <=> S = {})
SingleLaw == \A S : IsFiniteSet(S) => (Cardinality(S) = 1 <=> \E x : S = {x})
SubsetLaw == \A T : IsFiniteSet(T) => \A S : S \subseteq T => IsFiniteSet(S)
ElementLaw ==
  \A S, x : IsFiniteSet(S) => /\ x \notin S => Cardinality(S \cup {x}) = Cardinality(S) + 1
                              /\ x \in S => Cardinality(S \ {x}) = Cardinality(S) - 1
LeastLaw == \A S \in SUBSET Nat : S # {} => Min(S) \in S
CountLaws == EmptyLaw /\ CardLaw /\ SingleLaw /\ SubsetLaw /\ ElementLaw /\ LeastLaw

LEMMA FiniteSubset ==
  ASSUME CountLaws, NEW T, IsFiniteSet(T)
  PROVE  \A S : S \subseteq T => IsFiniteSet(S)
  BY Zenon DEF CountLaws, SubsetLaw

LEMMA CardOf ==
  ASSUME CountLaws
  PROVE  /\ \A S : IsFiniteSet(S) => Cardinality(S) \in Nat /\ (Cardinality(S) = 0 <=> S = {})
         /\ IsFiniteSet({}) /\ Cardinality({}) = 0
  BY Zenon DEF CountLaws, EmptyLaw, CardLaw

LEMMA MinIn ==
  ASSUME CountLaws, NEW S \in SUBSET Nat, S # {}
  PROVE  Min(S) \in S
  BY Zenon DEF CountLaws, LeastLaw

\* The slot of iget has the inode, or else is free.
LEMMA SlotIs ==
  ASSUME CountLaws, NEW i, CanGet(i)
  PROVE  Slot(i) \in Slots /\ Slot(i) \in (IF Hits(i) # {} THEN Hits(i) ELSE Free)
<1> DEFINE S == IF Hits(i) # {} THEN Hits(i) ELSE Free
<1>1. S \subseteq Slots /\ S # {}
  BY Zenon DEF CanGet, Hits, Free
<1>2. S \in SUBSET Nat
  BY <1>1, InodeAssumption DEF Slots
<1>3. Min(S) \in S
  BY Zenon, <1>1, <1>2, MinIn
<1> QED
  BY Zenon, <1>1, <1>3 DEF Slot

\* A set that a step changes by at most p grows or shrinks by one.
One(b) == IF b THEN 1 ELSE 0

LEMMA CountStep ==
  ASSUME CountLaws, NEW A, NEW B, IsFiniteSet(A), NEW p, \A q : q # p => (q \in A <=> q \in B)
  PROVE  /\ Cardinality(A) \in Nat /\ Cardinality(B) \in Nat
         /\ Cardinality(B) = Cardinality(A) - One(p \in A) + One(p \in B)
<1>1. CASE p \in A /\ p \notin B
  <2>1. B = A \ {p}
    BY Zenon, <1>1
  <2> QED
    BY <1>1, <2>1 DEF CountLaws, CardLaw, ElementLaw, One
<1>2. CASE p \notin A /\ p \in B
  <2>1. B = A \cup {p}
    BY Zenon, <1>2
  <2> QED
    BY <1>2, <2>1 DEF CountLaws, CardLaw, ElementLaw, One
<1>3. CASE p \in A <=> p \in B
  <2>1. A = B
    BY <1>3
  <2> QED
    BY <2>1 DEF CountLaws, CardLaw, ElementLaw, One
<1> QED
  BY Zenon, <1>1, <1>2, <1>3

-----------------------------------------------------------------------------
\* No slot and no inode is 0, and the counts are integers.
LEMMA NoneApart == None \notin Slots /\ None \notin Inums
  BY DEF None, Slots, Inums

LEMMA CountsInt ==
  ASSUME Typed
  PROVE  \A s \in Slots : icache[s] \in Cached /\ icache[s].ref \in Int /\ icache[s].nlink \in Int
  BY Zenon DEF Typed, Cached

\* A step of p leaves the variables of the other processes alone.
Frame(p) ==
  \A q \in Procs : q # p =>
    /\ file'[q] = file[q] /\ pc'[q] = pc[q] /\ name'[q] = name[q]
    /\ ip'[q] = ip[q] /\ put'[q] = put[q] /\ back'[q] = back[q]

LEMMA StepFrame ==
  ASSUME Typed, NEW p \in Procs, Step(p)
  PROVE  Frame(p)
<1> USE DEF Typed, Frame, Goto, Put, Panic, namei, ilock, SetLinks, call
<1>1. CASE Open(p) \/ sys_open(p) \/ Missing(p)
  BY Zenon, <1>1 DEF Open, sys_open, Missing, vars
<1>2. CASE create(p) \/ ialloc(p) \/ ialloced(p) \/ created(p)
  BY Zenon, <1>2 DEF create, ialloc, ialloced, created
<1>3. CASE Link(p)
  <2>1. /\ pc' = [pc EXCEPT ![p] = "link"] \/ pc' = pc
        /\ UNCHANGED <<file, put, back>>
        /\ ip' = ip \/ \E s : ip' = [ip EXCEPT ![p] = s]
        /\ \E n : name' = [name EXCEPT ![p] = n]
    BY Zenon, <1>3 DEF Link
  <2> QED
    BY Zenon, <2>1
<1>4. CASE sys_link(p) \/ taken(p) \/ bad(p)
  BY Zenon, <1>4 DEF sys_link, taken, bad
<1>8. CASE dirlink(p)
  BY Zenon, <1>8 DEF dirlink
<1>5. CASE Unlink(p) \/ sys_unlink(p) \/ unlinked(p)
  BY Zenon, <1>5 DEF Unlink, sys_unlink, unlinked
<1>6. CASE fileread(p) \/ fileclose(p)
  BY Zenon, <1>6 DEF fileread, fileclose
<1>7. CASE iput(p) \/ itrunc(p) \/ freed(p) \/ drop(p)
  BY Zenon, <1>7 DEF iput, itrunc, freed, drop
<1> QED
  BY Zenon, <1>1, <1>2, <1>3, <1>4, <1>5, <1>6, <1>7, <1>8 DEF Step

\* The references p has to slot s; by where it is.
Own(p, s) ==
  One(file[p] = s) + One(KeepsIp(p) /\ ip[p] = s) + One(pc[p] \in Putting /\ put[p] = s)

LEMMA RefsStep ==
  ASSUME CountLaws, NEW p \in Procs, Frame(p), NEW s
  PROVE  /\ Refs(s) \in Nat /\ Own(p, s) \in Nat
         /\ Refs(s)' = Refs(s) - Own(p, s) + Own(p, s)'
<1> DEFINE Same(A, B) == \A q : q # p => (q \in A <=> q \in B)
<1>1. Same(Opens(s), Opens(s)')
  BY Zenon DEF Frame, Opens
<1>2. Same(Walks(s), Walks(s)')
  BY Zenon DEF Frame, Walks, KeepsIp
<1>3. Same(Puts(s), Puts(s)')
  BY Zenon DEF Frame, Puts
<1>4. IsFiniteSet(Opens(s)) /\ IsFiniteSet(Walks(s)) /\ IsFiniteSet(Puts(s))
  <2>1. Opens(s) \subseteq Procs /\ Walks(s) \subseteq Procs /\ Puts(s) \subseteq Procs
    BY Zenon DEF Opens, Walks, Puts
  <2> QED
    BY Zenon, <2>1, FiniteSubset, InodeAssumption
<1>5. /\ p \in Opens(s) <=> file[p] = s
      /\ p \in Walks(s) <=> KeepsIp(p) /\ ip[p] = s
      /\ p \in Puts(s) <=> pc[p] \in Putting /\ put[p] = s
  BY Zenon DEF Opens, Walks, Puts
<1>6. /\ p \in Opens(s)' <=> (file[p] = s)'
      /\ p \in Walks(s)' <=> (KeepsIp(p) /\ ip[p] = s)'
      /\ p \in Puts(s)' <=> (pc[p] \in Putting /\ put[p] = s)'
  BY Zenon DEF Opens, Walks, Puts
<1> DEFINE a == Cardinality(Opens(s))
           b == Cardinality(Walks(s))
           c == Cardinality(Puts(s))
<1>7. a \in Nat /\ a' \in Nat /\ a' = a - One(file[p] = s) + One((file[p] = s)')
  BY <1>1, <1>4, <1>5, <1>6, CountStep DEF One
<1>8. b \in Nat /\ b' \in Nat
      /\ b' = b - One(KeepsIp(p) /\ ip[p] = s) + One((KeepsIp(p) /\ ip[p] = s)')
  BY <1>2, <1>4, <1>5, <1>6, CountStep DEF One
<1>9. c \in Nat /\ c' \in Nat
      /\ c' = c - One(pc[p] \in Putting /\ put[p] = s) + One((pc[p] \in Putting /\ put[p] = s)')
  BY <1>3, <1>4, <1>5, <1>6, CountStep DEF One
<1>10. Refs(s) = a + b + c /\ Refs(s)' = a' + b' + c'
  BY Zenon DEF Refs
<1> HIDE DEF a, b, c
<1> QED
  BY <1>7, <1>8, <1>9, <1>10 DEF Own, One

\* A reference that p moves from one variable to another is still one of its own.
LEMMA WalkToPut ==
  ASSUME NEW p, KeepsIp(p), pc[p] \notin Putting, ~KeepsIp(p)', pc'[p] \in Putting,
         put'[p] = ip[p], file'[p] = file[p]
  PROVE  \A s : Own(p, s)' = Own(p, s)
<1> TAKE s
<1>1. Own(p, s) = One(file[p] = s) + One(ip[p] = s) + 0
  BY Zenon DEF Own, One
<1>2. Own(p, s)' = One(file[p] = s) + 0 + One(ip[p] = s)
  BY Zenon DEF Own, One
<1>3. One(file[p] = s) \in Nat /\ One(ip[p] = s) \in Nat
  BY Zenon DEF One
<1> QED
  BY <1>1, <1>2, <1>3

LEMMA FileToPut ==
  ASSUME NEW p, ~KeepsIp(p), pc[p] \notin Putting, ~KeepsIp(p)', pc'[p] \in Putting,
         put'[p] = file[p], file'[p] = None
  PROVE  \A s \in Slots : Own(p, s)' = Own(p, s)
<1> TAKE s \in Slots
<1>1. Own(p, s) = One(file[p] = s) + 0 + 0
  BY Zenon DEF Own, One
<1>2. Own(p, s)' = 0 + 0 + One(file[p] = s)
  BY Zenon, NoneApart DEF Own, One
<1>3. One(file[p] = s) \in Nat
  BY Zenon DEF One
<1> QED
  BY <1>1, <1>2, <1>3

LEMMA WalkToFile ==
  ASSUME NEW p, KeepsIp(p), pc[p] \notin Putting, ~KeepsIp(p)', pc'[p] \notin Putting,
         file[p] = None, file'[p] = ip[p]
  PROVE  \A s \in Slots : Own(p, s)' = Own(p, s)
<1> TAKE s \in Slots
<1>1. Own(p, s) = 0 + One(ip[p] = s) + 0
  BY Zenon, NoneApart DEF Own, One
<1>2. Own(p, s)' = One(ip[p] = s) + 0 + 0
  BY Zenon DEF Own, One
<1>3. One(ip[p] = s) \in Nat
  BY Zenon DEF One
<1> QED
  BY <1>1, <1>2, <1>3

-----------------------------------------------------------------------------
\* The three sets of references are finite, and empty when their cardinality is 0.
LEMMA RefsFinite ==
  ASSUME CountLaws, NEW s
  PROVE  /\ IsFiniteSet(Opens(s)) /\ IsFiniteSet(Walks(s)) /\ IsFiniteSet(Puts(s))
         /\ Cardinality(Opens(s)) \in Nat /\ (Cardinality(Opens(s)) = 0 <=> Opens(s) = {})
         /\ Cardinality(Walks(s)) \in Nat /\ (Cardinality(Walks(s)) = 0 <=> Walks(s) = {})
         /\ Cardinality(Puts(s)) \in Nat /\ (Cardinality(Puts(s)) = 0 <=> Puts(s) = {})
<1>1. Opens(s) \subseteq Procs /\ Walks(s) \subseteq Procs /\ Puts(s) \subseteq Procs
  BY Zenon DEF Opens, Walks, Puts
<1>2. IsFiniteSet(Opens(s)) /\ IsFiniteSet(Walks(s)) /\ IsFiniteSet(Puts(s))
  BY Zenon, <1>1, FiniteSubset, InodeAssumption
<1> QED
  BY Zenon, <1>2, CardOf

\* A slot that somebody refers to is in use.
LEMMA InUse ==
  ASSUME CountLaws, Typed, Counted, NEW p \in Procs
  PROVE  /\ file[p] # None => file[p] \in Slots /\ icache[file[p]].ref > 0
         /\ KeepsIp(p) => ip[p] \in Slots /\ icache[ip[p]].ref > 0
         /\ pc[p] \in Putting => put[p] \in Slots /\ icache[put[p]].ref > 0
<1>1. \A s \in Slots : icache[s].ref = Refs(s)
  BY Zenon DEF Counted
<1>2. ASSUME NEW s \in Slots, p \in Opens(s) \/ p \in Walks(s) \/ p \in Puts(s)
      PROVE  icache[s].ref > 0
  BY <1>1, <1>2, RefsFinite DEF Refs
<1>3. file[p] # None => file[p] \in Slots /\ p \in Opens(file[p])
  BY Zenon DEF Typed, Opens
<1>4. KeepsIp(p) => ip[p] \in Slots /\ p \in Walks(ip[p])
  BY Zenon DEF Counted, RefersTo, Walks
<1>5. pc[p] \in Putting => put[p] \in Slots /\ p \in Puts(put[p])
  BY Zenon DEF Counted, RefersTo, Puts
<1> QED
  BY Zenon, <1>2, <1>3, <1>4, <1>5

\* A process that puts the only reference to a slot is alone with it.
LEMMA SoleReference ==
  ASSUME CountLaws, Counted, NEW s \in Slots, icache[s].ref = 1,
         NEW p \in Procs, pc[p] \in Putting, put[p] = s
  PROVE  \A q \in Procs : /\ file[q] # s /\ ~(KeepsIp(q) /\ ip[q] = s)
                          /\ pc[q] \in Putting /\ put[q] = s => q = p
<1>1. Refs(s) = 1
  BY Zenon DEF Counted
<1>2. p \in Puts(s)
  BY Zenon DEF Puts
<1>3. Puts(s) # {} /\ Cardinality(Puts(s)) = 1 /\ Opens(s) = {} /\ Walks(s) = {}
  BY <1>1, <1>2, RefsFinite DEF Refs
<1>4. Puts(s) = {p}
  <2>1. \E x : Puts(s) = {x}
    BY Zenon, <1>3, RefsFinite DEF CountLaws, SingleLaw
  <2> QED
    BY Zenon, <1>2, <2>1
<1>5. \A q \in Procs : file[q] # s /\ ~(KeepsIp(q) /\ ip[q] = s)
  BY Zenon, <1>3 DEF Opens, Walks
<1>6. \A q \in Procs : pc[q] \in Putting /\ put[q] = s => q = p
  BY Zenon, <1>4 DEF Puts
<1> QED
  BY Zenon, <1>5, <1>6

\* A process that puts a reference that is not the only one is not alone.
LEMMA OtherReference ==
  ASSUME CountLaws, Counted, NEW s \in Slots, icache[s].ref # 1,
         NEW p \in Procs, pc[p] \in Putting, put[p] = s
  PROVE  \E q \in Procs : \/ file[q] = s \/ (KeepsIp(q) /\ ip[q] = s)
                          \/ q # p /\ pc[q] \in Putting /\ put[q] = s
<1> SUFFICES ASSUME \A q \in Procs : /\ file[q] # s /\ ~(KeepsIp(q) /\ ip[q] = s)
                                     /\ pc[q] \in Putting /\ put[q] = s => q = p
             PROVE  FALSE
  BY Zenon
<1>1. Opens(s) = {} /\ Walks(s) = {}
  BY Zenon DEF Opens, Walks
<1>2. Puts(s) = {p}
  BY Zenon DEF Puts
<1>3. Cardinality(Opens(s)) = 0 /\ Cardinality(Walks(s)) = 0 /\ Cardinality(Puts(s)) = 1
  <2>1. IsFiniteSet(Puts(s)) /\ \E x : Puts(s) = {x}
    BY Zenon, <1>2, RefsFinite
  <2> QED
    BY Zenon, <1>1, <2>1, CardOf DEF CountLaws, SingleLaw
<1>4. Refs(s) = 1
  BY <1>3 DEF Refs
<1> QED
  BY Zenon, <1>4 DEF Counted

-----------------------------------------------------------------------------
\* What a slot holds besides the number of its inode and of its references.
Content(r) == <<r.valid, r.type, r.nlink>>

\* iget leaves inode i with one more reference in slot s, which is the slot it has or a
\* free one; what a slot in use holds stays.
Got(i, s) ==
  /\ s \in Slots /\ icache' \in [Slots -> Cached]
  /\ \A t \in Slots : t # s => icache'[t] = icache[t]
  /\ icache'[s].inum = i /\ icache'[s].ref = icache[s].ref + 1
  /\ icache[s].ref > 0 => icache[s].inum = i /\ Content(icache'[s]) = Content(icache[s])
  /\ icache[s].ref <= 0 => ~icache'[s].valid /\ \A t \in Slots : icache[t].ref > 0 => icache[t].inum # i

LEMMA IgetIs ==
  ASSUME CountLaws, Typed, NEW i \in Inums, CanGet(i), icache' = iget(i)
  PROVE  Got(i, Slot(i))
<1> DEFINE s == Slot(i)
<1>1. s \in Slots /\ icache \in [Slots -> Cached] /\ icache[s] \in Cached /\ icache[s].ref \in Int
  BY Zenon, SlotIs DEF Typed, Cached
<1>2. CASE Hits(i) # {}
  <2>1. icache[s].inum = i /\ icache[s].ref > 0
    BY Zenon, <1>2, SlotIs DEF Hits
  <2> DEFINE r == [icache[s] EXCEPT !.ref = icache[s].ref + 1]
  <2>2. r \in Cached /\ r.inum = i /\ r.ref = icache[s].ref + 1 /\ Content(r) = Content(icache[s])
    BY <1>1, <2>1 DEF Cached, Content
  <2>3. icache' = [icache EXCEPT ![s] = r]
    BY Zenon, <1>2 DEF iget
  <2> HIDE DEF r, s
  <2> QED
    BY <1>1, <2>1, <2>2, <2>3 DEF Got, s
<1>3. CASE Hits(i) = {}
  <2>1. icache[s].ref = 0
    BY Zenon, <1>3, SlotIs DEF Free
  <2> DEFINE r == [icache[s] EXCEPT !.inum = i, !.ref = 1, !.valid = FALSE]
  <2>2. 1 \in Int /\ i \in Inums \cup {None} /\ 1 = icache[s].ref + 1
    BY <2>1
  <2>6. r \in Cached /\ r.inum = i /\ r.ref = 1 /\ r.valid = FALSE
    BY Zenon, <1>1, <2>2 DEF Cached
  <2>3. icache' = [icache EXCEPT ![s] = r]
    BY Zenon, <1>3 DEF iget
  <2>4. \A t \in Slots : icache[t].ref > 0 => icache[t].inum # i
    BY Zenon, <1>3 DEF Hits
  <2> HIDE DEF r, s
  <2> QED
    BY <1>1, <2>1, <2>2, <2>6, <2>3, <2>4 DEF Got, s
<1> QED
  BY Zenon, <1>2, <1>3

\* ilock fills slot s in and leaves the rest; so does a change of its contents.
Filled(s) ==
  /\ icache' \in [Slots -> Cached]
  /\ \A t \in Slots : t # s => icache'[t] = icache[t]
  /\ icache'[s].inum = icache[s].inum /\ icache'[s].ref = icache[s].ref

LEMMA LockedIs ==
  ASSUME Typed, NEW s \in Slots, icache[s].inum \in Inums
  PROVE  /\ Locked(s) \in Cached /\ Locked(s).valid
         /\ Locked(s).inum = icache[s].inum /\ Locked(s).ref = icache[s].ref
         /\ icache[s].valid => Locked(s) = icache[s]
         /\ ~icache[s].valid => [type |-> Locked(s).type, nlink |-> Locked(s).nlink]
                                  = dinode[icache[s].inum]
<1>1. icache[s] \in Cached /\ dinode[icache[s].inum] \in Dinodes
  BY Zenon DEF Typed
<1> QED
  BY Zenon, <1>1 DEF Locked, Cached, Dinodes

-----------------------------------------------------------------------------
\* The counts stay right when the references of p change as the count of the slot does and
\* no slot takes up another inode ...
LEMMA KeptCounts ==
  ASSUME CountLaws, Typed, Counted, icache' \in [Slots -> Cached], NEW p \in Procs, Frame(p), RefersTo(p)',
         \A s \in Slots : icache'[s].inum = icache[s].inum /\ icache'[s].ref <= icache[s].ref,
         \A s \in Slots : icache'[s].ref = icache[s].ref - Own(p, s) + Own(p, s)'
  PROVE  Counted'
<1>1. \A q \in Procs : RefersTo(q)'
  <2>1. \A q \in Procs : q # p => RefersTo(q)'
    BY DEF Counted, Frame, RefersTo, KeepsIp
  <2> QED
    BY Zenon, <2>1
<1>2. \A s \in Slots : icache'[s].ref = Refs(s)'
  BY Zenon, RefsStep DEF Counted
<1>3. \A s \in Slots : icache[s].ref \in Int /\ icache'[s].ref \in Int
  BY Zenon, CountsInt DEF Cached
<1> QED
  BY <1>1, <1>2, <1>3 DEF Counted

\* ... and when it gets a reference from iget.
LEMMA GotCounts ==
  ASSUME CountLaws, Typed, Counted, NEW p \in Procs, Frame(p), RefersTo(p)', NEW i \in Inums, NEW s, Got(i, s),
         \A t \in Slots : Own(p, t)' = Own(p, t) + One(t = s)
  PROVE  Counted'
<1>1. \A q \in Procs : RefersTo(q)'
  <2>1. \A q \in Procs : q # p => RefersTo(q)'
    BY Zenon DEF Counted, Frame, RefersTo, KeepsIp
  <2> QED
    BY Zenon, <2>1
<1>2. \A t \in Slots : icache[t].ref \in Int /\ icache'[t].ref \in Int
  BY Zenon DEF Typed, Cached, Got
<1>3. \A t \in Slots : icache'[t].ref = icache[t].ref + One(t = s)
  BY <1>2 DEF Got, One
<1>4. \A t \in Slots : icache'[t].ref = Refs(t)'
  <2> TAKE t \in Slots
  <2>1. icache[t].ref = Refs(t)
    BY Zenon DEF Counted
  <2>2. Own(p, t) \in Nat /\ One(t = s) \in Nat
    BY Zenon, RefsStep DEF One
  <2> QED
    BY <1>3, <2>1, <2>2, RefsStep
<1>5. \A t \in Slots : icache'[t].ref > 0 => icache'[t].inum \in Inums
  BY Zenon DEF Counted, Got
<1>6. ASSUME NEW t \in Slots, icache'[t].ref > 0, t # s PROVE icache'[t].inum # i
  <2>1. icache[t].ref > 0 /\ icache'[t].inum = icache[t].inum
    BY Zenon, <1>6 DEF Got
  <2>2. CASE icache[s].ref > 0
    BY Zenon, <1>6, <2>1, <2>2 DEF Got, Counted
  <2>3. CASE icache[s].ref <= 0
    BY Zenon, <1>6, <2>1, <2>3 DEF Got
  <2>4. s \in Slots
    BY Zenon DEF Got
  <2> QED
    BY <1>2, <2>2, <2>3, <2>4
<1>7. ASSUME NEW t \in Slots, NEW u \in Slots, t # s, u # s,
             icache'[t].ref > 0, icache'[u].ref > 0, icache'[t].inum = icache'[u].inum
      PROVE  t = u
  BY Zenon, <1>7 DEF Got, Counted
<1>8. icache'[s].inum = i /\ s \in Slots
  BY Zenon DEF Got
<1>9. \A t, u \in Slots :
        icache'[t].ref > 0 /\ icache'[u].ref > 0 /\ icache'[t].inum = icache'[u].inum => t = u
  BY Zenon, <1>6, <1>7, <1>8
<1> QED
  BY Zenon, <1>1, <1>4, <1>5, <1>9 DEF Counted

\* A step that does not panic.
Goes(p) == Step(p) /\ panicked = "no" /\ panicked' = "no"

\* The steps that get a reference: open, link and unlink of a name that is there, ...
LEMMA NameiTyped ==
  ASSUME CountLaws, Typed, Counted, NEW p \in Procs, Goes(p), Open(p) \/ Link(p) \/ Unlink(p)
  PROVE  Typed' /\ Counted'
<1>0. Frame(p)
  BY Zenon, StepFrame DEF Goes
<1>1. PICK n \in Names :
        /\ dir[n] \in Inums /\ CanGet(dir[n]) /\ icache' = iget(dir[n]) /\ pc[p] = "user"
        /\ ip' = [ip EXCEPT ![p] = Slot(dir[n])]
        /\ \E l \in {"open", "link", "unlink"} : Goto(p, l) /\ (l = "open" => file[p] = None)
        /\ name' = name \/ \E m \in Names : name' = [name EXCEPT ![p] = m]
        /\ dirlock' \in {dirlock, p}
        /\ UNCHANGED <<dinode, dir, lock, file, put, back, raced>>
  BY Zenon DEF Open, Link, Unlink, namei, Panic, Goes, Typed
<1> DEFINE s == Slot(dir[n])
<1>2. Got(dir[n], s)
  BY <1>1, IgetIs
<1> HIDE DEF s
<1>3. s \in Slots /\ s \in Nat /\ icache' \in [Slots -> Cached]
  BY <1>2, InodeAssumption DEF Got, Slots
<1>4. ip' = [ip EXCEPT ![p] = s]
  BY Zenon, <1>1 DEF s
<1>5. Typed'
  BY <1>1, <1>3, <1>4 DEF Typed, Goto, Labels, HasIp
<1>6. pc'[p] \in {"open", "link", "unlink"} /\ ip'[p] = s /\ UNCHANGED <<file, put, back>>
      /\ (pc'[p] = "open" => file[p] = None)
  BY Zenon, <1>1, <1>4 DEF Typed, Goto
<1>7. RefersTo(p)'
  BY Zenon, <1>3, <1>6 DEF RefersTo, KeepsIp, HasIp, Putting, Creating
<1>8. \A t \in Slots : Own(p, t)' = Own(p, t) + One(t = s)
  BY <1>1, <1>6 DEF Own, One, KeepsIp, HasIp, Putting
<1> QED
  BY <1>0, <1>1, <1>2, <1>5, <1>7, <1>8, GotCounts

\* ... the end of ialloc, and the look for the new name in dirlink.
LEMMA IgetTyped ==
  ASSUME CountLaws, Typed, Counted, NEW p \in Procs, Goes(p),
         ialloced(p) \/ (dirlink(p) /\ dir[name[p]] # None)
  PROVE  Typed' /\ Counted'
<1>0. Frame(p)
  BY Zenon, StepFrame DEF Goes
<1>1. CASE ialloced(p)
  <2>1. /\ pc[p] = "ialloced" /\ CanGet(ip[p]) /\ icache' = iget(ip[p])
        /\ ip' = [ip EXCEPT ![p] = Slot(ip[p])] /\ Goto(p, "created")
        /\ UNCHANGED <<dinode, dir, dirlock, lock, file, name, put, back, raced>>
    BY Zenon, <1>1 DEF ialloced, Panic, Goes
  <2>2. ip[p] \in Inums /\ file[p] = None
    BY Zenon, <2>1 DEF Counted, RefersTo, Creating
  <2> DEFINE s == Slot(ip[p])
  <2>3. Got(ip[p], s)
    BY Zenon, <2>1, <2>2, IgetIs
  <2>4. ip' = [ip EXCEPT ![p] = s]
    BY Zenon, <2>1
  <2> HIDE DEF s
  <2>5. s \in Slots /\ s \in Nat /\ icache' \in [Slots -> Cached]
    BY <2>3, InodeAssumption DEF Got, Slots
  <2>6. Typed'
    BY <2>1, <2>4, <2>5 DEF Typed, Goto, Labels, HasIp
  <2>7. pc'[p] = "created" /\ ip'[p] = s /\ UNCHANGED <<file, put, back>>
    BY Zenon, <2>1, <2>4 DEF Typed, Goto
  <2>8. RefersTo(p)'
    BY Zenon, <2>2, <2>5, <2>7 DEF RefersTo, KeepsIp, HasIp, Putting
  <2>9. \A t \in Slots : Own(p, t)' = Own(p, t) + One(t = s)
    BY <2>1, <2>7 DEF Own, One, KeepsIp, HasIp, Putting
  <2> QED
    BY Zenon, <1>0, <2>2, <2>3, <2>6, <2>8, <2>9, GotCounts
<1>2. CASE dirlink(p) /\ dir[name[p]] # None
  <2> DEFINE i == dir[name[p]]
             s == Slot(i)
  <2>1. /\ pc[p] = "dirlink" /\ CanGet(i) /\ icache' = iget(i) /\ dirlock' = p
        /\ Put(p, s, "taken")
        /\ UNCHANGED <<dinode, dir, lock, file, name, ip, raced>>
    BY Zenon, <1>2 DEF dirlink, Panic, Goes
  <2>2. i \in Inums /\ ip[p] \in Slots
    BY Zenon, <1>2, <2>1 DEF Typed, Counted, RefersTo, KeepsIp, HasIp
  <2>3. Got(i, s)
    BY Zenon, <2>1, <2>2, IgetIs
  <2> HIDE DEF i, s
  <2>5. s \in Slots /\ s \in Nat /\ icache' \in [Slots -> Cached]
    BY <2>3, InodeAssumption DEF Got, Slots
  <2>6. Typed'
    BY Zenon, <2>1, <2>5 DEF Typed, Goto, Labels, Putting, Put
  <2>7. pc'[p] = "iput" /\ put'[p] = s /\ back'[p] = "taken" /\ UNCHANGED <<file, ip>>
    BY Zenon, <2>1 DEF Typed, Goto, Put
  <2>8. RefersTo(p)'
    BY Zenon, <2>2, <2>5, <2>7 DEF RefersTo, KeepsIp, HasIp, Putting, Creating
  <2>9. \A t \in Slots : Own(p, t)' = Own(p, t) + One(t = s)
    BY <2>1, <2>7 DEF Own, One, KeepsIp, HasIp, Putting
  <2> QED
    BY Zenon, <1>0, <2>2, <2>3, <2>6, <2>8, <2>9, GotCounts
<1> QED
  BY Zenon, <1>1, <1>2

-----------------------------------------------------------------------------
\* The inode that a slot of a reference has.
LEMMA SlotInode ==
  ASSUME Typed, Counted, NEW s \in Slots, icache[s].ref > 0
  PROVE  icache[s].inum \in Inums
  BY Zenon DEF Counted

LEMMA LockedFills ==
  ASSUME Typed, Counted, NEW s \in Slots, icache[s].ref > 0, icache' = [icache EXCEPT ![s] = Locked(s)]
  PROVE  Filled(s) /\ icache'[s] = Locked(s)
<1> DEFINE r == Locked(s)
<1>1. r \in Cached /\ r.inum = icache[s].inum /\ r.ref = icache[s].ref
  BY Zenon, LockedIs, SlotInode
<1> HIDE DEF r
<1> QED
  BY Zenon, <1>1 DEF Typed, Filled, r

\* A change of the links fills the slot in and changes the disk.
LEMMA LinksFill ==
  ASSUME Typed, Counted, NEW s \in Slots, icache[s].ref > 0, NEW n \in Int, SetLinks(s, n)
  PROVE  /\ Filled(s) /\ dinode' \in [Inums -> Dinodes]
         /\ icache'[s].valid /\ icache'[s].type = Locked(s).type /\ icache'[s].nlink = n
         /\ dinode'[icache[s].inum] = [type |-> Locked(s).type, nlink |-> n]
         /\ \A i \in Inums : i # icache[s].inum => dinode'[i] = dinode[i]
<1> DEFINE l == Locked(s)
           r == [l EXCEPT !.nlink = n]
           d == [type |-> l.type, nlink |-> n]
<1>1. l \in Cached /\ l.inum = icache[s].inum /\ l.ref = icache[s].ref /\ l.valid
      /\ icache[s].inum \in Inums
  BY Zenon, LockedIs, SlotInode
<1>2. icache' = [icache EXCEPT ![s] = r] /\ dinode' = [dinode EXCEPT ![icache[s].inum] = d]
  BY Zenon DEF SetLinks
<1> HIDE DEF l
<1>3. r \in Cached /\ r.inum = l.inum /\ r.ref = l.ref /\ r.valid = l.valid
      /\ r.type = l.type /\ r.nlink = n
  BY Zenon, <1>1 DEF Cached
<1>4. d \in Dinodes
  BY Zenon, <1>1 DEF Cached, Dinodes
<1> HIDE DEF r, d
<1>5. Filled(s) /\ icache'[s] = r
  BY Zenon, <1>1, <1>2, <1>3 DEF Typed, Filled
<1>6. dinode' \in [Inums -> Dinodes] /\ dinode'[icache[s].inum] = d
      /\ \A i \in Inums : i # icache[s].inum => dinode'[i] = dinode[i]
  BY Zenon, <1>1, <1>2, <1>4 DEF Typed
<1> QED
  BY Zenon, <1>1, <1>3, <1>5, <1>6 DEF d, l

\* The steps that leave the cache alone.
LEMMA QuietTyped ==
  ASSUME CountLaws, Typed, Counted, NEW p \in Procs, Goes(p),
         \/ Missing(p) \/ create(p) \/ ialloc(p) \/ taken(p) \/ fileclose(p) \/ iput(p)
         \/ dirlink(p) /\ dir[name[p]] = None
  PROVE  Typed' /\ Counted' /\ icache' = icache
<1>0. Frame(p) /\ RefersTo(p)
  BY Zenon, StepFrame DEF Goes, Counted
<1>1. icache' = icache
  BY Zenon DEF Missing, create, ialloc, taken, fileclose, iput, dirlink, Panic, vars
<1>2. icache' \in [Slots -> Cached]
      /\ \A s \in Slots : icache'[s].inum = icache[s].inum /\ icache'[s].ref <= icache[s].ref
  BY <1>1 DEF Typed, Cached
<1> SUFFICES Typed' /\ RefersTo(p)' /\ \A s \in Slots : Own(p, s)' = Own(p, s)
  <2>1. \A s \in Slots : icache[s].ref \in Int /\ Own(p, s) \in Nat
    BY Zenon, <1>0, RefsStep, CountsInt
  <2> QED
    BY <1>0, <1>1, <1>2, <2>1, KeptCounts
<1> USE DEF Goto, Put, call
<1>3. CASE Missing(p)
  BY Zenon, <1>0, <1>3 DEF Missing, vars, Typed, RefersTo, KeepsIp, Own
<1>4. CASE create(p)
  <2>1. Typed'
    BY <1>4, InodeAssumption DEF create, Typed, Labels
  <2>2. pc[p] = "user" /\ pc'[p] = "ialloc" /\ file[p] = None /\ UNCHANGED <<file, put>>
    BY Zenon, <1>4 DEF create, Typed
  <2> QED
    BY Zenon, <2>1, <2>2 DEF RefersTo, KeepsIp, Own, HasIp, Putting, Creating
<1>5. CASE ialloc(p)
  <2>1. ip[p] \in Inums
    BY Zenon, <1>5 DEF ialloc, Panic, Goes
  <2>2. Typed'
    <3>1. ip[p] + 1 \in Nat /\ [type |-> T_FILE, nlink |-> 0] \in Dinodes
      BY <2>1 DEF Typed, Dinodes
    <3> QED
      BY <1>5, <2>1, <3>1 DEF ialloc, Typed, Labels
  <2>3. /\ pc[p] = "ialloc" /\ UNCHANGED <<file, put>>
        /\ pc'[p] = "ialloc" \/ (pc'[p] = "ialloced" /\ ip'[p] = ip[p])
    BY Zenon, <1>5, <2>1 DEF ialloc, Typed
  <2> QED
    BY Zenon, <1>0, <2>1, <2>2, <2>3 DEF RefersTo, KeepsIp, Own, HasIp, Putting, Creating
<1>6. CASE taken(p)
  <2>1. Typed'
    BY Zenon, <1>6 DEF taken, Typed, Labels, HasIp
  <2>2. pc[p] = "taken" /\ pc'[p] = "bad" /\ UNCHANGED <<file, put, ip>>
    BY Zenon, <1>6 DEF taken, Typed
  <2> QED
    BY Zenon, <1>0, <2>1, <2>2 DEF RefersTo, KeepsIp, Own, HasIp, Putting, Creating
<1>7. CASE fileclose(p)
  <2>1. Typed'
    BY Zenon, <1>7 DEF fileclose, Typed, Labels, Putting
  <2>2. /\ pc[p] = "user" /\ pc'[p] = "iput" /\ put'[p] = file[p] /\ file'[p] = None
        /\ back'[p] = "user" /\ file[p] \in Slots
    BY Zenon, <1>7 DEF fileclose, Typed
  <2>3. /\ ~KeepsIp(p) /\ pc[p] \notin Putting /\ ~KeepsIp(p)' /\ pc'[p] \in Putting
        /\ RefersTo(p)'
    BY Zenon, <2>2 DEF RefersTo, KeepsIp, HasIp, Putting, Creating
  <2> QED
    BY Zenon, <2>1, <2>2, <2>3, FileToPut
<1>8. CASE iput(p)
  <2>0. pc[p] = "iput" /\ put[p] \in Slots /\ icache[put[p]].inum \in Inums
    BY Zenon, <1>0, <1>8, InUse, SlotInode DEF iput, Putting
  <2>1. Typed'
    BY <1>8, <2>0 DEF iput, Typed, Labels, Putting
  <2>2. pc'[p] \in {"itrunc", "drop"} /\ UNCHANGED <<file, put, ip, back>>
    BY Zenon, <1>8 DEF iput, Typed
  <2> QED
    BY Zenon, <1>0, <2>0, <2>1, <2>2 DEF RefersTo, KeepsIp, Own, HasIp, Putting, Creating
<1>9. CASE dirlink(p) /\ dir[name[p]] = None
  <2>0. pc[p] = "dirlink" /\ ip[p] \in Slots /\ icache[ip[p]].inum \in Inums
    BY Zenon, <1>0, <1>9, InUse, SlotInode DEF dirlink, KeepsIp, HasIp
  <2>1. Typed'
    BY Zenon, <1>9, <2>0 DEF dirlink, Typed, Labels, Putting, Panic, Goes
  <2>2. pc'[p] = "iput" /\ put'[p] = ip[p] /\ back'[p] = "user" /\ UNCHANGED <<file, ip>>
    BY <1>9 DEF dirlink, Typed, Panic, Goes
  <2> QED
    <3>1. /\ KeepsIp(p) /\ pc[p] \notin Putting /\ ~KeepsIp(p)' /\ pc'[p] \in Putting
          /\ RefersTo(p)'
      BY Zenon, <2>0, <2>2 DEF RefersTo, KeepsIp, HasIp, Putting, Creating
    <3> QED
      BY Zenon, <2>1, <2>2, <3>1, WalkToPut
<1> QED
  BY Zenon, <1>3, <1>4, <1>5, <1>6, <1>7, <1>8, <1>9

\* The steps that lock an inode, and perhaps change its links.
LEMMA LockTyped ==
  ASSUME CountLaws, Typed, Counted, NEW p \in Procs, Goes(p),
         sys_open(p) \/ sys_unlink(p) \/ created(p) \/ sys_link(p) \/ bad(p) \/ unlinked(p)
  PROVE  Typed' /\ Counted' /\ Filled(ip[p])
<1>0. Frame(p) /\ RefersTo(p)
  BY Zenon, StepFrame DEF Goes, Counted
<1>1. pc[p] \in HasIp /\ ip[p] \in Slots /\ icache[ip[p]].ref > 0
  BY Zenon, InUse DEF sys_open, sys_unlink, created, sys_link, bad, unlinked, KeepsIp, HasIp
<1>2. icache[ip[p]].inum \in Inums /\ icache[ip[p]].nlink \in Int /\ Locked(ip[p]).nlink \in Int
  BY Zenon, <1>1, LockedIs, SlotInode DEF Typed, Cached
<1>3. \/ icache' = [icache EXCEPT ![ip[p]] = Locked(ip[p])] /\ dinode' = dinode
      \/ \E n \in Int : SetLinks(ip[p], n)
  <2>1. CASE sys_open(p) \/ sys_unlink(p)
    BY Zenon, <2>1 DEF sys_open, sys_unlink, ilock, Panic, Goes
  <2>2. CASE created(p) \/ sys_link(p) \/ bad(p) \/ unlinked(p)
    <3>1. SetLinks(ip[p], 1) \/ SetLinks(ip[p], Locked(ip[p]).nlink + 1)
          \/ SetLinks(ip[p], Locked(ip[p]).nlink - 1) \/ SetLinks(ip[p], icache[ip[p]].nlink - 1)
      BY Zenon, <2>2 DEF created, sys_link, bad, unlinked, ilock, Panic, Goes
    <3> QED
      BY <1>2, <3>1
  <2> QED
    BY Zenon, <2>1, <2>2
<1>4. Filled(ip[p]) /\ dinode' \in [Inums -> Dinodes]
  BY Zenon, <1>1, <1>3, LockedFills, LinksFill DEF Typed
<1>5. icache' \in [Slots -> Cached]
      /\ \A s \in Slots : icache'[s].inum = icache[s].inum /\ icache'[s].ref = icache[s].ref
  BY Zenon, <1>1, <1>4 DEF Filled
<1> SUFFICES Typed' /\ RefersTo(p)' /\ \A s \in Slots : Own(p, s)' = Own(p, s)
  <2>1. \A s \in Slots : icache[s].ref \in Int /\ Own(p, s) \in Nat
    BY Zenon, <1>0, RefsStep, CountsInt
  <2> QED
    BY <1>0, <1>4, <1>5, <2>1, KeptCounts
<1> USE DEF Goto, Put, call, ilock, Panic, Goes
<1>6. CASE sys_open(p) \/ created(p)
  <2>1. /\ pc[p] \in {"open", "created"} /\ file[p] = None /\ ip' = ip
        /\ \/ pc'[p] = "user" /\ file'[p] = ip[p]
           \/ pc'[p] = "iput" /\ put'[p] = ip[p] /\ back'[p] = "user" /\ file'[p] = file[p]
    BY Zenon, <1>0, <1>6 DEF sys_open, created, Typed, RefersTo, Creating
  <2>2. Typed'
    BY Zenon, <1>1, <1>2, <1>4, <1>5, <1>6 DEF sys_open, created, Typed, Labels, Putting
  <2>3. KeepsIp(p) /\ pc[p] \notin Putting
    BY Zenon, <1>1, <2>1 DEF KeepsIp, Putting
  <2>4. CASE pc'[p] = "user" /\ file'[p] = ip[p]
    <3>1. ~KeepsIp(p)' /\ pc'[p] \notin Putting /\ RefersTo(p)'
      BY Zenon, <1>1, <2>4 DEF RefersTo, KeepsIp, HasIp, Putting, Creating
    <3> QED
      BY Zenon, <2>1, <2>2, <2>3, <2>4, <3>1, WalkToFile
  <2>5. CASE pc'[p] = "iput" /\ put'[p] = ip[p] /\ back'[p] = "user" /\ file'[p] = file[p]
    <3>1. ~KeepsIp(p)' /\ pc'[p] \in Putting /\ RefersTo(p)'
      BY Zenon, <1>1, <2>5 DEF RefersTo, KeepsIp, HasIp, Putting, Creating
    <3> QED
      BY Zenon, <2>2, <2>3, <2>5, <3>1, WalkToPut
  <2> QED
    BY Zenon, <2>1, <2>4, <2>5
<1>7. CASE sys_link(p) \/ sys_unlink(p)
  <2>1. /\ pc'[p] \in {"dirlink", "unlinked"} /\ UNCHANGED <<file, ip, put>>
    BY Zenon, <1>7 DEF sys_link, sys_unlink, Typed
  <2>2. Typed'
    BY Zenon, <1>1, <1>4, <1>5, <1>7 DEF sys_link, sys_unlink, Typed, Labels, HasIp
  <2> QED
    BY Zenon, <1>0, <1>1, <2>1, <2>2 DEF RefersTo, KeepsIp, Own, HasIp, Putting, Creating
<1>8. CASE bad(p) \/ unlinked(p)
  <2>1. pc'[p] = "iput" /\ put'[p] = ip[p] /\ back'[p] = "user" /\ UNCHANGED <<file, ip>>
    BY Zenon, <1>8 DEF bad, unlinked, Typed
  <2>2. Typed'
    BY Zenon, <1>1, <1>4, <1>5, <1>8 DEF bad, unlinked, Typed, Labels, Putting
  <2>3. pc[p] \notin Putting /\ pc'[p] \in Putting /\ KeepsIp(p) /\ ~KeepsIp(p)'
    BY Zenon, <1>1, <2>1 DEF KeepsIp, HasIp, Putting
  <2>4. RefersTo(p)'
    BY Zenon, <1>0, <1>1, <2>1, <2>3 DEF RefersTo, Creating
  <2> QED
    BY Zenon, <2>1, <2>2, <2>3, <2>4, WalkToPut
<1> QED
  BY Zenon, <1>6, <1>7, <1>8

\* A read, and the steps of iput that follow its look at the count.
LEMMA PutTyped ==
  ASSUME CountLaws, Typed, Counted, NEW p \in Procs, Goes(p), fileread(p) \/ itrunc(p) \/ freed(p) \/ drop(p)
  PROVE  Typed' /\ Counted'
<1>0. Frame(p) /\ RefersTo(p)
  BY Zenon, StepFrame DEF Goes, Counted
<1> USE DEF Goto, call, ilock, Panic, Goes
<1>1. CASE fileread(p)
  <2>1. file[p] \in Slots /\ icache[file[p]].ref > 0
    BY Zenon, <1>1, InUse DEF fileread
  <2>2. /\ icache' = [icache EXCEPT ![file[p]] = Locked(file[p])]
        /\ UNCHANGED <<dinode, dir, dirlock, lock, file, pc, name, ip, put, back, raced>>
    BY Zenon, <1>1 DEF fileread
  <2>3. Filled(file[p])
    BY Zenon, <2>1, <2>2, LockedFills
  <2>4. Typed'
    BY Zenon, <2>2, <2>3 DEF Typed, Filled
  <2>5. RefersTo(p)' /\ \A s \in Slots : Own(p, s)' = Own(p, s)
    BY Zenon, <1>0, <2>2 DEF RefersTo, Own, KeepsIp
  <2>6. \A s \in Slots : icache[s].ref \in Int /\ Own(p, s) \in Nat
    BY Zenon, <1>0, RefsStep, CountsInt
  <2> QED
    <3>1. \A s \in Slots : icache'[s].ref = icache[s].ref - Own(p, s) + Own(p, s)'
      BY <2>1, <2>3, <2>5, <2>6 DEF Filled
    <3>2. \A s \in Slots : icache'[s].ref <= icache[s].ref
      BY <2>1, <2>3, <2>6 DEF Filled
    <3> QED
      BY Zenon, <1>0, <2>1, <2>3, <2>4, <2>5, <3>1, <3>2, KeptCounts DEF Filled
<1>2. CASE itrunc(p) \/ freed(p) \/ drop(p)
  <2> DEFINE s == put[p]
  <2>1. s \in Slots /\ icache[s] \in Cached /\ icache[s].inum \in Inums /\ pc[p] \in Putting
    BY Zenon, <1>2, InUse, SlotInode DEF itrunc, freed, drop, Typed, Putting
  <2> DEFINE t == [icache[s] EXCEPT !.type = 0]
             v == [icache[s] EXCEPT !.valid = FALSE]
             m == icache[s].ref - 1
             d == [icache[s] EXCEPT !.ref = m]
             r == icache'[s]
  <2>2. \/ itrunc(p) /\ icache' = [icache EXCEPT ![s] = t]
        \/ freed(p) /\ icache' = [icache EXCEPT ![s] = v]
        \/ drop(p) /\ icache' = [icache EXCEPT ![s] = d]
    BY Zenon, <1>2, <2>1 DEF itrunc, freed, drop, Typed, Cached
  <2>3. /\ t \in Cached /\ t.inum = icache[s].inum /\ t.ref = icache[s].ref
        /\ v \in Cached /\ v.inum = icache[s].inum /\ v.ref = icache[s].ref
    BY Zenon, <2>1 DEF Cached
  <2>4. m \in Int /\ icache[s].ref \in Int
    BY <2>1 DEF Cached
  <2>5. d \in Cached /\ d.inum = icache[s].inum /\ d.ref = m
    BY Zenon, <2>1, <2>4 DEF Cached
  <2> HIDE DEF t, v, d
  <2>6. /\ icache' \in [Slots -> Cached] /\ \A u \in Slots : u # s => icache'[u] = icache[u]
        /\ icache'[s].inum = icache[s].inum
        /\ icache'[s].ref = IF drop(p) THEN m ELSE icache[s].ref
    <3>1. drop(p) => ~itrunc(p) /\ ~freed(p)
      BY Zenon DEF drop, itrunc, freed
    <3> QED
      BY Zenon, <2>1, <2>2, <2>3, <2>5, <3>1 DEF Typed
  <2>7. /\ pc'[p] = IF drop(p) THEN back[p] ELSE pc'[p]
        /\ ~drop(p) => pc'[p] \in {"freed", "drop"}
        /\ back[p] \in {"user", "taken"} /\ UNCHANGED <<file, ip, put, back, name>>
    BY Zenon, <1>2 DEF itrunc, freed, drop, Typed
  <2>8. Typed'
    <3>1. dinode' \in [Inums -> Dinodes]
      <4> DEFINE i == icache[s].inum
                 z == [dinode[i] EXCEPT !.type = 0]
      <4>1. z \in Dinodes
        BY Zenon, <2>1 DEF Typed, Dinodes
      <4>2. dinode' = dinode \/ dinode' = [dinode EXCEPT ![i] = z]
        BY <1>2 DEF itrunc, freed, drop
      <4> HIDE DEF z
      <4> QED
        BY Zenon, <2>1, <4>1, <4>2 DEF Typed
    <3> QED
      BY <1>2, <2>1, <2>6, <2>7, <3>1 DEF itrunc, freed, drop, Typed, Labels, HasIp, Putting
  <2>9. RefersTo(p)'
    BY Zenon, <1>0, <2>1, <2>7 DEF RefersTo, KeepsIp, HasIp, Putting, Creating
  <2>10. \A u \in Slots : Own(p, u)' = Own(p, u) - One(drop(p) /\ u = s) /\ Own(p, u) \in Nat
    BY <2>1, <2>7 DEF Own, One, KeepsIp, HasIp, Putting
  <2>11. \A u \in Slots : icache'[u].inum = icache[u].inum /\ icache'[u].ref <= icache[u].ref
                          /\ icache'[u].ref = icache[u].ref - One(drop(p) /\ u = s)
    <3>1. \A u \in Slots : icache[u].ref \in Int
      BY Zenon, CountsInt
    <3> QED
      BY <2>4, <2>6, <3>1 DEF One
  <2>12. \A u \in Slots : icache'[u].ref = icache[u].ref - Own(p, u) + Own(p, u)'
    <3>1. \A u \in Slots : icache[u].ref \in Int
      BY Zenon, CountsInt
    <3> QED
      BY <2>10, <2>11, <3>1 DEF One
  <2> QED
    BY Zenon, <1>0, <2>6, <2>8, <2>9, <2>11, <2>12, KeptCounts
<1> QED
  BY Zenon, <1>1, <1>2

\* A step that panics changes nothing else.
LEMMA PanicStops ==
  ASSUME NEW p \in Procs, Step(p), panicked = "no"
  PROVE  Goes(p) \/ UNCHANGED <<dinode, dir, dirlock, icache, lock, file, pc, call, raced>>
<1> USE DEF Goes, Panic, ilock, namei
<1>1. CASE Open(p) \/ sys_open(p) \/ Missing(p)
  BY Zenon, <1>1 DEF Open, sys_open, Missing, vars
<1>2. CASE create(p) \/ ialloc(p) \/ ialloced(p) \/ created(p)
  BY Zenon, <1>2 DEF create, ialloc, ialloced, created
<1>3. CASE Link(p) \/ sys_link(p) \/ dirlink(p) \/ taken(p) \/ bad(p)
  BY Zenon, <1>3 DEF Link, sys_link, dirlink, taken, bad
<1>4. CASE Unlink(p) \/ sys_unlink(p) \/ unlinked(p)
  BY Zenon, <1>4 DEF Unlink, sys_unlink, unlinked
<1>5. CASE fileread(p) \/ fileclose(p)
  BY Zenon, <1>5 DEF fileread, fileclose
<1>6. CASE iput(p) \/ itrunc(p) \/ freed(p) \/ drop(p)
  BY Zenon, <1>6 DEF iput, itrunc, freed, drop
<1> QED
  BY Zenon, <1>1, <1>2, <1>3, <1>4, <1>5, <1>6 DEF Step

LEMMA CountedGoes ==
  ASSUME CountLaws, Typed, Counted, NEW p \in Procs, Goes(p)
  PROVE  Typed' /\ Counted'
<1>1. CASE Open(p) \/ Link(p) \/ Unlink(p)
  BY Zenon, <1>1, NameiTyped
<1>2. CASE ialloced(p) \/ (dirlink(p) /\ dir[name[p]] # None)
  BY Zenon, <1>2, IgetTyped
<1>3. CASE \/ Missing(p) \/ create(p) \/ ialloc(p) \/ taken(p) \/ fileclose(p) \/ iput(p)
           \/ dirlink(p) /\ dir[name[p]] = None
  BY Zenon, <1>3, QuietTyped
<1>4. CASE sys_open(p) \/ sys_unlink(p) \/ created(p) \/ sys_link(p) \/ bad(p) \/ unlinked(p)
  BY Zenon, <1>4, LockTyped
<1>5. CASE fileread(p) \/ itrunc(p) \/ freed(p) \/ drop(p)
  BY Zenon, <1>5, PutTyped
<1> QED
  BY Zenon, <1>1, <1>2, <1>3, <1>4, <1>5 DEF Goes, Step

-----------------------------------------------------------------------------
\* Who has the directory and the inodes locked.
HoldsDir(p) ==
  pc[p] \in Creating \cup {"unlink", "taken"} \/ (pc[p] \in Putting /\ back[p] = "taken")
HoldsSlot(p, s) ==
  (pc[p] = "unlinked" /\ ip[p] = s) \/ (pc[p] \in {"itrunc", "freed"} /\ put[p] = s)
LockInv ==
  /\ \A p \in Procs : dirlock = p <=> HoldsDir(p)
  /\ \A p \in Procs, s \in Slots : lock[s] = p <=> HoldsSlot(p, s)

\* The uses of an inode that keep it allocated: all references but those that iput has
\* done with, and the one that ialloc is about to get.
HasFile(p, i) == file[p] # None /\ icache[file[p]].inum = i
HasWalk(p, i) == KeepsIp(p) /\ icache[ip[p]].inum = i
HasPut(p, i)  == pc[p] \in {"iput", "itrunc"} /\ icache[put[p]].inum = i
Allocs(p, i)  == pc[p] = "ialloced" /\ ip[p] = i
Holds(p, i)   == HasFile(p, i) \/ HasWalk(p, i) \/ HasPut(p, i) \/ Allocs(p, i)

Alive == \A p \in Procs, i \in Inums : Holds(p, i) => dinode[i].type # 0

\* An inode that is being created is the creator's alone.
Fresh(p) ==
  \A i \in Inums : Allocs(p, i) \/ (pc[p] = "created" /\ icache[ip[p]].inum = i) =>
    dinode[i].nlink = 0 /\ \A q \in Procs : Holds(q, i) => q = p

\* The cache has what the disk has, except while iput frees the inode: then somebody may
\* have allocated it again.
Freeing(s) == \E p \in Procs : pc[p] = "freed" /\ put[p] = s
Sync(s) ==
  icache[s].ref > 0 /\ icache[s].valid /\ ~Freeing(s) =>
    /\ dinode[icache[s].inum] = [type |-> icache[s].type, nlink |-> icache[s].nlink]
    /\ icache[s].type # 0

\* An inode that iput truncates is used by nobody else; one that it has freed is used by
\* nobody but a create that has allocated it again, and has no name yet.
Truncs(p) ==
  pc[p] = "itrunc" =>
    /\ icache[put[p]].valid /\ icache[put[p]].nlink = 0
    /\ \A q \in Procs : LET i == icache[put[p]].inum
                        IN  /\ ~HasFile(q, i) /\ ~HasWalk(q, i) /\ ~Allocs(q, i)
                            /\ HasPut(q, i) => q = p
Freed(p) ==
  pc[p] = "freed" =>
    /\ Entries(icache[put[p]].inum) = {}
    /\ \A q \in Procs : Holds(q, icache[put[p]].inum) => pc[q] \in {"ialloced", "created"}

\* Slots that have been locked since they were got stay valid.
Valid(p) ==
  /\ file[p] # None => icache[file[p]].valid
  /\ pc[p] \in {"dirlink", "unlinked"} => icache[ip[p]].valid
  /\ pc[p] = "iput" /\ back[p] = "user" => icache[put[p]].valid

\* What a process with the directory locked knows of the name.
Named(p) ==
  /\ pc[p] \in Creating => dir[name[p]] = None
  /\ pc[p] = "unlink" => dir[name[p]] = icache[ip[p]].inum
  /\ pc[p] \in Putting /\ back[p] = "taken" => dir[name[p]] = icache[put[p]].inum

\* An inode without links is in use.
Kept ==
  \A i \in Inums \ raced :
    dinode[i].type # 0 /\ dinode[i].nlink = 0 => \E p \in Procs : Holds(p, i)

UseInv ==
  /\ LockInv /\ Alive /\ LinksCounted /\ Kept
  /\ \A s \in Slots : Sync(s)
  /\ \A p \in Procs : Fresh(p) /\ Truncs(p) /\ Freed(p) /\ Valid(p) /\ Named(p)

\* The inductive invariant.
IInv == Typed /\ Counted /\ UseInv /\ panicked \in {"no"} \cup Full

-----------------------------------------------------------------------------
\* What a step of p can do to the uses of others.
Effects(p) ==
  /\ \A t \in Slots : icache[t].ref > 0 =>
       /\ icache'[t].inum = icache[t].inum
       /\ lock[t] \notin {Nobody, p} => Content(icache'[t]) = Content(icache[t])
       /\ icache[t].valid => icache'[t].valid \/ (pc[p] = "freed" /\ put[p] = t)
  /\ \A i \in Inums :
       /\ Holds(p, i)' => \/ Holds(p, i) \/ Entries(i) # {}
                          \/ dinode[i].type = 0 /\ pc'[p] = "ialloced"
       /\ dinode'[i].nlink = dinode[i].nlink \/ HasWalk(p, i) \/ dinode[i].type = 0
       /\ dinode[i].type # 0 => dinode'[i].type # 0 \/ (pc[p] = "itrunc" /\ icache[put[p]].inum = i)
       /\ dinode[i].type = 0 => dinode'[i].type = 0 \/ pc[p] = "ialloc"
       /\ Entries(i) = {} => Entries(i)' = {} \/ (pc[p] \in {"created", "dirlink"} /\ HasWalk(p, i))
  /\ dir' = dir \/ dirlock \in {Nobody, p}
  /\ pc[p] = "created" => lock[ip[p]] = Nobody
  /\ pc[p] = "ialloced" => pc'[p] = "created"
  /\ pc[p] = "created" => dirlock = p

\* A call of link or unlink whose link is counted without a name.
Pends(p, i) ==
  /\ \/ pc[p] \in {"dirlink", "taken", "bad", "unlinked"}
     \/ pc[p] \in Putting /\ back[p] = "taken"
  /\ icache[ip[p]].inum = i

\* The uses of the others stay as they are.
LEMMA OthersUse ==
  ASSUME CountLaws, Typed, Counted, NEW p \in Procs, Frame(p), NEW q \in Procs, q # p, NEW i,
         \A t \in Slots : icache[t].ref > 0 => icache'[t].inum = icache[t].inum
  PROVE  /\ HasFile(q, i)' <=> HasFile(q, i)
         /\ HasWalk(q, i)' <=> HasWalk(q, i)
         /\ HasPut(q, i)' <=> HasPut(q, i)
         /\ Allocs(q, i)' <=> Allocs(q, i)
         /\ Holds(q, i)' <=> Holds(q, i)
         /\ Pends(q, i)' <=> Pends(q, i)
<1>1. /\ file'[q] = file[q] /\ pc'[q] = pc[q] /\ ip'[q] = ip[q]
      /\ put'[q] = put[q] /\ back'[q] = back[q] /\ (KeepsIp(q)' <=> KeepsIp(q))
  BY Zenon DEF Frame, KeepsIp
<1>2. /\ file[q] # None => icache'[file[q]].inum = icache[file[q]].inum
      /\ KeepsIp(q) => icache'[ip[q]].inum = icache[ip[q]].inum
      /\ pc[q] \in Putting => icache'[put[q]].inum = icache[put[q]].inum
  BY Zenon, InUse
<1>3. /\ HasFile(q, i)' <=> HasFile(q, i)
      /\ HasWalk(q, i)' <=> HasWalk(q, i)
      /\ HasPut(q, i)' <=> HasPut(q, i)
      /\ Allocs(q, i)' <=> Allocs(q, i)
  BY Zenon, <1>1, <1>2 DEF HasFile, HasWalk, HasPut, Allocs, Putting
<1>4. Pends(q, i)' <=> Pends(q, i)
  BY Zenon, <1>1, <1>2 DEF Pends, KeepsIp, HasIp
<1> QED
  BY Zenon, <1>3, <1>4 DEF Holds

\* An inode without links has no names, and none of its links is pending.
LEMMA NoLinks ==
  ASSUME CountLaws, UseInv, NEW i \in Inums, dinode[i].type = 0 \/ dinode[i].nlink = 0
  PROVE  Entries(i) = {} /\ Pending(i) = {}
<1>1. Entries(i) \subseteq Names /\ Pending(i) \subseteq Procs
  BY Zenon DEF Entries, Pending
<1>2. IsFiniteSet(Entries(i)) /\ IsFiniteSet(Pending(i))
  BY Zenon, <1>1, FiniteSubset, InodeAssumption
<1>3. /\ Cardinality(Entries(i)) \in Nat /\ (Cardinality(Entries(i)) = 0 <=> Entries(i) = {})
      /\ Cardinality(Pending(i)) \in Nat /\ (Cardinality(Pending(i)) = 0 <=> Pending(i) = {})
  BY Zenon, <1>2, CardOf
<1>4. dinode[i].type = 0 => Entries(i) = {} /\ Pending(i) = {}
  BY Zenon DEF UseInv, LinksCounted
<1>5. dinode[i].type # 0 => dinode[i].nlink = Cardinality(Entries(i)) + Cardinality(Pending(i))
  BY Zenon DEF UseInv, LinksCounted
<1> QED
  BY <1>3, <1>4, <1>5

\* A slot that iput truncates is not being freed by another, so the disk has no links either.
LEMMA TruncsUnlinked ==
  ASSUME CountLaws, Typed, Counted, UseInv, NEW p \in Procs, pc[p] = "itrunc"
  PROVE  /\ put[p] \in Slots /\ icache[put[p]].inum \in Inums
         /\ dinode[icache[put[p]].inum].nlink = 0 /\ dinode[icache[put[p]].inum].type # 0
<1> DEFINE s == put[p]
<1>1. s \in Slots /\ icache[s].ref > 0 /\ icache[s].inum \in Inums
  BY Zenon, InUse, SlotInode DEF Putting
<1>2. lock[s] = p
  BY Zenon, <1>1 DEF UseInv, LockInv, HoldsSlot
<1>3. ~Freeing(s)
  <2> SUFFICES ASSUME NEW q \in Procs, pc[q] = "freed", put[q] = s
               PROVE  FALSE
    BY Zenon DEF Freeing
  <2>1. lock[s] = q
    BY Zenon, <1>1 DEF UseInv, LockInv, HoldsSlot
  <2> QED
    BY Zenon, <1>2, <2>1
<1>4. icache[s].valid /\ icache[s].nlink = 0
  BY Zenon DEF UseInv, Truncs
<1>5. dinode[icache[s].inum] = [type |-> icache[s].type, nlink |-> icache[s].nlink] /\ icache[s].type # 0
  BY Zenon, <1>1, <1>3, <1>4 DEF UseInv, Sync
<1> QED
  BY <1>1, <1>4, <1>5

\* What the invariant says of another process stays true.
LEMMA OthersKept ==
  ASSUME CountLaws, Typed, Counted, UseInv, NEW p \in Procs, Frame(p), Effects(p), NEW q \in Procs, q # p
  PROVE  /\ \A i \in Inums : Holds(q, i)' => dinode'[i].type # 0
         /\ Fresh(q)' /\ Truncs(q)' /\ Freed(q)' /\ Valid(q)' /\ Named(q)'
<1> DEFINE kept == \A t \in Slots : icache[t].ref > 0 => icache'[t].inum = icache[t].inum
<1>0. /\ file'[q] = file[q] /\ pc'[q] = pc[q] /\ ip'[q] = ip[q] /\ name'[q] = name[q]
      /\ put'[q] = put[q] /\ back'[q] = back[q]
  BY Zenon DEF Frame
<1>1. kept
  BY Zenon DEF Effects
<1>2. \A r \in Procs : \A i : r # p =>
        /\ HasFile(r, i)' <=> HasFile(r, i)
        /\ HasWalk(r, i)' <=> HasWalk(r, i)
        /\ HasPut(r, i)' <=> HasPut(r, i)
        /\ Allocs(r, i)' <=> Allocs(r, i)
        /\ Holds(r, i)' <=> Holds(r, i)
  BY Zenon, <1>1, OthersUse
<1>3. \A i \in Inums : Holds(p, i)' =>
        Holds(p, i) \/ Entries(i) # {} \/ (dinode[i].type = 0 /\ pc'[p] = "ialloced")
  BY Zenon DEF Effects
<1>4. \A r \in Procs, i \in Inums : Holds(r, i) => dinode[i].type # 0
  BY Zenon DEF UseInv, Alive
<1>5. /\ KeepsIp(q) => ip[q] \in Slots /\ icache[ip[q]].ref > 0 /\ icache[ip[q]].inum \in Inums
                       /\ icache'[ip[q]].inum = icache[ip[q]].inum
      /\ pc[q] \in Putting => put[q] \in Slots /\ icache[put[q]].ref > 0 /\ icache[put[q]].inum \in Inums
                              /\ icache'[put[q]].inum = icache[put[q]].inum
      /\ file[q] # None => file[q] \in Slots /\ icache[file[q]].ref > 0 /\ icache[file[q]].inum \in Inums
  BY Zenon, <1>1, InUse, SlotInode
<1>6. ASSUME NEW i \in Inums, Holds(q, i)' PROVE dinode'[i].type # 0
  <2>1. Holds(q, i) /\ dinode[i].type # 0
    BY Zenon, <1>2, <1>4, <1>6
  <2>2. CASE pc[p] = "itrunc" /\ icache[put[p]].inum = i
    <3>1. ~Holds(q, i)
      BY Zenon, <2>2 DEF UseInv, Truncs, Holds
    <3> QED
      BY Zenon, <2>1, <3>1
  <2> QED
    BY Zenon, <2>1, <2>2 DEF Effects
<1>7. Fresh(q)'
  <2> SUFFICES ASSUME NEW i \in Inums,
                      (Allocs(q, i) \/ (pc[q] = "created" /\ icache[ip[q]].inum = i))'
               PROVE  dinode'[i].nlink = 0 /\ \A r \in Procs : Holds(r, i)' => r = q
    BY Zenon DEF Fresh
  <2>1. Allocs(q, i) \/ (pc[q] = "created" /\ icache[ip[q]].inum = i)
    BY Zenon, <1>0, <1>2, <1>5 DEF KeepsIp, HasIp
  <2>2. dinode[i].nlink = 0 /\ \A r \in Procs : Holds(r, i) => r = q
    BY Zenon, <2>1 DEF UseInv, Fresh
  <2>3. Holds(q, i)
    BY Zenon, <2>1 DEF Holds, HasWalk, KeepsIp, HasIp
  <2>4. dinode[i].type # 0 /\ Entries(i) = {}
    BY Zenon, <1>4, <2>2, <2>3, NoLinks
  <2>5. ~Holds(p, i) /\ ~HasWalk(p, i)
    BY Zenon, <2>2 DEF Holds
  <2>6. dinode'[i].nlink = 0
    BY Zenon, <2>2, <2>4, <2>5 DEF Effects
  <2>7. ~Holds(p, i)'
    BY Zenon, <1>3, <2>4, <2>5
  <2> QED
    BY Zenon, <1>2, <2>2, <2>6, <2>7
<1>8. Truncs(q)'
  <2> SUFFICES ASSUME pc[q] = "itrunc", NEW i \in Inums, i = icache[put[q]].inum
               PROVE  /\ icache'[put[q]].valid /\ icache'[put[q]].nlink = 0
                      /\ \A r \in Procs : /\ ~HasFile(r, i)' /\ ~HasWalk(r, i)' /\ ~Allocs(r, i)'
                                          /\ HasPut(r, i)' => r = q
    BY <1>0, <1>5 DEF Truncs, Putting, HasFile, HasWalk, HasPut, Allocs
  <2> DEFINE s == put[q]
  <2>1. s \in Slots /\ dinode[i].nlink = 0 /\ dinode[i].type # 0
    BY Zenon, TruncsUnlinked
  <2>2. /\ icache[s].valid /\ icache[s].nlink = 0
        /\ \A r \in Procs : ~HasFile(r, i) /\ ~HasWalk(r, i) /\ ~Allocs(r, i) /\ (HasPut(r, i) => r = q)
    BY Zenon DEF UseInv, Truncs
  <2>3. lock[s] = q /\ icache[s].ref > 0
    BY Zenon, <1>5, <2>1 DEF UseInv, LockInv, HoldsSlot, Putting
  <2>4. Content(icache'[s]) = Content(icache[s])
    BY Zenon, <2>1, <2>3, InodeAssumption DEF Effects
  <2>5. icache'[s].valid /\ icache'[s].nlink = 0
    BY Zenon, <2>2, <2>4 DEF Content
  <2>6. Entries(i) = {}
    BY Zenon, <2>1, NoLinks
  <2>7. ~Holds(p, i)'
    BY Zenon, <1>3, <2>1, <2>2, <2>6 DEF Holds
  <2>8. ~HasFile(p, i)' /\ ~HasWalk(p, i)' /\ ~Allocs(p, i)' /\ ~HasPut(p, i)'
    BY Zenon, <2>7 DEF Holds
  <2>9. \A r \in Procs : ~HasFile(r, i)' /\ ~HasWalk(r, i)' /\ ~Allocs(r, i)' /\ (HasPut(r, i)' => r = q)
    BY Zenon, <1>2, <2>2, <2>8
  <2> QED
    BY Zenon, <2>5, <2>9
<1>9. Freed(q)'
  <2> SUFFICES ASSUME pc[q] = "freed", NEW i \in Inums, i = icache[put[q]].inum
               PROVE  /\ Entries(i)' = {}
                      /\ \A r \in Procs : Holds(r, i)' => pc'[r] \in {"ialloced", "created"}
    BY <1>0, <1>5 DEF Freed, Putting, Entries, Holds, HasFile, HasWalk, HasPut, Allocs
  <2> DEFINE s == put[q]
  <2>1. s \in Slots /\ icache[s].ref > 0 /\ lock[s] = q
    BY Zenon, <1>5 DEF UseInv, LockInv, HoldsSlot, Putting
  <2>2. Entries(i) = {} /\ \A r \in Procs : Holds(r, i) => pc[r] \in {"ialloced", "created"}
    BY Zenon DEF UseInv, Freed
  <2>3. ~(pc[p] = "created" /\ HasWalk(p, i))
    <3> SUFFICES ASSUME pc[p] = "created", HasWalk(p, i) PROVE FALSE
      BY Zenon
    <3>1. ip[p] \in Slots /\ icache[ip[p]].ref > 0 /\ icache[ip[p]].inum = i
      BY Zenon, InUse DEF KeepsIp, HasIp, HasWalk
    <3>2. ip[p] = s
      BY Zenon, <2>1, <3>1 DEF Counted
    <3> QED
      BY Zenon, <2>1, <3>2, InodeAssumption DEF Effects
  <2>4. ~HasWalk(p, i)
    BY Zenon, <2>2, <2>3 DEF Holds, HasWalk, KeepsIp, HasIp, Putting
  <2>5. Entries(i)' = {}
    BY Zenon, <2>2, <2>4 DEF Effects
  <2>6. Holds(p, i)' => pc'[p] \in {"ialloced", "created"}
    <3>1. pc[p] = "created" => file[p] = None
      BY Zenon DEF Counted, RefersTo, Creating
    <3>2. Holds(p, i) => pc[p] = "ialloced"
      BY Zenon, <2>2, <2>4, <3>1 DEF Holds, HasFile, HasPut, Allocs
    <3> QED
      BY Zenon, <1>3, <2>2, <3>2 DEF Effects
  <2>7. \A r \in Procs : r # p /\ Holds(r, i)' => pc'[r] \in {"ialloced", "created"}
    BY Zenon, <1>2, <2>2 DEF Frame
  <2> QED
    BY Zenon, <2>5, <2>6, <2>7
<1>10. Valid(q)'
  <2>1. \A t \in Slots : icache[t].ref > 0 /\ icache[t].valid => icache'[t].valid \/ (pc[p] = "freed" /\ put[p] = t)
    BY Zenon DEF Effects
  <2>2. pc[p] = "freed" => \A i : i = icache[put[p]].inum => (Holds(q, i) => pc[q] \in {"ialloced", "created"})
    BY Zenon DEF UseInv, Freed
  <2>3. /\ file[q] # None => icache[file[q]].valid
        /\ pc[q] \in {"dirlink", "unlinked"} => icache[ip[q]].valid
        /\ pc[q] = "iput" /\ back[q] = "user" => icache[put[q]].valid
    BY Zenon DEF UseInv, Valid
  <2>4. file[q] # None => icache'[file[q]].valid
    <3>1. pc[q] \in {"ialloced", "created"} => file[q] = None
      BY Zenon DEF Counted, RefersTo, Creating
    <3> QED
      BY Zenon, <1>5, <2>1, <2>2, <2>3, <3>1 DEF Holds, HasFile
  <2>5. pc[q] \in {"dirlink", "unlinked"} => icache'[ip[q]].valid
    BY Zenon, <1>5, <2>1, <2>2, <2>3 DEF Holds, HasWalk, KeepsIp, HasIp
  <2>6. pc[q] = "iput" /\ back[q] = "user" => icache'[put[q]].valid
    BY Zenon, <1>5, <2>1, <2>2, <2>3 DEF Holds, HasPut, Putting
  <2> QED
    BY Zenon, <1>0, <2>4, <2>5, <2>6 DEF Valid
<1>11. Named(q)'
  <2>1. HoldsDir(q) => dir' = dir
    BY InodeAssumption DEF UseInv, LockInv, Effects
  <2>3. Named(q)
    BY Zenon DEF UseInv
  <2>5. pc[q] \in Creating => dir'[name[q]] = None
    BY Zenon, <2>1, <2>3 DEF HoldsDir, Named
  <2>6. pc[q] = "unlink" => dir'[name[q]] = icache'[ip[q]].inum
    BY Zenon, <1>5, <2>1, <2>3 DEF HoldsDir, Named, KeepsIp, HasIp
  <2>7. pc[q] \in Putting /\ back[q] = "taken" => dir'[name[q]] = icache'[put[q]].inum
    BY Zenon, <1>5, <2>1, <2>3 DEF HoldsDir, Named
  <2> QED
    BY Zenon, <1>0, <2>5, <2>6, <2>7 DEF Named
<1> QED
  BY Zenon, <1>6, <1>7, <1>8, <1>9, <1>10, <1>11

-----------------------------------------------------------------------------
\* What a step of p does to the locks: it takes what is free and leaves what it has.
LockMoves(p) ==
  /\ dirlock' = dirlock \/ {dirlock, dirlock'} \subseteq {Nobody, p}
  /\ dirlock' = p <=> HoldsDir(p)'
  /\ \A s \in Slots : /\ lock'[s] = lock[s] \/ {lock[s], lock'[s]} \subseteq {Nobody, p}
                      /\ lock'[s] = p <=> HoldsSlot(p, s)'

LEMMA LocksKept ==
  ASSUME UseInv, NEW p \in Procs, Frame(p), LockMoves(p)
  PROVE  LockInv'
<1>1. ASSUME NEW q \in Procs, q # p
      PROVE  (dirlock' = q <=> HoldsDir(q)') /\ \A s \in Slots : lock'[s] = q <=> HoldsSlot(q, s)'
  <2>1. (HoldsDir(q)' <=> HoldsDir(q)) /\ \A s \in Slots : HoldsSlot(q, s)' <=> HoldsSlot(q, s)
    BY Zenon, <1>1 DEF Frame, HoldsDir, HoldsSlot
  <2>2. (dirlock = q <=> HoldsDir(q)) /\ \A s \in Slots : lock[s] = q <=> HoldsSlot(q, s)
    BY Zenon DEF UseInv, LockInv
  <2>3. dirlock' = q <=> dirlock = q
    BY <1>1, InodeAssumption DEF LockMoves
  <2>4. \A s \in Slots : lock'[s] = q <=> lock[s] = q
    BY <1>1, InodeAssumption DEF LockMoves
  <2> QED
    BY Zenon, <2>1, <2>2, <2>3, <2>4
<1>2. (dirlock' = p <=> HoldsDir(p)') /\ \A s \in Slots : lock'[s] = p <=> HoldsSlot(p, s)'
  BY Zenon DEF LockMoves
<1> QED
  BY <1>1, <1>2 DEF LockInv

\* The names of inode i and its pending links, counted.
Links(i) == Cardinality(Entries(i)) + Cardinality(Pending(i))

Delta(p, n, v, i) == One(Pends(p, i)') - One(Pends(p, i)) + One(v = i) - One(dir[n] = i)
Moves(d, i) ==
  /\ Links(i) \in Nat /\ Links(i)' \in Nat /\ (Links(i)' = 0 => Entries(i)' = {} /\ Pending(i)' = {})
  /\ Links(i)' = Links(i) + d

LEMMA DeltaNamed ==
  ASSUME NEW p, NEW n, NEW v, NEW i, ~Pends(p, i)', ~Pends(p, i), dir[n] # i
  PROVE  (i = v => Delta(p, n, v, i) = 1) /\ (i # v => Delta(p, n, v, i) = 0)
  BY DEF Delta, One

LEMMA DeltaPends ==
  ASSUME NEW p, NEW n, NEW i
  PROVE  /\ Pends(p, i)' /\ ~Pends(p, i) => Delta(p, n, dir[n], i) = 1
         /\ ~Pends(p, i)' /\ Pends(p, i) => Delta(p, n, dir[n], i) = -1
         /\ (Pends(p, i)' <=> Pends(p, i)) => Delta(p, n, dir[n], i) = 0
  BY DEF Delta, One

LEMMA LinksDelta ==
  ASSUME CountLaws, Typed, Counted, NEW p \in Procs, Frame(p), NEW n \in Names, NEW v,
         dir' = [dir EXCEPT ![n] = v], NEW i,
         \A t \in Slots : icache[t].ref > 0 => icache'[t].inum = icache[t].inum
  PROVE  Moves(Delta(p, n, v, i), i)
<1>1. Entries(i) \subseteq Names /\ Pending(i) \subseteq Procs /\ Entries(i)' \subseteq Names /\ Pending(i)' \subseteq Procs
  BY Zenon DEF Entries, Pending
<1>2. IsFiniteSet(Entries(i)) /\ IsFiniteSet(Pending(i)) /\ IsFiniteSet(Entries(i)') /\ IsFiniteSet(Pending(i)')
  BY Zenon, <1>1, FiniteSubset, InodeAssumption
<1>3. \A m : m # n => (m \in Entries(i) <=> m \in Entries(i)')
  BY Zenon DEF Entries, Typed
<1>4. (n \in Entries(i) <=> dir[n] = i) /\ (n \in Entries(i)' <=> v = i)
  BY Zenon DEF Entries, Typed
<1>5. \A q \in Procs : (q \in Pending(i) <=> Pends(q, i)) /\ (q \in Pending(i)' <=> Pends(q, i)')
  BY Zenon DEF Pending, Pends
<1>6. \A q : q # p => (q \in Pending(i) <=> q \in Pending(i)')
  <2>1. \A q \in Procs : q # p => (q \in Pending(i) <=> q \in Pending(i)')
    BY Zenon, <1>5, OthersUse
  <2> QED
    BY Zenon, <1>1, <2>1
<1> DEFINE a == Cardinality(Entries(i))
           b == Cardinality(Pending(i))
<1>7. a \in Nat /\ a' \in Nat /\ a' = a - One(dir[n] = i) + One(v = i)
  BY <1>2, <1>3, <1>4, CountStep DEF One
<1>8. b \in Nat /\ b' \in Nat /\ b' = b - One(Pends(p, i)) + One(Pends(p, i)')
  BY <1>2, <1>5, <1>6, CountStep DEF One
<1>9. (a' = 0 => Entries(i)' = {}) /\ (b' = 0 => Pending(i)' = {})
  BY Zenon, <1>2, CardOf
<1>10. Links(i) = a + b /\ Links(i)' = a' + b'
  BY Zenon DEF Links
<1> HIDE DEF a, b
<1> QED
  BY <1>7, <1>8, <1>9, <1>10 DEF One, Moves, Delta

\* The link count on the disk follows the names and the pending links.
Follows(d, i) ==
  /\ dinode'[i].type # 0 => dinode'[i].nlink = (IF dinode[i].type = 0 THEN 0 ELSE dinode[i].nlink) + d
  /\ dinode'[i].type = 0 => d = 0 /\ (dinode[i].type = 0 \/ dinode[i].nlink = 0)

LEMMA LinksStep ==
  ASSUME CountLaws, Typed, Counted, UseInv, NEW p \in Procs, Frame(p), NEW n \in Names, NEW v,
         dir' = [dir EXCEPT ![n] = v],
         \A t \in Slots : icache[t].ref > 0 => icache'[t].inum = icache[t].inum,
         \A i \in Inums : Follows(Delta(p, n, v, i), i)
  PROVE  LinksCounted'
<1> SUFFICES ASSUME NEW i \in Inums
             PROVE  /\ dinode'[i].type = 0 => Entries(i)' = {} /\ Pending(i)' = {}
                    /\ dinode'[i].type # 0 => dinode'[i].nlink = Links(i)'
  BY Zenon DEF LinksCounted, Links
<1> DEFINE d == Delta(p, n, v, i)
<1>1. d \in Int
  BY DEF One, Delta
<1>2. Moves(d, i)
  BY Zenon, LinksDelta
<1>3. /\ dinode[i].type = 0 => Entries(i) = {} /\ Pending(i) = {}
      /\ dinode[i].type # 0 => dinode[i].nlink = Links(i)
  BY Zenon DEF UseInv, LinksCounted, Links
<1>4. Entries(i) = {} /\ Pending(i) = {} => Links(i) = 0
  BY CardOf DEF Links
<1>5. /\ dinode'[i].type # 0 => dinode'[i].nlink = (IF dinode[i].type = 0 THEN 0 ELSE dinode[i].nlink) + d
      /\ dinode'[i].type = 0 => d = 0 /\ (dinode[i].type = 0 \/ dinode[i].nlink = 0)
  BY Zenon DEF Follows
<1> HIDE DEF d
<1> QED
  BY <1>1, <1>2, <1>3, <1>4, <1>5 DEF Moves

\* With the disk as it is, the pending links decide.
LEMMA SameLinks ==
  ASSUME CountLaws, Typed, Counted, UseInv, NEW p \in Procs, Frame(p), dir' = dir, dinode' = dinode,
         \A t \in Slots : icache[t].ref > 0 => icache'[t].inum = icache[t].inum,
         \A i \in Inums : Pends(p, i)' <=> Pends(p, i)
  PROVE  LinksCounted'
<1>1. PICK n \in Names : TRUE
  BY Zenon, InodeAssumption
<1> DEFINE v == dir[n]
<1>2. dir' = [dir EXCEPT ![n] = v]
  BY Zenon DEF Typed
<1>3. ASSUME NEW i \in Inums PROVE Follows(Delta(p, n, v, i), i)
  <2>1. Delta(p, n, v, i) = 0
    BY DEF Delta, One
  <2>2. dinode[i].nlink \in Int
    BY Zenon DEF Typed, Dinodes
  <2>3. dinode'[i] = dinode[i] /\ (dinode[i].type = 0 \/ dinode[i].type # 0)
    BY Zenon
  <2> QED
    BY <2>1, <2>2, <2>3 DEF Follows
<1> HIDE DEF v
<1> QED
  BY Zenon, <1>2, <1>3, LinksStep

\* A slot keeps agreeing with the disk when neither changes.
Steady(t) ==
  icache'[t].ref > 0 =>
    /\ icache[t].ref > 0 /\ icache'[t].inum = icache[t].inum
    /\ Content(icache'[t]) = Content(icache[t]) /\ dinode'[icache[t].inum] = dinode[icache[t].inum]

LEMMA SyncStep ==
  ASSUME UseInv, NEW p \in Procs, Frame(p), NEW t \in Slots, Steady(t),
         pc[p] = "freed" => put[p] # t
  PROVE  Sync(t)'
<1>1. Freeing(t) => Freeing(t)'
  BY Zenon DEF Freeing, Frame
<1>2. Sync(t)
  BY Zenon DEF UseInv
<1> QED
  BY Zenon, <1>1, <1>2 DEF Sync, Steady, Content

\* An inode without links is held by p, or by whoever held it.
LEMMA KeptStep ==
  ASSUME CountLaws, Typed, Counted, UseInv, NEW p \in Procs, Frame(p), Effects(p),
         \A i \in Inums \ raced' : dinode'[i].type # 0 /\ dinode'[i].nlink = 0 =>
           \/ Holds(p, i)'
           \/ i \notin raced /\ dinode[i].type # 0 /\ dinode[i].nlink = 0 /\ ~Holds(p, i)
           \/ \E q \in Procs : q # p /\ Holds(q, i)
  PROVE  Kept'
<1> SUFFICES ASSUME NEW i \in Inums, i \notin raced', dinode'[i].type # 0, dinode'[i].nlink = 0
             PROVE  \E q \in Procs : Holds(q, i)'
  BY Zenon DEF Kept
<1>1. Holds(p, i)' \/ \E q \in Procs : q # p /\ Holds(q, i)
  BY Zenon DEF UseInv, Kept
<1>2. \A q \in Procs : q # p => (Holds(q, i)' <=> Holds(q, i))
  BY Zenon, OthersUse DEF Effects
<1> QED
  BY Zenon, <1>1, <1>2

\* What the invariant says of p, and what there is to show of a step of p.
Mine(p) ==
  /\ \A i \in Inums : Holds(p, i) => dinode[i].type # 0
  /\ Fresh(p) /\ Truncs(p) /\ Freed(p) /\ Valid(p) /\ Named(p)
Right(p) ==
  /\ Effects(p) /\ LockMoves(p) /\ Mine(p)'
  /\ LinksCounted' /\ Kept' /\ \A s \in Slots : Sync(s)'

LEMMA RightStep ==
  ASSUME CountLaws, Typed, Counted, UseInv, NEW p \in Procs, Frame(p), Right(p)
  PROVE  UseInv'
<1>1. \A q \in Procs : Mine(q)'
  <2>1. \A q \in Procs : q # p => Mine(q)'
    BY Zenon, OthersKept DEF Right, Mine
  <2> QED
    BY Zenon, <2>1 DEF Right
<1>2. Alive'
  BY Zenon, <1>1 DEF Mine, Alive
<1>3. LockInv'
  BY Zenon, LocksKept DEF Right
<1>4. (\A q \in Procs : Fresh(q) /\ Truncs(q) /\ Freed(q) /\ Valid(q) /\ Named(q))'
  BY Zenon, <1>1 DEF Mine
<1> QED
  BY Zenon, <1>2, <1>3, <1>4 DEF Right, UseInv

-----------------------------------------------------------------------------
\* iget leaves every slot in use as it was.
SlotsKeep(p) ==
  \A t \in Slots : icache[t].ref > 0 =>
    /\ icache'[t].inum = icache[t].inum
    /\ lock[t] \notin {Nobody, p} => Content(icache'[t]) = Content(icache[t])
    /\ icache[t].valid => icache'[t].valid \/ (pc[p] = "freed" /\ put[p] = t)

LEMMA GotSync ==
  ASSUME Typed, Counted, UseInv, NEW p \in Procs, Frame(p), NEW i, NEW s, Got(i, s),
         dinode' = dinode, pc[p] # "freed"
  PROVE  SlotsKeep(p) /\ \A t \in Slots : Sync(t)'
<1>1. SlotsKeep(p)
  BY Zenon DEF SlotsKeep, Got, Content
<1>2. ASSUME NEW t \in Slots PROVE Sync(t)'
  <2>1. CASE t = s /\ icache[s].ref <= 0
    BY Zenon, <2>1 DEF Got, Sync
  <2>2. CASE t # s \/ icache[s].ref > 0
    <3>1. Steady(t)
      BY Zenon, <2>2 DEF Steady, Got
    <3> QED
      BY Zenon, <3>1, SyncStep
  <2>3. icache[t].ref \in Int
    BY Zenon DEF Typed, Cached
  <2> QED
    BY <2>1, <2>2, <2>3
<1> QED
  BY Zenon, <1>1, <1>2

\* A name that is there refers to an inode that is allocated.
LEMMA NamedAlive ==
  ASSUME CountLaws, Typed, UseInv, NEW n \in Names, NEW i \in Inums, dir[n] = i
  PROVE  Entries(i) # {} /\ dinode[i].type # 0 /\ dinode[i].nlink # 0
<1>1. Entries(i) # {}
  BY Zenon DEF Entries
<1> QED
  BY Zenon, <1>1, NoLinks

\* open, link and unlink of a name that is there.
LEMMA NameiRight ==
  ASSUME CountLaws, Typed, Counted, UseInv, NEW p \in Procs, Goes(p), Open(p) \/ Link(p) \/ Unlink(p)
  PROVE  Right(p)
<1>0. Frame(p) /\ Mine(p) /\ (dirlock = p <=> HoldsDir(p)) /\ \A s \in Slots : lock[s] = p <=> HoldsSlot(p, s)
  BY Zenon, StepFrame DEF Goes, UseInv, Mine, Alive, LockInv
<1>1. PICK n \in Names :
        /\ dir[n] \in Inums /\ CanGet(dir[n]) /\ icache' = iget(dir[n]) /\ pc[p] = "user" /\ dirlock = Nobody
        /\ ip' = [ip EXCEPT ![p] = Slot(dir[n])]
        /\ \E l \in {"open", "link", "unlink"} :
             /\ Goto(p, l)
             /\ IF l = "unlink" THEN dirlock' = p /\ name' = [name EXCEPT ![p] = n] ELSE dirlock' = dirlock
        /\ UNCHANGED <<dinode, dir, lock, file, put, back, raced>>
  BY Zenon DEF Open, Link, Unlink, namei, Panic, Goes, Typed
<1>2. Got(dir[n], Slot(dir[n]))
  BY <1>1, IgetIs
<1> DEFINE j == dir[n]
           s == Slot(j)
<1>3. /\ pc[p] = "user" /\ pc'[p] \in {"open", "link", "unlink"} /\ ip'[p] = s
      /\ pc'[p] = "unlink" => name'[p] = n
      /\ dirlock = Nobody /\ dirlock' = (IF pc'[p] = "unlink" THEN p ELSE Nobody)
  BY Zenon, <1>1 DEF Typed, Goto
<1>4. Got(j, s) /\ j \in Inums /\ s \in Slots /\ icache'[s].inum = j
  BY Zenon, <1>1, <1>2 DEF Got
<1> HIDE DEF j, s
<1>5. UNCHANGED <<dinode, dir, lock, file, put, back, raced>>
  BY Zenon, <1>1
<1>6. SlotsKeep(p) /\ \A t \in Slots : Sync(t)'
  BY Zenon, <1>0, <1>3, <1>4, <1>5, GotSync
<1>7. file[p] # None => file[p] \in Slots /\ icache[file[p]].ref > 0 /\ icache'[file[p]].inum = icache[file[p]].inum
                        /\ icache'[file[p]].valid
  BY Zenon, <1>0, <1>3, <1>6, InUse DEF SlotsKeep, Mine, Valid
<1>8. \A i \in Inums : (Holds(p, i)' <=> Holds(p, i) \/ i = j) /\ (Pends(p, i)' <=> Pends(p, i))
  BY Zenon, <1>3, <1>4, <1>5, <1>7 DEF Holds, HasFile, HasWalk, HasPut, Allocs, Pends, KeepsIp, HasIp, Putting
<1>9. Entries(j) # {} /\ dinode[j].type # 0
  BY Zenon, <1>1, <1>4, NamedAlive DEF j
<1>10. Effects(p)
  BY Zenon, <1>3, <1>5, <1>6, <1>8, <1>9 DEF Effects, SlotsKeep, Entries
<1>11. LockMoves(p)
  BY Zenon, <1>0, <1>3, <1>5, InodeAssumption DEF LockMoves, HoldsDir, HoldsSlot, Creating, Putting
<1>12. LinksCounted'
  BY Zenon, <1>0, <1>5, <1>6, <1>8, SameLinks DEF SlotsKeep
<1>13. Kept'
  BY Zenon, <1>0, <1>5, <1>8, <1>10, KeptStep
<1>14. (\A i \in Inums : Holds(p, i) => dinode[i].type # 0)'
  BY Zenon, <1>0, <1>5, <1>8, <1>9 DEF Mine
<1>15. Fresh(p)' /\ Truncs(p)' /\ Freed(p)'
  BY Zenon, <1>3 DEF Fresh, Truncs, Freed, Allocs
<1>16. Valid(p)'
  BY Zenon, <1>3, <1>5, <1>7 DEF Valid
<1>17. Named(p)'
  BY Zenon, <1>3, <1>4, <1>5 DEF Named, Creating, Putting, j
<1> QED
  BY Zenon, <1>6, <1>10, <1>11, <1>12, <1>13, <1>14, <1>15, <1>16, <1>17 DEF Right, Mine

\* The end of ialloc.
LEMMA IallocedRight ==
  ASSUME CountLaws, Typed, Counted, UseInv, NEW p \in Procs, Goes(p), ialloced(p)
  PROVE  Right(p)
<1>0. Frame(p) /\ Mine(p) /\ (dirlock = p <=> HoldsDir(p)) /\ \A s \in Slots : lock[s] = p <=> HoldsSlot(p, s)
  BY Zenon, StepFrame DEF Goes, UseInv, Mine, Alive, LockInv
<1>1. /\ pc[p] = "ialloced" /\ CanGet(ip[p]) /\ icache' = iget(ip[p])
      /\ ip' = [ip EXCEPT ![p] = Slot(ip[p])] /\ Goto(p, "created")
      /\ UNCHANGED <<dinode, dir, dirlock, lock, file, name, put, back, raced>>
  BY Zenon DEF ialloced, Panic, Goes
<1>2. ip[p] \in Inums /\ file[p] = None
  BY Zenon, <1>1 DEF Counted, RefersTo, Creating
<1>3. Got(ip[p], Slot(ip[p]))
  BY Zenon, <1>1, <1>2, IgetIs
<1> DEFINE j == ip[p]
           s == Slot(j)
<1>4. Got(j, s) /\ j \in Inums /\ s \in Slots /\ icache'[s].inum = j /\ pc'[p] = "created" /\ ip'[p] = s
  BY Zenon, <1>1, <1>2, <1>3 DEF Got, Typed, Goto
<1>5. Allocs(p, j) /\ \A i : Allocs(p, i) => i = j
  BY Zenon, <1>1 DEF Allocs
<1> HIDE DEF j, s
<1>6. UNCHANGED <<dinode, dir, dirlock, lock, file, name, put, back, raced>>
  BY Zenon, <1>1
<1>7. SlotsKeep(p) /\ \A t \in Slots : Sync(t)'
  BY Zenon, <1>0, <1>1, <1>4, <1>6, GotSync
<1>8. \A i \in Inums : (Holds(p, i)' <=> i = j) /\ (Holds(p, i) <=> i = j) /\ ~Pends(p, i)' /\ ~Pends(p, i)
  BY Zenon, <1>1, <1>2, <1>4, <1>5, <1>6 DEF Holds, HasFile, HasWalk, HasPut, Allocs, Pends, KeepsIp, HasIp, Putting
<1>9. dinode[j].type # 0 /\ dinode[j].nlink = 0 /\ \A q \in Procs : Holds(q, j) => q = p
  BY Zenon, <1>0, <1>4, <1>5, <1>8 DEF Mine, Fresh
<1>10. Effects(p)
  BY <1>1, <1>4, <1>6, <1>7, <1>8 DEF Effects, SlotsKeep, Entries
<1>11. LockMoves(p)
  BY Zenon, <1>0, <1>1, <1>4, <1>6 DEF LockMoves, HoldsDir, HoldsSlot, Creating
<1>12. LinksCounted'
  BY Zenon, <1>0, <1>6, <1>7, <1>8, SameLinks DEF SlotsKeep
<1>13. Kept'
  BY Zenon, <1>0, <1>6, <1>8, <1>10, KeptStep
<1>14. (\A i \in Inums : Holds(p, i) => dinode[i].type # 0)'
  BY Zenon, <1>6, <1>8, <1>9
<1>15. Fresh(p)'
  <2> SUFFICES ASSUME NEW i \in Inums, Holds(p, i)'
               PROVE  dinode'[i].nlink = 0 /\ \A q \in Procs : Holds(q, i)' => q = p
    BY Zenon DEF Fresh, Holds, HasWalk, KeepsIp, HasIp
  <2>1. i = j
    BY Zenon, <1>8
  <2>2. \A q \in Procs : q # p => (Holds(q, i)' <=> Holds(q, i))
    BY Zenon, <1>0, <1>7, OthersUse DEF SlotsKeep
  <2> QED
    BY Zenon, <1>6, <1>9, <2>1, <2>2
<1>16. Truncs(p)' /\ Freed(p)' /\ Valid(p)'
  BY Zenon, <1>2, <1>4, <1>6 DEF Truncs, Freed, Valid
<1>17. Named(p)'
  BY Zenon, <1>0, <1>1, <1>4, <1>6 DEF Mine, Named, Creating, Putting
<1> QED
  BY Zenon, <1>7, <1>10, <1>11, <1>12, <1>13, <1>14, <1>15, <1>16, <1>17 DEF Right, Mine

\* The look for the new name in dirlink, when it is taken.
LEMMA DirlinkTakenRight ==
  ASSUME CountLaws, Typed, Counted, UseInv, NEW p \in Procs, Goes(p), dirlink(p), dir[name[p]] # None
  PROVE  Right(p)
<1>0. Frame(p) /\ Mine(p) /\ (dirlock = p <=> HoldsDir(p)) /\ \A s \in Slots : lock[s] = p <=> HoldsSlot(p, s)
  BY Zenon, StepFrame DEF Goes, UseInv, Mine, Alive, LockInv
<1> DEFINE j == dir[name[p]]
           s == Slot(j)
<1>1. /\ pc[p] = "dirlink" /\ CanGet(j) /\ icache' = iget(j) /\ dirlock = Nobody /\ dirlock' = p
      /\ Put(p, s, "taken")
      /\ UNCHANGED <<dinode, dir, lock, file, name, ip, raced>>
  BY Zenon DEF dirlink, Panic, Goes
<1>2. j \in Inums /\ name[p] \in Names
  BY Zenon DEF Typed
<1>3. Got(j, s)
  BY Zenon, <1>1, <1>2, IgetIs
<1>4. /\ Got(j, s) /\ s \in Slots /\ icache'[s].inum = j
      /\ pc'[p] = "iput" /\ put'[p] = s /\ back'[p] = "taken" /\ dir[name[p]] = j
  BY Zenon, <1>1, <1>3 DEF Got, Typed, Goto, Put
<1>5. Entries(j) # {} /\ dinode[j].type # 0
  BY Zenon, <1>2, NamedAlive
<1> HIDE DEF j, s
<1>6. UNCHANGED <<dinode, dir, lock, file, name, ip, raced>> /\ dirlock = Nobody /\ dirlock' = p
  BY Zenon, <1>1
<1>7. SlotsKeep(p) /\ \A t \in Slots : Sync(t)'
  BY Zenon, <1>0, <1>1, <1>4, <1>6, GotSync
<1>8. /\ file[p] # None => icache'[file[p]].inum = icache[file[p]].inum /\ icache'[file[p]].valid
      /\ icache'[ip[p]].inum = icache[ip[p]].inum
  <2>1. file[p] # None => file[p] \in Slots /\ icache[file[p]].ref > 0 /\ icache[file[p]].valid
    BY Zenon, <1>0, InUse DEF Mine, Valid
  <2>2. ip[p] \in Slots /\ icache[ip[p]].ref > 0
    BY Zenon, <1>1, InUse DEF KeepsIp, HasIp
  <2> QED
    BY Zenon, <1>1, <1>7, <2>1, <2>2 DEF SlotsKeep
<1>9. \A i \in Inums : (Holds(p, i)' <=> Holds(p, i) \/ i = j) /\ (Pends(p, i)' <=> Pends(p, i))
  BY Zenon, <1>1, <1>4, <1>6, <1>8 DEF Holds, HasFile, HasWalk, HasPut, Allocs, Pends, KeepsIp, HasIp, Putting
<1>10. Effects(p)
  BY Zenon, <1>1, <1>5, <1>6, <1>7, <1>9 DEF Effects, SlotsKeep, Entries
<1>11. LockMoves(p)
  BY Zenon, <1>0, <1>1, <1>4, <1>6 DEF LockMoves, HoldsDir, HoldsSlot, Creating, Putting
<1>12. LinksCounted'
  BY Zenon, <1>0, <1>6, <1>7, <1>9, SameLinks DEF SlotsKeep
<1>13. Kept'
  BY Zenon, <1>0, <1>6, <1>9, <1>10, KeptStep
<1>14. (\A i \in Inums : Holds(p, i) => dinode[i].type # 0)'
  BY Zenon, <1>0, <1>5, <1>6, <1>9 DEF Mine
<1>15. Fresh(p)' /\ Truncs(p)' /\ Freed(p)'
  BY Zenon, <1>4 DEF Fresh, Truncs, Freed, Allocs
<1>16. Valid(p)'
  BY Zenon, <1>4, <1>6, <1>8 DEF Valid
<1>17. Named(p)'
  BY Zenon, <1>4, <1>6 DEF Named, Creating, Putting
<1> QED
  BY Zenon, <1>7, <1>10, <1>11, <1>12, <1>13, <1>14, <1>15, <1>16, <1>17 DEF Right, Mine

-----------------------------------------------------------------------------
\* ilock finds or loads what the disk has.
LEMMA LockedDisk ==
  ASSUME Typed, Counted, UseInv, NEW p \in Procs, NEW s \in Slots, icache[s].ref > 0,
         lock[s] \in {Nobody, p}, pc[p] # "freed"
  PROVE  /\ dinode[icache[s].inum] = [type |-> Locked(s).type, nlink |-> Locked(s).nlink]
         /\ icache[s].inum \in Inums /\ ~Freeing(s)
<1>1. icache[s].inum \in Inums
  BY Zenon, SlotInode
<1>2. ~Freeing(s)
  <2> SUFFICES ASSUME NEW q \in Procs, pc[q] = "freed", put[q] = s
               PROVE  FALSE
    BY Zenon DEF Freeing
  <2>1. lock[s] = q
    BY Zenon DEF UseInv, LockInv, HoldsSlot
  <2> QED
    BY Zenon, <2>1, InodeAssumption
<1>3. icache[s].valid => dinode[icache[s].inum] = [type |-> icache[s].type, nlink |-> icache[s].nlink]
  BY Zenon, <1>2 DEF UseInv, Sync
<1> QED
  BY Zenon, <1>1, <1>2, <1>3, LockedIs

\* The cache after ilock of slot s agrees with the disk.
LEMMA LockSync ==
  ASSUME Typed, Counted, UseInv, NEW p \in Procs, Frame(p), NEW s \in Slots, icache[s].ref > 0,
         lock[s] = Nobody, pc[p] # "freed", icache' = [icache EXCEPT ![s] = Locked(s)],
         dinode' = dinode, dinode[icache[s].inum].type # 0
  PROVE  SlotsKeep(p) /\ icache'[s].valid /\ \A t \in Slots : Sync(t)'
<1>1. Filled(s) /\ icache'[s] = Locked(s)
  BY Zenon, LockedFills
<1>2. /\ dinode[icache[s].inum] = [type |-> Locked(s).type, nlink |-> Locked(s).nlink]
      /\ icache[s].inum \in Inums
  BY Zenon, LockedDisk
<1>3. icache'[s].valid
  BY Zenon, <1>1, <1>2, LockedIs
<1>4. SlotsKeep(p)
  BY Zenon, <1>1, <1>3 DEF SlotsKeep, Filled, Content
<1>5. ASSUME NEW t \in Slots, t # s PROVE Sync(t)'
  <2>1. Steady(t)
    BY Zenon, <1>1, <1>5 DEF Steady, Filled
  <2> QED
    BY Zenon, <2>1, SyncStep
<1>6. Sync(s)'
  <2>1. Locked(s).type # 0
    BY <1>2
  <2> QED
    BY Zenon, <1>1, <1>2, <2>1 DEF Sync, Filled
<1> QED
  BY Zenon, <1>3, <1>4, <1>5, <1>6

\* The inode that a process walks to, by open, link or unlink, is allocated.
LEMMA WalkAlive ==
  ASSUME CountLaws, Typed, Counted, UseInv, NEW p \in Procs, KeepsIp(p)
  PROVE  /\ ip[p] \in Slots /\ icache[ip[p]].ref > 0 /\ icache[ip[p]].inum \in Inums
         /\ HasWalk(p, icache[ip[p]].inum) /\ dinode[icache[ip[p]].inum].type # 0
<1>1. ip[p] \in Slots /\ icache[ip[p]].ref > 0 /\ icache[ip[p]].inum \in Inums
  BY Zenon, InUse, SlotInode
<1>2. HasWalk(p, icache[ip[p]].inum)
  BY Zenon DEF HasWalk
<1> QED
  BY Zenon, <1>1, <1>2 DEF UseInv, Alive, Holds

\* The rest of sys_open.
LEMMA OpenRight ==
  ASSUME CountLaws, Typed, Counted, UseInv, NEW p \in Procs, Goes(p), sys_open(p)
  PROVE  Right(p)
<1>0. Frame(p) /\ Mine(p) /\ (dirlock = p <=> HoldsDir(p)) /\ \A s \in Slots : lock[s] = p <=> HoldsSlot(p, s)
  BY Zenon, StepFrame DEF Goes, UseInv, Mine, Alive, LockInv
<1>1. /\ pc[p] = "open" /\ lock[ip[p]] = Nobody /\ icache' = [icache EXCEPT ![ip[p]] = Locked(ip[p])]
      /\ UNCHANGED <<dinode, dir, dirlock, lock, name, ip, raced>>
      /\ \/ pc'[p] = "user" /\ file'[p] = ip[p]
         \/ pc'[p] = "iput" /\ put'[p] = ip[p] /\ back'[p] = "user" /\ file'[p] = file[p]
  BY DEF sys_open, ilock, Goto, Put, Panic, Goes, Typed
<1>2. file[p] = None
  BY Zenon, <1>1 DEF Counted, RefersTo, Creating
<1> DEFINE s == ip[p]
<1>3. s \in Slots /\ icache[s].ref > 0 /\ dinode[icache[s].inum].type # 0 /\ s # None
  BY Zenon, <1>1, WalkAlive, NoneApart DEF KeepsIp, HasIp
<1>4. SlotsKeep(p) /\ icache'[s].valid /\ icache'[s].inum = icache[s].inum /\ \A t \in Slots : Sync(t)'
  BY Zenon, <1>0, <1>1, <1>3, LockSync DEF SlotsKeep
<1>5. \A i \in Inums : (Holds(p, i)' <=> Holds(p, i)) /\ ~Pends(p, i)' /\ ~Pends(p, i)
  BY Zenon, <1>1, <1>2, <1>3, <1>4 DEF Holds, HasFile, HasWalk, HasPut, Allocs, Pends, KeepsIp, HasIp, Putting
<1>6. Effects(p)
  BY Zenon, <1>1, <1>4, <1>5 DEF Effects, SlotsKeep, Entries
<1>7. LockMoves(p)
  BY Zenon, <1>0, <1>1 DEF LockMoves, HoldsDir, HoldsSlot, Creating, Putting
<1>8. LinksCounted'
  BY Zenon, <1>0, <1>1, <1>4, <1>5, SameLinks DEF SlotsKeep
<1>9. Kept'
  BY Zenon, <1>0, <1>1, <1>5, <1>6, KeptStep
<1>10. (\A i \in Inums : Holds(p, i) => dinode[i].type # 0)'
  BY Zenon, <1>0, <1>1, <1>5 DEF Mine
<1>11. Fresh(p)' /\ Truncs(p)' /\ Freed(p)'
  BY Zenon, <1>1 DEF Fresh, Truncs, Freed, Allocs
<1>12. Valid(p)'
  BY Zenon, <1>1, <1>2, <1>4 DEF Valid
<1>13. Named(p)'
  BY Zenon, <1>1 DEF Named, Creating, Putting
<1> QED
  BY Zenon, <1>4, <1>6, <1>7, <1>8, <1>9, <1>10, <1>11, <1>12, <1>13 DEF Right, Mine

\* A read of an open file.
LEMMA ReadRight ==
  ASSUME CountLaws, Typed, Counted, UseInv, NEW p \in Procs, Goes(p), fileread(p)
  PROVE  Right(p)
<1>0. Frame(p) /\ Mine(p) /\ (dirlock = p <=> HoldsDir(p)) /\ \A s \in Slots : lock[s] = p <=> HoldsSlot(p, s)
  BY Zenon, StepFrame DEF Goes, UseInv, Mine, Alive, LockInv
<1> DEFINE s == file[p]
<1>1. /\ pc[p] = "user" /\ s # None /\ lock[s] = Nobody /\ icache' = [icache EXCEPT ![s] = Locked(s)]
      /\ UNCHANGED <<dinode, dir, dirlock, lock, file, pc, name, ip, put, back, raced>>
  BY Zenon DEF fileread, ilock, Panic, Goes, call
<1>2. s \in Slots /\ icache[s].ref > 0 /\ icache[s].inum \in Inums
  BY Zenon, <1>1, InUse, SlotInode
<1>3. dinode[icache[s].inum].type # 0
  BY Zenon, <1>0, <1>1, <1>2 DEF Mine, Holds, HasFile
<1>4. SlotsKeep(p) /\ icache'[s].valid /\ icache'[s].inum = icache[s].inum /\ \A t \in Slots : Sync(t)'
  BY Zenon, <1>0, <1>1, <1>2, <1>3, LockSync DEF SlotsKeep
<1>5. \A i \in Inums : (Holds(p, i)' <=> Holds(p, i)) /\ ~Pends(p, i)' /\ ~Pends(p, i)
  BY Zenon, <1>1, <1>4 DEF Holds, HasFile, HasWalk, HasPut, Allocs, Pends, KeepsIp, HasIp, Putting
<1>6. Effects(p)
  BY Zenon, <1>1, <1>4, <1>5 DEF Effects, SlotsKeep, Entries
<1>7. LockMoves(p)
  BY Zenon, <1>0, <1>1 DEF LockMoves, HoldsDir, HoldsSlot
<1>8. LinksCounted'
  BY Zenon, <1>0, <1>1, <1>4, <1>5, SameLinks DEF SlotsKeep
<1>9. Kept'
  BY Zenon, <1>0, <1>1, <1>5, <1>6, KeptStep
<1>10. (\A i \in Inums : Holds(p, i) => dinode[i].type # 0)'
  BY Zenon, <1>0, <1>1, <1>5 DEF Mine
<1>11. Fresh(p)' /\ Truncs(p)' /\ Freed(p)'
  BY Zenon, <1>1 DEF Fresh, Truncs, Freed, Allocs
<1>12. Valid(p)' /\ Named(p)'
  BY Zenon, <1>1, <1>4 DEF Valid, Named, Creating, Putting
<1> QED
  BY Zenon, <1>4, <1>6, <1>7, <1>8, <1>9, <1>10, <1>11, <1>12 DEF Right, Mine

\* unlink erases the name; its link stays counted.
LEMMA UnlinkRight ==
  ASSUME CountLaws, Typed, Counted, UseInv, NEW p \in Procs, Goes(p), sys_unlink(p)
  PROVE  Right(p)
<1>0. Frame(p) /\ Mine(p) /\ (dirlock = p <=> HoldsDir(p)) /\ \A s \in Slots : lock[s] = p <=> HoldsSlot(p, s)
  BY Zenon, StepFrame DEF Goes, UseInv, Mine, Alive, LockInv
<1> DEFINE s == ip[p]
           j == icache[s].inum
<1>1. /\ pc[p] = "unlink" /\ lock[s] = Nobody /\ icache' = [icache EXCEPT ![s] = Locked(s)]
      /\ UNCHANGED <<dinode, file, name, ip, put, back, raced>> /\ dirlock' = Nobody
      /\ dir' = [dir EXCEPT ![name[p]] = None] /\ lock' = [lock EXCEPT ![s] = p] /\ pc'[p] = "unlinked"
  BY Zenon DEF sys_unlink, ilock, Goto, Panic, Goes, Typed, call
<1>2. s \in Slots /\ icache[s].ref > 0 /\ dinode[icache[s].inum].type # 0 /\ j \in Inums
  BY Zenon, <1>1, WalkAlive DEF KeepsIp, HasIp
<1>3. dirlock = p /\ dir[name[p]] = j /\ name[p] \in Names
  BY Zenon, <1>0, <1>1 DEF HoldsDir, Mine, Named, Typed
<1>4. SlotsKeep(p) /\ icache'[s].valid /\ icache'[s].inum = j /\ \A t \in Slots : Sync(t)'
  BY Zenon, <1>0, <1>1, <1>2, LockSync DEF SlotsKeep
<1>5. file[p] # None => icache'[file[p]].inum = icache[file[p]].inum /\ icache'[file[p]].valid
  BY Zenon, <1>0, <1>1, <1>4, InUse DEF SlotsKeep, Mine, Valid
<1>6. \A i \in Inums : (Holds(p, i)' <=> Holds(p, i)) /\ (Pends(p, i)' <=> i = j) /\ ~Pends(p, i)
  BY Zenon, <1>1, <1>4, <1>5 DEF Holds, HasFile, HasWalk, HasPut, Allocs, Pends, KeepsIp, HasIp, Putting
<1>7. \A i \in Inums : Entries(i) = {} => Entries(i)' = {}
  BY <1>1, <1>3 DEF Entries, Typed, None, Inums
<1>8. Effects(p)
  BY Zenon, <1>1, <1>3, <1>4, <1>6, <1>7 DEF Effects, SlotsKeep
<1>9. LockMoves(p)
  <2>1. \A t \in Slots : (t # s => lock'[t] = lock[t]) /\ (t = s => lock'[t] = p)
    BY Zenon, <1>1, <1>2 DEF Typed
  <2> QED
    BY Zenon, <1>0, <1>1, <1>3, <2>1, InodeAssumption DEF LockMoves, HoldsDir, HoldsSlot, Creating, Putting
<1>10. LinksCounted'
  <2>1. ASSUME NEW i \in Inums PROVE Follows(Delta(p, name[p], None, i), i)
    <3>1. Delta(p, name[p], None, i) = 0
      BY <1>3, <1>6 DEF Delta, One, None, Inums
    <3>2. dinode'[i] = dinode[i] /\ dinode[i].nlink \in Int /\ (dinode[i].type = 0 \/ dinode[i].type # 0)
      BY Zenon, <1>1 DEF Typed, Dinodes
    <3> QED
      BY <3>1, <3>2 DEF Follows
  <2> QED
    BY Zenon, <1>0, <1>1, <1>3, <1>4, <2>1, LinksStep DEF SlotsKeep
<1>11. Kept'
  BY Zenon, <1>0, <1>1, <1>6, <1>8, KeptStep
<1>12. (\A i \in Inums : Holds(p, i) => dinode[i].type # 0)'
  BY Zenon, <1>0, <1>1, <1>6 DEF Mine
<1>13. Fresh(p)' /\ Truncs(p)' /\ Freed(p)'
  BY Zenon, <1>1 DEF Fresh, Truncs, Freed, Allocs
<1>14. Valid(p)' /\ Named(p)'
  BY Zenon, <1>1, <1>4, <1>5 DEF Valid, Named, Creating, Putting
<1> QED
  BY Zenon, <1>4, <1>8, <1>9, <1>10, <1>11, <1>12, <1>13, <1>14 DEF Right, Mine

-----------------------------------------------------------------------------
\* A change of the links of the inode in slot s to m goes through to the disk.
Relinked(s, m) ==
  /\ dinode' \in [Inums -> Dinodes]
  /\ \A i \in Inums : /\ dinode'[i].type = dinode[i].type
                      /\ dinode'[i].nlink = IF i = icache[s].inum THEN m ELSE dinode[i].nlink

\* Storing a link count that is d higher is what a change of the links by d calls for.
LEMMA RelinkedFollows ==
  ASSUME NEW s, NEW m, NEW d \in Int, Relinked(s, m), NEW i \in Inums, dinode[i].nlink \in Int,
         dinode[icache[s].inum].type # 0, m = dinode[icache[s].inum].nlink + d
  PROVE  Follows(IF i = icache[s].inum THEN d ELSE 0, i)
<1>1. dinode'[i].type = dinode[i].type
      /\ dinode'[i].nlink = IF i = icache[s].inum THEN m ELSE dinode[i].nlink
  BY Zenon DEF Relinked
<1>2. CASE i = icache[s].inum
  BY <1>1, <1>2 DEF Follows
<1>3. CASE i # icache[s].inum /\ dinode[i].type # 0
  BY <1>1, <1>3 DEF Follows
<1>4. CASE i # icache[s].inum /\ dinode[i].type = 0
  BY <1>1, <1>4 DEF Follows
<1> QED
  BY Zenon, <1>2, <1>3, <1>4

LEMMA NlinkOf == \A d, t, n : d = [type |-> t, nlink |-> n] => d.nlink = n
  OBVIOUS

LEMMA Unit == 1 \in Int /\ 1 = 0 + 1
  OBVIOUS

LEMMA LinkSync ==
  ASSUME Typed, Counted, UseInv, NEW p \in Procs, Frame(p), pc[p] # "freed",
         NEW s \in Slots, icache[s].ref > 0, lock[s] \in {Nobody, p},
         dinode[icache[s].inum].type # 0, NEW m \in Int, SetLinks(s, m)
  PROVE  SlotsKeep(p) /\ icache'[s].valid /\ Relinked(s, m) /\ \A t \in Slots : Sync(t)'
<1> DEFINE j == icache[s].inum
<1>1. /\ Filled(s) /\ dinode' \in [Inums -> Dinodes]
      /\ icache'[s].valid /\ icache'[s].type = Locked(s).type /\ icache'[s].nlink = m
      /\ dinode'[j] = [type |-> Locked(s).type, nlink |-> m]
      /\ \A i \in Inums : i # j => dinode'[i] = dinode[i]
  BY Zenon, LinksFill
<1>2. dinode[j] = [type |-> Locked(s).type, nlink |-> Locked(s).nlink] /\ j \in Inums
  BY Zenon, LockedDisk
<1>3. SlotsKeep(p)
  BY Zenon, <1>1 DEF SlotsKeep, Filled, Content
<1>4. Relinked(s, m)
  BY <1>1, <1>2 DEF Relinked
<1>5. ASSUME NEW t \in Slots, t # s PROVE Sync(t)'
  <2>1. icache[t].ref > 0 => icache[t].inum # j /\ icache[t].inum \in Inums
    BY Zenon, <1>5 DEF Counted
  <2>2. Steady(t)
    BY Zenon, <1>1, <1>5, <2>1 DEF Steady, Filled
  <2> QED
    BY Zenon, <2>2, SyncStep
<1>6. Sync(s)'
  BY <1>1, <1>2 DEF Sync, Filled
<1> QED
  BY Zenon, <1>1, <1>3, <1>4, <1>5, <1>6

\* The rest of create: the new inode has one link and one name.
LEMMA CreatedRight ==
  ASSUME CountLaws, Typed, Counted, UseInv, NEW p \in Procs, Goes(p), created(p)
  PROVE  Right(p)
<1>0. Frame(p) /\ Mine(p) /\ (dirlock = p <=> HoldsDir(p)) /\ \A s \in Slots : lock[s] = p <=> HoldsSlot(p, s)
  BY Zenon, StepFrame DEF Goes, UseInv, Mine, Alive, LockInv
<1> DEFINE s == ip[p]
           j == icache[s].inum
<1>1. /\ pc[p] = "created" /\ lock[s] = Nobody /\ SetLinks(s, 1)
      /\ UNCHANGED <<lock, name, ip, raced>> /\ dirlock' = Nobody
      /\ dir' = [dir EXCEPT ![name[p]] = j]
      /\ \/ pc'[p] = "user" /\ file'[p] = s
         \/ pc'[p] = "iput" /\ put'[p] = s /\ back'[p] = "user" /\ file'[p] = file[p]
  BY Zenon DEF created, ilock, Goto, Put, Panic, Goes, Typed
<1>2. s \in Slots /\ icache[s].ref > 0 /\ dinode[icache[s].inum].type # 0 /\ j \in Inums /\ s # None
  BY Zenon, <1>1, WalkAlive, NoneApart DEF KeepsIp, HasIp
<1>3. dirlock = p /\ dir[name[p]] = None /\ name[p] \in Names /\ file[p] = None /\ dinode[j].nlink = 0
  BY Zenon, <1>0, <1>1, <1>2 DEF HoldsDir, Mine, Named, Fresh, Typed, Creating, Counted, RefersTo
<1>4. SlotsKeep(p) /\ icache'[s].valid /\ icache'[s].inum = j /\ Relinked(s, 1) /\ \A t \in Slots : Sync(t)'
  BY Zenon, <1>0, <1>1, <1>2, Unit, LinkSync DEF SlotsKeep
<1>5. \A i \in Inums : (Holds(p, i)' <=> Holds(p, i)) /\ (Holds(p, i) <=> i = j) /\ ~Pends(p, i)' /\ ~Pends(p, i)
  BY Zenon, <1>1, <1>2, <1>3, <1>4 DEF Holds, HasFile, HasWalk, HasPut, Allocs, Pends, KeepsIp, HasIp, Putting
<1>6. \A i \in Inums : (i # j /\ Entries(i) = {} => Entries(i)' = {}) /\ (HasWalk(p, i) <=> i = j)
  BY Zenon, <1>1, <1>3 DEF Entries, Typed, HasWalk, KeepsIp, HasIp
<1>7. Effects(p)
  BY Zenon, <1>1, <1>3, <1>4, <1>5, <1>6 DEF Effects, SlotsKeep, Relinked
<1>8. LockMoves(p)
  BY Zenon, <1>0, <1>1, <1>3, InodeAssumption DEF LockMoves, HoldsDir, HoldsSlot, Creating, Putting
<1>9. LinksCounted'
  <2>1. ASSUME NEW i \in Inums PROVE Follows(Delta(p, name[p], j, i), i)
    <3>0. ~Pends(p, i)' /\ ~Pends(p, i) /\ dir[name[p]] # i
      BY Zenon, <1>3, <1>5, NoneApart
    <3>1. Delta(p, name[p], j, i) = IF i = j THEN 1 ELSE 0
      BY Zenon, <3>0, DeltaNamed
    <3>2. dinode[i].nlink \in Int
      BY Zenon DEF Typed, Dinodes
    <3> QED
      BY Zenon, <1>2, <1>3, <1>4, <3>1, <3>2, Unit, RelinkedFollows
  <2> HIDE DEF j
  <2>2. dir' = [dir EXCEPT ![name[p]] = j]
    BY Zenon, <1>1
  <2> QED
    BY Zenon, <1>0, <1>3, <1>4, <2>1, <2>2, LinksStep DEF SlotsKeep
<1>10. Kept'
  BY <1>0, <1>1, <1>4, <1>5, <1>7, KeptStep DEF Relinked
<1>11. (\A i \in Inums : Holds(p, i) => dinode[i].type # 0)'
  BY Zenon, <1>0, <1>4, <1>5 DEF Mine, Relinked
<1>12. Fresh(p)' /\ Truncs(p)' /\ Freed(p)'
  BY Zenon, <1>1 DEF Fresh, Truncs, Freed, Allocs
<1>13. Valid(p)' /\ Named(p)'
  BY Zenon, <1>1, <1>3, <1>4 DEF Valid, Named, Creating, Putting
<1> QED
  BY Zenon, <1>4, <1>7, <1>8, <1>9, <1>10, <1>11, <1>12, <1>13 DEF Right, Mine

\* link counts its link, and takes it back when the name is taken; unlink uncounts its own.
LEMMA CountRight ==
  ASSUME CountLaws, Typed, Counted, UseInv, NEW p \in Procs, Goes(p), sys_link(p) \/ bad(p) \/ unlinked(p)
  PROVE  Right(p)
<1>0. Frame(p) /\ Mine(p) /\ (dirlock = p <=> HoldsDir(p)) /\ \A s \in Slots : lock[s] = p <=> HoldsSlot(p, s)
  BY Zenon, StepFrame DEF Goes, UseInv, Mine, Alive, LockInv
<1> DEFINE s == ip[p]
           j == icache[s].inum
           up == pc[p] = "link"
           d == IF up THEN 1 ELSE -1
<1>1. /\ pc[p] \in {"link", "bad", "unlinked"}
      /\ UNCHANGED <<dir, dirlock, file, name, ip, raced>>
      /\ IF up THEN pc'[p] = "dirlink" ELSE pc'[p] = "iput" /\ put'[p] = s /\ back'[p] = "user"
      /\ IF pc[p] = "unlinked" THEN lock' = [lock EXCEPT ![s] = Nobody] ELSE lock' = lock /\ lock[s] = Nobody
      /\ IF pc[p] = "unlinked" THEN SetLinks(s, icache[s].nlink - 1) ELSE SetLinks(s, Locked(s).nlink + d)
  BY Zenon DEF sys_link, bad, unlinked, ilock, Goto, Put, Panic, Goes, Typed, call
<1>2. s \in Slots /\ icache[s].ref > 0 /\ dinode[j].type # 0 /\ j \in Inums
  BY Zenon, <1>1, WalkAlive DEF KeepsIp, HasIp
<1>3. lock[s] \in {Nobody, p} /\ (pc[p] = "unlinked" => lock[s] = p)
  BY Zenon, <1>0, <1>1, <1>2 DEF HoldsSlot
<1>4. dinode[j].nlink = Locked(s).nlink /\ dinode[j].nlink \in Int
      /\ (pc[p] = "unlinked" => icache[s].nlink = Locked(s).nlink)
  <2>1. dinode[j] = [type |-> Locked(s).type, nlink |-> Locked(s).nlink]
    BY Zenon, <1>1, <1>2, <1>3, LockedDisk
  <2>2. pc[p] = "unlinked" => icache[s].valid
    BY Zenon, <1>0 DEF Mine, Valid
  <2>3. Locked(s).nlink \in Int /\ (icache[s].valid => Locked(s) = icache[s])
    BY Zenon, <1>2, LockedIs DEF Cached
  <2>4. dinode[j].nlink = Locked(s).nlink
    BY Zenon, <2>1, NlinkOf
  <2> QED
    BY Zenon, <2>2, <2>3, <2>4
<1>5. SetLinks(s, dinode[j].nlink + d) /\ dinode[j].nlink + d \in Int /\ d \in Int
  <2>1. ASSUME NEW x \in Int PROVE x + 1 \in Int /\ x + (-1) \in Int /\ x - 1 = x + (-1)
    BY <2>1
  <2>2. d \in {1, -1} /\ 1 \in Int /\ -1 \in Int /\ (pc[p] = "unlinked" => d = -1)
    OBVIOUS
  <2>3. dinode[j].nlink + d \in Int /\ d \in Int
    BY Zenon, <1>4, <2>1, <2>2
  <2>4. SetLinks(s, dinode[j].nlink + d)
    BY Zenon, <1>1, <1>4, <2>1, <2>2
  <2> QED
    BY Zenon, <2>3, <2>4
<1> DEFINE m == dinode[j].nlink + d
<1>6. SlotsKeep(p) /\ icache'[s].valid /\ icache'[s].inum = j /\ Relinked(s, m) /\ \A t \in Slots : Sync(t)'
  <2> HIDE DEF m
  <2>1. SetLinks(s, m) /\ m \in Int
    BY Zenon, <1>5 DEF m
  <2> QED
    BY Zenon, <1>0, <1>1, <1>2, <1>3, <2>1, LinkSync DEF SlotsKeep
<1>7. file[p] # None => icache'[file[p]].inum = icache[file[p]].inum /\ icache'[file[p]].valid
  BY Zenon, <1>0, <1>1, <1>6, InUse DEF SlotsKeep, Mine, Valid
<1>8. \A i \in Inums : /\ Holds(p, i)' <=> Holds(p, i)
                       /\ HasWalk(p, i) <=> i = j
                       /\ Pends(p, i)' <=> up /\ i = j
                       /\ Pends(p, i) <=> ~up /\ i = j
  BY Zenon, <1>1, <1>6, <1>7 DEF Holds, HasFile, HasWalk, HasPut, Allocs, Pends, KeepsIp, HasIp, Putting
<1>9. Effects(p)
  BY Zenon, <1>1, <1>6, <1>8 DEF Effects, SlotsKeep, Relinked, Entries
<1>10. LockMoves(p)
  <2>1. \A t \in Slots : (t # s => lock'[t] = lock[t]) /\ (pc[p] # "unlinked" => lock'[t] = lock[t])
                         /\ (pc[p] = "unlinked" /\ t = s => lock'[t] = Nobody)
    BY Zenon, <1>1, <1>2 DEF Typed
  <2> QED
    BY Zenon, <1>0, <1>1, <1>3, <2>1, InodeAssumption DEF LockMoves, HoldsDir, HoldsSlot, Creating, Putting
<1>11. LinksCounted'
  <2>1. PICK n \in Names : TRUE
    BY Zenon, InodeAssumption
  <2> DEFINE v == dir[n]
  <2>2. dir' = [dir EXCEPT ![n] = v]
    BY Zenon, <1>1 DEF Typed
  <2>3. ASSUME NEW i \in Inums PROVE Follows(Delta(p, n, v, i), i)
    <3>1. Delta(p, n, v, i) = IF i = j THEN d ELSE 0
      BY Zenon, <1>8, DeltaPends
    <3>2. dinode[i].nlink \in Int
      BY Zenon DEF Typed, Dinodes
    <3> QED
      BY Zenon, <1>2, <1>5, <1>6, <3>1, <3>2, RelinkedFollows
  <2> HIDE DEF v
  <2> QED
    BY Zenon, <1>0, <1>6, <2>2, <2>3, LinksStep DEF SlotsKeep
<1>12. Kept'
  <2>1. Holds(p, j)
    BY Zenon, <1>2, <1>8 DEF Holds
  <2>2. \A i \in Inums : i = j => Holds(p, i)'
    BY Zenon, <1>8, <2>1
  <2> QED
    BY Zenon, <1>0, <1>1, <1>6, <1>8, <1>9, <2>2, KeptStep DEF Relinked
<1>13. (\A i \in Inums : Holds(p, i) => dinode[i].type # 0)'
  BY Zenon, <1>0, <1>6, <1>8 DEF Mine, Relinked
<1>14. Fresh(p)' /\ Truncs(p)' /\ Freed(p)'
  BY Zenon, <1>1 DEF Fresh, Truncs, Freed, Allocs
<1>15. Valid(p)' /\ Named(p)'
  BY Zenon, <1>1, <1>6, <1>7 DEF Valid, Named, Creating, Putting
<1> QED
  BY Zenon, <1>6, <1>9, <1>10, <1>11, <1>12, <1>13, <1>14, <1>15 DEF Right, Mine

\* dirlink enters the new name, whose link is counted already.
LEMMA DirlinkRight ==
  ASSUME CountLaws, Typed, Counted, UseInv, NEW p \in Procs, Goes(p), dirlink(p), dir[name[p]] = None
  PROVE  Right(p)
<1>0. Frame(p) /\ Mine(p) /\ (dirlock = p <=> HoldsDir(p)) /\ \A s \in Slots : lock[s] = p <=> HoldsSlot(p, s)
  BY Zenon, StepFrame DEF Goes, UseInv, Mine, Alive, LockInv
<1> DEFINE s == ip[p]
           j == icache[s].inum
<1>1. /\ pc[p] = "dirlink" /\ dirlock = Nobody
      /\ UNCHANGED <<dinode, dirlock, icache, lock, file, name, ip, raced>>
      /\ dir' = [dir EXCEPT ![name[p]] = j]
      /\ pc'[p] = "iput" /\ put'[p] = s /\ back'[p] = "user"
  BY DEF dirlink, Goto, Put, Panic, Goes, Typed
<1>2. s \in Slots /\ icache[s].ref > 0 /\ j \in Inums /\ name[p] \in Names /\ icache[s].valid
  BY Zenon, <1>0, <1>1, WalkAlive DEF KeepsIp, HasIp, Typed, Mine, Valid
<1>3. \A t \in Slots : Sync(t)'
  <2>1. \A t \in Slots : Steady(t)
    BY Zenon, <1>1 DEF Steady
  <2> QED
    BY Zenon, <1>0, <1>1, <2>1, SyncStep
<1>4. \A i \in Inums : /\ Holds(p, i)' <=> Holds(p, i)
                       /\ HasWalk(p, i) <=> i = j
                       /\ ~Pends(p, i)' /\ (Pends(p, i) <=> i = j)
  BY Zenon, <1>1 DEF Holds, HasFile, HasWalk, HasPut, Allocs, Pends, KeepsIp, HasIp, Putting
<1>5. \A i \in Inums : i # j /\ Entries(i) = {} => Entries(i)' = {}
  BY Zenon, <1>1, <1>2 DEF Entries, Typed
<1>6. Effects(p)
  BY Zenon, <1>1, <1>4, <1>5 DEF Effects
<1>7. LockMoves(p)
  BY Zenon, <1>0, <1>1, InodeAssumption DEF LockMoves, HoldsDir, HoldsSlot, Creating, Putting
<1>8. LinksCounted'
  <2>1. ASSUME NEW i \in Inums PROVE Follows(Delta(p, name[p], j, i), i)
    <3>1. Delta(p, name[p], j, i) = 0
      BY <1>4 DEF Delta, One, None, Inums
    <3>2. dinode'[i] = dinode[i] /\ dinode[i].nlink \in Int /\ (dinode[i].type = 0 \/ dinode[i].type # 0)
      BY Zenon, <1>1 DEF Typed, Dinodes
    <3> QED
      BY <3>1, <3>2 DEF Follows
  <2> HIDE DEF j
  <2>2. dir' = [dir EXCEPT ![name[p]] = j]
    BY Zenon, <1>1
  <2> QED
    BY Zenon, <1>0, <1>1, <1>2, <2>1, <2>2, LinksStep
<1>9. Kept'
  BY Zenon, <1>0, <1>1, <1>4, <1>6, KeptStep
<1>10. (\A i \in Inums : Holds(p, i) => dinode[i].type # 0)'
  BY Zenon, <1>0, <1>1, <1>4 DEF Mine
<1>11. Fresh(p)' /\ Truncs(p)' /\ Freed(p)'
  BY Zenon, <1>1 DEF Fresh, Truncs, Freed, Allocs
<1>12. Valid(p)' /\ Named(p)'
  BY Zenon, <1>0, <1>1, <1>2 DEF Valid, Named, Creating, Putting, Mine
<1> QED
  BY Zenon, <1>3, <1>6, <1>7, <1>8, <1>9, <1>10, <1>11, <1>12 DEF Right, Mine

-----------------------------------------------------------------------------
\* A step that changes neither the disk nor the cache.
LEMMA StillRight ==
  ASSUME CountLaws, Typed, Counted, UseInv, NEW p \in Procs, Frame(p), UNCHANGED <<dinode, dir, icache, raced>>,
         pc[p] \notin {"freed", "created", "ialloced"},
         \A i \in Inums : (Holds(p, i)' <=> Holds(p, i)) /\ (Pends(p, i)' <=> Pends(p, i)),
         LockMoves(p), Fresh(p)', Truncs(p)', Freed(p)', Valid(p)', Named(p)'
  PROVE  Right(p)
<1>1. \A t \in Slots : Sync(t)'
  <2>1. \A t \in Slots : Steady(t)
    BY Zenon DEF Steady
  <2> QED
    BY Zenon, <2>1, SyncStep
<1>2. Effects(p)
  BY Zenon DEF Effects, Entries
<1>3. LinksCounted'
  BY Zenon, SameLinks
<1>4. Kept'
  BY Zenon, <1>2, KeptStep
<1>5. (\A i \in Inums : Holds(p, i) => dinode[i].type # 0)'
  BY Zenon DEF UseInv, Alive
<1> QED
  BY Zenon, <1>1, <1>2, <1>3, <1>4, <1>5 DEF Right, Mine

LEMMA QuietRight ==
  ASSUME CountLaws, Typed, Counted, UseInv, NEW p \in Procs, Goes(p),
         \/ Missing(p) \/ create(p) \/ taken(p) \/ fileclose(p)
         \/ ialloc(p) /\ dinode[ip[p]].type # 0
  PROVE  Right(p)
<1>0. Frame(p) /\ Mine(p) /\ (dirlock = p <=> HoldsDir(p)) /\ \A s \in Slots : lock[s] = p <=> HoldsSlot(p, s)
  BY Zenon, StepFrame DEF Goes, UseInv, Mine, Alive, LockInv
<1> USE DEF Goto, Put, call
<1>1. CASE Missing(p)
  <2>1. UNCHANGED vars /\ pc[p] = "user"
    BY Zenon, <1>1 DEF Missing
  <2>2. \A i \in Inums : (Holds(p, i)' <=> Holds(p, i)) /\ (Pends(p, i)' <=> Pends(p, i))
    BY Zenon, <2>1 DEF vars, Holds, HasFile, HasWalk, HasPut, Allocs, Pends, KeepsIp
  <2>3. LockMoves(p)
    BY Zenon, <1>0, <2>1 DEF vars, LockMoves, HoldsDir, HoldsSlot
  <2>4. Fresh(p)' /\ Truncs(p)' /\ Freed(p)'
    BY Zenon, <2>1 DEF vars, Fresh, Truncs, Freed, Allocs
  <2>5. Valid(p)' /\ Named(p)'
    BY Zenon, <1>0, <2>1 DEF vars, Mine, Valid, Named, Creating, Putting
  <2> QED
    BY Zenon, <1>0, <2>1, <2>2, <2>3, <2>4, <2>5, StillRight DEF vars
<1>2. CASE create(p)
  <2>1. /\ pc[p] = "user" /\ pc'[p] = "ialloc" /\ file[p] = None /\ ip'[p] = 1 /\ dir[name'[p]] = None
        /\ dirlock = Nobody /\ dirlock' = p
        /\ UNCHANGED <<dinode, dir, icache, lock, file, put, back, raced>>
    BY Zenon, <1>2 DEF create, Typed
  <2>2. \A i \in Inums : (Holds(p, i)' <=> Holds(p, i)) /\ (Pends(p, i)' <=> Pends(p, i))
    BY Zenon, <2>1 DEF Holds, HasFile, HasWalk, HasPut, Allocs, Pends, KeepsIp, HasIp, Putting
  <2>3. LockMoves(p)
    BY Zenon, <1>0, <2>1 DEF LockMoves, HoldsDir, HoldsSlot, Creating
  <2>4. Fresh(p)' /\ Truncs(p)' /\ Freed(p)' /\ Valid(p)'
    BY Zenon, <2>1 DEF Fresh, Truncs, Freed, Allocs, Valid
  <2>5. Named(p)'
    BY Zenon, <2>1 DEF Named, Creating, Putting
  <2> QED
    BY Zenon, <1>0, <2>1, <2>2, <2>3, <2>4, <2>5, StillRight
<1>3. CASE taken(p)
  <2>1. /\ pc[p] = "taken" /\ pc'[p] = "bad" /\ dirlock' = Nobody
        /\ UNCHANGED <<dinode, dir, icache, lock, file, name, ip, put, back, raced>>
    BY Zenon, <1>3 DEF taken, Typed
  <2>2. \A i \in Inums : (Holds(p, i)' <=> Holds(p, i)) /\ (Pends(p, i)' <=> Pends(p, i))
    BY Zenon, <2>1 DEF Holds, HasFile, HasWalk, HasPut, Allocs, Pends, KeepsIp, HasIp, Putting
  <2>3. LockMoves(p)
    BY Zenon, <1>0, <2>1, InodeAssumption DEF LockMoves, HoldsDir, HoldsSlot, Creating, Putting
  <2>4. Fresh(p)' /\ Truncs(p)' /\ Freed(p)'
    BY Zenon, <2>1 DEF Fresh, Truncs, Freed, Allocs
  <2>5. Valid(p)' /\ Named(p)'
    BY Zenon, <1>0, <2>1 DEF Mine, Valid, Named, Creating, Putting
  <2> QED
    BY Zenon, <1>0, <2>1, <2>2, <2>3, <2>4, <2>5, StillRight
<1>4. CASE fileclose(p)
  <2>1. /\ pc[p] = "user" /\ pc'[p] = "iput" /\ file[p] # None /\ file'[p] = None
        /\ put'[p] = file[p] /\ back'[p] = "user"
        /\ UNCHANGED <<dinode, dir, dirlock, icache, lock, name, ip, raced>>
    BY Zenon, <1>4 DEF fileclose, Typed
  <2>2. \A i \in Inums : (Holds(p, i)' <=> Holds(p, i)) /\ (Pends(p, i)' <=> Pends(p, i))
    BY Zenon, <2>1 DEF Holds, HasFile, HasWalk, HasPut, Allocs, Pends, KeepsIp, HasIp, Putting
  <2>3. LockMoves(p)
    BY Zenon, <1>0, <2>1 DEF LockMoves, HoldsDir, HoldsSlot, Creating, Putting
  <2>4. Fresh(p)' /\ Truncs(p)' /\ Freed(p)'
    BY Zenon, <2>1 DEF Fresh, Truncs, Freed, Allocs
  <2>5. Valid(p)' /\ Named(p)'
    BY Zenon, <1>0, <2>1 DEF Mine, Valid, Named, Creating, Putting
  <2> QED
    BY Zenon, <1>0, <2>1, <2>2, <2>3, <2>4, <2>5, StillRight
<1>5. CASE ialloc(p) /\ dinode[ip[p]].type # 0
  <2>1. /\ pc[p] = "ialloc" /\ pc'[p] = "ialloc" /\ ip'[p] = ip[p] + 1 /\ ip[p] \in Inums
        /\ UNCHANGED <<dinode, dir, dirlock, icache, lock, file, name, put, back, raced>>
    BY <1>5 DEF ialloc, Typed, Panic, Goes
  <2>2. \A i \in Inums : (Holds(p, i)' <=> Holds(p, i)) /\ (Pends(p, i)' <=> Pends(p, i))
    BY Zenon, <2>1 DEF Holds, HasFile, HasWalk, HasPut, Allocs, Pends, KeepsIp, HasIp, Putting
  <2>3. LockMoves(p)
    BY Zenon, <1>0, <2>1 DEF LockMoves, HoldsDir, HoldsSlot, Creating
  <2>4. Fresh(p)' /\ Truncs(p)' /\ Freed(p)' /\ Valid(p)'
    BY Zenon, <1>0, <2>1 DEF Fresh, Truncs, Freed, Allocs, Valid, Mine
  <2>5. Named(p)'
    <3>1. dir[name[p]] = None
      BY Zenon, <1>0, <2>1 DEF Mine, Named, Creating
    <3> QED
      BY Zenon, <2>1, <3>1 DEF Named, Creating, Putting
  <2> QED
    BY Zenon, <1>0, <2>1, <2>2, <2>3, <2>4, <2>5, StillRight
<1> QED
  BY Zenon, <1>1, <1>2, <1>3, <1>4, <1>5

\* ialloc takes a free inode, which nobody uses.
LEMMA IallocRight ==
  ASSUME CountLaws, Typed, Counted, UseInv, NEW p \in Procs, Goes(p), ialloc(p), dinode[ip[p]].type = 0
  PROVE  Right(p)
<1>0. Frame(p) /\ Mine(p) /\ (dirlock = p <=> HoldsDir(p)) /\ \A s \in Slots : lock[s] = p <=> HoldsSlot(p, s)
  BY Zenon, StepFrame DEF Goes, UseInv, Mine, Alive, LockInv
<1> DEFINE j == ip[p]
<1>1. /\ pc[p] = "ialloc" /\ pc'[p] = "ialloced" /\ j \in Inums /\ ip' = ip
      /\ dinode' = [dinode EXCEPT ![j] = [type |-> T_FILE, nlink |-> 0]]
      /\ UNCHANGED <<dir, dirlock, icache, lock, file, name, put, back, raced>>
  BY Zenon DEF ialloc, Goto, Typed, Panic, Goes
<1>2. /\ dinode'[j].type # 0 /\ dinode'[j].nlink = 0
      /\ \A i \in Inums : i # j => dinode'[i] = dinode[i]
  BY <1>1 DEF Typed, T_FILE
<1>3. file[p] = None
  BY Zenon, <1>1 DEF Counted, RefersTo, Creating
<1>4. \A i \in Inums : (Holds(p, i)' <=> i = j) /\ ~Holds(p, i) /\ ~Pends(p, i)' /\ ~Pends(p, i)
  BY Zenon, <1>1, <1>3 DEF Holds, HasFile, HasWalk, HasPut, Allocs, Pends, KeepsIp, HasIp, Putting
<1>5. \A t \in Slots : Sync(t)'
  <2>1. ASSUME NEW t \in Slots PROVE Sync(t)'
    <3>1. CASE icache[t].inum # j
      <4>1. Steady(t)
        BY Zenon, <1>1, <1>2, <3>1, SlotInode DEF Steady
      <4> QED
        BY Zenon, <1>0, <1>1, <4>1, SyncStep
    <3>2. CASE icache[t].inum = j
      <4>1. icache[t].ref > 0 /\ icache[t].valid => Freeing(t)
        <5>1. Sync(t) /\ dinode[icache[t].inum].type = 0
          BY Zenon, <3>2 DEF UseInv
        <5> QED
          BY <5>1 DEF Sync
      <4>2. Freeing(t) => Freeing(t)'
        BY Zenon, <1>0, <1>1 DEF Freeing, Frame
      <4> QED
        BY Zenon, <1>1, <4>1, <4>2 DEF Sync
    <3> QED
      BY Zenon, <3>1, <3>2
  <2> QED
    BY Zenon, <2>1
<1>6. Effects(p)
  BY Zenon, <1>1, <1>2, <1>4 DEF Effects, Entries
<1>7. LockMoves(p)
  BY Zenon, <1>0, <1>1 DEF LockMoves, HoldsDir, HoldsSlot, Creating
<1>8. LinksCounted'
  <2>1. PICK n \in Names : TRUE
    BY Zenon, InodeAssumption
  <2> DEFINE v == dir[n]
  <2>2. dir' = [dir EXCEPT ![n] = v]
    BY Zenon, <1>1 DEF Typed
  <2>3. ASSUME NEW i \in Inums PROVE Follows(Delta(p, n, v, i), i)
    <3>1. Delta(p, n, v, i) = 0
      BY <1>4 DEF Delta, One
    <3>2. dinode[i].nlink \in Int
      BY Zenon DEF Typed, Dinodes
    <3>3. CASE i = j
      BY <1>2, <3>1, <3>3 DEF Follows
    <3>4. CASE i # j
      BY <1>2, <3>1, <3>2, <3>4 DEF Follows
    <3> QED
      BY Zenon, <3>3, <3>4
  <2> HIDE DEF v
  <2> QED
    BY Zenon, <1>0, <1>1, <2>2, <2>3, LinksStep
<1>9. Kept'
  BY Zenon, <1>0, <1>1, <1>2, <1>4, <1>6, KeptStep
<1>10. (\A i \in Inums : Holds(p, i) => dinode[i].type # 0)'
  BY Zenon, <1>2, <1>4
<1>11. Fresh(p)'
  <2> SUFFICES ASSUME NEW i \in Inums, Holds(p, i)'
               PROVE  dinode'[i].nlink = 0 /\ \A q \in Procs : Holds(q, i)' => q = p
    BY Zenon, <1>1 DEF Fresh, Holds
  <2>1. i = j
    BY Zenon, <1>4
  <2>2. \A q \in Procs : q # p => (Holds(q, i)' <=> Holds(q, i))
    BY Zenon, <1>0, <1>1, OthersUse
  <2>3. \A q \in Procs : ~Holds(q, i)
    BY Zenon, <2>1 DEF UseInv, Alive
  <2> QED
    BY Zenon, <1>2, <2>1, <2>2, <2>3
<1>12. Truncs(p)' /\ Freed(p)' /\ Valid(p)'
  BY Zenon, <1>1, <1>3 DEF Truncs, Freed, Valid
<1>13. Named(p)'
  BY Zenon, <1>0, <1>1 DEF Mine, Named, Creating, Putting
<1> QED
  BY Zenon, <1>5, <1>6, <1>7, <1>8, <1>9, <1>10, <1>11, <1>12, <1>13 DEF Right, Mine

\* iput that finds the last reference to an inode without links, and locks it.
LEMMA IputLastRight ==
  ASSUME CountLaws, Typed, Counted, UseInv, NEW p \in Procs, Goes(p), iput(p), Last(put[p])
  PROVE  Right(p)
<1>0. Frame(p) /\ Mine(p) /\ (dirlock = p <=> HoldsDir(p)) /\ \A s \in Slots : lock[s] = p <=> HoldsSlot(p, s)
  BY Zenon, StepFrame DEF Goes, UseInv, Mine, Alive, LockInv
<1> DEFINE s == put[p]
           j == icache[s].inum
<1>1. /\ pc[p] = "iput" /\ pc'[p] = "itrunc" /\ lock[s] = Nobody /\ lock' = [lock EXCEPT ![s] = p]
      /\ UNCHANGED <<dinode, dir, dirlock, icache, file, name, ip, put, back>>
  BY Zenon DEF iput, Goto, Typed, call
<1>2. s \in Slots /\ icache[s].ref = 1 /\ icache[s].valid /\ icache[s].nlink = 0 /\ j \in Inums
  BY Zenon, <1>1, InUse, SlotInode DEF Last, Putting
<1>3. \A q \in Procs : /\ file[q] # s /\ ~(KeepsIp(q) /\ ip[q] = s)
                       /\ pc[q] \in Putting /\ put[q] = s => q = p
  BY Zenon, <1>1, <1>2, SoleReference DEF Putting
<1>4. raced' = raced
  BY Zenon, <1>1, <1>3 DEF iput, Putting
<1>5. \A i \in Inums : (Holds(p, i)' <=> Holds(p, i)) /\ (Pends(p, i)' <=> Pends(p, i))
  BY Zenon, <1>1 DEF Holds, HasFile, HasWalk, HasPut, Allocs, Pends, KeepsIp, HasIp, Putting
<1>6. LockMoves(p)
  <2>1. \A t \in Slots : (t # s => lock'[t] = lock[t]) /\ (t = s => lock'[t] = p)
    BY Zenon, <1>1, <1>2 DEF Typed
  <2> QED
    BY Zenon, <1>0, <1>1, <2>1 DEF LockMoves, HoldsDir, HoldsSlot, Creating, Putting
<1>7. Truncs(p)'
  <2>1. \A t \in Slots : icache[t].ref > 0 /\ icache[t].inum = j => t = s
    BY <1>2 DEF Counted
  <2>2. \A q \in Procs : ~HasFile(q, j) /\ ~HasWalk(q, j) /\ (HasPut(q, j) => q = p)
    <3> TAKE q \in Procs
    <3>1. ~HasFile(q, j)
      BY Zenon, <1>3, <2>1, InUse DEF HasFile
    <3>2. ~HasWalk(q, j)
      BY Zenon, <1>3, <2>1, InUse DEF HasWalk
    <3>3. HasPut(q, j) => q = p
      BY Zenon, <1>3, <2>1, InUse DEF HasPut, Putting
    <3> QED
      BY Zenon, <3>1, <3>2, <3>3
  <2>3. \A q \in Procs : ~Allocs(q, j)
    <3>1. Holds(p, j)
      BY Zenon, <1>1 DEF Holds, HasPut
    <3> QED
      BY Zenon, <1>1, <1>2, <3>1 DEF UseInv, Fresh, Allocs
  <2>4. \A q \in Procs : \A i :
          /\ HasFile(q, i)' <=> HasFile(q, i)
          /\ HasWalk(q, i)' <=> HasWalk(q, i)
          /\ HasPut(q, i)' <=> HasPut(q, i)
          /\ Allocs(q, i)' <=> Allocs(q, i)
    <3>1. \A q \in Procs : \A i : q # p =>
            /\ HasFile(q, i)' <=> HasFile(q, i)
            /\ HasWalk(q, i)' <=> HasWalk(q, i)
            /\ HasPut(q, i)' <=> HasPut(q, i)
            /\ Allocs(q, i)' <=> Allocs(q, i)
      BY Zenon, <1>0, <1>1, OthersUse
    <3>2. \A i : /\ HasFile(p, i)' <=> HasFile(p, i)
                 /\ HasWalk(p, i)' <=> HasWalk(p, i)
                 /\ HasPut(p, i)' <=> HasPut(p, i)
                 /\ Allocs(p, i)' <=> Allocs(p, i)
      BY Zenon, <1>1 DEF HasFile, HasWalk, HasPut, Allocs, KeepsIp, HasIp, Putting
    <3> QED
      BY Zenon, <3>1, <3>2
  <2>5. icache'[put'[p]].valid /\ icache'[put'[p]].nlink = 0 /\ icache'[put'[p]].inum = j
    BY Zenon, <1>1, <1>2
  <2> SUFFICES ASSUME NEW i, i = icache'[put'[p]].inum, NEW q \in Procs
               PROVE  /\ ~HasFile(q, i)' /\ ~HasWalk(q, i)' /\ ~Allocs(q, i)'
                      /\ HasPut(q, i)' => q = p
    BY Zenon, <2>5 DEF Truncs
  <2> QED
    BY Zenon, <2>2, <2>3, <2>4, <2>5
<1>8. Fresh(p)' /\ Freed(p)' /\ Valid(p)'
  BY Zenon, <1>0, <1>1 DEF Fresh, Freed, Allocs, Valid, Mine
<1>9. Named(p)'
  BY Zenon, <1>0, <1>1 DEF Mine, Named, Creating, Putting
<1> QED
  BY Zenon, <1>0, <1>1, <1>4, <1>5, <1>6, <1>7, <1>8, <1>9, StillRight

\* iput that finds a link or another reference.  An inode without links that is left has
\* another user, unless the other references are going at the same time.
LEMMA IputRight ==
  ASSUME CountLaws, Typed, Counted, UseInv, NEW p \in Procs, Goes(p), iput(p), ~Last(put[p])
  PROVE  Right(p)
<1>0. Frame(p) /\ Mine(p) /\ (dirlock = p <=> HoldsDir(p)) /\ \A s \in Slots : lock[s] = p <=> HoldsSlot(p, s)
  BY Zenon, StepFrame DEF Goes, UseInv, Mine, Alive, LockInv
<1> DEFINE s == put[p]
           j == icache[s].inum
<1>1. /\ pc[p] = "iput" /\ pc'[p] = "drop" /\ lock[s] = Nobody
      /\ UNCHANGED <<dinode, dir, dirlock, icache, lock, file, name, ip, put, back>>
  BY Zenon DEF iput, Goto, Typed, call
<1>2. s \in Slots /\ icache[s].ref > 0 /\ j \in Inums
  BY Zenon, <1>1, InUse, SlotInode DEF Putting
<1>3. \A i \in Inums : /\ Holds(p, i)' => Holds(p, i)
                       /\ Holds(p, i) => Holds(p, i)' \/ i = j
                       /\ HasFile(p, i) \/ HasWalk(p, i) => Holds(p, i)'
                       /\ Pends(p, i)' <=> Pends(p, i)
  BY Zenon, <1>1 DEF Holds, HasFile, HasWalk, HasPut, Allocs, Pends, KeepsIp, HasIp, Putting
<1>4. \A t \in Slots : Sync(t)'
  <2>1. \A t \in Slots : Steady(t)
    BY Zenon, <1>1 DEF Steady
  <2> QED
    BY Zenon, <1>0, <1>1, <2>1, SyncStep
<1>5. Effects(p)
  BY Zenon, <1>1, <1>3 DEF Effects, Entries
<1>6. LockMoves(p)
  BY Zenon, <1>0, <1>1 DEF LockMoves, HoldsDir, HoldsSlot, Creating, Putting
<1>7. LinksCounted'
  BY Zenon, <1>0, <1>1, <1>3, SameLinks
<1>8. Kept'
  <2>1. ASSUME j \notin raced', dinode[j].type # 0, dinode[j].nlink = 0
        PROVE  HasFile(p, j) \/ HasWalk(p, j) \/ \E q \in Procs : q # p /\ Holds(q, j)
    <3>1. back[p] = "user"
      <4>1. ASSUME back[p] = "taken" PROVE FALSE
        <5>1. dir[name[p]] = j /\ name[p] \in Names
          BY Zenon, <1>0, <1>1, <4>1 DEF Mine, Named, Putting, Typed
        <5> QED
          BY Zenon, <1>2, <2>1, <5>1, NamedAlive
      <4> QED
        BY Zenon, <4>1 DEF Typed
    <3>2. icache[s].valid
      BY Zenon, <1>0, <1>1, <3>1 DEF Mine, Valid
    <3>3. ~Freeing(s) /\ dinode[j] = [type |-> Locked(s).type, nlink |-> Locked(s).nlink]
      BY Zenon, <1>1, <1>2, LockedDisk
    <3>4. icache[s].nlink = 0
      BY <1>2, <2>1, <3>2, <3>3, LockedIs
    <3>5. icache[s].ref # 1 /\ Unlinked(s)
      BY Zenon, <3>2, <3>4 DEF Last, Unlinked
    <3>6. \A q \in Procs : ~(pc[q] = "drop" /\ put[q] = s)
      BY Zenon, <2>1, <3>5 DEF iput
    <3>7. PICK q \in Procs : \/ file[q] = s \/ (KeepsIp(q) /\ ip[q] = s)
                             \/ q # p /\ pc[q] \in Putting /\ put[q] = s
      BY Zenon, <1>1, <1>2, <3>5, OtherReference DEF Putting
    <3>8. pc[q] \in Putting /\ put[q] = s => pc[q] \in {"iput", "itrunc"}
      BY Zenon, <3>3, <3>6 DEF Putting, Freeing
    <3>9. file[q] = s => HasFile(q, j)
      BY <1>2 DEF HasFile, None, Slots
    <3>10. KeepsIp(q) /\ ip[q] = s => HasWalk(q, j)
      BY Zenon DEF HasWalk
    <3>11. pc[q] \in {"iput", "itrunc"} /\ put[q] = s => HasPut(q, j)
      BY Zenon DEF HasPut
    <3> QED
      BY Zenon, <3>7, <3>8, <3>9, <3>10, <3>11 DEF Holds
  <2>2. raced \subseteq raced'
    BY Zenon DEF iput
  <2> SUFFICES ASSUME NEW i \in Inums, i \notin raced', dinode'[i].type # 0, dinode'[i].nlink = 0
               PROVE  \/ Holds(p, i)'
                      \/ i \notin raced /\ dinode[i].type # 0 /\ dinode[i].nlink = 0 /\ ~Holds(p, i)
                      \/ \E q \in Procs : q # p /\ Holds(q, i)
    BY Zenon, <1>0, <1>5, KeptStep
  <2>3. CASE i = j
    BY Zenon, <1>1, <1>3, <2>1, <2>3
  <2>4. CASE i # j
    BY Zenon, <1>1, <1>3, <2>2, <2>4
  <2> QED
    BY Zenon, <2>3, <2>4
<1>9. (\A i \in Inums : Holds(p, i) => dinode[i].type # 0)'
  BY Zenon, <1>0, <1>1, <1>3 DEF Mine
<1>10. Fresh(p)' /\ Truncs(p)' /\ Freed(p)'
  BY Zenon, <1>1 DEF Fresh, Truncs, Freed, Allocs
<1>11. Valid(p)' /\ Named(p)'
  BY Zenon, <1>0, <1>1 DEF Valid, Named, Mine, Creating, Putting
<1> QED
  BY Zenon, <1>4, <1>5, <1>6, <1>7, <1>8, <1>9, <1>10, <1>11 DEF Right, Mine

\* itrunc frees the inode on the disk.
LEMMA ItruncRight ==
  ASSUME CountLaws, Typed, Counted, UseInv, NEW p \in Procs, Goes(p), itrunc(p)
  PROVE  Right(p)
<1>0. Frame(p) /\ Mine(p) /\ (dirlock = p <=> HoldsDir(p)) /\ \A s \in Slots : lock[s] = p <=> HoldsSlot(p, s)
  BY Zenon, StepFrame DEF Goes, UseInv, Mine, Alive, LockInv
<1> DEFINE s == put[p]
           j == icache[s].inum
           c == [icache[s] EXCEPT !.type = 0]
           z == [dinode[j] EXCEPT !.type = 0]
<1>1. /\ pc[p] = "itrunc" /\ pc'[p] = "freed" /\ raced' = raced \ {j}
      /\ icache' = [icache EXCEPT ![s] = c] /\ dinode' = [dinode EXCEPT ![j] = z]
      /\ UNCHANGED <<dir, dirlock, lock, file, name, ip, put, back>>
  BY Zenon DEF itrunc, Goto, Typed, call
<1>2. s \in Slots /\ icache[s].ref > 0 /\ j \in Inums /\ icache[s] \in Cached /\ dinode[j] \in Dinodes
      /\ dinode[j].nlink = 0 /\ dinode[j].type # 0
  BY Zenon, <1>1, InUse, TruncsUnlinked DEF Putting, Typed
<1>3. /\ c.inum = j /\ c.ref = icache[s].ref /\ c.valid = icache[s].valid
      /\ z.type = 0 /\ z.nlink = dinode[j].nlink
  BY Zenon, <1>2 DEF Cached, Dinodes
<1> HIDE DEF c, z
<1>4. /\ \A t \in Slots : t # s => icache'[t] = icache[t]
      /\ icache'[s].inum = j /\ icache'[s].ref = icache[s].ref /\ icache'[s].valid = icache[s].valid
      /\ \A i \in Inums : i # j => dinode'[i] = dinode[i]
      /\ dinode'[j].type = 0 /\ dinode'[j].nlink = 0
  BY Zenon, <1>1, <1>2, <1>3 DEF Typed
<1>5. \A t \in Slots : icache'[t].inum = icache[t].inum /\ icache'[t].valid = icache[t].valid
  BY Zenon, <1>4
<1>6. lock[s] = p
  BY Zenon, <1>0, <1>1, <1>2 DEF HoldsSlot
<1>7. \A q \in Procs : ~HasFile(q, j) /\ ~HasWalk(q, j) /\ ~Allocs(q, j) /\ (HasPut(q, j) => q = p)
  BY Zenon, <1>0, <1>1 DEF Mine, Truncs, UseInv
<1>8. Entries(j) = {}
  BY Zenon, <1>2, NoLinks
<1>9. /\ file[p] # None => file[p] \in Slots /\ icache'[file[p]].inum = icache[file[p]].inum
      /\ KeepsIp(p) => ip[p] \in Slots /\ icache'[ip[p]].inum = icache[ip[p]].inum
  BY Zenon, <1>5, InUse
<1>10. \A i \in Inums : /\ HasFile(p, i)' <=> HasFile(p, i)
                        /\ HasWalk(p, i)' <=> HasWalk(p, i)
                        /\ ~HasPut(p, i)' /\ ~Allocs(p, i)' /\ ~Allocs(p, i)
                        /\ HasPut(p, i) <=> i = j
                        /\ Pends(p, i)' <=> Pends(p, i)
  BY Zenon, <1>1, <1>9 DEF HasFile, HasWalk, HasPut, Allocs, Pends, KeepsIp, HasIp, Putting
<1>11. \A i \in Inums : /\ Holds(p, i)' => Holds(p, i) /\ i # j
                        /\ i # j => (Holds(p, i)' <=> Holds(p, i))
  BY Zenon, <1>7, <1>10 DEF Holds
<1>12. \A t \in Slots : Sync(t)'
  <2>1. ASSUME NEW t \in Slots, t # s PROVE Sync(t)'
    <3>1. icache[t].ref > 0 => icache[t].inum # j /\ icache[t].inum \in Inums
      BY Zenon, <1>2, <2>1 DEF Counted
    <3>2. Steady(t)
      BY Zenon, <1>4, <2>1, <3>1 DEF Steady
    <3> QED
      BY Zenon, <1>0, <1>1, <3>2, SyncStep
  <2>2. Freeing(s)'
    BY Zenon, <1>1 DEF Freeing
  <2>3. Sync(s)'
    BY Zenon, <1>1, <2>2 DEF Sync, Freeing
  <2> QED
    BY Zenon, <1>1, <2>1, <2>3
<1>13. Effects(p)
  <2>1. SlotsKeep(p)
    BY Zenon, <1>4, <1>6 DEF SlotsKeep
  <2> QED
    BY Zenon, <1>1, <1>2, <1>4, <1>11, <2>1 DEF Effects, SlotsKeep, Entries
<1>14. LockMoves(p)
  BY Zenon, <1>0, <1>1 DEF LockMoves, HoldsDir, HoldsSlot, Creating, Putting
<1>15. LinksCounted'
  <2>1. PICK n \in Names : TRUE
    BY InodeAssumption
  <2> DEFINE v == dir[n]
  <2>2. dir' = [dir EXCEPT ![n] = v]
    BY Zenon, <1>1 DEF Typed
  <2>3. ASSUME NEW i \in Inums PROVE Follows(Delta(p, n, v, i), i)
    <3>1. Delta(p, n, v, i) = 0
      BY <1>10 DEF Delta, One
    <3>2. dinode[i].nlink \in Int
      BY Zenon DEF Typed, Dinodes
    <3>3. CASE i = j
      BY Zenon, <1>2, <1>4, <3>1, <3>3 DEF Follows
    <3>4. CASE i # j
      BY <1>4, <3>1, <3>2, <3>4 DEF Follows
    <3> QED
      BY Zenon, <3>3, <3>4
  <2> HIDE DEF v
  <2> QED
    BY Zenon, <1>0, <1>5, <2>2, <2>3, LinksStep
<1>16. Kept'
  BY Zenon, <1>0, <1>1, <1>4, <1>11, <1>13, KeptStep
<1>17. (\A i \in Inums : Holds(p, i) => dinode[i].type # 0)'
  BY Zenon, <1>0, <1>4, <1>11 DEF Mine
<1>18. Freed(p)'
  <2> SUFFICES ASSUME NEW i, i = icache'[put'[p]].inum
               PROVE  Entries(i)' = {} /\ \A q \in Procs : ~Holds(q, i)'
    BY Zenon DEF Freed, Entries
  <2>1. i = j
    BY Zenon, <1>1, <1>4
  <2>2. Entries(i)' = {}
    BY Zenon, <1>1, <1>8, <2>1 DEF Entries
  <2>3. \A q \in Procs : q # p => (Holds(q, i)' <=> Holds(q, i))
    BY Zenon, <1>0, <1>5, OthersUse
  <2>4. ~Holds(p, i)'
    BY Zenon, <1>2, <1>11, <2>1
  <2> QED
    BY Zenon, <1>7, <2>1, <2>2, <2>3, <2>4 DEF Holds
<1>19. Fresh(p)' /\ Truncs(p)'
  BY Zenon, <1>1 DEF Fresh, Truncs, Allocs
<1>20. Valid(p)'
  BY Zenon, <1>0, <1>1, <1>5, <1>9 DEF Valid, Mine
<1>21. Named(p)'
  BY Zenon, <1>0, <1>1, <1>4 DEF Named, Mine, Creating, Putting
<1> QED
  BY Zenon, <1>12, <1>13, <1>14, <1>15, <1>16, <1>17, <1>18, <1>19, <1>20, <1>21 DEF Right, Mine

\* The copy of a freed inode is not valid any more, and the reference goes.
LEMMA DropRight ==
  ASSUME CountLaws, Typed, Counted, UseInv, NEW p \in Procs, Goes(p), freed(p) \/ drop(p)
  PROVE  Right(p)
<1>0. Frame(p) /\ Mine(p) /\ (dirlock = p <=> HoldsDir(p)) /\ \A s \in Slots : lock[s] = p <=> HoldsSlot(p, s)
  BY Zenon, StepFrame DEF Goes, UseInv, Mine, Alive, LockInv
<1> DEFINE s == put[p]
           j == icache[s].inum
           m == icache[s].ref - 1
           v == [icache[s] EXCEPT !.valid = FALSE]
           d == [icache[s] EXCEPT !.ref = m]
<1>1. /\ pc[p] \in {"freed", "drop"} /\ (pc'[p] = IF pc[p] = "freed" THEN "drop" ELSE back[p])
      /\ back[p] \in {"user", "taken"}
      /\ icache' = [icache EXCEPT ![s] = IF pc[p] = "freed" THEN v ELSE d]
      /\ lock' = IF pc[p] = "freed" THEN [lock EXCEPT ![s] = Nobody] ELSE lock
      /\ UNCHANGED <<dinode, dir, dirlock, file, name, ip, put, back, raced>>
  BY Zenon DEF freed, drop, Goto, Typed, call
<1>2. s \in Slots /\ icache[s].ref > 0 /\ j \in Inums /\ icache[s] \in Cached /\ m \in Int /\ icache[s].ref \in Int
  BY <1>1, InUse, SlotInode DEF Putting, Typed, Cached
<1>3. /\ v.inum = j /\ v.ref = icache[s].ref /\ v.valid = FALSE
      /\ d.inum = j /\ d.ref = m /\ Content(d) = Content(icache[s])
  BY Zenon, <1>2 DEF Cached, Content
<1> HIDE DEF v, d
<1>4. /\ \A t \in Slots : t # s => icache'[t] = icache[t]
      /\ icache'[s].inum = j
      /\ pc[p] = "freed" => icache'[s].valid = FALSE
      /\ pc[p] = "drop" => Content(icache'[s]) = Content(icache[s])
  BY Zenon, <1>1, <1>2, <1>3 DEF Typed
<1>5. \A t \in Slots : icache'[t].inum = icache[t].inum
  BY Zenon, <1>4
<1>6. pc[p] = "freed" => lock[s] = p /\ ~Holds(p, j)
  BY Zenon, <1>0, <1>1, <1>2 DEF HoldsSlot, Mine, Freed
<1>7. /\ file[p] # None => file[p] \in Slots /\ icache'[file[p]].inum = icache[file[p]].inum
      /\ KeepsIp(p) => ip[p] \in Slots /\ icache'[ip[p]].inum = icache[ip[p]].inum
  BY Zenon, <1>5, InUse
<1>8. \A i \in Inums : (Holds(p, i)' <=> Holds(p, i)) /\ (Pends(p, i)' <=> Pends(p, i))
  BY Zenon, <1>1, <1>7 DEF Holds, HasFile, HasWalk, HasPut, Allocs, Pends, KeepsIp, HasIp, Putting
<1>9. \A t \in Slots : Sync(t)'
  <2>1. ASSUME NEW t \in Slots, t # s \/ pc[p] = "drop" PROVE Sync(t)'
    <3>1. Steady(t)
      BY Zenon, <1>1, <1>2, <1>4, <2>1 DEF Steady
    <3> QED
      BY Zenon, <1>0, <2>1, <3>1, SyncStep
  <2>2. pc[p] = "freed" => Sync(s)'
    BY Zenon, <1>1, <1>4 DEF Sync
  <2> QED
    BY Zenon, <1>1, <2>1, <2>2
<1>10. Effects(p)
  <2>1. SlotsKeep(p)
    BY Zenon, <1>1, <1>4, <1>6 DEF SlotsKeep, Content
  <2> QED
    BY Zenon, <1>1, <1>8, <2>1 DEF Effects, SlotsKeep, Entries
<1>11. LockMoves(p)
  <2>1. \A t \in Slots : (t # s => lock'[t] = lock[t]) /\ (pc[p] # "freed" => lock'[t] = lock[t])
                         /\ (pc[p] = "freed" /\ t = s => lock'[t] = Nobody)
    BY Zenon, <1>1, <1>2 DEF Typed
  <2> QED
    BY Zenon, <1>0, <1>1, <1>6, <2>1, InodeAssumption DEF LockMoves, HoldsDir, HoldsSlot, Creating, Putting
<1>12. LinksCounted'
  BY Zenon, <1>0, <1>1, <1>5, <1>8, SameLinks
<1>13. Kept'
  BY Zenon, <1>0, <1>1, <1>8, <1>10, KeptStep
<1>14. (\A i \in Inums : Holds(p, i) => dinode[i].type # 0)'
  BY Zenon, <1>0, <1>1, <1>8 DEF Mine
<1>15. Fresh(p)' /\ Truncs(p)' /\ Freed(p)'
  BY Zenon, <1>1 DEF Fresh, Truncs, Freed, Allocs
<1>16. Valid(p)'
  <2>1. file[p] # None => icache'[file[p]].valid
    <3>1. file[p] # None => icache[file[p]].valid /\ (pc[p] = "freed" => file[p] # s)
      BY Zenon, <1>0, <1>6 DEF Mine, Valid, Holds, HasFile
    <3> QED
      BY Zenon, <1>1, <1>4, <1>7, <3>1 DEF Content
  <2> QED
    BY Zenon, <1>1, <2>1 DEF Valid
<1>17. Named(p)'
  BY Zenon, <1>0, <1>1, <1>4 DEF Named, Mine, Creating, Putting
<1> QED
  BY Zenon, <1>9, <1>10, <1>11, <1>12, <1>13, <1>14, <1>15, <1>16, <1>17 DEF Right, Mine

-----------------------------------------------------------------------------
\* Every step of a process does right, ...
LEMMA UseGoes ==
  ASSUME CountLaws, Typed, Counted, UseInv, NEW p \in Procs, Goes(p)
  PROVE  UseInv'
<1>1. CASE Open(p) \/ Link(p) \/ Unlink(p)
  BY Zenon, <1>1, NameiRight, RightStep, StepFrame DEF Goes
<1>2. CASE Missing(p) \/ create(p) \/ taken(p) \/ fileclose(p)
  BY Zenon, <1>2, QuietRight, RightStep, StepFrame DEF Goes
<1>3. CASE ialloc(p)
  BY Zenon, <1>3, QuietRight, IallocRight, RightStep, StepFrame DEF Goes
<1>4. CASE ialloced(p)
  BY Zenon, <1>4, IallocedRight, RightStep, StepFrame DEF Goes
<1>5. CASE created(p)
  BY Zenon, <1>5, CreatedRight, RightStep, StepFrame DEF Goes
<1>6. CASE sys_link(p) \/ bad(p) \/ unlinked(p)
  BY Zenon, <1>6, CountRight, RightStep, StepFrame DEF Goes
<1>7. CASE dirlink(p)
  BY Zenon, <1>7, DirlinkRight, DirlinkTakenRight, RightStep, StepFrame DEF Goes
<1>8. CASE sys_open(p)
  BY Zenon, <1>8, OpenRight, RightStep, StepFrame DEF Goes
<1>9. CASE sys_unlink(p)
  BY Zenon, <1>9, UnlinkRight, RightStep, StepFrame DEF Goes
<1>10. CASE fileread(p)
  BY Zenon, <1>10, ReadRight, RightStep, StepFrame DEF Goes
<1>11. CASE iput(p)
  BY Zenon, <1>11, IputLastRight, IputRight, RightStep, StepFrame DEF Goes
<1>12. CASE itrunc(p)
  BY Zenon, <1>12, ItruncRight, RightStep, StepFrame DEF Goes
<1>13. CASE freed(p) \/ drop(p)
  BY Zenon, <1>13, DropRight, RightStep, StepFrame DEF Goes
<1> QED
  BY Zenon, <1>1, <1>2, <1>3, <1>4, <1>5, <1>6, <1>7, <1>8, <1>9, <1>10, <1>11, <1>12, <1>13 DEF Goes, Step

\* ... and the only panics are that the cache or the disk is full: no inode that a process
\* locks is free or unreferenced, and no name has an inode without links.
LEMMA OnlyFull ==
  ASSUME CountLaws, Typed, Counted, UseInv, NEW p \in Procs, Step(p), panicked = "no"
  PROVE  panicked' \in {"no"} \cup Full
<1> USE DEF Panic, Full
<1>0. Mine(p)
  BY Zenon DEF UseInv, Mine, Alive
<1>1. ASSUME NEW s \in Slots, icache[s].ref > 0, lock[s] = Nobody, dinode[icache[s].inum].type # 0, pc[p] # "freed"
      PROVE  icache[s].ref >= 1 /\ (~icache[s].valid => Locked(s).type # 0)
  <2>1. icache[s].ref \in Int
    BY Zenon DEF Typed, Cached
  <2>2. dinode[icache[s].inum] = [type |-> Locked(s).type, nlink |-> Locked(s).nlink]
    BY Zenon, <1>1, LockedDisk
  <2> QED
    BY <1>1, <2>1, <2>2
<1>2. CASE sys_open(p) \/ created(p) \/ sys_link(p) \/ bad(p)
  <2>1. pc[p] \in {"open", "created", "link", "bad"} /\ lock[ip[p]] = Nobody
    BY Zenon, <1>2 DEF sys_open, created, sys_link, bad, ilock
  <2>2. ip[p] \in Slots /\ icache[ip[p]].ref > 0 /\ dinode[icache[ip[p]].inum].type # 0
    BY Zenon, <2>1, WalkAlive DEF KeepsIp, HasIp
  <2>3. ~(icache[ip[p]].ref < 1) /\ ~(~icache[ip[p]].valid /\ Locked(ip[p]).type = 0)
    <3>1. icache[ip[p]].ref \in Int
      BY Zenon, <2>2 DEF Typed, Cached
    <3> QED
      BY <1>1, <2>1, <2>2, <3>1
  <2> QED
    BY Zenon, <1>2, <2>3 DEF sys_open, created, sys_link, bad, ilock
<1>3. CASE sys_unlink(p)
  <2>1. pc[p] = "unlink" /\ lock[ip[p]] = Nobody
    BY Zenon, <1>3 DEF sys_unlink, ilock
  <2>2. ip[p] \in Slots /\ icache[ip[p]].ref > 0 /\ dinode[icache[ip[p]].inum].type # 0
        /\ icache[ip[p]].inum \in Inums
    BY Zenon, <2>1, WalkAlive DEF KeepsIp, HasIp
  <2>3. ~(icache[ip[p]].ref < 1) /\ ~(~icache[ip[p]].valid /\ Locked(ip[p]).type = 0)
    <3>1. icache[ip[p]].ref \in Int
      BY Zenon, <2>2 DEF Typed, Cached
    <3> QED
      BY <1>1, <2>1, <2>2, <3>1
  <2>4. ~(Locked(ip[p]).nlink < 1)
    <3> DEFINE i == icache[ip[p]].inum
    <3>1. dir[name[p]] = i /\ name[p] \in Names
      BY Zenon, <1>0, <2>1 DEF Mine, Named, Typed
    <3>2. Entries(i) # {} /\ dinode[i].nlink = Cardinality(Entries(i)) + Cardinality(Pending(i))
      BY Zenon, <2>2, <3>1, NamedAlive DEF UseInv, LinksCounted
    <3>3. Entries(i) \subseteq Names /\ Pending(i) \subseteq Procs
      BY Zenon DEF Entries, Pending
    <3>4. IsFiniteSet(Entries(i)) /\ IsFiniteSet(Pending(i))
      BY Zenon, <3>3, FiniteSubset, InodeAssumption
    <3>5. dinode[i].nlink \in Nat \ {0}
      BY <3>2, <3>4, CardOf
    <3>6. Locked(ip[p]).nlink = dinode[i].nlink
      <4>1. dinode[i] = [type |-> Locked(ip[p]).type, nlink |-> Locked(ip[p]).nlink]
        BY Zenon, <2>1, <2>2, LockedDisk
      <4> QED
        BY <4>1
    <3> QED
      BY <3>5, <3>6
  <2> QED
    BY Zenon, <1>3, <2>3, <2>4 DEF sys_unlink, ilock
<1>4. CASE fileread(p)
  <2>1. pc[p] = "user" /\ file[p] # None /\ lock[file[p]] = Nobody
    BY Zenon, <1>4 DEF fileread, ilock
  <2>2. file[p] \in Slots /\ icache[file[p]].ref > 0 /\ icache[file[p]].inum \in Inums
    BY Zenon, <2>1, InUse, SlotInode
  <2>3. dinode[icache[file[p]].inum].type # 0
    BY Zenon, <1>0, <2>1, <2>2 DEF Mine, Holds, HasFile
  <2>4. ~(icache[file[p]].ref < 1) /\ ~(~icache[file[p]].valid /\ Locked(file[p]).type = 0)
    <3>1. icache[file[p]].ref \in Int
      BY Zenon, <2>2 DEF Typed, Cached
    <3> QED
      BY <1>1, <2>1, <2>2, <2>3, <3>1
  <2> QED
    BY Zenon, <1>4, <2>4 DEF fileread, ilock
<1>5. CASE ialloc(p)
  BY Zenon, <1>5 DEF ialloc
<1>6. CASE Open(p) \/ Link(p) \/ Unlink(p)
  BY Zenon, <1>6 DEF Open, Link, Unlink, namei
<1>7. CASE ialloced(p) \/ dirlink(p)
  BY Zenon, <1>7 DEF ialloced, dirlink
<1>8. CASE Missing(p) \/ create(p) \/ taken(p) \/ unlinked(p) \/ fileclose(p)
  BY Zenon, <1>8 DEF Missing, create, taken, unlinked, fileclose, vars
<1>9. CASE iput(p) \/ itrunc(p) \/ freed(p) \/ drop(p)
  BY Zenon, <1>9 DEF iput, itrunc, freed, drop
<1> QED
  BY Zenon, <1>2, <1>3, <1>4, <1>5, <1>6, <1>7, <1>8, <1>9 DEF Step

\* A step that changes nothing but panicked.
LEMMA StillInv ==
  ASSUME Typed, Counted, UseInv,
         UNCHANGED <<dinode, dir, dirlock, icache, lock, file, pc, call, raced>>
  PROVE  Typed' /\ Counted' /\ UseInv'
<1> USE DEF call
<1>1. Typed'
  BY Zenon DEF Typed
<1>2. Counted'
  BY Zenon DEF Counted, RefersTo, KeepsIp, Refs, Opens, Walks, Puts
<1>3. LockInv'
  BY DEF UseInv, LockInv, HoldsDir, HoldsSlot
<1>4. LinksCounted'
  <2>1. \A i : Entries(i)' = Entries(i) /\ Pending(i)' = Pending(i)
    BY Zenon DEF Entries, Pending
  <2>2. dinode' = dinode /\ LinksCounted
    BY Zenon DEF UseInv
  <2> QED
    BY Zenon, <2>1, <2>2 DEF LinksCounted
<1>5. \A p, i : /\ HasFile(p, i)' <=> HasFile(p, i)
                /\ HasWalk(p, i)' <=> HasWalk(p, i)
                /\ HasPut(p, i)' <=> HasPut(p, i)
                /\ Allocs(p, i)' <=> Allocs(p, i)
                /\ Holds(p, i)' <=> Holds(p, i)
  BY DEF Holds, HasFile, HasWalk, HasPut, Allocs, KeepsIp
<1>6. Alive' /\ Kept'
  BY Zenon, <1>5 DEF UseInv, Alive, Kept
<1>7. \A s \in Slots : Sync(s)'
  BY Zenon DEF UseInv, Sync, Freeing
<1>8. ASSUME NEW p \in Procs PROVE Fresh(p)' /\ Valid(p)' /\ Named(p)'
  BY Zenon, <1>5 DEF UseInv, Fresh, Valid, Named
<1>9. ASSUME NEW p \in Procs PROVE Truncs(p)'
  BY Zenon, <1>5 DEF UseInv, Truncs
<1>10. ASSUME NEW p \in Procs PROVE Freed(p)'
  BY Zenon, <1>5 DEF UseInv, Freed, Entries
<1>11. \A p \in Procs : (Fresh(p) /\ Truncs(p) /\ Freed(p) /\ Valid(p) /\ Named(p))'
  BY Zenon, <1>8, <1>9, <1>10
<1> QED
  BY Zenon, <1>1, <1>2, <1>3, <1>4, <1>6, <1>7, <1>11 DEF UseInv

-----------------------------------------------------------------------------
\* No link count is negative, on the disk or in the cache.
Natural == /\ \A i \in Inums : dinode[i].nlink \in Nat
           /\ \A s \in Slots : icache[s].nlink \in Nat

LEMMA NaturalGoes ==
  ASSUME CountLaws, Typed, Counted, UseInv, Natural, NEW p \in Procs, Goes(p)
  PROVE  Natural'
<1>1. ASSUME UNCHANGED dinode, \A s \in Slots : icache'[s].nlink = icache[s].nlink
      PROVE  Natural'
  BY Zenon, <1>1 DEF Natural
<1>2. ASSUME NEW i, icache' = iget(i)
      PROVE  \A t \in Slots : icache'[t].nlink = icache[t].nlink
  <2> DEFINE s == Slot(i)
             a == [icache[s] EXCEPT !.ref = icache[s].ref + 1]
             b == [icache[s] EXCEPT !.inum = i, !.ref = 1, !.valid = FALSE]
  <2>1. icache' = [icache EXCEPT ![s] = IF Hits(i) # {} THEN a ELSE b]
    BY Zenon, <1>2 DEF iget
  <2>2. s \in Slots => a.nlink = icache[s].nlink /\ b.nlink = icache[s].nlink
    BY Zenon DEF Typed, Cached
  <2> HIDE DEF a, b, s
  <2> QED
    BY <2>1, <2>2 DEF Typed
<1>3. ASSUME NEW s \in Slots, icache[s].ref > 0, icache' = [icache EXCEPT ![s] = Locked(s)], dinode' = dinode
      PROVE  Natural'
  <2>1. Filled(s) /\ icache'[s] = Locked(s) /\ icache[s].inum \in Inums
    BY Zenon, <1>3, LockedFills, SlotInode
  <2>2. Locked(s).nlink \in Nat
    <3>1. CASE icache[s].valid
      BY Zenon, <2>1, <3>1, LockedIs DEF Natural
    <3>2. CASE ~icache[s].valid
      <4>1. [type |-> Locked(s).type, nlink |-> Locked(s).nlink] = dinode[icache[s].inum]
        BY Zenon, <2>1, <3>2, LockedIs
      <4>2. dinode[icache[s].inum].nlink = Locked(s).nlink
        BY <4>1
      <4> QED
        BY Zenon, <2>1, <4>2 DEF Natural
    <3> QED
      BY Zenon, <3>1, <3>2
  <2> QED
    BY Zenon, <1>3, <2>1, <2>2 DEF Natural, Filled
<1>4. ASSUME NEW s \in Slots, icache[s].ref > 0, NEW m \in Nat, SetLinks(s, m)
      PROVE  Natural'
  <2>1. m \in Int
    OBVIOUS
  <2>2. /\ Filled(s) /\ icache'[s].nlink = m
        /\ dinode'[icache[s].inum] = [type |-> Locked(s).type, nlink |-> m]
        /\ \A i \in Inums : i # icache[s].inum => dinode'[i] = dinode[i]
    BY Zenon, <1>4, <2>1, LinksFill
  <2>3. dinode'[icache[s].inum].nlink = m
    BY <2>2
  <2> QED
    BY Zenon, <2>2, <2>3 DEF Natural, Filled
<1>5. CASE Open(p) \/ Link(p) \/ Unlink(p) \/ ialloced(p) \/ dirlink(p)
  <2>1. (icache' = icache \/ \E i : icache' = iget(i)) /\ dinode' = dinode
    BY Zenon, <1>5 DEF Open, Link, Unlink, namei, ialloced, dirlink, Panic, Goes
  <2> QED
    BY Zenon, <1>1, <1>2, <2>1
<1>6. CASE sys_open(p) \/ sys_unlink(p)
  <2>1. icache' = [icache EXCEPT ![ip[p]] = Locked(ip[p])] /\ dinode' = dinode /\ KeepsIp(p)
    BY Zenon, <1>6 DEF sys_open, sys_unlink, ilock, Panic, Goes, KeepsIp, HasIp
  <2> QED
    BY Zenon, <1>3, <2>1, InUse
<1>7. CASE fileread(p)
  <2>1. icache' = [icache EXCEPT ![file[p]] = Locked(file[p])] /\ dinode' = dinode /\ file[p] # None
    BY Zenon, <1>7 DEF fileread, ilock, Panic, Goes
  <2> QED
    BY Zenon, <1>3, <2>1, InUse
<1>8. CASE created(p) \/ sys_link(p) \/ bad(p) \/ unlinked(p)
  <2> DEFINE s == ip[p]
             j == icache[s].inum
  <2>1. KeepsIp(p) /\ pc[p] \in {"created", "link", "bad", "unlinked"} /\ (pc[p] # "unlinked" => lock[s] = Nobody)
    BY Zenon, <1>8 DEF created, sys_link, bad, unlinked, ilock, KeepsIp, HasIp
  <2>2. s \in Slots /\ icache[s].ref > 0 /\ j \in Inums
    BY Zenon, <2>1, WalkAlive
  <2>3. lock[s] \in {Nobody, p}
    BY Zenon, <2>1, <2>2 DEF UseInv, LockInv, HoldsSlot
  <2>4. dinode[j].nlink = Locked(s).nlink /\ dinode[j].nlink \in Nat
    <3>1. dinode[j] = [type |-> Locked(s).type, nlink |-> Locked(s).nlink]
      BY Zenon, <2>1, <2>2, <2>3, LockedDisk
    <3> QED
      BY <2>2, <3>1 DEF Natural
  <2>5. pc[p] \in {"bad", "unlinked"} => dinode[j].nlink # 0
    BY Zenon, <2>2, NoLinks DEF Pending
  <2>6. pc[p] = "unlinked" => icache[s].nlink = Locked(s).nlink
    <3>1. pc[p] = "unlinked" => icache[s].valid
      BY Zenon DEF UseInv, Valid
    <3> QED
      BY Zenon, <2>2, <3>1, LockedIs
  <2>7. \/ SetLinks(s, 1)
        \/ SetLinks(s, Locked(s).nlink + 1)
        \/ pc[p] \in {"bad", "unlinked"} /\ SetLinks(s, Locked(s).nlink - 1)
    BY Zenon, <1>8, <2>6 DEF created, sys_link, bad, unlinked, ilock, Panic, Goes
  <2>8. \E m \in Nat : SetLinks(s, m)
    BY <2>4, <2>5, <2>7
  <2> QED
    BY Zenon, <1>4, <2>2, <2>8
<1>9. CASE Missing(p) \/ create(p) \/ taken(p) \/ fileclose(p) \/ iput(p)
  <2>1. icache' = icache /\ dinode' = dinode
    BY Zenon, <1>9 DEF Missing, create, taken, fileclose, iput, vars
  <2> QED
    BY Zenon, <1>1, <2>1
<1>10. CASE ialloc(p)
  <2>1. /\ icache' = icache
        /\ dinode' = dinode \/ dinode' = [dinode EXCEPT ![ip[p]] = [type |-> T_FILE, nlink |-> 0]]
    BY Zenon, <1>10 DEF ialloc, Panic, Goes
  <2> QED
    BY <2>1 DEF Natural, Typed
<1>11. CASE itrunc(p) \/ freed(p) \/ drop(p)
  <2> DEFINE s == put[p]
             j == icache[s].inum
             m == icache[s].ref - 1
             c == [icache[s] EXCEPT !.type = 0]
             v == [icache[s] EXCEPT !.valid = FALSE]
             d == [icache[s] EXCEPT !.ref = m]
             z == [dinode[j] EXCEPT !.type = 0]
  <2>1. s \in Slots /\ j \in Inums
    BY Zenon, <1>11, InUse, SlotInode DEF itrunc, freed, drop, Putting
  <2>2. \/ icache' = [icache EXCEPT ![s] = c] /\ dinode' = [dinode EXCEPT ![j] = z]
        \/ icache' = [icache EXCEPT ![s] = v] /\ dinode' = dinode
        \/ icache' = [icache EXCEPT ![s] = d] /\ dinode' = dinode
    BY Zenon, <1>11 DEF itrunc, freed, drop, Typed
  <2>3. c.nlink = icache[s].nlink /\ v.nlink = icache[s].nlink /\ d.nlink = icache[s].nlink
    BY Zenon, <2>1 DEF Typed, Cached
  <2>4. z.nlink = dinode[j].nlink
    BY Zenon, <2>1 DEF Typed, Dinodes
  <2> HIDE DEF c, v, d, z
  <2> QED
    BY <2>1, <2>2, <2>3, <2>4 DEF Natural, Typed
<1> QED
  BY Zenon, <1>5, <1>6, <1>7, <1>8, <1>9, <1>10, <1>11 DEF Goes, Step

=============================================================================
