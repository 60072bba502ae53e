----------------------------- MODULE DiskProofs -----------------------------
(***************************************************************************)
(* Proofs about Disk for any number of processes, buffers, blocks and      *)
(* contents; and Disk implements BlockStore, as long as no read ends with  *)
(* an error.                                                               *)
(***************************************************************************)
EXTENDS Disk, FiniteSetTheorems, TLAPS

Buf == [blockno : Blocks \cup {NoBlock}, valid : BOOLEAN, dirty : BOOLEAN, refcnt : Nat, data : Values]

TypeInv ==
  /\ mru \in [Bufs -> Bufs] /\ buf \in [Bufs -> Buf] /\ lock \in [Bufs -> Procs \cup {None}]
  /\ idequeue \in Seq(Bufs) /\ disk \in [Blocks -> Values]
  /\ pc \in [Procs -> Labels] /\ cur \in [Procs -> Bufs]

\* Where a process has the lock of its buffer.
Holding == {"use", "iderw", "asleep disk", "synced?"}

\* The list has every buffer, no two have the same block, and refcnt counts the processes.
ListInv == \A b \in Bufs : \E i \in Bufs : mru[i] = b
OneEach == \A b, c \in Bufs : buf[b].blockno = buf[c].blockno /\ buf[b].blockno # NoBlock => b = c
RefInv  == \A b \in Bufs : buf[b].refcnt = Cardinality(Referrers(b))

\* What process p knows of its buffer.
ProcInv(p) ==
  /\ pc[p] \in Holding <=> lock[cur[p]] = p
  /\ pc[p] # "idle" => buf[cur[p]].blockno # NoBlock
  /\ pc[p] = "use" => buf[cur[p]].valid
  /\ pc[p] = "iderw" => ~buf[cur[p]].valid \/ buf[cur[p]].dirty
  /\ pc[p] = "asleep disk" => ~buf[cur[p]].valid \/ buf[cur[p]].dirty
  /\ pc[p] = "asleep disk" => Queued(cur[p])
  /\ pc[p] = "synced?" => buf[cur[p]].valid /\ ~buf[cur[p]].dirty
  /\ pc[p] = "asleep lock" => lock[cur[p]] # None

\* A locked buffer is the one its process is at; what is dirty was read or written whole.
BufInv(b) ==
  /\ lock[b] # None => cur[lock[b]] = b /\ pc[lock[b]] \in Holding
  /\ buf[b].dirty => buf[b].valid
  /\ buf[b].valid => buf[b].blockno # NoBlock

\* Each request is of a process that waits for it, and the disk works on the first one.
QueueInv ==
  /\ \A i, j \in 1 .. Len(idequeue) : idequeue[i] = idequeue[j] => i = j
  /\ \A i \in 1 .. Len(idequeue) : lock[idequeue[i]] # None /\ pc[lock[idequeue[i]]] = "asleep disk"
  /\ cmd = IF idequeue = <<>> THEN NoCmd ELSE idestart(Head(idequeue))

CacheInv ==
  /\ ListInv /\ OneEach /\ RefInv /\ QueueInv
  /\ \A p \in Procs : ProcInv(p)
  /\ \A b \in Bufs : BufInv(b)

-----------------------------------------------------------------------------
\* What the fields of a buffer are.
LEMMA Fields ==
  ASSUME NEW r \in Buf
  PROVE  /\ r.blockno \in Blocks \cup {NoBlock} /\ r.valid \in BOOLEAN /\ r.dirty \in BOOLEAN
         /\ r.refcnt \in Nat /\ r.data \in Values
  BY Zenon DEF Buf

\* The blocks on the disk are none of them NoBlock.
LEMMA BlockNumbers == NoBlock \notin Blocks
  BY Zenon, DiskAssumption DEF NoBlock

\* Nothing about the buffer of q changes that q relies on.
Keeps(q) ==
  /\ pc'[q] = pc[q] /\ cur'[q] = cur[q]
  /\ lock'[cur[q]] = lock[cur[q]]
  /\ buf'[cur[q]].blockno = buf[cur[q]].blockno
  /\ buf'[cur[q]].valid = buf[cur[q]].valid /\ buf'[cur[q]].dirty = buf[cur[q]].dirty
  /\ Queued(cur[q]) => Queued(cur[q])'

\* Then q's knowledge stays right.
LEMMA ProcKept ==
  ASSUME NEW q \in Procs, ProcInv(q), Keeps(q)
  PROVE  ProcInv(q)'
<1>1. /\ pc'[q] = pc[q] /\ cur'[q] = cur[q] /\ lock'[cur'[q]] = lock[cur[q]]
      /\ buf'[cur'[q]].blockno = buf[cur[q]].blockno
      /\ buf'[cur'[q]].valid = buf[cur[q]].valid /\ buf'[cur'[q]].dirty = buf[cur[q]].dirty
      /\ Queued(cur[q]) => Queued(cur[q])'
  BY Zenon DEF Keeps
<1> QED
  BY Zenon, <1>1 DEF ProcInv

\* A process that neither has a lock nor sleeps for one knows only that it has a buffer.
LEMMA ProcOutside ==
  ASSUME NEW q \in Procs, pc'[q] \notin Holding, pc'[q] # "asleep lock", lock'[cur'[q]] # q,
         pc'[q] = "idle" \/ buf'[cur'[q]].blockno # NoBlock
  PROVE  ProcInv(q)'
  BY Zenon DEF ProcInv, Holding

\* Counts stay right when nobody takes or drops a reference.
LEMMA RefsKept ==
  ASSUME RefInv, \A b \in Bufs : buf'[b].refcnt = buf[b].refcnt,
         \A q \in Procs : (pc'[q] = "idle" <=> pc[q] = "idle") /\ cur'[q] = cur[q]
  PROVE  RefInv'
<1> SUFFICES ASSUME NEW b \in Bufs PROVE buf'[b].refcnt = Cardinality(Referrers(b)')
  BY Zenon DEF RefInv
<1>1. Referrers(b)' = Referrers(b)
  BY Zenon DEF Referrers
<1> QED
  BY Zenon, <1>1 DEF RefInv

\* The queue stays right when no waiting process and no buffer with a request is touched.
LEMMA QueueKept ==
  ASSUME QueueInv, TypeInv, UNCHANGED <<idequeue, cmd>>,
         \A b \in Bufs : Queued(b) =>
            /\ lock'[b] = lock[b] /\ pc'[lock[b]] = pc[lock[b]]
            /\ buf'[b].dirty = buf[b].dirty /\ buf'[b].blockno = buf[b].blockno
            /\ buf'[b].data = buf[b].data
  PROVE  QueueInv'
<1>1. \A i \in 1 .. Len(idequeue) : idequeue[i] \in Bufs /\ Queued(idequeue[i])
  BY DEF TypeInv, Queued
<1>2. ASSUME NEW i \in 1 .. Len(idequeue)
      PROVE  lock'[idequeue[i]] # None /\ pc'[lock'[idequeue[i]]] = "asleep disk"
  BY Zenon, <1>1 DEF QueueInv
<1>3. idequeue # <<>> => idestart(Head(idequeue))' = idestart(Head(idequeue))
  <2> SUFFICES ASSUME idequeue # <<>> PROVE idestart(Head(idequeue))' = idestart(Head(idequeue))
    BY Zenon
  <2>1. Head(idequeue) = idequeue[1] /\ 1 \in 1 .. Len(idequeue)
    BY DEF TypeInv
  <2> QED
    BY Zenon, <1>1, <2>1 DEF idestart
<1> QED
  BY Zenon, <1>2, <1>3 DEF QueueInv

\* The references are finitely many.
LEMMA ReferrersFinite ==
  ASSUME NEW b
  PROVE  IsFiniteSet(Referrers(b)) /\ Cardinality(Referrers(b)) \in 0 .. Cardinality(Procs)
<1>1. Referrers(b) \subseteq Procs /\ IsFiniteSet(Procs)
  BY Zenon, DiskAssumption DEF Referrers
<1>2. /\ IsFiniteSet(Referrers(b)) /\ Cardinality(Referrers(b)) <= Cardinality(Procs)
      /\ Cardinality(Referrers(b)) \in Nat /\ Cardinality(Procs) \in Nat
  BY Zenon, <1>1, FS_Subset, FS_CardinalityType
<1> QED
  BY <1>2

\* A buffer with a request is locked by a process that waits for the disk.
LEMMA QueuedLocked ==
  ASSUME TypeInv, CacheInv, NEW b \in Bufs, Queued(b)
  PROVE  lock[b] # None /\ lock[b] \in Procs \cup {None} /\ pc[lock[b]] = "asleep disk" /\ cur[lock[b]] = b
<1>1. PICK i \in 1 .. Len(idequeue) : idequeue[i] = b
  BY Zenon DEF Queued
<1>2. QueueInv /\ BufInv(b)
  BY Zenon DEF CacheInv
<1>3. lock[b] # None /\ pc[lock[b]] = "asleep disk"
  BY Zenon, <1>1, <1>2 DEF QueueInv
<1> QED
  BY Zenon, <1>2, <1>3 DEF BufInv, TypeInv

\* p takes a reference to b.
LEMMA RefTaken ==
  ASSUME TypeInv, RefInv, NEW p \in Procs, NEW b \in Bufs,
         pc[p] = "idle", pc'[p] # "idle", cur'[p] = b,
         \A q \in Procs \ {p} : pc'[q] = pc[q] /\ cur'[q] = cur[q],
         buf'[b].refcnt = buf[b].refcnt + 1, \A c \in Bufs \ {b} : buf'[c].refcnt = buf[c].refcnt
  PROVE  RefInv'
<1> SUFFICES ASSUME NEW c \in Bufs PROVE buf'[c].refcnt = Cardinality(Referrers(c)')
  BY Zenon DEF RefInv
<1>1. CASE c = b
  <2>1. Referrers(c)' = Referrers(c) \cup {p} /\ p \notin Referrers(c)
    BY <1>1 DEF Referrers
  <2>2. Cardinality(Referrers(c)') = Cardinality(Referrers(c)) + 1
    BY Zenon, <2>1, ReferrersFinite, FS_AddElement
  <2> QED
    BY <1>1, <2>2 DEF RefInv
<1>2. CASE c # b
  <2>1. Referrers(c)' = Referrers(c)
    BY Zenon, <1>2 DEF Referrers
  <2> QED
    BY Zenon, <1>2, <2>1 DEF RefInv
<1> QED
  BY Zenon, <1>1, <1>2

\* p drops its reference to b.
LEMMA RefDropped ==
  ASSUME TypeInv, RefInv, NEW p \in Procs, NEW b \in Bufs, cur[p] = b,
         pc[p] # "idle", pc'[p] = "idle", UNCHANGED cur,
         \A q \in Procs \ {p} : pc'[q] = pc[q],
         buf'[b].refcnt = buf[b].refcnt - 1, \A c \in Bufs \ {b} : buf'[c].refcnt = buf[c].refcnt
  PROVE  RefInv'
<1> SUFFICES ASSUME NEW c \in Bufs PROVE buf'[c].refcnt = Cardinality(Referrers(c)')
  BY Zenon DEF RefInv
<1>1. CASE c = b
  <2>1. Referrers(c)' = Referrers(c) \ {p} /\ p \in Referrers(c)
    BY Zenon, <1>1 DEF Referrers
  <2>2. Cardinality(Referrers(c)') = Cardinality(Referrers(c)) - 1
    BY Zenon, <2>1, ReferrersFinite, FS_RemoveElement
  <2> QED
    BY Zenon, <1>1, <2>2 DEF RefInv
<1>2. CASE c # b
  <2>1. Referrers(c)' = Referrers(c)
    BY Zenon, <1>2 DEF Referrers
  <2> QED
    BY Zenon, <1>2, <2>1 DEF RefInv
<1> QED
  BY Zenon, <1>1, <1>2

\* A buffer in use has references, and one without references is not locked.
LEMMA RefsTell ==
  ASSUME TypeInv, CacheInv, NEW b \in Bufs
  PROVE  /\ \A q \in Procs : pc[q] # "idle" /\ cur[q] = b => buf[b].refcnt > 0
         /\ buf[b].refcnt = 0 => lock[b] = None /\ ~Queued(b)
<1>1. buf[b].refcnt = Cardinality(Referrers(b)) /\ IsFiniteSet(Referrers(b))
  BY Zenon, ReferrersFinite DEF CacheInv, RefInv
<1>2. ASSUME NEW q \in Procs, pc[q] # "idle", cur[q] = b PROVE buf[b].refcnt > 0
  <2>1. Referrers(b) # {}
    BY Zenon, <1>2 DEF Referrers
  <2>2. Cardinality(Referrers(b)) # 0 /\ Cardinality(Referrers(b)) \in Nat
    BY Zenon, <1>1, <2>1, FS_EmptySet, FS_CardinalityType
  <2> QED
    BY <1>1, <2>2
<1>3. lock[b] # None => buf[b].refcnt > 0
  BY Zenon, <1>2 DEF CacheInv, BufInv, Holding, TypeInv
<1>4. Queued(b) => lock[b] # None
  BY Zenon DEF Queued, CacheInv, QueueInv
<1> QED
  BY <1>2, <1>3, <1>4

-----------------------------------------------------------------------------
\* bget finds the block in the cache.
LEMMA HitStep ==
  ASSUME TypeInv, CacheInv, NEW p \in Procs, NEW n \in Blocks, NEW b \in Cached(n), pc[p] = "idle",
         buf' = Hit(b), cur' = [cur EXCEPT ![p] = b], Goto(p, "acquiresleep"),
         UNCHANGED <<mru, lock, drive>>
  PROVE  TypeInv' /\ CacheInv'
<1>1. b \in Bufs /\ buf[b] \in Buf /\ buf[b].blockno = n /\ n # NoBlock /\ buf[b].refcnt \in Nat
  BY Zenon, BlockNumbers, Fields DEF Cached, TypeInv
<1>2. /\ buf' = [buf EXCEPT ![b] = [buf[b] EXCEPT !.refcnt = buf[b].refcnt + 1]]
      /\ [buf[b] EXCEPT !.refcnt = buf[b].refcnt + 1] \in Buf
  BY <1>1 DEF Hit, Buf
<1>3. /\ buf' \in [Bufs -> Buf] /\ buf'[b].refcnt = buf[b].refcnt + 1
      /\ buf'[b].blockno = buf[b].blockno /\ buf'[b].valid = buf[b].valid
      /\ buf'[b].dirty = buf[b].dirty /\ buf'[b].data = buf[b].data
      /\ \A c \in Bufs \ {b} : buf'[c] = buf[c]
  BY <1>1, <1>2 DEF TypeInv, Buf
<1>4. /\ pc'[p] = "acquiresleep" /\ cur'[p] = b
      /\ \A q \in Procs \ {p} : pc'[q] = pc[q] /\ cur'[q] = cur[q]
      /\ pc' \in [Procs -> Labels] /\ cur' \in [Procs -> Bufs]
  BY Zenon, <1>1 DEF TypeInv, Goto, Labels
<1>5. UNCHANGED <<mru, lock, idequeue, disk, cmd>>
  BY Zenon DEF drive
<1>6. TypeInv'
  BY Zenon, <1>3, <1>4, <1>5 DEF TypeInv
<1>7. RefInv'
  BY <1>1, <1>3, <1>4, RefTaken DEF CacheInv
<1>8. ListInv' /\ OneEach'
  BY <1>3, <1>5 DEF CacheInv, ListInv, OneEach
<1>9. ASSUME NEW q \in Procs PROVE ProcInv(q)'
  <2>1. CASE q = p
    <3>1. lock[b] # p
      BY Zenon, <1>1, DiskAssumption DEF CacheInv, BufInv, Holding
    <3> QED
      BY Zenon, <1>1, <1>3, <1>4, <1>5, <2>1, <3>1 DEF ProcInv, Holding
  <2>2. CASE q # p
    <3>1. cur[q] \in Bufs
      BY Zenon DEF TypeInv
    <3>2. Keeps(q)
      BY Zenon, <1>3, <1>4, <1>5, <2>2, <3>1 DEF Keeps, Queued
    <3> QED
      BY Zenon, <3>2, ProcKept DEF CacheInv
  <2> QED
    BY Zenon, <2>1, <2>2
<1>10. ASSUME NEW c \in Bufs PROVE BufInv(c)'
  <2>1. BufInv(c) /\ lock[c] \in Procs \cup {None}
    BY Zenon DEF CacheInv, TypeInv
  <2>2. lock[c] # p
    BY Zenon, <2>1, DiskAssumption DEF BufInv, Holding
  <2>3. /\ buf'[c].dirty = buf[c].dirty /\ buf'[c].valid = buf[c].valid
        /\ buf'[c].blockno = buf[c].blockno
    BY Zenon, <1>3
  <2> QED
    BY <1>4, <1>5, <2>1, <2>2, <2>3 DEF BufInv
<1>11. QueueInv'
  <2>1. ASSUME NEW c \in Bufs, Queued(c) PROVE lock[c] \in Procs \ {p}
    BY Zenon, <2>1 DEF Queued, CacheInv, QueueInv, TypeInv
  <2> QED
    BY <1>3, <1>4, <1>5, <2>1, QueueKept DEF CacheInv
<1> QED
  BY Zenon, <1>6, <1>7, <1>8, <1>9, <1>10, <1>11 DEF CacheInv

\* bget recycles a buffer that nobody has.
LEMMA RecycleStep ==
  ASSUME TypeInv, CacheInv, NEW p \in Procs, NEW n \in Blocks, NEW b \in Bufs, pc[p] = "idle",
         Cached(n) = {}, Recyclable(b),
         buf' = [buf EXCEPT ![b] = [@ EXCEPT !.blockno = n, !.valid = FALSE, !.dirty = FALSE, !.refcnt = 1]],
         cur' = [cur EXCEPT ![p] = b], Goto(p, "acquiresleep"), UNCHANGED <<mru, lock, drive>>
  PROVE  TypeInv' /\ CacheInv'
<1>1. buf[b] \in Buf /\ n # NoBlock /\ buf[b].refcnt = 0 /\ \A c \in Bufs : buf[c].blockno # n
  BY Zenon, BlockNumbers DEF Cached, TypeInv, Recyclable
<1>2. /\ buf' \in [Bufs -> Buf] /\ buf'[b].refcnt = buf[b].refcnt + 1
      /\ buf'[b].blockno = n /\ buf'[b].valid = FALSE /\ buf'[b].dirty = FALSE
      /\ \A c \in Bufs \ {b} : buf'[c] = buf[c]
  <2> DEFINE r == [buf[b] EXCEPT !.blockno = n, !.valid = FALSE, !.dirty = FALSE, !.refcnt = 1]
  <2>1. r \in Buf /\ r.refcnt = 1 /\ r.blockno = n /\ r.valid = FALSE /\ r.dirty = FALSE
    BY Zenon, <1>1 DEF Buf
  <2>2. buf' = [buf EXCEPT ![b] = r]
    BY Zenon
  <2> HIDE DEF r
  <2> QED
    BY <1>1, <2>1, <2>2 DEF TypeInv
<1>3. /\ pc'[p] = "acquiresleep" /\ cur'[p] = b
      /\ \A q \in Procs \ {p} : pc'[q] = pc[q] /\ cur'[q] = cur[q]
      /\ pc' \in [Procs -> Labels] /\ cur' \in [Procs -> Bufs]
  BY Zenon DEF TypeInv, Goto, Labels
<1>4. UNCHANGED <<mru, lock, idequeue, disk, cmd>>
  BY Zenon DEF drive
<1>5. /\ lock[b] = None /\ ~Queued(b)
      /\ \A q \in Procs : pc[q] # "idle" => cur[q] # b
  BY <1>1, RefsTell
<1>6. TypeInv'
  BY Zenon, <1>2, <1>3, <1>4 DEF TypeInv
<1>7. RefInv'
  BY Zenon, <1>2, <1>3, RefTaken DEF CacheInv
<1>8. ListInv' /\ OneEach'
  BY <1>1, <1>2, <1>4 DEF CacheInv, ListInv, OneEach
<1>9. ASSUME NEW q \in Procs PROVE ProcInv(q)'
  <2>1. CASE q = p
    BY Zenon, <1>1, <1>2, <1>3, <1>4, <1>5, <2>1, DiskAssumption DEF ProcInv, Holding
  <2>2. CASE q # p /\ cur[q] = b
    BY Zenon, <1>3, <1>4, <1>5, <2>2, DiskAssumption DEF ProcInv, Holding
  <2>3. CASE q # p /\ cur[q] # b
    <3>1. cur[q] \in Bufs \ {b}
      BY Zenon, <2>3 DEF TypeInv
    <3>2. Keeps(q)
      BY Zenon, <1>2, <1>3, <1>4, <2>3, <3>1 DEF Keeps, Queued
    <3> QED
      BY Zenon, <3>2, ProcKept DEF CacheInv
  <2> QED
    BY Zenon, <2>1, <2>2, <2>3
<1>10. ASSUME NEW c \in Bufs PROVE BufInv(c)'
  <2>1. BufInv(c) /\ lock[c] \in Procs \cup {None}
    BY Zenon DEF CacheInv, TypeInv
  <2>2. lock[c] # p
    BY Zenon, <2>1, DiskAssumption DEF BufInv, Holding
  <2>3. (buf'[c].dirty => buf'[c].valid) /\ (buf'[c].valid => buf'[c].blockno # NoBlock)
    BY Zenon, <1>2, <2>1 DEF BufInv
  <2> QED
    BY Zenon, <1>3, <1>4, <2>1, <2>2, <2>3 DEF BufInv
<1>11. QueueInv'
  <2>1. ASSUME NEW c \in Bufs, Queued(c) PROVE lock[c] \in Procs \ {p} /\ c # b
    BY Zenon, <1>5, <2>1 DEF Queued, CacheInv, QueueInv, TypeInv
  <2> QED
    BY Zenon, <1>2, <1>3, <1>4, <2>1, QueueKept DEF CacheInv
<1> QED
  BY <1>6, <1>7, <1>8, <1>9, <1>10, <1>11 DEF CacheInv

-----------------------------------------------------------------------------
\* Steps of p between two labels that change no buffer and no request, but perhaps p's lock.
LabelChange(p) ==
  /\ pc[p] # "idle" /\ pc[p] # "asleep disk" /\ pc'[p] # "idle"
  /\ pc' \in [Procs -> Labels] /\ lock' \in [Bufs -> Procs \cup {None}]
  /\ UNCHANGED <<mru, buf, drive, cur>>
  /\ \A q \in Procs \ {p} : pc'[q] = pc[q] \/ (pc[q] = "asleep lock" /\ pc'[q] = "acquiresleep")
  /\ \A c \in Bufs : \/ lock'[c] = lock[c]
                     \/ c = cur[p] /\ lock[c] \in {p, None} /\ lock'[c] \in {p, None}

\* They keep the rest right when they keep what the processes know.
LEMMA LabelStep ==
  ASSUME TypeInv, CacheInv, NEW p \in Procs, LabelChange(p), \A q \in Procs : ProcInv(q)'
  PROVE  TypeInv' /\ CacheInv'
<1>1. UNCHANGED <<mru, buf, idequeue, disk, cmd, cur>>
  BY Zenon DEF drive, LabelChange
<1>2. TypeInv'
  BY Zenon, <1>1 DEF TypeInv, LabelChange
<1>3. RefInv'
  <2>1. \A q \in Procs : (pc'[q] = "idle" <=> pc[q] = "idle") /\ cur'[q] = cur[q]
    BY Zenon, <1>1 DEF LabelChange
  <2> QED
    BY Zenon, <1>1, <2>1, RefsKept DEF CacheInv
<1>4. ListInv'
  BY Zenon, <1>1 DEF CacheInv, ListInv
<1>5. OneEach'
  BY Zenon, <1>1 DEF CacheInv, OneEach
<1>6. ASSUME NEW c \in Bufs PROVE BufInv(c)'
  <2>1. /\ lock[c] # None => cur[lock[c]] = c /\ pc[lock[c]] \in Holding
        /\ buf[c].dirty => buf[c].valid /\ (buf[c].valid => buf[c].blockno # NoBlock)
    BY Zenon DEF CacheInv, BufInv
  <2>2. lock[c] \in Procs \cup {None} /\ lock'[c] \in Procs \cup {None}
    BY Zenon DEF TypeInv, LabelChange
  <2>3. ASSUME lock'[c] # None PROVE cur[lock'[c]] = c /\ pc'[lock'[c]] \in Holding
    <3>1. CASE lock'[c] = p
      <4>1. cur[p] = c
        BY Zenon, <2>1, <2>3, <3>1 DEF LabelChange
      <4>2. pc'[p] \in Holding <=> lock'[cur'[p]] = p
        BY Zenon DEF ProcInv
      <4> QED
        BY Zenon, <1>1, <3>1, <4>1, <4>2
    <3>2. CASE lock'[c] # p
      BY Zenon, <2>1, <2>2, <2>3, <3>2 DEF Holding, LabelChange
    <3> QED
      BY Zenon, <3>1, <3>2
  <2> QED
    BY Zenon, <1>1, <2>3 DEF CacheInv, BufInv
<1>7. QueueInv'
  <2>1. ASSUME NEW c \in Bufs, Queued(c)
        PROVE  lock'[c] = lock[c] /\ pc'[lock[c]] = pc[lock[c]]
    <3>1. lock[c] # None /\ lock[c] \in Procs \cup {None} /\ pc[lock[c]] = "asleep disk"
      BY Zenon, <2>1, QueuedLocked
    <3> QED
      BY Zenon, <3>1 DEF LabelChange
  <2> QED
    BY Zenon, <1>1, <2>1, QueueKept DEF CacheInv
<1> QED
  BY Zenon, <1>2, <1>3, <1>4, <1>5, <1>6, <1>7 DEF CacheInv

\* acquiresleep: with the lock p goes on, without it p sleeps.
LEMMA AcquireStep ==
  ASSUME TypeInv, CacheInv, NEW p \in Procs, acquiresleep(p)
  PROVE  TypeInv' /\ CacheInv'
<1>0. /\ pc[p] = "acquiresleep" /\ cur[p] \in Bufs /\ UNCHANGED <<mru, buf, idequeue, disk, cmd, cur, drive>>
      /\ \A q \in Procs : cur[q] \in Bufs /\ ProcInv(q)
  BY Zenon DEF acquiresleep, TypeInv, CacheInv, drive
<1>1. CASE /\ lock[cur[p]] = None /\ lock' = [lock EXCEPT ![cur[p]] = p]
           /\ Goto(p, IF buf[cur[p]].valid THEN "use" ELSE "iderw")
  <2>1. /\ pc'[p] = (IF buf[cur[p]].valid THEN "use" ELSE "iderw") /\ pc' \in [Procs -> Labels]
        /\ \A q \in Procs \ {p} : pc'[q] = pc[q]
    BY Zenon, <1>1 DEF Goto, TypeInv, Labels
  <2>2. /\ lock'[cur[p]] = p /\ lock' \in [Bufs -> Procs \cup {None}]
        /\ \A c \in Bufs \ {cur[p]} : lock'[c] = lock[c]
    BY Zenon, <1>0, <1>1 DEF TypeInv
  <2>3. ASSUME NEW q \in Procs \ {p} PROVE ProcInv(q)'
    <3>1. CASE cur[q] # cur[p]
      <4>1. Keeps(q)
        BY Zenon, <1>0, <2>1, <2>2, <3>1 DEF Keeps, Queued
      <4> QED
        BY Zenon, <1>0, <4>1, ProcKept
    <3>2. CASE cur[q] = cur[p]
      <4>1. lock'[cur'[q]] = p /\ pc'[q] = pc[q]
        BY Zenon, <1>0, <2>1, <2>2, <3>2
      <4>3. pc[q] \notin Holding /\ q # p /\ p # None
        BY Zenon, <1>0, <1>1, <3>2, DiskAssumption DEF ProcInv
      <4>2. pc[q] # "idle" => buf[cur[q]].blockno # NoBlock
        BY Zenon, <1>0 DEF ProcInv
      <4> QED
        BY Zenon, <1>0, <4>1, <4>2, <4>3 DEF ProcInv, Holding
    <3> QED
      BY Zenon, <3>1, <3>2
  <2>4. ProcInv(p)'
    <3>1. buf[cur[p]].blockno # NoBlock
      BY Zenon, <1>0 DEF ProcInv
    <3> QED
      BY Zenon, <1>0, <2>1, <2>2, <3>1 DEF ProcInv, Holding
  <2>5. LabelChange(p)
    BY Zenon, <1>0, <1>1, <2>1, <2>2 DEF LabelChange
  <2> QED
    BY Zenon, <2>3, <2>4, <2>5, LabelStep
<1>2. CASE lock[cur[p]] # None /\ Goto(p, "asleep lock") /\ UNCHANGED lock
  <2>1. /\ pc'[p] = "asleep lock" /\ pc' \in [Procs -> Labels]
        /\ \A q \in Procs \ {p} : pc'[q] = pc[q]
    BY Zenon, <1>2 DEF Goto, TypeInv, Labels
  <2>2. ASSUME NEW q \in Procs \ {p} PROVE ProcInv(q)'
    <3>1. Keeps(q)
      BY Zenon, <1>0, <1>2, <2>1 DEF Keeps, Queued
    <3> QED
      BY Zenon, <1>0, <3>1, ProcKept
  <2>3. ProcInv(p)'
    BY Zenon, <1>0, <1>2, <2>1 DEF ProcInv, Holding
  <2>4. lock' \in [Bufs -> Procs \cup {None}]
    BY Zenon, <1>2 DEF TypeInv
  <2>5. LabelChange(p)
    BY Zenon, <1>0, <1>2, <2>1, <2>4 DEF LabelChange
  <2> QED
    BY Zenon, <2>2, <2>3, <2>5, LabelStep
<1> QED
  BY Zenon, <1>1, <1>2 DEF acquiresleep

\* synced: a process that was woken finds its request served.
LEMMA SyncedStep ==
  ASSUME TypeInv, CacheInv, NEW p \in Procs, synced(p)
  PROVE  TypeInv' /\ CacheInv' /\ pc[p] = "synced?" /\ Goto(p, "use") /\ UNCHANGED <<cache, drive, cur>>
<1>0. /\ pc[p] = "synced?" /\ UNCHANGED <<mru, buf, lock, idequeue, disk, cmd, cur, drive, cache>>
      /\ \A q \in Procs : cur[q] \in Bufs /\ ProcInv(q)
  BY Zenon DEF synced, TypeInv, CacheInv, drive, cache
<1>1. buf[cur[p]].valid /\ ~buf[cur[p]].dirty
  BY Zenon, <1>0 DEF ProcInv
<1>2. Goto(p, "use")
  BY Zenon, <1>1 DEF synced
<1>3. /\ pc'[p] = "use" /\ pc' \in [Procs -> Labels] /\ \A q \in Procs \ {p} : pc'[q] = pc[q]
  BY Zenon, <1>2 DEF Goto, TypeInv, Labels
<1>4. ASSUME NEW q \in Procs \ {p} PROVE ProcInv(q)'
  <2>1. Keeps(q)
    BY Zenon, <1>0, <1>3 DEF Keeps, Queued
  <2> QED
    BY Zenon, <1>0, <2>1, ProcKept
<1>5. ProcInv(p)'
  BY Zenon, <1>0, <1>1, <1>3 DEF ProcInv, Holding
<1>6. lock' \in [Bufs -> Procs \cup {None}]
  BY Zenon, <1>0 DEF TypeInv
<1>7. LabelChange(p)
  BY Zenon, <1>0, <1>3, <1>6 DEF LabelChange
<1> QED
  BY Zenon, <1>0, <1>2, <1>4, <1>5, <1>7, LabelStep

\* releasesleep: who sleeps for the lock is woken.
LEMMA ReleaseStep ==
  ASSUME TypeInv, CacheInv, NEW p \in Procs, releasesleep(p)
  PROVE  /\ TypeInv' /\ CacheInv' /\ pc[p] = "use" /\ pc'[p] = "brelse" /\ panicked' = panicked
         /\ UNCHANGED <<mru, buf, drive, cur>> /\ lock' = [lock EXCEPT ![cur[p]] = None]
         /\ \A q \in Procs \ {p} :
              pc'[q] = IF pc[q] = "asleep lock" /\ cur[q] = cur[p] THEN "acquiresleep" ELSE pc[q]
<1>0. pc[p] = "use" /\ cur[p] \in Bufs /\ \A q \in Procs : cur[q] \in Bufs /\ ProcInv(q)
  BY Zenon DEF releasesleep, TypeInv, CacheInv
<1>1. lock[cur[p]] = p
  BY Zenon, <1>0 DEF ProcInv, Holding
<1>2. /\ lock' = [lock EXCEPT ![cur[p]] = None] /\ UNCHANGED <<mru, buf, drive, cur, panicked>>
      /\ pc' = Wake([pc EXCEPT ![p] = "brelse"], "asleep lock", cur[p], "acquiresleep")
  BY Zenon, <1>1 DEF releasesleep, holdingsleep
<1>3. UNCHANGED <<idequeue, disk, cmd>>
  BY Zenon, <1>2 DEF drive
<1>4. /\ lock'[cur[p]] = None /\ lock' \in [Bufs -> Procs \cup {None}]
      /\ \A c \in Bufs \ {cur[p]} : lock'[c] = lock[c]
  BY Zenon, <1>0, <1>2 DEF TypeInv
<1>5. /\ pc'[p] = "brelse" /\ pc' \in [Procs -> Labels]
      /\ \A q \in Procs \ {p} :
           pc'[q] = IF pc[q] = "asleep lock" /\ cur[q] = cur[p] THEN "acquiresleep" ELSE pc[q]
  <2> DEFINE at == [pc EXCEPT ![p] = "brelse"]
  <2>1. /\ at \in [Procs -> Labels] /\ at[p] = "brelse" /\ \A q \in Procs \ {p} : at[q] = pc[q]
        /\ "acquiresleep" \in Labels
    BY Zenon DEF TypeInv, Labels
  <2>2. pc' = Wake(at, "asleep lock", cur[p], "acquiresleep")
    BY Zenon, <1>2
  <2> HIDE DEF at
  <2>3. pc' \in [Procs -> Labels]
    BY Zenon, <2>1, <2>2 DEF Wake
  <2>4. \A q \in Procs : pc'[q] = IF at[q] = "asleep lock" /\ cur[q] = cur[p] THEN "acquiresleep" ELSE at[q]
    BY Zenon, <2>2 DEF Wake
  <2> QED
    BY Zenon, <2>1, <2>3, <2>4
<1>6. ASSUME NEW q \in Procs \ {p} PROVE ProcInv(q)'
  <2>1. CASE cur[q] # cur[p]
    <3>1. Keeps(q)
      BY Zenon, <1>0, <1>2, <1>3, <1>4, <1>5, <2>1 DEF Keeps, Queued
    <3> QED
      BY Zenon, <1>0, <3>1, ProcKept
  <2>2. CASE cur[q] = cur[p]
    <3>1. pc[q] \notin Holding /\ q # None /\ (pc[q] # "idle" => buf[cur[q]].blockno # NoBlock)
      BY Zenon, <1>0, <1>1, <2>2, DiskAssumption DEF ProcInv
    <3>2. /\ pc'[q] \notin Holding /\ pc'[q] # "asleep lock" /\ (pc[q] = "idle" => pc'[q] = "idle")
          /\ lock'[cur'[q]] = None /\ buf'[cur'[q]].blockno = buf[cur[q]].blockno
      BY Zenon, <1>2, <1>4, <1>5, <2>2, <3>1 DEF Holding
    <3> QED
      BY Zenon, <3>1, <3>2, ProcOutside
  <2> QED
    BY Zenon, <2>1, <2>2
<1>7. ProcInv(p)'
  <2>1. lock'[cur'[p]] = None /\ p # None /\ buf'[cur'[p]].blockno # NoBlock
    BY Zenon, <1>0, <1>2, <1>4, DiskAssumption DEF ProcInv
  <2> QED
    BY Zenon, <1>5, <2>1 DEF ProcInv, Holding
<1>8. LabelChange(p)
  BY Zenon, <1>0, <1>1, <1>2, <1>4, <1>5 DEF LabelChange
<1> QED
  BY Zenon, <1>0, <1>2, <1>5, <1>6, <1>7, <1>8, LabelStep

-----------------------------------------------------------------------------
\* p changes the buffer it has locked, and stays with it or asks for it to be written.
Changed(p) ==
  /\ pc[p] = "use" /\ buf[cur[p]].blockno \in Written /\ UNCHANGED <<mru, lock, drive, cur>>
  /\ \E v \in Values : buf' = [buf EXCEPT ![cur[p]].data = v, ![cur[p]].dirty = TRUE]
  /\ \/ UNCHANGED pc /\ Cardinality({b \in Bufs : buf[b].dirty} \cup {cur[p]}) <= MAXPINNED
     \/ Goto(p, "iderw")

\* What a change does to the buffers.
LEMMA ChangedBuf ==
  ASSUME TypeInv, CacheInv, NEW p \in Procs, Changed(p)
  PROVE  /\ cur[p] \in Bufs /\ lock[cur[p]] = p /\ buf[cur[p]].valid /\ buf' \in [Bufs -> Buf]
         /\ buf'[cur[p]].blockno = buf[cur[p]].blockno /\ buf'[cur[p]].valid = buf[cur[p]].valid
         /\ buf'[cur[p]].refcnt = buf[cur[p]].refcnt /\ buf'[cur[p]].dirty
         /\ buf[cur[p]].blockno \in Blocks
         /\ \A c \in Bufs \ {cur[p]} : buf'[c] = buf[c]
<1>1. PICK v \in Values : buf' = [buf EXCEPT ![cur[p]].data = v, ![cur[p]].dirty = TRUE]
  BY Zenon DEF Changed
<1>2. cur[p] \in Bufs /\ buf[cur[p]] \in Buf /\ ProcInv(p) /\ pc[p] = "use"
  BY Zenon DEF TypeInv, CacheInv, Changed
<1> DEFINE r == [buf[cur[p]] EXCEPT !.data = v, !.dirty = TRUE]
<1>3. /\ r \in Buf /\ r.blockno = buf[cur[p]].blockno /\ r.valid = buf[cur[p]].valid
      /\ r.refcnt = buf[cur[p]].refcnt /\ r.dirty = TRUE
  BY Zenon, <1>2 DEF Buf
<1>4. buf' = [buf EXCEPT ![cur[p]] = r]
  BY Zenon, <1>1, <1>2 DEF TypeInv
<1> HIDE DEF r
<1>5. buf' \in [Bufs -> Buf] /\ buf'[cur[p]] = r /\ \A c \in Bufs \ {cur[p]} : buf'[c] = buf[c]
  BY Zenon, <1>2, <1>3, <1>4 DEF TypeInv
<1>6. lock[cur[p]] = p /\ buf[cur[p]].valid /\ buf[cur[p]].blockno # NoBlock
  BY Zenon, <1>2 DEF ProcInv, Holding
<1>7. buf[cur[p]].blockno \in Blocks
  BY Zenon, <1>2, <1>6, Fields
<1> QED
  BY Zenon, <1>2, <1>3, <1>5, <1>6, <1>7

\* A change keeps the cache right.
LEMMA ChangeStep ==
  ASSUME TypeInv, CacheInv, NEW p \in Procs, Changed(p)
  PROVE  TypeInv' /\ CacheInv'
<1>1. pc[p] = "use" /\ UNCHANGED <<mru, lock, idequeue, disk, cmd, cur>>
  BY Zenon DEF Changed, drive
<1>2. pc' \in [Procs -> Labels] /\ pc'[p] \in {"use", "iderw"} /\ \A q \in Procs \ {p} : pc'[q] = pc[q]
  BY Zenon, <1>1 DEF Changed, Goto, TypeInv, Labels
<1>3. TypeInv'
  BY Zenon, <1>1, <1>2, ChangedBuf DEF TypeInv
<1>4. RefInv'
  BY Zenon, <1>1, <1>2, ChangedBuf, RefsKept DEF CacheInv
<1>5. ListInv' /\ OneEach'
  <2>1. \A b \in Bufs : buf'[b].blockno = buf[b].blockno
    BY Zenon, ChangedBuf
  <2>2. ListInv /\ OneEach
    BY Zenon DEF CacheInv
  <2> QED
    BY Zenon, <1>1, <2>1, <2>2 DEF ListInv, OneEach
<1>6. ASSUME NEW q \in Procs PROVE ProcInv(q)'
  <2>0. ProcInv(q) /\ cur[q] \in Bufs
    BY Zenon DEF CacheInv, TypeInv
  <2>1. CASE q # p /\ cur[q] # cur[p]
    <3>1. Keeps(q)
      BY Zenon, <1>1, <1>2, <2>0, <2>1, ChangedBuf DEF Keeps, Queued
    <3> QED
      BY Zenon, <2>0, <3>1, ProcKept
  <2>2. CASE q # p /\ cur[q] = cur[p]
    <3>1. pc[q] \notin Holding
      BY Zenon, <2>0, <2>2, ChangedBuf DEF ProcInv
    <3>2. lock'[cur'[q]] = lock[cur[q]] /\ buf'[cur'[q]].blockno = buf[cur[q]].blockno /\ pc'[q] = pc[q]
      BY Zenon, <1>1, <1>2, <2>2, ChangedBuf
    <3> QED
      BY Zenon, <2>0, <3>1, <3>2 DEF ProcInv, Holding
  <2>3. CASE q = p
    <3>1. lock'[cur'[q]] = q /\ buf'[cur'[q]].blockno # NoBlock /\ buf'[cur'[q]].valid /\ buf'[cur'[q]].dirty
      BY <1>1, <2>3, ChangedBuf, BlockNumbers
    <3> QED
      BY Zenon, <1>2, <2>3, <3>1 DEF ProcInv, Holding
  <2> QED
    BY Zenon, <2>1, <2>2, <2>3
<1>7. ASSUME NEW c \in Bufs PROVE BufInv(c)'
  <2>1. BufInv(c) /\ lock[c] \in Procs \cup {None}
    BY Zenon DEF CacheInv, TypeInv
  <2>2. lock[c] # None => cur'[lock'[c]] = c /\ pc'[lock'[c]] \in Holding
    BY Zenon, <1>1, <1>2, <2>1 DEF BufInv, Holding
  <2>3. (buf'[c].dirty => buf'[c].valid) /\ (buf'[c].valid => buf'[c].blockno # NoBlock)
    BY Zenon, <2>1, ChangedBuf, BlockNumbers DEF BufInv
  <2> QED
    BY Zenon, <1>1, <2>2, <2>3 DEF BufInv
<1>8. QueueInv'
  <2>1. ASSUME NEW c \in Bufs, Queued(c) PROVE c # cur[p] /\ lock[c] \in Procs \ {p}
    BY Zenon, <1>1, <2>1, QueuedLocked, ChangedBuf
  <2>2. QueueInv
    BY Zenon DEF CacheInv
  <2> QED
    BY Zenon, <1>1, <1>2, <2>1, <2>2, ChangedBuf, QueueKept
<1> QED
  BY Zenon, <1>3, <1>4, <1>5, <1>6, <1>7, <1>8 DEF CacheInv

-----------------------------------------------------------------------------
\* Moving a buffer to the head of the list loses none.
LEMMA ToHeadLists ==
  ASSUME mru \in [Bufs -> Bufs], ListInv, NEW b \in Bufs, mru' = ToHead(b)
  PROVE  mru' \in [Bufs -> Bufs] /\ ListInv'
<1> DEFINE k == CHOOSE i \in Bufs : mru[i] = b
<1>1. k \in Bufs /\ mru[k] = b
  BY Zenon DEF ListInv
<1>2. mru' = [i \in Bufs |-> IF i = 1 THEN b ELSE IF i <= k THEN mru[i - 1] ELSE mru[i]]
  BY Zenon DEF ToHead
<1> HIDE DEF k
<1>3. NBUF \in Nat \ {0} /\ k \in 1 .. NBUF
  BY Zenon, <1>1, DiskAssumption DEF Bufs
<1>4. ASSUME NEW i \in Bufs PROVE i = 1 \/ i - 1 \in Bufs
  BY <1>3 DEF Bufs
<1>5. mru' \in [Bufs -> Bufs]
  BY <1>2, <1>4
<1>6. ASSUME NEW c \in Bufs PROVE \E i \in Bufs : mru'[i] = c
  <2>1. PICK i \in Bufs : mru[i] = c
    BY Zenon DEF ListInv
  <2>2. CASE c = b
    <3>1. 1 \in Bufs
      BY <1>3 DEF Bufs
    <3> QED
      BY Zenon, <1>2, <2>2, <3>1
  <2>3. CASE c # b /\ i < k
    <3>1. i + 1 \in Bufs /\ i + 1 # 1 /\ i + 1 <= k /\ (i + 1) - 1 = i
      BY <1>3, <2>3 DEF Bufs
    <3> QED
      BY Zenon, <1>2, <2>1, <3>1
  <2>4. CASE c # b /\ i > k
    <3>1. i # 1 /\ ~(i <= k)
      BY <1>3, <2>4 DEF Bufs
    <3> QED
      BY Zenon, <1>2, <2>1, <3>1
  <2>5. i \in Nat /\ k \in Nat
    BY <1>3 DEF Bufs
  <2>6. i = k => c = b
    BY Zenon, <1>1, <2>1
  <2> QED
    BY <2>2, <2>3, <2>4, <2>5, <2>6
<1> QED
  BY Zenon, <1>5, <1>6 DEF ListInv

\* brelse: p drops its reference.
LEMMA BrelseStep ==
  ASSUME TypeInv, CacheInv, NEW p \in Procs, brelse(p)
  PROVE  TypeInv' /\ CacheInv'
<1>0. PICK b \in Bufs : b = cur[p]
  BY Zenon DEF TypeInv
<1>1. /\ pc[p] = "brelse" /\ b = cur[p] /\ buf[b] \in Buf /\ UNCHANGED <<lock, idequeue, disk, cmd, cur>>
      /\ buf' = [buf EXCEPT ![b].refcnt = @ - 1] /\ Goto(p, "idle")
      /\ (mru' = mru \/ mru' = ToHead(b))
  BY Zenon, <1>0 DEF brelse, TypeInv, drive
<1>2. buf[b].refcnt \in Nat /\ buf[b].refcnt > 0 /\ buf[b].refcnt - 1 \in Nat
  <2>1. buf[b].refcnt \in Nat
    BY Zenon, <1>1, Fields
  <2>2. buf[b].refcnt > 0
    BY Zenon, <1>1, RefsTell
  <2> QED
    BY <2>1, <2>2
<1>3. /\ buf' \in [Bufs -> Buf] /\ buf'[b].refcnt = buf[b].refcnt - 1
      /\ buf'[b].blockno = buf[b].blockno /\ buf'[b].valid = buf[b].valid
      /\ buf'[b].dirty = buf[b].dirty /\ buf'[b].data = buf[b].data
      /\ \A c \in Bufs \ {b} : buf'[c] = buf[c]
  <2> DEFINE r == [buf[b] EXCEPT !.refcnt = buf[b].refcnt - 1]
  <2>1. /\ r \in Buf /\ r.refcnt = buf[b].refcnt - 1 /\ r.blockno = buf[b].blockno
        /\ r.valid = buf[b].valid /\ r.dirty = buf[b].dirty /\ r.data = buf[b].data
    BY Zenon, <1>1, <1>2 DEF Buf
  <2>2. buf' = [buf EXCEPT ![b] = r]
    BY Zenon, <1>1
  <2> HIDE DEF r
  <2>3. buf \in [Bufs -> Buf]
    BY Zenon DEF TypeInv
  <2> QED
    BY Zenon, <2>1, <2>2, <2>3
<1>4. /\ pc'[p] = "idle" /\ pc' \in [Procs -> Labels] /\ \A q \in Procs \ {p} : pc'[q] = pc[q]
  BY Zenon, <1>1 DEF Goto, TypeInv, Labels
<1>5. mru' \in [Bufs -> Bufs] /\ ListInv'
  <2>1. mru \in [Bufs -> Bufs] /\ ListInv
    BY Zenon DEF TypeInv, CacheInv
  <2>2. CASE mru' = mru
    BY Zenon, <2>1, <2>2 DEF ListInv
  <2>3. CASE mru' = ToHead(b)
    BY Zenon, <1>1, <2>1, <2>3, ToHeadLists
  <2> QED
    BY Zenon, <1>1, <2>2, <2>3
<1>6. TypeInv'
  BY Zenon, <1>1, <1>3, <1>4, <1>5 DEF TypeInv
<1>7. RefInv'
  BY <1>1, <1>3, <1>4, RefDropped DEF CacheInv
<1>8. OneEach'
  <2>1. OneEach /\ \A c \in Bufs : buf'[c].blockno = buf[c].blockno
    BY Zenon, <1>3 DEF CacheInv
  <2> QED
    BY Zenon, <2>1 DEF OneEach
<1>9. ASSUME NEW q \in Procs PROVE ProcInv(q)'
  <2>0. ProcInv(q) /\ cur[q] \in Bufs
    BY Zenon DEF CacheInv, TypeInv
  <2>1. CASE q # p
    <3>1. Keeps(q)
      BY Zenon, <1>1, <1>3, <1>4, <2>0, <2>1 DEF Keeps, Queued
    <3> QED
      BY Zenon, <2>0, <3>1, ProcKept
  <2>2. CASE q = p
    <3>1. lock[b] # p
      BY Zenon, <1>1, <2>0, <2>2 DEF ProcInv, Holding
    <3> QED
      BY Zenon, <1>1, <1>4, <2>2, <3>1, ProcOutside DEF Holding
  <2> QED
    BY Zenon, <2>1, <2>2
<1>10. ASSUME NEW c \in Bufs PROVE BufInv(c)'
  <2>1. BufInv(c) /\ lock[c] \in Procs \cup {None}
    BY Zenon DEF CacheInv, TypeInv
  <2>2. lock[c] # None => cur'[lock'[c]] = c /\ pc'[lock'[c]] \in Holding
    BY Zenon, <1>1, <1>4, <2>1 DEF BufInv, Holding
  <2>3. (buf'[c].dirty => buf'[c].valid) /\ (buf'[c].valid => buf'[c].blockno # NoBlock)
    BY Zenon, <1>3, <2>1 DEF BufInv
  <2> QED
    BY Zenon, <1>1, <2>2, <2>3 DEF BufInv
<1>11. QueueInv'
  <2>1. ASSUME NEW c \in Bufs, Queued(c) PROVE lock[c] \in Procs \ {p}
    BY Zenon, <1>1, <2>1, QueuedLocked
  <2>2. QueueInv
    BY Zenon DEF CacheInv
  <2> QED
    BY Zenon, <1>1, <1>3, <1>4, <2>1, <2>2, QueueKept
<1> QED
  BY Zenon, <1>5, <1>6, <1>7, <1>8, <1>9, <1>10, <1>11 DEF CacheInv

-----------------------------------------------------------------------------
\* The places of a sequence to which e is appended.
LEMMA Appended ==
  ASSUME NEW S, NEW s \in Seq(S), NEW e \in S
  PROVE  /\ Append(s, e) \in Seq(S) /\ Len(Append(s, e)) = Len(s) + 1 /\ Len(s) \in Nat
         /\ Append(s, e)[Len(s) + 1] = e
         /\ \A i \in 1 .. Len(s) : Append(s, e)[i] = s[i] /\ s[i] \in S
  OBVIOUS

\* iderw queues the request of a process that has its buffer locked and something to do.
LEMMA IderwStep ==
  ASSUME TypeInv, CacheInv, NEW p \in Procs, iderw(p)
  PROVE  /\ TypeInv' /\ CacheInv' /\ UNCHANGED <<cache, disk, cur, panicked>>
         /\ pc[p] = "iderw" /\ Goto(p, "asleep disk")
<1>0. PICK b \in Bufs : b = cur[p]
  BY Zenon DEF TypeInv
<1>1. pc[p] = "iderw" /\ b = cur[p] /\ ProcInv(p)
  BY Zenon, <1>0 DEF iderw, CacheInv
<1>2. lock[b] = p /\ (~buf[b].valid \/ buf[b].dirty) /\ buf[b].blockno # NoBlock
  BY Zenon, <1>1 DEF ProcInv, Holding
<1>3. /\ idequeue' = Append(idequeue, b) /\ cmd' = (IF idequeue = <<>> THEN idestart(b) ELSE cmd)
      /\ Goto(p, "asleep disk") /\ UNCHANGED <<cache, mru, buf, lock, disk, cur, panicked>>
  BY Zenon, <1>1, <1>2 DEF iderw, holdingsleep, cache
<1>4. /\ pc'[p] = "asleep disk" /\ pc' \in [Procs -> Labels] /\ \A q \in Procs \ {p} : pc'[q] = pc[q]
  BY Zenon, <1>3 DEF Goto, TypeInv, Labels
<1>5. /\ idequeue \in Seq(Bufs) /\ idequeue' \in Seq(Bufs) /\ Len(idequeue') = Len(idequeue) + 1
      /\ Len(idequeue) \in Nat /\ idequeue'[Len(idequeue) + 1] = b
      /\ \A i \in 1 .. Len(idequeue) : idequeue'[i] = idequeue[i] /\ idequeue[i] \in Bufs
  <2>1. idequeue \in Seq(Bufs)
    BY Zenon DEF TypeInv
  <2>2. idequeue' = Append(idequeue, b)
    BY Zenon, <1>3
  <2> QED
    BY <2>1, <2>2, Appended
<1>6. TypeInv'
  BY Zenon, <1>3, <1>4, <1>5 DEF TypeInv
<1>7. RefInv'
  BY Zenon, <1>1, <1>3, <1>4, RefsKept DEF CacheInv
<1>8. ListInv' /\ OneEach'
  <2>1. ListInv /\ OneEach
    BY Zenon DEF CacheInv
  <2> QED
    BY Zenon, <1>3, <2>1 DEF ListInv, OneEach
<1>9. ASSUME NEW c \in Bufs PROVE Queued(c)' <=> Queued(c) \/ c = b
  BY <1>5 DEF Queued
<1>10. ASSUME NEW q \in Procs PROVE ProcInv(q)'
  <2>0. ProcInv(q) /\ cur[q] \in Bufs
    BY Zenon DEF CacheInv, TypeInv
  <2>1. CASE q # p
    <3>1. Queued(cur[q]) => Queued(cur[q])'
      BY Zenon, <1>3, <1>9, <2>0 DEF Queued
    <3>2. Keeps(q)
      BY Zenon, <1>3, <1>4, <2>1, <3>1 DEF Keeps
    <3> QED
      BY Zenon, <2>0, <3>2, ProcKept
  <2>2. CASE q = p
    <3>1. Queued(cur[p])'
      BY Zenon, <1>1, <1>3, <1>9 DEF Queued
    <3>2. /\ lock'[cur'[p]] = p /\ buf'[cur'[p]].blockno # NoBlock
          /\ ~buf'[cur'[p]].valid \/ buf'[cur'[p]].dirty
      BY Zenon, <1>1, <1>2, <1>3
    <3> QED
      BY Zenon, <1>4, <2>2, <3>1, <3>2 DEF ProcInv, Holding
  <2> QED
    BY Zenon, <2>1, <2>2
<1>11. ASSUME NEW c \in Bufs PROVE BufInv(c)'
  <2>1. BufInv(c) /\ lock[c] \in Procs \cup {None}
    BY Zenon DEF CacheInv, TypeInv
  <2>2. lock[c] # None => cur'[lock'[c]] = c /\ pc'[lock'[c]] \in Holding
    BY Zenon, <1>3, <1>4, <2>1 DEF BufInv, Holding
  <2> QED
    BY Zenon, <1>3, <2>1, <2>2 DEF BufInv
<1>12. QueueInv'
  <2>0. QueueInv
    BY Zenon DEF CacheInv
  <2>1. ~Queued(b)
    BY Zenon, <1>1, <1>2, QueuedLocked
  <2>2. \A i \in 1 .. Len(idequeue) : idequeue[i] # b
    BY Zenon, <2>1 DEF Queued
  <2>3. \A i, j \in 1 .. Len(idequeue') : idequeue'[i] = idequeue'[j] => i = j
    <3> TAKE i, j \in 1 .. Len(idequeue')
    <3>1. (i \in 1 .. Len(idequeue) \/ i = Len(idequeue) + 1) /\ (j \in 1 .. Len(idequeue) \/ j = Len(idequeue) + 1)
      BY <1>5
    <3> QED
      BY Zenon, <1>5, <2>0, <2>2, <3>1 DEF QueueInv
  <2>4. ASSUME NEW i \in 1 .. Len(idequeue')
        PROVE  lock'[idequeue'[i]] # None /\ pc'[lock'[idequeue'[i]]] = "asleep disk"
    <3>1. CASE i \in 1 .. Len(idequeue)
      <4>1. /\ idequeue'[i] = idequeue[i] /\ idequeue[i] \in Bufs
            /\ lock[idequeue[i]] # None /\ pc[lock[idequeue[i]]] = "asleep disk"
        BY Zenon, <1>5, <2>0, <3>1 DEF QueueInv
      <4>2. lock[idequeue[i]] \in Procs \ {p}
        BY Zenon, <1>1, <4>1 DEF TypeInv
      <4> QED
        BY Zenon, <1>3, <1>4, <4>1, <4>2
    <3>2. CASE i = Len(idequeue) + 1
      <4>1. idequeue'[i] = b /\ lock'[b] = p /\ p # None
        BY Zenon, <1>2, <1>3, <1>5, <3>2, DiskAssumption
      <4> QED
        BY Zenon, <1>4, <4>1
    <3>3. i \in 1 .. Len(idequeue) \/ i = Len(idequeue) + 1
      BY <1>5
    <3> QED
      BY Zenon, <3>1, <3>2, <3>3
  <2>5. cmd' = idestart(Head(idequeue))' /\ idequeue' # <<>>
    <3>1. idequeue' # <<>> /\ Head(idequeue') = idequeue'[1]
      BY <1>5
    <3>2. CASE idequeue = <<>>
      <4>1. Head(idequeue') = b
        BY <1>5, <3>1, <3>2
      <4> QED
        BY Zenon, <1>3, <3>1, <3>2, <4>1 DEF idestart
    <3>3. CASE idequeue # <<>>
      <4>1. Head(idequeue') = Head(idequeue)
        BY <1>5, <3>1, <3>3
      <4>2. cmd' = idestart(Head(idequeue))
        BY Zenon, <1>3, <2>0, <3>3 DEF QueueInv
      <4> QED
        BY Zenon, <1>3, <3>1, <4>1, <4>2 DEF idestart
    <3> QED
      BY Zenon, <3>2, <3>3
  <2> QED
    BY Zenon, <2>3, <2>4, <2>5 DEF QueueInv
<1> QED
  BY Zenon, <1>1, <1>3, <1>6, <1>7, <1>8, <1>10, <1>11, <1>12 DEF CacheInv

-----------------------------------------------------------------------------
\* The interrupt for the first request, which process h waits for with buffer b.
Interrupted(b, h, error) ==
  /\ idequeue # <<>> /\ b = Head(idequeue)
  /\ lock[b] = h /\ cur[h] = b /\ pc[h] = "asleep disk" /\ buf[b].blockno \in Blocks
  /\ buf' \in [Bufs -> Buf] /\ \A c \in Bufs \ {b} : buf'[c] = buf[c]
  /\ buf'[b].blockno = buf[b].blockno /\ buf'[b].refcnt = buf[b].refcnt
  /\ buf'[b].valid = TRUE /\ buf'[b].dirty = FALSE
  /\ buf'[b].data = IF buf[b].dirty \/ error THEN buf[b].data ELSE disk[buf[b].blockno]
  /\ disk' = IF buf[b].dirty THEN [disk EXCEPT ![buf[b].blockno] = buf[b].data] ELSE disk
  /\ pc' \in [Procs -> Labels] /\ pc'[h] = "synced?" /\ \A q \in Procs \ {h} : pc'[q] = pc[q]
  /\ idequeue' = Tail(idequeue) /\ cmd' = StartNext(Tail(idequeue))
  /\ UNCHANGED <<mru, lock, cur, panicked>>

\* ideintr is about the request of one process.
LEMMA IntrView ==
  ASSUME TypeInv, CacheInv, ideintr
  PROVE  \E b \in Bufs, h \in Procs, error \in Errors : Interrupted(b, h, error)
<1>1. /\ idequeue # <<>> /\ idequeue \in Seq(Bufs) /\ QueueInv
  BY Zenon DEF ideintr, TypeInv, CacheInv
<1>2. PICK b \in Bufs : b = Head(idequeue) /\ Queued(b)
  <2>1. Head(idequeue) = idequeue[1] /\ 1 \in 1 .. Len(idequeue) /\ idequeue[1] \in Bufs
    BY <1>1
  <2> QED
    BY Zenon, <2>1 DEF Queued
<1>3. PICK h \in Procs : lock[b] = h /\ cur[h] = b /\ pc[h] = "asleep disk"
  BY Zenon, <1>2, QueuedLocked
<1>4. PICK error \in Errors : buf' = Served(b, error)
  BY Zenon, <1>2 DEF ideintr
<1>5. buf[b] \in Buf /\ buf[b].blockno \in Blocks
  <2>1. buf[b] \in Buf /\ ProcInv(h)
    BY Zenon DEF TypeInv, CacheInv
  <2>2. buf[b].blockno # NoBlock
    BY Zenon, <1>3, <2>1 DEF ProcInv
  <2> QED
    BY Zenon, <2>1, <2>2, Fields
<1>6. /\ cmd.blockno = buf[b].blockno
      /\ cmd.op = "write" <=> buf[b].dirty
      /\ buf[b].dirty => cmd.data = buf[b].data
  <2>1. cmd = idestart(b)
    BY Zenon, <1>1, <1>2 DEF QueueInv
  <2> QED
    BY Zenon, <2>1 DEF idestart
<1>7. /\ buf' \in [Bufs -> Buf] /\ \A c \in Bufs \ {b} : buf'[c] = buf[c]
      /\ buf'[b].blockno = buf[b].blockno /\ buf'[b].refcnt = buf[b].refcnt
      /\ buf'[b].valid = TRUE /\ buf'[b].dirty = FALSE
      /\ buf'[b].data = IF buf[b].dirty \/ error THEN buf[b].data ELSE disk[buf[b].blockno]
  <2> DEFINE d == IF buf[b].dirty \/ error THEN buf[b].data ELSE disk[buf[b].blockno]
  <2>1. d \in Values
    BY Zenon, <1>5, Fields DEF TypeInv
  <2>2. buf' = [buf EXCEPT ![b].valid = TRUE, ![b].dirty = FALSE, ![b].data = d]
    BY Zenon, <1>4, <1>6 DEF Served
  <2> HIDE DEF d
  <2> DEFINE r == [buf[b] EXCEPT !.valid = TRUE, !.dirty = FALSE, !.data = d]
  <2>3. /\ r \in Buf /\ r.blockno = buf[b].blockno /\ r.refcnt = buf[b].refcnt
        /\ r.valid = TRUE /\ r.dirty = FALSE /\ r.data = d
    BY Zenon, <1>5, <2>1 DEF Buf
  <2>4. buf \in [Bufs -> Buf]
    BY Zenon DEF TypeInv
  <2>5. buf' = [buf EXCEPT ![b] = r]
    BY Zenon, <2>2, <2>4
  <2> HIDE DEF r
  <2>6. buf' \in [Bufs -> Buf] /\ buf'[b] = r /\ \A c \in Bufs \ {b} : buf'[c] = buf[c]
    BY Zenon, <2>3, <2>4, <2>5
  <2> QED
    BY Zenon, <2>3, <2>6 DEF d
<1>8. disk' = IF buf[b].dirty THEN [disk EXCEPT ![buf[b].blockno] = buf[b].data] ELSE disk
  BY Zenon, <1>6 DEF ideintr
<1>9. pc' \in [Procs -> Labels] /\ pc'[h] = "synced?" /\ \A q \in Procs \ {h} : pc'[q] = pc[q]
  <2>1. pc' = Wake(pc, "asleep disk", b, "synced?")
    BY Zenon, <1>2 DEF ideintr
  <2>2. pc' \in [Procs -> Labels]
    BY Zenon, <2>1 DEF Wake, TypeInv, Labels
  <2>3. \A q \in Procs : pc'[q] = IF pc[q] = "asleep disk" /\ cur[q] = b THEN "synced?" ELSE pc[q]
    BY Zenon, <2>1 DEF Wake
  <2>4. ASSUME NEW q \in Procs \ {h} PROVE ~(pc[q] = "asleep disk" /\ cur[q] = b)
    BY Zenon, <1>3 DEF CacheInv, ProcInv, Holding
  <2> QED
    BY Zenon, <1>3, <2>2, <2>3, <2>4
<1>10. idequeue' = Tail(idequeue) /\ cmd' = StartNext(Tail(idequeue)) /\ UNCHANGED <<mru, lock, cur, panicked>>
  BY Zenon DEF ideintr
<1>11. Interrupted(b, h, error)
  BY Zenon, <1>1, <1>2, <1>3, <1>5, <1>7, <1>8, <1>9, <1>10 DEF Interrupted
<1> QED
  BY Zenon, <1>4, <1>11

\* The places of a sequence whose head is removed.
LEMMA Removed ==
  ASSUME NEW S, NEW s \in Seq(S), s # <<>>
  PROVE  /\ Tail(s) \in Seq(S) /\ Len(Tail(s)) = Len(s) - 1 /\ Len(s) \in Nat /\ Len(s) > 0
         /\ Head(s) = s[1]
         /\ \A i \in 1 .. (Len(s) - 1) : Tail(s)[i] = s[i + 1] /\ i + 1 \in 1 .. Len(s)
  OBVIOUS

\* The interrupt keeps the cache and the queue right.
LEMMA IntrStep ==
  ASSUME TypeInv, CacheInv, NEW b \in Bufs, NEW h \in Procs, NEW error \in Errors,
         Interrupted(b, h, error)
  PROVE  TypeInv' /\ CacheInv'
<1>1. /\ lock[b] = h /\ cur[h] = b /\ pc[h] = "asleep disk" /\ buf[b].blockno \in Blocks
      /\ buf' \in [Bufs -> Buf] /\ \A c \in Bufs \ {b} : buf'[c] = buf[c]
      /\ buf'[b].blockno = buf[b].blockno /\ buf'[b].refcnt = buf[b].refcnt
      /\ buf'[b].valid = TRUE /\ buf'[b].dirty = FALSE
  BY Zenon DEF Interrupted
<1>2. /\ pc' \in [Procs -> Labels] /\ pc'[h] = "synced?" /\ \A q \in Procs \ {h} : pc'[q] = pc[q]
      /\ UNCHANGED <<mru, lock, cur>>
  BY Zenon DEF Interrupted
<1>3. /\ idequeue # <<>> /\ idequeue \in Seq(Bufs) /\ b = idequeue[1] /\ idequeue' \in Seq(Bufs)
      /\ Len(idequeue') = Len(idequeue) - 1 /\ Len(idequeue) \in Nat /\ Len(idequeue) > 0
      /\ \A i \in 1 .. (Len(idequeue) - 1) : idequeue'[i] = idequeue[i + 1] /\ i + 1 \in 1 .. Len(idequeue)
  <2>1. idequeue # <<>> /\ idequeue \in Seq(Bufs) /\ b = Head(idequeue) /\ idequeue' = Tail(idequeue)
    BY Zenon DEF Interrupted, TypeInv
  <2> QED
    BY Zenon, <2>1, Removed
<1>4. disk' \in [Blocks -> Values]
  <2>1. disk \in [Blocks -> Values] /\ buf[b].data \in Values
    BY Zenon, Fields DEF TypeInv
  <2>2. disk' = IF buf[b].dirty THEN [disk EXCEPT ![buf[b].blockno] = buf[b].data] ELSE disk
    BY Zenon DEF Interrupted
  <2> QED
    BY Zenon, <2>1, <2>2
<1>5. TypeInv'
  BY Zenon, <1>1, <1>2, <1>3, <1>4 DEF TypeInv
<1>6. RefInv'
  BY Zenon, <1>1, <1>2, RefsKept DEF CacheInv
<1>7. ListInv' /\ OneEach'
  <2>1. ListInv /\ OneEach /\ \A c \in Bufs : buf'[c].blockno = buf[c].blockno
    BY Zenon, <1>1 DEF CacheInv
  <2> QED
    BY Zenon, <1>2, <2>1 DEF ListInv, OneEach
<1>8. \A i, j \in 1 .. Len(idequeue) : idequeue[i] = idequeue[j] => i = j
  BY Zenon DEF CacheInv, QueueInv
<1>9. ASSUME NEW c \in Bufs, Queued(c), c # b PROVE Queued(c)'
  <2>1. PICK i \in 1 .. Len(idequeue) : idequeue[i] = c
    BY Zenon, <1>9 DEF Queued
  <2>2. i # 1
    BY Zenon, <1>3, <1>9, <2>1
  <2>3. i - 1 \in 1 .. (Len(idequeue) - 1) /\ (i - 1) + 1 = i
    BY <1>3, <2>2
  <2>4. idequeue'[i - 1] = c /\ i - 1 \in 1 .. Len(idequeue')
    BY Zenon, <1>3, <2>1, <2>3
  <2> QED
    BY Zenon, <2>4 DEF Queued
<1>10. ASSUME NEW q \in Procs PROVE ProcInv(q)'
  <2>0. ProcInv(q) /\ cur[q] \in Bufs
    BY Zenon DEF CacheInv, TypeInv
  <2>1. CASE cur[q] # b
    <3>1. Queued(cur[q]) => Queued(cur[q])'
      BY Zenon, <1>2, <1>9, <2>0, <2>1 DEF Queued
    <3>2. Keeps(q)
      BY Zenon, <1>1, <1>2, <2>0, <2>1, <3>1 DEF Keeps
    <3> QED
      BY Zenon, <2>0, <3>2, ProcKept
  <2>2. CASE cur[q] = b /\ q # h
    <3>1. pc[q] \notin Holding /\ h # None
      BY Zenon, <1>1, <2>0, <2>2, DiskAssumption DEF ProcInv
    <3>2. /\ pc'[q] = pc[q] /\ lock'[cur'[q]] = lock[cur[q]]
          /\ buf'[cur'[q]].blockno = buf[cur[q]].blockno
      BY Zenon, <1>1, <1>2, <2>2
    <3> QED
      BY Zenon, <2>0, <3>1, <3>2 DEF ProcInv, Holding
  <2>3. CASE q = h
    <3>1. lock'[cur'[q]] = q /\ cur'[q] = b
      BY Zenon, <1>1, <1>2, <2>3
    <3>3. buf'[cur'[q]].blockno # NoBlock
      BY Zenon, <1>1, <3>1, BlockNumbers
    <3>2. buf'[cur'[q]].valid /\ ~buf'[cur'[q]].dirty
      BY Zenon, <1>1, <3>1
    <3> QED
      BY Zenon, <1>2, <2>3, <3>1, <3>2, <3>3 DEF ProcInv, Holding
  <2> QED
    BY Zenon, <2>1, <2>2, <2>3
<1>11. ASSUME NEW c \in Bufs PROVE BufInv(c)'
  <2>1. BufInv(c) /\ lock[c] \in Procs \cup {None}
    BY Zenon DEF CacheInv, TypeInv
  <2>2. lock[c] # None => cur'[lock'[c]] = c /\ pc'[lock'[c]] \in Holding
    BY Zenon, <1>1, <1>2, <2>1 DEF BufInv, Holding
  <2>3. (buf'[c].dirty => buf'[c].valid) /\ (buf'[c].valid => buf'[c].blockno # NoBlock)
    BY Zenon, <1>1, <2>1, BlockNumbers DEF BufInv
  <2> QED
    BY Zenon, <1>2, <2>2, <2>3 DEF BufInv
<1>12. QueueInv'
  <2>0. QueueInv
    BY Zenon DEF CacheInv
  <2>1. \A i, j \in 1 .. Len(idequeue') : idequeue'[i] = idequeue'[j] => i = j
    <3> TAKE i, j \in 1 .. Len(idequeue')
    <3>1. /\ idequeue'[i] = idequeue[i + 1] /\ i + 1 \in 1 .. Len(idequeue) /\ i \in Nat
          /\ idequeue'[j] = idequeue[j + 1] /\ j + 1 \in 1 .. Len(idequeue) /\ j \in Nat
      BY <1>3
    <3> HAVE idequeue'[i] = idequeue'[j]
    <3>2. i + 1 = j + 1
      BY Zenon, <1>8, <3>1
    <3> QED
      BY <3>1, <3>2
  <2>2. ASSUME NEW i \in 1 .. Len(idequeue')
        PROVE  /\ idequeue'[i] \in Bufs \ {b}
               /\ lock'[idequeue'[i]] # None /\ pc'[lock'[idequeue'[i]]] = "asleep disk"
    <3>1. /\ idequeue'[i] = idequeue[i + 1] /\ i + 1 \in 1 .. Len(idequeue) /\ 1 \in 1 .. Len(idequeue)
          /\ i + 1 # 1
      BY <1>3
    <3>2. idequeue[i + 1] \in Bufs /\ idequeue[i + 1] # b
      BY <1>3, <1>8, <3>1
    <3>3. /\ lock[idequeue[i + 1]] # None /\ pc[lock[idequeue[i + 1]]] = "asleep disk"
      BY Zenon, <2>0, <3>1 DEF QueueInv
    <3>4. lock[idequeue[i + 1]] \in Procs /\ lock[idequeue[i + 1]] # h
      <4>1. Queued(idequeue[i + 1])
        BY Zenon, <3>1 DEF Queued
      <4> QED
        BY Zenon, <1>1, <3>2, <4>1, QueuedLocked
    <3> QED
      BY Zenon, <1>2, <3>1, <3>2, <3>3, <3>4
  <2>3. cmd' = IF idequeue' = <<>> THEN NoCmd ELSE idestart(Head(idequeue))'
    <3>1. cmd' = IF idequeue' = <<>> THEN NoCmd ELSE idestart(Head(idequeue'))
      BY Zenon DEF Interrupted, StartNext
    <3>2. ASSUME idequeue' # <<>> PROVE idestart(Head(idequeue))' = idestart(Head(idequeue'))
      <4>1. Head(idequeue') = idequeue'[1] /\ 1 \in 1 .. Len(idequeue')
        BY <1>3, <3>2, Removed
      <4>2. Head(idequeue') \in Bufs \ {b}
        BY Zenon, <2>2, <4>1
      <4>3. buf'[Head(idequeue')] = buf[Head(idequeue')]
        BY Zenon, <1>1, <4>2
      <4> QED
        BY Zenon, <4>3 DEF idestart
    <3> QED
      BY Zenon, <3>1, <3>2
  <2> QED
    BY Zenon, <2>1, <2>2, <2>3 DEF QueueInv
<1> QED
  BY Zenon, <1>5, <1>6, <1>7, <1>10, <1>11, <1>12 DEF CacheInv

-----------------------------------------------------------------------------
\* The kinds of steps: bget with a hit, by recycling and without a buffer, and the others.
Hits(p, n, b) ==
  /\ pc[p] = "idle" /\ b \in Cached(n) /\ buf' = Hit(b) /\ cur' = [cur EXCEPT ![p] = b]
  /\ Goto(p, "acquiresleep") /\ UNCHANGED <<mru, lock, drive, panicked>>

Recycles(p, n, b) ==
  /\ pc[p] = "idle" /\ Cached(n) = {} /\ Recyclable(b)
  /\ buf' = [buf EXCEPT ![b] = [@ EXCEPT !.blockno = n, !.valid = FALSE, !.dirty = FALSE, !.refcnt = 1]]
  /\ cur' = [cur EXCEPT ![p] = b] /\ Goto(p, "acquiresleep") /\ UNCHANGED <<mru, lock, drive, panicked>>

NoBuffer(p) ==
  /\ pc[p] = "idle" /\ (\A i \in Bufs : ~Recyclable(mru[i])) /\ Panic("bget: no buffers")

ProcStep(p) ==
  \/ \E n \in Blocks, b \in Bufs : Hits(p, n, b) \/ Recycles(p, n, b)
  \/ NoBuffer(p)
  \/ Changed(p) /\ UNCHANGED panicked
  \/ acquiresleep(p) \/ releasesleep(p) \/ brelse(p) \/ iderw(p) \/ synced(p)

\* Every step is of one of these kinds: in particular bwrite, brelse and iderw do not panic.
LEMMA StepCases ==
  ASSUME TypeInv, CacheInv, Next
  PROVE  \/ UNCHANGED vars
         \/ \E b \in Bufs, h \in Procs, error \in Errors : Interrupted(b, h, error)
         \/ \E p \in Procs : ProcStep(p)
<1>1. CASE ideintr
  BY Zenon, <1>1, IntrView
<1>2. ASSUME NEW p \in Procs, NEW n \in Blocks, bget(p, n)
      PROVE  NoBuffer(p) \/ \E b \in Bufs : Hits(p, n, b) \/ Recycles(p, n, b)
  <2>1. ASSUME NEW b \in Cached(n), buf' = Hit(b), cur' = [cur EXCEPT ![p] = b],
               Goto(p, "acquiresleep"), UNCHANGED <<mru, lock, drive, panicked>>
        PROVE  b \in Bufs /\ Hits(p, n, b)
    BY Zenon, <1>2, <2>1 DEF bget, Hits, Cached
  <2>2. ASSUME NEW i \in Bufs, Cached(n) = {}, Recyclable(mru[i]),
               buf' = [buf EXCEPT ![mru[i]] = [@ EXCEPT !.blockno = n, !.valid = FALSE,
                                                        !.dirty = FALSE, !.refcnt = 1]],
               cur' = [cur EXCEPT ![p] = mru[i]],
               Goto(p, "acquiresleep"), UNCHANGED <<mru, lock, drive, panicked>>
        PROVE  mru[i] \in Bufs /\ Recycles(p, n, mru[i])
    BY Zenon, <1>2, <2>2 DEF bget, Recycles, TypeInv
  <2> QED
    BY Zenon, <1>2, <2>1, <2>2 DEF bget, NoBuffer
<1>3. ASSUME NEW p \in Procs, bwrite(p) \/ log_write(p) PROVE Changed(p) /\ UNCHANGED panicked
  <2>1. bwrite(p) => holdingsleep(p, cur[p])
    BY Zenon DEF bwrite, holdingsleep, CacheInv, ProcInv, Holding
  <2> QED
    BY Zenon, <1>3, <2>1 DEF bwrite, log_write, Change, Changed
<1>4. ASSUME NEW p \in Procs, Calls(p) PROVE ProcStep(p)
  <2>1. ASSUME NEW n \in Blocks, bget(p, n) PROVE ProcStep(p)
    <3>1. NoBuffer(p) \/ \E b \in Bufs : Hits(p, n, b) \/ Recycles(p, n, b)
      BY Zenon, <1>2, <2>1
    <3> QED
      BY Zenon, <3>1 DEF ProcStep
  <2>2. bwrite(p) \/ log_write(p) => ProcStep(p)
    BY Zenon, <1>3 DEF ProcStep
  <2>3. releasesleep(p) => ProcStep(p)
    BY Zenon DEF ProcStep
  <2> QED
    BY Zenon, <1>4, <2>1, <2>2, <2>3 DEF Calls
<1>5. ASSUME NEW p \in Procs, Kernel(p) PROVE ProcStep(p)
  BY Zenon, <1>5 DEF Kernel, ProcStep
<1> QED
  BY Zenon, <1>1, <1>4, <1>5 DEF Next

\* The first buffers.
LEMMA InitCache == Init => TypeInv /\ CacheInv
<1> SUFFICES ASSUME Init PROVE TypeInv /\ CacheInv
  BY Zenon
<1>1. PICK v \in Values :
        buf = [b \in Bufs |-> [blockno |-> NoBlock, valid |-> FALSE, dirty |-> FALSE, refcnt |-> 0, data |-> v]]
  BY Zenon DEF Init
<1>2. /\ mru = [i \in Bufs |-> NBUF + 1 - i] /\ lock = [b \in Bufs |-> None]
      /\ idequeue = <<>> /\ cmd = NoCmd /\ disk = Image
      /\ pc = [p \in Procs |-> "idle"] /\ cur = [p \in Procs |-> 1]
  BY Zenon DEF Init
<1>3. mru \in [Bufs -> Bufs] /\ 1 \in Bufs /\ ListInv
  <2>1. NBUF \in Nat \ {0}
    BY Zenon, DiskAssumption
  <2>2. \A i \in Bufs : NBUF + 1 - i \in Bufs /\ NBUF + 1 - (NBUF + 1 - i) = i
    BY <2>1 DEF Bufs
  <2> QED
    BY <1>2, <2>1, <2>2 DEF ListInv, Bufs
<1>4. buf \in [Bufs -> Buf] /\ \A b \in Bufs : buf[b].blockno = NoBlock /\ ~buf[b].valid /\ ~buf[b].dirty
                                               /\ buf[b].refcnt = 0
  BY Zenon, <1>1 DEF Buf
<1>5. idequeue \in Seq(Bufs) /\ Len(idequeue) = 0
  BY <1>2
<1>6. TypeInv
  BY Zenon, <1>2, <1>3, <1>4, <1>5, DiskAssumption DEF TypeInv, Labels
<1>7. OneEach /\ QueueInv
  BY <1>2, <1>4, <1>5 DEF OneEach, QueueInv
<1>8. RefInv
  <2>1. \A b \in Bufs : Referrers(b) = {}
    BY Zenon, <1>2 DEF Referrers
  <2> QED
    BY Zenon, <1>4, <2>1, FS_EmptySet DEF RefInv
<1>9. ASSUME NEW p \in Procs PROVE ProcInv(p)
  <2>1. pc[p] = "idle" /\ lock[cur[p]] = None /\ p # None
    BY Zenon, <1>2, <1>3, DiskAssumption
  <2> QED
    BY Zenon, <2>1 DEF ProcInv, Holding
<1>10. ASSUME NEW b \in Bufs PROVE BufInv(b)
  BY Zenon, <1>2, <1>4 DEF BufInv
<1> QED
  BY Zenon, <1>3, <1>6, <1>7, <1>8, <1>9, <1>10 DEF CacheInv

\* Every step keeps the cache right.
LEMMA CacheStep ==
  ASSUME TypeInv, CacheInv, [Next]_vars
  PROVE  TypeInv' /\ CacheInv'
<1>1. ASSUME UNCHANGED <<cache, drive, pc, cur>> PROVE TypeInv' /\ CacheInv'
  <2>1. UNCHANGED <<mru, buf, lock, idequeue, disk, cmd, pc, cur>>
    BY Zenon, <1>1 DEF cache, drive
  <2>2. TypeInv'
    BY Zenon, <2>1 DEF TypeInv
  <2>3. ListInv' /\ OneEach' /\ RefInv'
    BY Zenon, <2>1 DEF CacheInv, ListInv, OneEach, RefInv, Referrers
  <2>4. QueueInv'
    BY Zenon, <2>1 DEF CacheInv, QueueInv, idestart
  <2>5. ASSUME NEW p \in Procs PROVE ProcInv(p)'
    BY Zenon, <2>1 DEF CacheInv, ProcInv, Queued
  <2>6. ASSUME NEW b \in Bufs PROVE BufInv(b)'
    BY Zenon, <2>1 DEF CacheInv, BufInv
  <2> QED
    BY Zenon, <2>2, <2>3, <2>4, <2>5, <2>6 DEF CacheInv
<1>2. CASE UNCHANGED vars
  BY Zenon, <1>1, <1>2 DEF vars
<1>3. ASSUME NEW p \in Procs, NoBuffer(p) PROVE TypeInv' /\ CacheInv'
  BY Zenon, <1>1, <1>3 DEF NoBuffer, Panic
<1>4. ASSUME NEW p \in Procs, NEW n \in Blocks, NEW b \in Bufs, Hits(p, n, b) \/ Recycles(p, n, b)
      PROVE  TypeInv' /\ CacheInv'
  <2>1. CASE Hits(p, n, b)
    BY Zenon, <2>1, HitStep DEF Hits
  <2>2. CASE Recycles(p, n, b)
    BY Zenon, <2>2, RecycleStep DEF Recycles
  <2> QED
    BY Zenon, <1>4, <2>1, <2>2
<1>5. ASSUME NEW p \in Procs, ProcStep(p) PROVE TypeInv' /\ CacheInv'
  BY Zenon, <1>3, <1>4, <1>5, AcquireStep, ChangeStep, ReleaseStep, BrelseStep, IderwStep, SyncedStep DEF ProcStep
<1> QED
  BY Zenon, <1>2, <1>5, StepCases, IntrStep

-----------------------------------------------------------------------------
\* The only panic is that of bget, when no buffer can be recycled.
PanicInv ==
  /\ panicked \in {"no", "bget: no buffers"}
  /\ panicked # "no" => \A b \in Bufs : ~Recyclable(b)

\* No other step panics.
LEMMA PanicStep ==
  ASSUME TypeInv, CacheInv, PanicInv, [Next]_vars
  PROVE  PanicInv'
<1>1. CASE UNCHANGED vars
  BY Zenon, <1>1 DEF vars, cache, PanicInv, Recyclable
<1>2. ASSUME NEW b \in Bufs, NEW h \in Procs, NEW error \in Errors, Interrupted(b, h, error)
      PROVE  panicked' = panicked
  BY Zenon, <1>2 DEF Interrupted
<1>3. ASSUME NEW p \in Procs, NEW n \in Blocks, NEW b \in Bufs, Hits(p, n, b) \/ Recycles(p, n, b)
      PROVE  panicked' = panicked
  BY Zenon, <1>3 DEF Hits, Recycles
<1>4. ASSUME NEW p \in Procs, acquiresleep(p) \/ releasesleep(p) \/ brelse(p) \/ iderw(p) \/ synced(p)
      PROVE  panicked' = panicked
  <2>1. CASE acquiresleep(p)
    BY Zenon, <2>1 DEF acquiresleep
  <2>2. CASE releasesleep(p)
    BY Zenon, <2>2, ReleaseStep
  <2>3. CASE brelse(p)
    BY Zenon, <2>3 DEF brelse
  <2>4. CASE iderw(p)
    BY Zenon, <2>4, IderwStep
  <2>5. CASE synced(p)
    BY Zenon, <2>5 DEF synced
  <2> QED
    BY Zenon, <1>4, <2>1, <2>2, <2>3, <2>4, <2>5
<1>5. ASSUME NEW p \in Procs, NoBuffer(p) PROVE PanicInv'
  <2>1. panicked' = "bget: no buffers" /\ buf' = buf
    BY Zenon, <1>5 DEF NoBuffer, Panic, cache
  <2>2. \A b \in Bufs : ~Recyclable(b)
    BY Zenon, <1>5 DEF NoBuffer, CacheInv, ListInv
  <2> QED
    BY Zenon, <2>1, <2>2 DEF PanicInv, Recyclable
<1>6. CASE Going /\ Next
  <2>1. UNCHANGED vars \/ panicked' = panicked \/ \E p \in Procs : NoBuffer(p)
    BY Zenon, <1>2, <1>3, <1>4, <1>6, StepCases DEF ProcStep
  <2>2. panicked' = panicked => PanicInv'
    BY Zenon, <1>6 DEF Going, PanicInv
  <2> QED
    BY Zenon, <1>1, <1>5, <2>1, <2>2
<1> QED
  BY Zenon, <1>1, <1>6 DEF Next

\* The inductive invariant: types, the cache and its queue, and that only bget panics.
THEOREM Invariance == Spec => [](TypeInv /\ CacheInv /\ PanicInv)
<1>1. Init => TypeInv /\ CacheInv /\ PanicInv
  BY Zenon, InitCache DEF Init, PanicInv
<1>2. TypeInv /\ CacheInv /\ PanicInv /\ [Next]_vars => (TypeInv /\ CacheInv /\ PanicInv)'
  BY Zenon, CacheStep, PanicStep
<1> QED
  BY <1>1, <1>2, PTL DEF Spec

-----------------------------------------------------------------------------
\* No more requests than processes: each is of another one.
LEMMA QueueShort ==
  ASSUME TypeInv, CacheInv
  PROVE  Len(idequeue) <= Cardinality(Procs)
<1> DEFINE f == [i \in 1 .. Len(idequeue) |-> lock[idequeue[i]]]
<1>0. Len(idequeue) \in Nat
  BY DEF TypeInv
<1>1. \A i \in 1 .. Len(idequeue) : idequeue[i] \in Bufs /\ Queued(idequeue[i])
  BY DEF TypeInv, Queued
<1>2. \A i \in 1 .. Len(idequeue) : lock[idequeue[i]] \in Procs /\ cur[lock[idequeue[i]]] = idequeue[i]
  BY Zenon, <1>1, QueuedLocked
<1>3. f \in Injection(1 .. Len(idequeue), Procs)
  <2>1. f \in [1 .. Len(idequeue) -> Procs]
    BY Zenon, <1>2
  <2>2. ASSUME NEW i \in 1 .. Len(idequeue), NEW j \in 1 .. Len(idequeue), f[i] = f[j] PROVE i = j
    <3>1. idequeue[i] = idequeue[j]
      BY Zenon, <1>2, <2>2
    <3> QED
      BY Zenon, <3>1 DEF CacheInv, QueueInv
  <2> HIDE DEF f
  <2> QED
    BY Zenon, <2>1, <2>2 DEF Injection, IsInjective
<1>4. IsFiniteSet(Procs)
  BY Zenon, DiskAssumption
<1>5. Cardinality(1 .. Len(idequeue)) <= Cardinality(Procs)
  BY Zenon, <1>3, <1>4, FS_Injection
<1>6. Cardinality(1 .. Len(idequeue)) = IF 1 > Len(idequeue) THEN 0 ELSE Len(idequeue) - 1 + 1
  BY SMTT(30), <1>0, FS_Interval
<1>7. Cardinality(Procs) \in Nat
  BY Zenon, <1>4, FS_CardinalityType
<1> QED
  BY <1>0, <1>5, <1>6, <1>7

\* The inductive invariant gives what NoLostWakeup says.
LEMMA InvTells ==
  ASSUME TypeInv, CacheInv, PanicInv
  PROVE  NoLostWakeup
<1>1. TypeOK
  <2>1. ASSUME NEW b \in Bufs
        PROVE  buf[b] \in [blockno : Blocks \cup {NoBlock}, valid : BOOLEAN, dirty : BOOLEAN,
                           refcnt : 0 .. Cardinality(Procs), data : Values]
    <3>1. buf[b].refcnt \in 0 .. Cardinality(Procs)
      BY Zenon, ReferrersFinite DEF CacheInv, RefInv
    <3>2. buf[b] \in Buf
      BY Zenon DEF TypeInv
    <3> QED
      BY Zenon, <3>1, <3>2 DEF Buf
  <2> QED
    BY Zenon, <2>1, QueueShort DEF TypeInv, TypeOK
<1>2. ASSUME NEW n \in Blocks PROVE Cardinality(Cached(n)) <= 1
  <2>1. CASE Cached(n) = {}
    BY <2>1, FS_EmptySet
  <2>2. ASSUME NEW b \in Cached(n) PROVE Cardinality(Cached(n)) <= 1
    <3>1. Cached(n) = {b}
      BY Zenon, BlockNumbers DEF Cached, CacheInv, OneEach
    <3> QED
      BY <3>1, FS_Singleton
  <2> QED
    BY Zenon, <2>1, <2>2
<1>3. Counted
  BY Zenon, <1>1, <1>2 DEF Counted, CacheInv, RefInv, ListInv
<1>4. IF idequeue = <<>> THEN cmd = NoCmd ELSE cmd # NoCmd /\ cmd = idestart(Head(idequeue))
  <2>1. cmd = IF idequeue = <<>> THEN NoCmd ELSE idestart(Head(idequeue))
    BY Zenon DEF CacheInv, QueueInv
  <2>2. \A b : idestart(b).op # "none"
    BY Zenon DEF idestart
  <2>3. NoCmd.op = "none"
    BY Zenon DEF NoCmd, None
  <2> QED
    BY Zenon, <2>1, <2>2, <2>3
<1>5. ASSUME panicked # "no", NEW b \in Bufs PROVE buf[b].dirty \/ Referrers(b) # {}
  <2>1. buf[b].dirty \/ buf[b].refcnt # 0
    BY Zenon, <1>5 DEF PanicInv, Recyclable
  <2>2. buf[b].refcnt = Cardinality(Referrers(b))
    BY Zenon DEF CacheInv, RefInv
  <2> QED
    BY Zenon, <2>1, <2>2, FS_EmptySet
<1> QED
  BY Zenon, <1>3, <1>4, <1>5 DEF NoLostWakeup, PanicInv, CacheInv, ProcInv

\* refcnt counts, no two buffers hold the same block, no sleeper is forgotten, the disk works on
\* the first request, and bget panics only with every buffer in use or dirty, whatever the sizes.
THEOREM WakeupsKept == Spec => []NoLostWakeup
<1>1. TypeInv /\ CacheInv /\ PanicInv => NoLostWakeup
  BY Zenon, InvTells
<1> QED
  BY <1>1, Invariance, PTL

-----------------------------------------------------------------------------
\* A valid buffer that is not dirty has what is on the disk.
CleanInv == \A b \in Bufs : buf[b].valid /\ ~buf[b].dirty => buf[b].data = disk[buf[b].blockno]

\* The part of a buffer that tells what its block holds, without the count.
SameBuf(b) ==
  /\ buf'[b].blockno = buf[b].blockno /\ buf'[b].valid = buf[b].valid
  /\ buf'[b].dirty = buf[b].dirty /\ buf'[b].data = buf[b].data

\* The steps that change neither that part nor the disk, and the references of processes only
\* outside of bread .. brelse.
LEMMA QuietSteps ==
  ASSUME TypeInv, CacheInv, NEW p \in Procs,
         \/ \E n \in Blocks, b \in Bufs : Hits(p, n, b)
         \/ NoBuffer(p) \/ acquiresleep(p) \/ releasesleep(p) \/ brelse(p) \/ iderw(p) \/ synced(p)
  PROVE  disk' = disk /\ \A c \in Bufs : SameBuf(c)
<1>0. buf \in [Bufs -> Buf] /\ cur[p] \in Bufs /\ \A c \in Bufs : buf[c] \in Buf
  BY Zenon DEF TypeInv
<1>1. ASSUME NEW n \in Blocks, NEW b \in Bufs, Hits(p, n, b)
      PROVE  disk' = disk /\ \A c \in Bufs : SameBuf(c)
  BY Zenon, <1>0, <1>1 DEF Hits, Hit, SameBuf, drive, Buf
<1>2. CASE brelse(p)
  BY Zenon, <1>0, <1>2 DEF brelse, SameBuf, drive, Buf
<1>3. ASSUME buf' = buf, disk' = disk
      PROVE  disk' = disk /\ \A c \in Bufs : SameBuf(c)
  BY Zenon, <1>3 DEF SameBuf
<1>4. CASE NoBuffer(p) \/ acquiresleep(p)
  BY Zenon, <1>3, <1>4 DEF NoBuffer, Panic, acquiresleep, drive, cache
<1>5. CASE releasesleep(p) \/ iderw(p) \/ synced(p)
  BY Zenon, <1>3, <1>5, ReleaseStep, IderwStep, SyncedStep DEF drive, cache
<1> QED
  BY Zenon, <1>1, <1>2, <1>4, <1>5

\* What recycling does to the buffers.
LEMMA RecycledBuf ==
  ASSUME TypeInv, CacheInv, NEW p \in Procs, NEW n \in Blocks, NEW b \in Bufs, Recycles(p, n, b)
  PROVE  /\ disk' = disk /\ buf'[b].blockno = n /\ ~buf'[b].valid /\ ~buf'[b].dirty
         /\ ~buf[b].dirty /\ buf[b].refcnt = 0
         /\ \A c \in Bufs \ {b} : buf'[c] = buf[c] /\ buf[c].blockno # n
         /\ buf[b].blockno # n
<1>1. buf \in [Bufs -> Buf] /\ buf[b] \in Buf
  BY Zenon DEF TypeInv
<1> DEFINE r == [buf[b] EXCEPT !.blockno = n, !.valid = FALSE, !.dirty = FALSE, !.refcnt = 1]
<1>2. r.blockno = n /\ ~r.valid /\ ~r.dirty
  BY Zenon, <1>1 DEF Buf
<1>3. buf' = [buf EXCEPT ![b] = r]
  BY Zenon DEF Recycles
<1> HIDE DEF r
<1> QED
  BY Zenon, <1>1, <1>2, <1>3 DEF Recycles, Recyclable, Cached, drive

\* Without read errors every step keeps the clean buffers equal to the disk.
LEMMA CleanStep ==
  ASSUME TRUE \notin Errors, TypeInv, CacheInv, CleanInv, [Next]_vars
  PROVE  CleanInv'
<1>1. ASSUME disk' = disk, \A c \in Bufs : SameBuf(c) PROVE CleanInv'
  BY Zenon, <1>1 DEF CleanInv, SameBuf
<1>2. CASE UNCHANGED vars
  BY Zenon, <1>1, <1>2 DEF vars, cache, drive, SameBuf
<1>3. ASSUME NEW b \in Bufs, NEW h \in Procs, NEW error \in Errors, Interrupted(b, h, error)
      PROVE  CleanInv'
  <2>1. /\ buf[b].blockno \in Blocks /\ buf'[b].blockno = buf[b].blockno
        /\ \A c \in Bufs \ {b} : buf'[c] = buf[c]
        /\ buf'[b].data = IF buf[b].dirty \/ error THEN buf[b].data ELSE disk[buf[b].blockno]
        /\ disk' = IF buf[b].dirty THEN [disk EXCEPT ![buf[b].blockno] = buf[b].data] ELSE disk
    BY Zenon, <1>3 DEF Interrupted
  <2>2. ~error /\ disk \in [Blocks -> Values]
    BY Zenon, DiskAssumption DEF TypeInv
  <2>3. buf'[b].data = disk'[buf'[b].blockno]
    BY Zenon, <2>1, <2>2
  <2>4. ASSUME NEW c \in Bufs, c # b, buf[c].valid PROVE disk'[buf[c].blockno] = disk[buf[c].blockno]
    <3>1. buf[c].blockno # NoBlock /\ buf[c] \in Buf
      BY Zenon, <2>4 DEF CacheInv, BufInv, TypeInv
    <3>2. buf[c].blockno \in Blocks /\ buf[c].blockno # buf[b].blockno
      BY Zenon, <2>4, <3>1, Fields DEF CacheInv, OneEach
    <3> QED
      BY Zenon, <2>1, <2>2, <3>2
  <2> QED
    BY <2>1, <2>3, <2>4 DEF CleanInv
<1>4. ASSUME NEW p \in Procs, NEW n \in Blocks, NEW b \in Bufs, Recycles(p, n, b) PROVE CleanInv'
  BY <1>4, RecycledBuf DEF CleanInv
<1>5. ASSUME NEW p \in Procs, Changed(p) PROVE CleanInv'
  <2>1. disk' = disk
    BY Zenon, <1>5 DEF Changed, drive
  <2> QED
    BY Zenon, <1>5, <2>1, ChangedBuf DEF CleanInv
<1>6. ASSUME NEW p \in Procs, ProcStep(p) PROVE CleanInv'
  BY Zenon, <1>1, <1>4, <1>5, <1>6, QuietSteps DEF ProcStep
<1> QED
  BY Zenon, <1>2, <1>3, <1>6, StepCases

\* The invariant behind Durable and IsBlockStore.
LEMMA CleanAlways ==
  ASSUME TRUE \notin Errors
  PROVE  Spec => [](TypeInv /\ CacheInv /\ CleanInv)
<1>1. Init => TypeInv /\ CacheInv /\ CleanInv
  <2>1. Init => \A b \in Bufs : ~buf[b].valid
    BY DEF Init
  <2> QED
    BY Zenon, <2>1, InitCache DEF CleanInv
<1>2. TypeInv /\ CacheInv /\ CleanInv /\ [Next]_vars => (TypeInv /\ CacheInv /\ CleanInv)'
  BY Zenon, CacheStep, CleanStep
<1> QED
  BY <1>1, <1>2, PTL DEF Spec

\* When bwrite returns the block is on the disk: a process that was woken has a clean buffer.
THEOREM WrittenIsOnDisk ==
  ASSUME TRUE \notin Errors
  PROVE  Spec => Durable
<1>1. TypeInv /\ CacheInv /\ CleanInv /\ [Next]_vars =>
        [\A p \in Procs : pc[p] = "synced?" /\ pc'[p] = "use"
           => disk[buf[cur[p]].blockno] = buf[cur[p]].data]_vars
  <2> SUFFICES ASSUME TypeInv, CacheInv, CleanInv, NEW p \in Procs, pc[p] = "synced?"
               PROVE  disk[buf[cur[p]].blockno] = buf[cur[p]].data
    BY Zenon
  <2>1. cur[p] \in Bufs /\ buf[cur[p]].valid /\ ~buf[cur[p]].dirty
    BY Zenon DEF TypeInv, CacheInv, ProcInv
  <2> QED
    BY Zenon, <2>1 DEF CleanInv
<1> QED
  BY <1>1, CleanAlways, PTL DEF Spec, Durable

-----------------------------------------------------------------------------
\* Block n is in at most one buffer, and so Latest is its data if that is valid.
LatestInv ==
  \A n \in Blocks :
     /\ \A b \in Bufs : buf[b].blockno = n /\ buf[b].valid => Latest(n) = buf[b].data
     /\ (\A b \in Bufs : buf[b].blockno = n => ~buf[b].valid) => Latest(n) = disk[n]

\* At most one process has block n.
OwnerInv ==
  \A n \in Blocks :
     /\ \A p \in Procs : Has(p, n) => Owner(n) = p
     /\ (\A p \in Procs : ~Has(p, n)) => Owner(n) = None

\* Latest does not depend on a choice.
LEMMA LatestIs == TypeInv /\ CacheInv => LatestInv
<1> SUFFICES ASSUME TypeInv, CacheInv, NEW n \in Blocks
             PROVE  /\ \A b \in Bufs : buf[b].blockno = n /\ buf[b].valid => Latest(n) = buf[b].data
                    /\ (\A b \in Bufs : buf[b].blockno = n => ~buf[b].valid) => Latest(n) = disk[n]
  BY Zenon DEF LatestInv
<1>1. ASSUME NEW b \in Bufs, buf[b].blockno = n, buf[b].valid PROVE Latest(n) = buf[b].data
  <2>1. Cached(n) = {b}
    BY Zenon, <1>1, BlockNumbers DEF Cached, CacheInv, OneEach
  <2>2. (CHOOSE c \in Cached(n) : TRUE) = b
    BY Zenon, <2>1
  <2> QED
    BY Zenon, <1>1, <2>1, <2>2 DEF Latest
<1>2. ASSUME \A b \in Bufs : buf[b].blockno = n => ~buf[b].valid PROVE Latest(n) = disk[n]
  BY Zenon, <1>2 DEF Latest, Cached
<1> QED
  BY Zenon, <1>1, <1>2

\* Who has a block has its buffer locked, and nobody else has it.
LEMMA HasLocked ==
  ASSUME TypeInv, CacheInv, NEW p \in Procs, NEW n \in Blocks, Has(p, n)
  PROVE  cur[p] \in Bufs /\ lock[cur[p]] = p /\ \A b \in Bufs : buf[b].blockno = n => b = cur[p]
<1>1. pc[p] \in Holding /\ cur[p] \in Bufs /\ buf[cur[p]].blockno = n
  BY Zenon DEF Has, TypeInv, Holding
<1>2. lock[cur[p]] = p
  BY Zenon, <1>1 DEF CacheInv, ProcInv
<1> QED
  BY Zenon, <1>1, <1>2, BlockNumbers DEF CacheInv, OneEach

\* Nor does Owner.
LEMMA OwnerIs == TypeInv /\ CacheInv => OwnerInv
<1> SUFFICES ASSUME TypeInv, CacheInv, NEW n \in Blocks
             PROVE  /\ \A p \in Procs : Has(p, n) => Owner(n) = p
                    /\ (\A p \in Procs : ~Has(p, n)) => Owner(n) = None
  BY Zenon DEF OwnerInv
<1>1. ASSUME NEW p \in Procs, Has(p, n) PROVE Owner(n) = p
  <2>1. \A q \in Procs : Has(q, n) => q = p
    <3> SUFFICES ASSUME NEW q \in Procs, Has(q, n) PROVE q = p
      BY Zenon
    <3>1. cur[p] \in Bufs /\ lock[cur[p]] = p /\ lock[cur[q]] = q
      BY Zenon, <1>1, HasLocked
    <3>2. cur[q] \in Bufs /\ buf[cur[q]].blockno = n
      BY Zenon DEF Has, TypeInv
    <3>3. cur[q] = cur[p]
      BY Zenon, <1>1, <3>2, HasLocked
    <3> QED
      BY Zenon, <3>1, <3>3
  <2>2. (CHOOSE q \in Procs : Has(q, n)) = p
    BY Zenon, <1>1, <2>1
  <2> QED
    BY Zenon, <1>1, <2>2 DEF Owner
<1>2. ASSUME \A p \in Procs : ~Has(p, n) PROVE Owner(n) = None
  BY Zenon, <1>2 DEF Owner
<1> QED
  BY Zenon, <1>1, <1>2

-----------------------------------------------------------------------------
\* Every block holds what it held.
SameContent == \A n \in Blocks : Latest(n)' = Latest(n)

\* Steps that leave blocks, data and disk alone leave the contents alone.
LEMMA QuietContent ==
  ASSUME LatestInv, LatestInv', disk' = disk, \A c \in Bufs : SameBuf(c)
  PROVE  SameContent
<1> SUFFICES ASSUME NEW n \in Blocks PROVE Latest(n)' = Latest(n)
  BY Zenon DEF SameContent
<1>1. CASE \E b \in Bufs : buf[b].blockno = n /\ buf[b].valid
  <2>1. PICK b \in Bufs : buf[b].blockno = n /\ buf[b].valid
    BY Zenon, <1>1
  <2>2. Latest(n) = buf[b].data
    BY Zenon, <2>1 DEF LatestInv
  <2>3. buf'[b].blockno = n /\ buf'[b].valid /\ buf'[b].data = buf[b].data
    BY Zenon, <2>1 DEF SameBuf
  <2>4. Latest(n)' = buf'[b].data
    BY Zenon, <2>3 DEF LatestInv
  <2> QED
    BY Zenon, <2>2, <2>3, <2>4
<1>2. CASE \A b \in Bufs : buf[b].blockno = n => ~buf[b].valid
  <2>1. Latest(n) = disk[n]
    BY Zenon, <1>2 DEF LatestInv
  <2>2. \A b \in Bufs : buf'[b].blockno = n => ~buf'[b].valid
    BY Zenon, <1>2 DEF SameBuf
  <2>3. Latest(n)' = disk'[n]
    BY Zenon, <2>2 DEF LatestInv
  <2> QED
    BY Zenon, <2>1, <2>3
<1> QED
  BY Zenon, <1>1, <1>2

\* Recycling loses nothing: the buffer was clean.
LEMMA RecycleContent ==
  ASSUME TypeInv, CacheInv, CleanInv, LatestInv, LatestInv',
         NEW p \in Procs, NEW n \in Blocks, NEW b \in Bufs, Recycles(p, n, b)
  PROVE  SameContent
<1> SUFFICES ASSUME NEW m \in Blocks PROVE Latest(m)' = Latest(m)
  BY Zenon DEF SameContent
<1>1. /\ disk' = disk /\ buf'[b].blockno = n /\ ~buf'[b].valid /\ ~buf[b].dirty /\ buf[b].blockno # n
      /\ \A c \in Bufs \ {b} : buf'[c] = buf[c] /\ buf[c].blockno # n
  BY RecycledBuf
<1>2. CASE \E c \in Bufs \ {b} : buf[c].blockno = m /\ buf[c].valid
  BY <1>1, <1>2 DEF LatestInv
<1>3. CASE \A c \in Bufs \ {b} : buf[c].blockno = m => ~buf[c].valid
  <2>1. \A c \in Bufs : buf'[c].blockno = m => ~buf'[c].valid
    BY Zenon, <1>1, <1>3
  <2>2. Latest(m)' = disk[m]
    BY Zenon, <1>1, <2>1 DEF LatestInv
  <2>3. CASE buf[b].blockno = m /\ buf[b].valid
    BY Zenon, <1>1, <2>2, <2>3 DEF LatestInv, CleanInv
  <2>4. CASE ~(buf[b].blockno = m /\ buf[b].valid)
    BY Zenon, <1>3, <2>2, <2>4 DEF LatestInv
  <2> QED
    BY Zenon, <2>3, <2>4
<1> QED
  BY Zenon, <1>2, <1>3

\* The interrupt moves a content between the disk and a buffer.
LEMMA IntrContent ==
  ASSUME TRUE \notin Errors, TypeInv, CacheInv, LatestInv, LatestInv',
         NEW b \in Bufs, NEW h \in Procs, NEW error \in Errors, Interrupted(b, h, error)
  PROVE  SameContent
<1> SUFFICES ASSUME NEW n \in Blocks PROVE Latest(n)' = Latest(n)
  BY Zenon DEF SameContent
<1>1. /\ buf[b].blockno \in Blocks /\ buf'[b].blockno = buf[b].blockno /\ buf'[b].valid
      /\ \A c \in Bufs \ {b} : buf'[c] = buf[c]
      /\ buf'[b].data = IF buf[b].dirty THEN buf[b].data ELSE disk[buf[b].blockno]
      /\ disk' = IF buf[b].dirty THEN [disk EXCEPT ![buf[b].blockno] = buf[b].data] ELSE disk
  BY Zenon, DiskAssumption DEF Interrupted
<1>2. buf[b].dirty => buf[b].valid
  BY Zenon DEF CacheInv, BufInv
<1>3. buf[b].dirty \/ ~buf[b].valid
  BY Zenon DEF Interrupted, CacheInv, ProcInv
<1>4. \A c \in Bufs \ {b} : buf[c].blockno # buf[b].blockno
  BY Zenon, <1>1, BlockNumbers DEF CacheInv, OneEach
<1>5. CASE n = buf[b].blockno
  <2>1. Latest(n)' = buf'[b].data
    BY Zenon, <1>1, <1>5 DEF LatestInv
  <2>2. CASE buf[b].dirty
    BY Zenon, <1>1, <1>2, <1>5, <2>1, <2>2 DEF LatestInv
  <2>3. CASE ~buf[b].dirty
    <3>1. \A c \in Bufs : buf[c].blockno = n => ~buf[c].valid
      BY Zenon, <1>3, <1>4, <1>5, <2>3
    <3> QED
      BY Zenon, <1>1, <1>5, <2>1, <2>3, <3>1 DEF LatestInv
  <2> QED
    BY Zenon, <2>2, <2>3
<1>6. CASE n # buf[b].blockno
  <2>1. disk'[n] = disk[n]
    BY Zenon, <1>1, <1>6 DEF TypeInv
  <2>2. CASE \E c \in Bufs \ {b} : buf[c].blockno = n /\ buf[c].valid
    BY <1>1, <2>2 DEF LatestInv
  <2>3. CASE \A c \in Bufs \ {b} : buf[c].blockno = n => ~buf[c].valid
    <3>1. /\ \A c \in Bufs : buf[c].blockno = n => ~buf[c].valid
          /\ \A c \in Bufs : buf'[c].blockno = n => ~buf'[c].valid
      BY Zenon, <1>1, <1>6, <2>3
    <3> QED
      BY Zenon, <2>1, <3>1 DEF LatestInv
  <2> QED
    BY Zenon, <2>2, <2>3
<1> QED
  BY Zenon, <1>5, <1>6

\* A change gives the block its new content, and touches no other block.
LEMMA ChangeContent ==
  ASSUME TypeInv, CacheInv, LatestInv, LatestInv', NEW p \in Procs, Changed(p)
  PROVE  \E v \in Values : \A n \in Blocks : Latest(n)' = IF n = buf[cur[p]].blockno THEN v ELSE Latest(n)
<1>1. /\ cur[p] \in Bufs /\ buf[cur[p]].valid /\ buf'[cur[p]] \in Buf
      /\ buf'[cur[p]].blockno = buf[cur[p]].blockno /\ buf'[cur[p]].valid
      /\ buf[cur[p]].blockno \in Blocks
      /\ \A c \in Bufs \ {cur[p]} : buf'[c] = buf[c]
  BY Zenon, ChangedBuf
<1>2. disk' = disk
  BY Zenon DEF Changed, drive
<1>3. buf'[cur[p]].data \in Values
  BY Zenon, <1>1, Fields
<1> SUFFICES ASSUME NEW n \in Blocks
             PROVE  Latest(n)' = IF n = buf[cur[p]].blockno THEN buf'[cur[p]].data ELSE Latest(n)
  BY Zenon, <1>3
<1>4. CASE n = buf[cur[p]].blockno
  BY Zenon, <1>1, <1>4 DEF LatestInv
<1>5. CASE n # buf[cur[p]].blockno
  <2>1. CASE \E c \in Bufs \ {cur[p]} : buf[c].blockno = n /\ buf[c].valid
    BY <1>1, <1>5, <2>1 DEF LatestInv
  <2>2. CASE \A c \in Bufs \ {cur[p]} : buf[c].blockno = n => ~buf[c].valid
    <3>1. /\ \A c \in Bufs : buf[c].blockno = n => ~buf[c].valid
          /\ \A c \in Bufs : buf'[c].blockno = n => ~buf'[c].valid
      BY Zenon, <1>1, <1>5, <2>2
    <3> QED
      BY Zenon, <1>2, <1>5, <3>1 DEF LatestInv
  <2> QED
    BY Zenon, <2>1, <2>2
<1> QED
  BY Zenon, <1>4, <1>5

-----------------------------------------------------------------------------
\* How the owners follow from who has which block.
SameOwner == \A n \in Blocks : Owner(n)' = Owner(n)

\* Owners stay when everybody keeps what they have.
LEMMA OwnerKept ==
  ASSUME OwnerInv, OwnerInv', \A q \in Procs, n \in Blocks : Has(q, n)' <=> Has(q, n)
  PROVE  SameOwner
<1> SUFFICES ASSUME NEW n \in Blocks PROVE Owner(n)' = Owner(n)
  BY Zenon DEF SameOwner
<1>1. CASE \E q \in Procs : Has(q, n)
  BY Zenon, <1>1 DEF OwnerInv
<1>2. CASE \A q \in Procs : ~Has(q, n)
  BY Zenon, <1>2 DEF OwnerInv
<1> QED
  BY Zenon, <1>1, <1>2

\* p gets block m, which nobody had.
LEMMA OwnerTaken ==
  ASSUME OwnerInv, OwnerInv', NEW p \in Procs, NEW m \in Blocks,
         \A q \in Procs, n \in Blocks : Has(q, n)' <=> Has(q, n) \/ (q = p /\ n = m),
         \A q \in Procs : ~Has(q, m)
  PROVE  Owner(m) = None /\ \A n \in Blocks : Owner(n)' = IF n = m THEN p ELSE Owner(n)
<1>1. Owner(m) = None /\ Owner(m)' = p
  BY Zenon DEF OwnerInv
<1>2. ASSUME NEW n \in Blocks, n # m PROVE Owner(n)' = Owner(n)
  <2>1. CASE \E q \in Procs : Has(q, n)
    BY Zenon, <1>2, <2>1 DEF OwnerInv
  <2>2. CASE \A q \in Procs : ~Has(q, n)
    BY Zenon, <1>2, <2>2 DEF OwnerInv
  <2> QED
    BY Zenon, <2>1, <2>2
<1> QED
  BY Zenon, <1>1, <1>2

\* p gives block m back.
LEMMA OwnerGiven ==
  ASSUME OwnerInv, OwnerInv', NEW p \in Procs, NEW m \in Blocks, Has(p, m), None \notin Procs,
         \A q \in Procs, n \in Blocks : Has(q, n)' <=> Has(q, n) /\ q # p,
         \A n \in Blocks : Has(p, n) => n = m
  PROVE  Owner(m) = p /\ \A n \in Blocks : Owner(n)' = IF n = m THEN None ELSE Owner(n)
<1>1. Owner(m) = p
  BY Zenon DEF OwnerInv
<1>2. Owner(m)' = None
  <2>1. \A q \in Procs : ~Has(q, m)'
    BY Zenon, <1>1 DEF OwnerInv
  <2> QED
    BY Zenon, <2>1 DEF OwnerInv
<1>3. ASSUME NEW n \in Blocks, n # m PROVE Owner(n)' = Owner(n)
  <2>1. CASE \E q \in Procs : Has(q, n)
    BY Zenon, <1>3, <2>1 DEF OwnerInv
  <2>2. CASE \A q \in Procs : ~Has(q, n)
    BY Zenon, <1>3, <2>2 DEF OwnerInv
  <2> QED
    BY Zenon, <2>1, <2>2
<1> QED
  BY Zenon, <1>1, <1>2, <1>3

-----------------------------------------------------------------------------
\* acquiresleep of a valid buffer takes its block; other steps of acquiresleep show nothing.
LEMMA AcquireStores ==
  ASSUME TypeInv, CacheInv, OwnerInv, OwnerInv', NEW p \in Procs, acquiresleep(p)
  PROVE  \/ SameOwner
         \/ \E m \in Blocks : Owner(m) = None /\ \A n \in Blocks : Owner(n)' = IF n = m THEN p ELSE Owner(n)
<1>1. /\ pc[p] = "acquiresleep" /\ UNCHANGED <<buf, cur>> /\ cur[p] \in Bufs
      /\ \A q \in Procs \ {p} : pc'[q] = pc[q]
  BY Zenon DEF acquiresleep, Goto, TypeInv
<1>2. \A q \in Procs \ {p}, n \in Blocks : Has(q, n)' <=> Has(q, n)
  BY Zenon, <1>1 DEF Has
<1>3. \A n \in Blocks : ~Has(p, n)
  BY Zenon, <1>1 DEF Has
<1>4. CASE lock[cur[p]] = None /\ buf[cur[p]].valid
  <2>1. pc'[p] = "use"
    BY Zenon, <1>4 DEF acquiresleep, Goto, TypeInv
  <2>2. PICK m \in Blocks : m = buf[cur[p]].blockno
    BY Zenon, <1>1, <1>4, Fields DEF CacheInv, BufInv, TypeInv
  <2>3. \A n \in Blocks : Has(p, n)' <=> n = m
    BY Zenon, <1>1, <1>4, <2>1, <2>2 DEF Has
  <2>4. \A q \in Procs, n \in Blocks : Has(q, n)' <=> Has(q, n) \/ (q = p /\ n = m)
    BY Zenon, <1>2, <1>3, <2>3
  <2>5. \A q \in Procs : ~Has(q, m)
    <3> SUFFICES ASSUME NEW q \in Procs, Has(q, m) PROVE FALSE
      BY Zenon
    <3>1. lock[cur[q]] = q /\ cur[p] = cur[q]
      BY Zenon, <1>1, <2>2, HasLocked
    <3> QED
      BY Zenon, <1>4, <3>1, DiskAssumption
  <2> QED
    BY Zenon, <2>4, <2>5, OwnerTaken
<1>5. CASE ~(lock[cur[p]] = None /\ buf[cur[p]].valid)
  <2>1. \A n \in Blocks : ~Has(p, n)'
    <3>1. pc'[p] = "iderw" => ~buf[cur[p]].valid
      BY Zenon, <1>1, <1>5 DEF acquiresleep, Goto, TypeInv
    <3>2. pc'[p] \in {"iderw", "asleep lock"}
      BY Zenon, <1>1, <1>5 DEF acquiresleep, Goto, TypeInv
    <3> QED
      BY Zenon, <1>1, <3>1, <3>2 DEF Has
  <2> QED
    BY Zenon, <1>2, <1>3, <2>1, OwnerKept
<1> QED
  BY Zenon, <1>4, <1>5

\* releasesleep gives the block back.
LEMMA ReleaseStores ==
  ASSUME TypeInv, CacheInv, OwnerInv, OwnerInv', NEW p \in Procs, releasesleep(p)
  PROVE  \E m \in Blocks : Owner(m) = p /\ \A n \in Blocks : Owner(n)' = IF n = m THEN None ELSE Owner(n)
<1>1. /\ pc[p] = "use" /\ pc'[p] = "brelse" /\ UNCHANGED <<buf, cur>> /\ cur[p] \in Bufs
      /\ \A q \in Procs \ {p} :
              pc'[q] = IF pc[q] = "asleep lock" /\ cur[q] = cur[p] THEN "acquiresleep" ELSE pc[q]
  BY Zenon, ReleaseStep DEF TypeInv
<1>2. \A q \in Procs, n \in Blocks : Has(q, n)' <=> Has(q, n) /\ q # p
  BY Zenon, <1>1 DEF Has
<1>3. buf[cur[p]].valid /\ buf[cur[p]].blockno \in Blocks
  BY Zenon, <1>1, Fields DEF CacheInv, ProcInv, TypeInv
<1>4. PICK m \in Blocks : m = buf[cur[p]].blockno
  BY Zenon, <1>3
<1>5. Has(p, m) /\ \A n \in Blocks : Has(p, n) => n = m
  BY Zenon, <1>1, <1>3, <1>4 DEF Has
<1> QED
  BY Zenon, <1>2, <1>5, DiskAssumption, OwnerGiven

\* The interrupt for a read takes the block for the process that waits for it.
LEMMA IntrStores ==
  ASSUME TypeInv, CacheInv, OwnerInv, OwnerInv',
         NEW b \in Bufs, NEW h \in Procs, NEW error \in Errors, Interrupted(b, h, error)
  PROVE  \/ SameOwner
         \/ \E m \in Blocks : Owner(m) = None /\ \A n \in Blocks : Owner(n)' = IF n = m THEN h ELSE Owner(n)
<1>1. /\ lock[b] = h /\ cur[h] = b /\ pc[h] = "asleep disk" /\ pc'[h] = "synced?" /\ cur' = cur
      /\ buf[b].blockno \in Blocks /\ buf'[b].blockno = buf[b].blockno /\ buf'[b].valid
      /\ \A c \in Bufs \ {b} : buf'[c] = buf[c]
      /\ \A q \in Procs \ {h} : pc'[q] = pc[q]
  BY Zenon DEF Interrupted
<1>2. PICK m \in Blocks : m = buf[b].blockno
  BY Zenon, <1>1
<1>3. ASSUME NEW q \in Procs \ {h}, NEW n \in Blocks PROVE Has(q, n)' <=> Has(q, n)
  <2>1. CASE cur[q] = b
    <3>1. pc[q] \notin Holding
      BY Zenon, <1>1, <2>1 DEF CacheInv, ProcInv
    <3> QED
      BY Zenon, <1>1, <3>1 DEF Has, Holding
  <2>2. CASE cur[q] # b
    BY Zenon, <1>1, <2>2 DEF Has, TypeInv
  <2> QED
    BY Zenon, <2>1, <2>2
<1>4. \A n \in Blocks : Has(h, n)' <=> n = m
  BY Zenon, <1>1, <1>2 DEF Has
<1>5. CASE buf[b].valid
  <2>1. \A n \in Blocks : Has(h, n) <=> n = m
    BY Zenon, <1>1, <1>2, <1>5 DEF Has
  <2> QED
    BY Zenon, <1>3, <1>4, <2>1, OwnerKept
<1>6. CASE ~buf[b].valid
  <2>1. \A n \in Blocks : ~Has(h, n)
    BY Zenon, <1>1, <1>6 DEF Has
  <2>2. \A q \in Procs : ~Has(q, m)
    <3> SUFFICES ASSUME NEW q \in Procs, Has(q, m) PROVE FALSE
      BY Zenon
    <3>1. lock[cur[q]] = q /\ b = cur[q]
      BY Zenon, <1>2, HasLocked
    <3>2. q = h
      BY Zenon, <1>1, <3>1
    <3> QED
      BY Zenon, <2>1, <3>2
  <2>3. \A q \in Procs, n \in Blocks : Has(q, n)' <=> Has(q, n) \/ (q = h /\ n = m)
    BY Zenon, <1>3, <1>4, <2>1
  <2> QED
    BY Zenon, <2>2, <2>3, OwnerTaken
<1> QED
  BY Zenon, <1>5, <1>6

\* Owners stay when locks, blocks and validity do.
LEMMA HoldersKeep ==
  ASSUME OwnerInv, OwnerInv', \A q \in Procs : pc'[q] \in Holding <=> pc[q] \in Holding,
         \A q \in Procs : pc[q] \in Holding =>
            /\ cur'[q] = cur[q] /\ buf'[cur[q]].blockno = buf[cur[q]].blockno
            /\ buf'[cur[q]].valid = buf[cur[q]].valid
  PROVE  SameOwner
<1>1. ASSUME NEW q \in Procs, NEW n \in Blocks PROVE Has(q, n)' <=> Has(q, n)
  BY Zenon DEF Has, Holding
<1> QED
  BY Zenon, <1>1, OwnerKept

\* bget, changes, brelse and the driver change no owner.
LEMMA OtherStores ==
  ASSUME TypeInv, CacheInv, OwnerInv, OwnerInv', NEW p \in Procs,
         \/ \E n \in Blocks, b \in Bufs : Hits(p, n, b) \/ Recycles(p, n, b)
         \/ NoBuffer(p) \/ Changed(p) \/ brelse(p) \/ iderw(p) \/ synced(p)
  PROVE  SameOwner
<1>0. \A q \in Procs : cur[q] \in Bufs
  BY Zenon DEF TypeInv
<1>1. ASSUME NEW n \in Blocks, NEW b \in Bufs, Hits(p, n, b) PROVE SameOwner
  <2>1. /\ pc[p] = "idle" /\ pc'[p] = "acquiresleep"
        /\ \A q \in Procs \ {p} : pc'[q] = pc[q] /\ cur'[q] = cur[q]
    BY Zenon, <1>1 DEF Hits, Goto, TypeInv
  <2>2. \A c \in Bufs : SameBuf(c)
    BY Zenon, <1>1, QuietSteps
  <2>3. /\ \A q \in Procs : pc'[q] \in Holding <=> pc[q] \in Holding
        /\ \A q \in Procs : pc[q] \in Holding => cur'[q] = cur[q]
    BY Zenon, <2>1 DEF Holding
  <2> QED
    BY Zenon, <1>0, <2>2, <2>3, HoldersKeep DEF SameBuf
<1>2. ASSUME NEW n \in Blocks, NEW b \in Bufs, Recycles(p, n, b) PROVE SameOwner
  <2>1. /\ pc[p] = "idle" /\ pc'[p] = "acquiresleep"
        /\ \A q \in Procs \ {p} : pc'[q] = pc[q] /\ cur'[q] = cur[q]
    BY Zenon, <1>2 DEF Recycles, Goto, TypeInv
  <2>2. buf[b].refcnt = 0 /\ \A c \in Bufs \ {b} : buf'[c] = buf[c]
    BY SMTT(30), <1>2, RecycledBuf
  <2>3. /\ \A q \in Procs : pc'[q] \in Holding <=> pc[q] \in Holding
        /\ \A q \in Procs : pc[q] \in Holding => cur'[q] = cur[q]
    BY Zenon, <2>1 DEF Holding
  <2>4. ASSUME NEW q \in Procs, pc[q] \in Holding PROVE cur[q] \in Bufs \ {b}
    <3>1. pc[q] # "idle"
      BY Zenon, <2>4 DEF Holding
    <3>2. cur[q] = b => buf[b].refcnt > 0
      BY Zenon, <3>1, RefsTell
    <3> QED
      BY <1>0, <2>2, <3>2
  <2> QED
    BY Zenon, <2>2, <2>3, <2>4, HoldersKeep
<1>3. CASE NoBuffer(p)
  <2>1. UNCHANGED <<buf, pc, cur>>
    BY Zenon, <1>3 DEF NoBuffer, Panic, cache
  <2> QED
    BY Zenon, <2>1, HoldersKeep
<1>4. CASE Changed(p)
  <2>1. cur' = cur /\ pc[p] = "use" /\ pc'[p] \in {"use", "iderw"} /\ \A q \in Procs \ {p} : pc'[q] = pc[q]
    BY Zenon, <1>4 DEF Changed, Goto, TypeInv
  <2>2. \A c \in Bufs : buf'[c].blockno = buf[c].blockno /\ buf'[c].valid = buf[c].valid
    BY Zenon, <1>4, ChangedBuf
  <2>3. \A q \in Procs : pc'[q] \in Holding <=> pc[q] \in Holding
    BY Zenon, <2>1 DEF Holding
  <2> QED
    BY Zenon, <1>0, <2>1, <2>2, <2>3, HoldersKeep
<1>5. CASE brelse(p) \/ iderw(p) \/ synced(p)
  <2>1. /\ cur' = cur /\ \A q \in Procs \ {p} : pc'[q] = pc[q]
        /\ \/ pc[p] = "brelse" /\ pc'[p] = "idle"
           \/ pc[p] = "iderw" /\ pc'[p] = "asleep disk"
           \/ pc[p] = "synced?" /\ pc'[p] = "use"
    <3>1. CASE brelse(p)
      BY Zenon, <3>1 DEF brelse, Goto, TypeInv
    <3>2. CASE iderw(p)
      BY Zenon, <3>2, IderwStep DEF Goto, TypeInv
    <3>3. CASE synced(p)
      BY Zenon, <3>3, SyncedStep DEF Goto, TypeInv
    <3> QED
      BY Zenon, <1>5, <3>1, <3>2, <3>3
  <2>2. \A c \in Bufs : SameBuf(c)
    BY Zenon, <1>5, QuietSteps
  <2>3. \A q \in Procs : pc'[q] \in Holding <=> pc[q] \in Holding
    BY Zenon, <2>1 DEF Holding
  <2> QED
    BY Zenon, <1>0, <2>1, <2>2, <2>3, HoldersKeep DEF SameBuf
<1> QED
  BY SMTT(30), <1>1, <1>2, <1>3, <1>4, <1>5

-----------------------------------------------------------------------------
\* Steps of the block store in terms of Latest and Owner.
LEMMA StoreStutters ==
  ASSUME SameContent, SameOwner
  PROVE  UNCHANGED <<[n \in Blocks |-> Latest(n)], [n \in Blocks |-> Owner(n)]>>
  BY Zenon DEF SameContent, SameOwner

\* A block that is taken or given back.
LEMMA StoreMoves ==
  ASSUME SameContent, NEW p \in Procs, NEW m \in Blocks,
         \/ Owner(m) = None /\ \A n \in Blocks : Owner(n)' = IF n = m THEN p ELSE Owner(n)
         \/ Owner(m) = p /\ \A n \in Blocks : Owner(n)' = IF n = m THEN None ELSE Owner(n)
  PROVE  Store!Take(p, m) \/ Store!Give(p, m)
  BY Zenon DEF SameContent, Store!Take, Store!Give

\* A block that is changed.
LEMMA StoreChanges ==
  ASSUME SameOwner, NEW p \in Procs, NEW m \in Blocks, NEW v \in Values, Owner(m) = p,
         \A n \in Blocks : Latest(n)' = IF n = m THEN v ELSE Latest(n)
  PROVE  Store!Change(p, m, v)
  BY Zenon DEF SameOwner, Store!Change

\* A step of the kernel and the disk is a step of the block store, or does not show.
LEMMA StoreStep ==
  ASSUME TRUE \notin Errors, TypeInv, CacheInv, CleanInv, TypeInv', CacheInv', [Next]_vars
  PROVE  [Store!BNext]_<<[n \in Blocks |-> Latest(n)], [n \in Blocks |-> Owner(n)]>>
<1> DEFINE Shown == [Store!BNext]_<<[n \in Blocks |-> Latest(n)], [n \in Blocks |-> Owner(n)]>>
<1>1. LatestInv /\ OwnerInv
  BY Zenon, LatestIs, OwnerIs
<1>2. LatestInv' /\ OwnerInv'
  <2>1. (TypeInv /\ CacheInv => LatestInv /\ OwnerInv)'
    BY LatestIs, OwnerIs, PTL
  <2> QED
    BY Zenon, <2>1
<1>3. ASSUME SameContent, SameOwner PROVE Shown
  BY Zenon, <1>3, StoreStutters
<1>4. ASSUME SameContent, NEW p \in Procs, NEW m \in Blocks,
             \/ Owner(m) = None /\ \A n \in Blocks : Owner(n)' = IF n = m THEN p ELSE Owner(n)
             \/ Owner(m) = p /\ \A n \in Blocks : Owner(n)' = IF n = m THEN None ELSE Owner(n)
      PROVE  Shown
  <2>1. Store!Take(p, m) \/ Store!Give(p, m)
    BY Zenon, <1>4, StoreMoves
  <2> QED
    BY Zenon, <2>1 DEF Store!BNext
<1> HIDE DEF Shown
<1>5. ASSUME UNCHANGED vars PROVE Shown
  <2>1. UNCHANGED <<buf, disk, pc, cur>>
    BY Zenon, <1>5 DEF vars, cache, drive
  <2>2. SameContent
    BY Zenon, <1>1, <1>2, <2>1, QuietContent DEF SameBuf
  <2>3. SameOwner
    BY Zenon, <1>1, <1>2, <2>1, HoldersKeep
  <2> QED
    BY Zenon, <1>3, <2>2, <2>3
<1>6. ASSUME NEW b \in Bufs, NEW h \in Procs, NEW error \in Errors, Interrupted(b, h, error) PROVE Shown
  <2>1. SameContent
    BY Zenon, <1>1, <1>2, <1>6, IntrContent
  <2> QED
    BY Zenon, <1>1, <1>2, <1>3, <1>4, <1>6, <2>1, IntrStores
<1>7. ASSUME NEW p \in Procs, NEW n \in Blocks, NEW b \in Bufs, Recycles(p, n, b) PROVE Shown
  <2>1. SameContent
    BY Zenon, <1>1, <1>2, <1>7, RecycleContent
  <2>2. SameOwner
    BY Zenon, <1>1, <1>2, <1>7, OtherStores
  <2> QED
    BY Zenon, <1>3, <2>1, <2>2
<1>8. ASSUME NEW p \in Procs, Changed(p) PROVE Shown
  <2>1. SameOwner
    BY Zenon, <1>1, <1>2, <1>8, OtherStores
  <2>2. PICK m \in Blocks : m = buf[cur[p]].blockno
    BY Zenon, <1>8, ChangedBuf
  <2>3. PICK v \in Values : \A n \in Blocks : Latest(n)' = IF n = m THEN v ELSE Latest(n)
    BY Zenon, <1>1, <1>2, <1>8, <2>2, ChangeContent
  <2>4. Has(p, m)
    BY Zenon, <1>8, <2>2, ChangedBuf DEF Has, Changed
  <2>5. Owner(m) = p
    BY Zenon, <1>1, <2>4 DEF OwnerInv
  <2>6. Store!Change(p, m, v)
    BY Zenon, <2>1, <2>3, <2>5, StoreChanges
  <2> QED
    BY Zenon, <2>6 DEF Shown, Store!BNext
<1>9. ASSUME NEW p \in Procs,
             \/ \E n \in Blocks, b \in Bufs : Hits(p, n, b)
             \/ NoBuffer(p) \/ brelse(p) \/ iderw(p) \/ synced(p)
      PROVE  Shown
  <2>1. SameContent
    BY Zenon, <1>1, <1>2, <1>9, QuietSteps, QuietContent
  <2>2. SameOwner
    BY Zenon, <1>1, <1>2, <1>9, OtherStores
  <2> QED
    BY Zenon, <1>3, <2>1, <2>2
<1>10. ASSUME NEW p \in Procs, acquiresleep(p) \/ releasesleep(p) PROVE Shown
  <2>1. SameContent
    BY SMTT(30), <1>1, <1>2, <1>10, QuietSteps, QuietContent
  <2>2. \/ SameOwner
        \/ \E m \in Blocks :
             \/ Owner(m) = None /\ \A n \in Blocks : Owner(n)' = IF n = m THEN p ELSE Owner(n)
             \/ Owner(m) = p /\ \A n \in Blocks : Owner(n)' = IF n = m THEN None ELSE Owner(n)
    BY Zenon, <1>1, <1>2, <1>10, AcquireStores, ReleaseStores
  <2> QED
    BY Zenon, <1>3, <1>4, <2>1, <2>2
<1>11. ASSUME NEW p \in Procs, ProcStep(p) PROVE Shown
  BY Zenon, <1>7, <1>8, <1>9, <1>10, <1>11 DEF ProcStep
<1>12. Shown
  BY Zenon, <1>5, <1>6, <1>11, StepCases
<1> QED
  BY Zenon, <1>12 DEF Shown

\* The cache and the driver implement the block store: through hits, recycling, queueing and
\* dirty buffers each block keeps its latest content, and one process at a time has it.
THEOREM Refinement ==
  ASSUME TRUE \notin Errors
  PROVE  Spec => IsBlockStore
<1>1. Init => Store!BInit
  <2> SUFFICES ASSUME Init PROVE Store!BInit
    BY Zenon
  <2>1. TypeInv /\ CacheInv
    BY Zenon, InitCache
  <2>2. LatestInv /\ OwnerInv
    BY Zenon, <2>1, LatestIs, OwnerIs
  <2>3. (\A b \in Bufs : ~buf[b].valid) /\ \A p \in Procs : pc[p] = "idle"
    BY DEF Init
  <2>4. \A n \in Blocks : Owner(n) = None
    BY Zenon, <2>2, <2>3 DEF OwnerInv, Has
  <2>5. \A n \in Blocks : Latest(n) = disk[n] /\ disk[n] \in Values
    BY Zenon, <2>1, <2>2, <2>3 DEF LatestInv, TypeInv
  <2> QED
    BY Zenon, <2>4, <2>5 DEF Store!BInit
<1>2. /\ TypeInv /\ CacheInv /\ CleanInv /\ (TypeInv /\ CacheInv /\ CleanInv)' /\ [Next]_vars
      => [Store!BNext]_<<[n \in Blocks |-> Latest(n)], [n \in Blocks |-> Owner(n)]>>
  BY Zenon, StoreStep
<1> QED
  BY <1>1, <1>2, CleanAlways, PTL DEF Spec, IsBlockStore, Store!BSpec
=============================================================================
