----------------------------- MODULE LogProofs -----------------------------
(***************************************************************************)
(* Proofs about Log for any number of processes, blocks, calls and         *)
(* crashes: a commit runs alone, within the space that begin_op reserved;  *)
(* where the latest content of every block is; and that Log implements     *)
(* AtomicDisk.                                                             *)
(***************************************************************************)
EXTENDS Log, FiniteSetTheorems, TLAPS

-----------------------------------------------------------------------------
\* The labels of a process in commit, and the calls between begin_op and end_op.
CommitLabels == {"commit", "write_log", "write_head", "install", "erase", "committed"}
Active == {p \in Procs : pc[p] = "op"}

\* Somebody is at label l; only meant for the labels of commit.
Stage(l) == \E p \in Procs : pc[p] = l

\* One process commits, and then no call is in progress; a crash stops everybody.
GroupInv ==
  /\ panicked = "no"
  /\ outstanding = Cardinality(Active)
  /\ committing <=> \E p \in Procs : pc[p] \in CommitLabels
  /\ committing => Active = {}
  /\ \A p, q \in Procs : pc[p] \in CommitLabels /\ pc[q] \in CommitLabels => p = q
  /\ Stage("down") => Down

\* The blocks that calls in progress have reserved and not yet used, as pairs of a call and
\* a number: their sum is the cardinality of this set.
Reserved ==
  {x \in Procs \X (1 .. MAXOPBLOCKS) : pc[x[1]] = "op" /\ Cardinality(wrote[x[1]]) < x[2]}

\* The blocks that a call has written are within its reservation, and logged.
CallInv(p) ==
  /\ IsFiniteSet(wrote[p])
  /\ Cardinality(wrote[p]) <= OPBLOCKS
  /\ Cardinality(wrote[p]) <= writes[p]
  /\ pc[p] \in {"begin", "sleeping"} => wrote[p] = {} /\ writes[p] = 0
  /\ pc[p] = "op" => \A b \in wrote[p] : Logged(lh, b)

\* What is logged and what is reserved fit in the log.
RoomInv ==
  /\ Len(lh) + Cardinality(Reserved) <= LOGSIZE
  /\ Len(lh) <= NLOG - 1 /\ Len(header) <= NLOG - 1
  /\ \A p \in Procs : CallInv(p)

-----------------------------------------------------------------------------
\* The steps of a behaviour, a panic having happened or not.
LEMMA StepCases ==
  ASSUME [Next]_vars
  PROVE  \/ \E p \in Procs : \/ Start(p) \/ begin_op(p) \/ end_op(p) \/ commit(p) \/ write_log(p)
                             \/ write_head(p) \/ install_trans(p) \/ erase(p) \/ committed(p)
                             \/ \E b \in Blocks : log_write(p, b)
         \/ (\E b \in Blocks : Evict(b)) \/ Crash \/ recover_from_log \/ UNCHANGED vars
  BY Zenon DEF Next, Step, Idle

\* The calls in progress are finitely many, at most one for each process.
LEMMA ActiveFinite ==
  /\ IsFiniteSet(Active) /\ Cardinality(Active) \in Nat
  /\ Cardinality(Active) <= Cardinality(Procs)
  BY Zenon, LogAssumption, FS_Subset, FS_CardinalityType DEF Active

\* What append does to the blocks that a log contains.
LEMMA AppendLogged ==
  ASSUME NEW S, NEW s \in Seq(S), NEW b \in S
  PROVE  \A x : Logged(Append(s, b), x) <=> Logged(s, x) \/ x = b
<1> DEFINE t == Append(s, b)
<1>1. /\ Len(s) \in Nat /\ Len(t) = Len(s) + 1 /\ t[Len(s) + 1] = b
      /\ \A i \in 1 .. Len(s) : t[i] = s[i]
  OBVIOUS
<1> HIDE DEF t
<1>2. \A i : i \in 1 .. Len(t) <=> i \in 1 .. Len(s) \/ i = Len(s) + 1
  BY <1>1
<1>3. \A x : (\E i \in 1 .. Len(t) : t[i] = x) <=> (\E i \in 1 .. Len(s) : s[i] = x) \/ x = b
  BY Zenon, <1>1, <1>2
<1> QED
  BY Zenon, <1>3 DEF t, Logged

\* At log_write the log is not full: what this call has reserved and not used is free.
LEMMA RoomToWrite ==
  ASSUME TypeOK, GroupInv, RoomInv, NEW p \in Procs, NEW b \in Blocks, log_write(p, b)
  PROVE  /\ Len(lh) < LOGSIZE /\ Len(lh) < NLOG - 1 /\ outstanding >= 1
         /\ panicked' = panicked
         /\ lh' = IF Logged(lh, b) THEN lh ELSE Append(lh, b)
<1>1. outstanding >= 1
  <2>1. Active # {}
    BY Zenon DEF log_write, Active
  <2>2. Cardinality(Active) # 0
    BY Zenon, <2>1, ActiveFinite, FS_EmptySet
  <2> QED
    BY <2>2, ActiveFinite DEF GroupInv
<1> DEFINE w == Cardinality(wrote[p])
           mine == {p} \X ((w + 1) .. MAXOPBLOCKS)
<1>2. w \in Nat /\ w <= OPBLOCKS /\ w < MAXWRITES
  <2>1. IsFiniteSet(wrote[p]) /\ w <= OPBLOCKS /\ w <= writes[p]
    BY Zenon DEF RoomInv, CallInv
  <2>2. writes[p] \in Nat /\ writes[p] < MAXWRITES
    BY Zenon DEF TypeOK, log_write
  <2>3. w \in Nat
    BY Zenon, <2>1, FS_CardinalityType
  <2> QED
    BY <2>1, <2>2, <2>3, LogAssumption
<1>3. w <= MostWritten /\ MostWritten \in Int
  BY <1>2, LogAssumption DEF MostWritten
<1> HIDE DEF w
<1>4. mine \subseteq Reserved
  <2>1. ASSUME NEW k \in (w + 1) .. MAXOPBLOCKS PROVE <<p, k>> \in Reserved
    <3>1. k \in 1 .. MAXOPBLOCKS /\ w < k
      BY <1>2, LogAssumption
    <3> QED
      BY Zenon, <3>1 DEF log_write, Reserved, w
  <2> QED
    BY <2>1
<1>5. Cardinality(mine) = MAXOPBLOCKS - w
  <2>1. IsFiniteSet({p}) /\ Cardinality({p}) = 1
    BY Zenon, FS_Singleton
  <2>2. IsFiniteSet((w + 1) .. MAXOPBLOCKS) /\ Cardinality((w + 1) .. MAXOPBLOCKS) = MAXOPBLOCKS - w
    BY <1>2, <1>3, FS_Interval, LogAssumption
  <2> QED
    <3>1. Cardinality(mine) = Cardinality({p}) * Cardinality((w + 1) .. MAXOPBLOCKS)
      BY Zenon, <2>1, <2>2, FS_Product
    <3> QED
      BY <1>2, <2>1, <2>2, <3>1, LogAssumption
<1>6. IsFiniteSet(Reserved)
  <2>1. IsFiniteSet(Procs \X (1 .. MAXOPBLOCKS))
    <3>1. IsFiniteSet(1 .. MAXOPBLOCKS)
      BY LogAssumption, FS_Interval
    <3> QED
      BY SMTT(30), <3>1, LogAssumption, FS_Product
  <2> QED
    BY Zenon, <2>1, FS_Subset DEF Reserved
<1> HIDE DEF mine
<1>7. Cardinality(Reserved) >= MAXOPBLOCKS - w /\ Cardinality(Reserved) \in Nat
  BY Zenon, <1>4, <1>5, <1>6, FS_Subset, FS_CardinalityType
<1>8. Len(lh) \in Nat /\ Len(lh) + Cardinality(Reserved) <= LOGSIZE
  BY DEF TypeOK, RoomInv, CallInv
<1>9. Len(lh) < LOGSIZE /\ Len(lh) < NLOG - 1
  BY <1>2, <1>3, <1>7, <1>8, LogAssumption
<1> QED
  <2>1. ~(Len(lh) >= LOGSIZE \/ Len(lh) >= NLOG - 1) /\ ~(outstanding < 1)
    BY <1>1, <1>8, <1>9, LogAssumption DEF TypeOK
  <2> QED
    BY Zenon, <1>1, <1>9, <2>1 DEF log_write

\* Every step keeps the group discipline; no panic is reached.
LEMMA GroupStep ==
  ASSUME TypeOK, GroupInv, RoomInv, [Next]_vars
  PROVE  GroupInv'
<1>0. Cardinality(Active) \in Nat /\ IsFiniteSet(Active) /\ pc \in [Procs -> Labels]
  BY Zenon, ActiveFinite DEF TypeOK
<1>a. ASSUME Active' = Active, UNCHANGED <<panicked, outstanding, committing>>,
             \A p \in Procs : /\ pc'[p] \in CommitLabels <=> pc[p] \in CommitLabels
                              /\ pc'[p] = "down" <=> pc[p] = "down"
      PROVE  GroupInv'
  BY Zenon, <1>a DEF GroupInv, Stage, Down
<1>1. ASSUME NEW p \in Procs, Start(p) PROVE GroupInv'
  BY Zenon, <1>1, <1>0, <1>a DEF Start, Goto, Active, CommitLabels
<1>2. ASSUME NEW p \in Procs, begin_op(p) PROVE GroupInv'
  <2>1. CASE Goto(p, "sleeping") /\ UNCHANGED outstanding
    BY Zenon, <1>2, <2>1, <1>0, <1>a DEF begin_op, Goto, Active, CommitLabels
  <2>2. CASE ~committing /\ outstanding' = outstanding + 1 /\ Goto(p, "op")
    <3>1. Active' = Active \cup {p} /\ p \notin Active
      BY Zenon, <1>2, <2>2, <1>0 DEF begin_op, Goto, Active
    <3>2. Cardinality(Active') = Cardinality(Active) + 1
      BY Zenon, <1>0, <3>1, FS_AddElement
    <3> QED
      BY Zenon, <1>2, <2>2, <1>0, <3>2 DEF begin_op, Goto, CommitLabels, GroupInv, Stage, Down
  <2> QED
    BY Zenon, <1>2, <2>1, <2>2 DEF begin_op
<1>3. ASSUME NEW p \in Procs, end_op(p) PROVE GroupInv'
  <2>1. p \in Active /\ ~committing
    BY Zenon, <1>3 DEF end_op, Active, GroupInv
  <2>2. \A q \in Procs : pc[q] \notin CommitLabels /\ pc[q] # "down"
    BY Zenon, <1>3, <2>1 DEF GroupInv, end_op, Stage, Down
  <2>3. Active' = Active \ {p}
    BY Zenon, <1>3, <1>0, <2>1 DEF end_op, Active, WakeAll
  <2>4. Cardinality(Active') = outstanding - 1
    BY Zenon, <1>0, <2>1, <2>3, FS_RemoveElement DEF GroupInv
  <2>5. outstanding' = outstanding - 1 /\ panicked' = panicked
    BY Zenon, <1>3, <2>1 DEF end_op
  <2>6. CASE outstanding = 1
    <3>1. Active' = {}
      <4>1. Cardinality(Active') = 0 /\ IsFiniteSet(Active')
        BY <1>0, <2>3, <2>4, <2>6, FS_RemoveElement
      <4> QED
        BY Zenon, <4>1, FS_EmptySet
    <3>2. pc' = [pc EXCEPT ![p] = "commit"] /\ committing' = TRUE
      BY Zenon, <1>3, <2>1, <2>6 DEF end_op
    <3> QED
      BY Zenon, <1>0, <2>1, <2>2, <2>4, <2>5, <3>1, <3>2 DEF GroupInv, CommitLabels, Stage, Down
  <2>7. CASE outstanding # 1
    <3>1. pc' = WakeAll([pc EXCEPT ![p] = "idle"]) /\ committing' = FALSE
      BY Zenon, <1>3, <2>1, <2>7 DEF end_op
    <3>2. \A q \in Procs : pc'[q] \notin CommitLabels /\ pc'[q] # "down"
      BY Zenon, <1>0, <2>2, <3>1 DEF WakeAll, CommitLabels
    <3> QED
      BY Zenon, <2>4, <2>5, <3>1, <3>2 DEF GroupInv, Stage
  <2> QED
    BY Zenon, <2>6, <2>7
<1>4. ASSUME NEW p \in Procs, commit(p) PROVE GroupInv'
  BY Zenon, <1>4, <1>0, <1>a DEF commit, Goto, Active, CommitLabels
<1>5. ASSUME NEW p \in Procs, write_log(p) PROVE GroupInv'
  BY Zenon, <1>5, <1>0, <1>a DEF write_log, Goto, Active, CommitLabels
<1>6. ASSUME NEW p \in Procs, write_head(p) PROVE GroupInv'
  BY Zenon, <1>6, <1>0, <1>a DEF write_head, Goto, Active, CommitLabels
<1>7. ASSUME NEW p \in Procs, install_trans(p) PROVE GroupInv'
  BY Zenon, <1>7, <1>0, <1>a DEF install_trans, Goto, Active, CommitLabels
<1>8. ASSUME NEW p \in Procs, erase(p) PROVE GroupInv'
  BY Zenon, <1>8, <1>0, <1>a DEF erase, Goto, Active, CommitLabels
<1>9. ASSUME NEW p \in Procs, committed(p) PROVE GroupInv'
  <2>1. Active' = Active /\ \A q \in Procs : pc'[q] \notin CommitLabels /\ pc'[q] # "down"
    BY Zenon, <1>9, <1>0 DEF committed, WakeAll, Active, CommitLabels, GroupInv, Stage, Down
  <2> QED
    BY Zenon, <1>9, <2>1 DEF committed, GroupInv, Stage
<1>10. ASSUME NEW p \in Procs, NEW b \in Blocks, log_write(p, b) PROVE GroupInv'
  BY Zenon, <1>10, <1>a, RoomToWrite DEF log_write, Active
<1>11. ASSUME NEW b \in Blocks, Evict(b) PROVE GroupInv'
  BY Zenon, <1>11, <1>a DEF Evict, Active
<1>12. CASE Crash
  <2>1. Active' = {} /\ \A q \in Procs : pc'[q] = "down"
    BY Zenon, <1>12 DEF Crash, Active
  <2> QED
    BY Zenon, <1>12, <2>1, FS_EmptySet DEF Crash, GroupInv, CommitLabels, Stage, Down
<1>13. CASE recover_from_log
  <2>1. CASE UNCHANGED pc
    BY Zenon, <1>13, <2>1, <1>a DEF recover_from_log, Active
  <2>2. CASE pc' = [q \in Procs |-> "idle"]
    <3>1. Active' = {} /\ Active = {} /\ \A q \in Procs : pc'[q] = "idle" /\ pc[q] = "down"
      BY Zenon, <1>13, <2>2 DEF recover_from_log, Down, Active
    <3> QED
      BY Zenon, <1>13, <3>1 DEF recover_from_log, GroupInv, CommitLabels, Stage
  <2> QED
    BY Zenon, <1>13, <2>1, <2>2 DEF recover_from_log
<1>14. CASE UNCHANGED vars
  BY Zenon, <1>14, <1>a DEF vars, Active
<1> QED
  BY Zenon, <1>1, <1>2, <1>3, <1>4, <1>5, <1>6, <1>7, <1>8, <1>9, <1>10, <1>11, <1>12, <1>13, <1>14, StepCases

-----------------------------------------------------------------------------
\* The blocks reserved by open calls are finitely many.
LEMMA ReservedFinite == IsFiniteSet(Reserved) /\ Cardinality(Reserved) \in Nat
<1>1. IsFiniteSet(1 .. MAXOPBLOCKS)
  BY LogAssumption, FS_Interval
<1>2. IsFiniteSet(Procs \X (1 .. MAXOPBLOCKS))
  BY SMTT(30), <1>1, LogAssumption, FS_Product
<1>3. IsFiniteSet(Reserved)
  BY Zenon, <1>2, FS_Subset DEF Reserved
<1> QED
  BY Zenon, <1>3, FS_CardinalityType

\* A step that reserves nothing and logs nothing.
LEMMA NothingReserved ==
  ASSUME TypeOK, RoomInv, UNCHANGED <<wrote, writes>>,
         \A p \in Procs : /\ pc'[p] = "op" => pc[p] = "op" /\ lh' = lh
                          /\ pc'[p] \in {"begin", "sleeping"} => pc[p] \in {"begin", "sleeping"},
         lh' \in {lh, <<>>}, header' \in {lh, header, <<>>}
  PROVE  RoomInv'
<1>1. Reserved' \subseteq Reserved
  BY Zenon DEF Reserved
<1>2. Cardinality(Reserved') <= Cardinality(Reserved) /\ Cardinality(Reserved') \in Nat
  BY Zenon, <1>1, ReservedFinite, FS_Subset, FS_CardinalityType
<1>3. Len(lh') <= Len(lh) /\ Len(lh) \in Nat /\ Len(lh') \in Nat /\ Len(header') <= NLOG - 1
  BY LogAssumption DEF TypeOK, RoomInv, CallInv
<1>4. Len(lh') + Cardinality(Reserved') <= LOGSIZE /\ Len(lh') <= NLOG - 1
  BY <1>2, <1>3, ReservedFinite, LogAssumption DEF RoomInv, CallInv
<1>5. \A p \in Procs : CallInv(p)'
  BY Zenon DEF CallInv, RoomInv
<1> QED
  BY Zenon, <1>3, <1>4, <1>5 DEF RoomInv, CallInv

\* begin_op lets a call in only when all that the calls may write fits.
LEMMA BeginReserves ==
  ASSUME TypeOK, GroupInv, RoomInv, NEW p \in Procs, begin_op(p), pc'[p] = "op"
  PROVE  RoomInv'
<1>0. ~committing /\ LogHasRoom /\ Goto(p, "op") /\ pc[p] = "begin"
  BY Zenon DEF begin_op, Goto, TypeOK
<1>1. UNCHANGED <<lh, header, wrote, writes>>
  BY Zenon DEF begin_op, disk
<1> DEFINE A == Active \cup {p}
<1>2. IsFiniteSet(A) /\ Cardinality(A) = outstanding + 1
  <2>1. p \notin Active
    BY Zenon, <1>0 DEF Active
  <2> QED
    BY Zenon, <2>1, ActiveFinite, FS_AddElement DEF GroupInv
<1>3. Reserved' \subseteq A \X (1 .. MAXOPBLOCKS)
  BY Zenon, <1>0 DEF Reserved, Active, Goto, TypeOK
<1> HIDE DEF A
<1>4. /\ IsFiniteSet(A \X (1 .. MAXOPBLOCKS))
      /\ Cardinality(A \X (1 .. MAXOPBLOCKS)) = (outstanding + 1) * MAXOPBLOCKS
  <2>1. IsFiniteSet(1 .. MAXOPBLOCKS) /\ Cardinality(1 .. MAXOPBLOCKS) = MAXOPBLOCKS
    BY LogAssumption, FS_Interval
  <2>2. Cardinality(A \X (1 .. MAXOPBLOCKS)) = Cardinality(A) * Cardinality(1 .. MAXOPBLOCKS)
    BY Zenon, <1>2, <2>1, FS_Product
  <2> QED
    BY Zenon, <1>2, <2>1, <2>2, FS_Product
<1>5. Cardinality(Reserved') <= (outstanding + 1) * MAXOPBLOCKS /\ Cardinality(Reserved') \in Nat
  BY <1>3, <1>4, FS_Subset, FS_CardinalityType
<1>6. Len(lh') + Cardinality(Reserved') <= LOGSIZE
  <2> DEFINE m == (outstanding + 1) * MAXOPBLOCKS
  <2>1. m \in Int /\ Len(lh) \in Nat
    BY LogAssumption DEF TypeOK
  <2>2. Len(lh) + m <= LOGSIZE /\ Cardinality(Reserved') <= m
    BY Zenon, <1>0, <1>5 DEF LogHasRoom
  <2> HIDE DEF m
  <2> QED
    BY <1>1, <1>5, <2>1, <2>2, LogAssumption
<1>7. \A q \in Procs : CallInv(q)'
  BY Zenon, <1>0, <1>1 DEF CallInv, RoomInv, Goto, TypeOK
<1> QED
  BY Zenon, <1>1, <1>6, <1>7 DEF RoomInv, CallInv

\* A block that is new to the call uses up one of its reservations.
LEMMA WriteUsesReserve ==
  ASSUME TypeOK, GroupInv, RoomInv, NEW p \in Procs, NEW b \in Blocks, log_write(p, b)
  PROVE  RoomInv'
<1>0. /\ pc[p] = "op" /\ Cardinality(wrote[p] \cup {b}) <= OPBLOCKS
      /\ UNCHANGED <<pc, header>>
      /\ wrote' = [wrote EXCEPT ![p] = @ \cup {b}] /\ writes' = [writes EXCEPT ![p] = @ + 1]
  BY Zenon DEF log_write, disk
<1>1. /\ Len(lh) < NLOG - 1 /\ Len(lh) \in Nat
      /\ lh' = IF Logged(lh, b) THEN lh ELSE Append(lh, b)
  BY RoomToWrite DEF TypeOK
<1>2. Len(lh') \in Nat /\ Len(lh') <= Len(lh) + 1
  BY <1>1 DEF TypeOK
<1>3. Logged(lh', b) /\ \A x : Logged(lh, x) => Logged(lh', x)
  BY Zenon, <1>1, AppendLogged DEF TypeOK
<1>4. IsFiniteSet(wrote[p]) /\ Cardinality(wrote[p]) \in Nat /\ Cardinality(wrote[p]) <= writes[p]
  BY Zenon, FS_CardinalityType DEF RoomInv, CallInv
<1>5. /\ IsFiniteSet(wrote[p] \cup {b})
      /\ Cardinality(wrote[p] \cup {b}) =
           IF b \in wrote[p] THEN Cardinality(wrote[p]) ELSE Cardinality(wrote[p]) + 1
  BY Zenon, <1>4, FS_AddElement
<1>6. \A q \in Procs : wrote'[q] = IF q = p THEN wrote[p] \cup {b} ELSE wrote[q]
  BY Zenon, <1>0 DEF TypeOK
<1>7. \A q \in Procs : CallInv(q)'
  <2>1. ASSUME NEW q \in Procs, q # p PROVE CallInv(q)'
    BY Zenon, <1>0, <1>3, <1>6, <2>1 DEF CallInv, RoomInv, TypeOK
  <2>2. Cardinality(wrote'[p]) <= writes'[p]
    BY <1>0, <1>4, <1>5, <1>6 DEF TypeOK
  <2>3. \A x \in wrote'[p] : Logged(lh', x)
    BY <1>0, <1>3, <1>6 DEF RoomInv, CallInv
  <2>4. CallInv(p)'
    BY Zenon, <1>0, <1>5, <1>6, <2>2, <2>3 DEF CallInv
  <2> QED
    BY Zenon, <2>1, <2>4
<1>8. Len(lh') + Cardinality(Reserved') <= LOGSIZE
  <2>1. CASE b \in wrote[p]
    <3>1. wrote' = wrote /\ lh' = lh
      BY <1>0, <1>1, <2>1 DEF TypeOK, RoomInv, CallInv
    <3>2. Reserved' = Reserved
      BY Zenon, <1>0, <3>1 DEF Reserved
    <3> QED
      BY Zenon, <3>1, <3>2 DEF RoomInv, CallInv
  <2>2. CASE b \notin wrote[p]
    <3> DEFINE x == <<p, Cardinality(wrote[p]) + 1>>
    <3>1. x \in Reserved
      <4>1. Cardinality(wrote[p]) + 1 \in 1 .. MAXOPBLOCKS
        BY <1>0, <1>4, <1>5, <2>2, LogAssumption
      <4> QED
        BY <1>0, <1>4, <4>1 DEF Reserved
    <3>2. Reserved' \subseteq Reserved \ {x}
      <4>1. ASSUME NEW q \in Procs, NEW k \in 1 .. MAXOPBLOCKS, <<q, k>> \in Reserved'
            PROVE  <<q, k>> \in Reserved \ {x}
        <5>1. pc[q] = "op" /\ Cardinality(wrote'[q]) < k
          BY Zenon, <1>0, <4>1 DEF Reserved
        <5>2. CASE q # p
          BY Zenon, <1>6, <5>1, <5>2 DEF Reserved
        <5>3. CASE q = p
          <6>1. Cardinality(wrote[p]) + 1 < k
            BY Zenon, <1>5, <1>6, <2>2, <5>1, <5>3
          <6> QED
            BY <1>4, <5>1, <5>3, <6>1 DEF Reserved
        <5> QED
          BY Zenon, <5>2, <5>3
      <4>2. Reserved' \subseteq Procs \X (1 .. MAXOPBLOCKS)
        BY Zenon DEF Reserved
      <4> HIDE DEF x
      <4> QED
        BY <4>1, <4>2
    <3> HIDE DEF x
    <3>3. IsFiniteSet(Reserved \ {x}) /\ Cardinality(Reserved \ {x}) = Cardinality(Reserved) - 1
      BY Zenon, <3>1, ReservedFinite, FS_RemoveElement
    <3>4. Cardinality(Reserved') <= Cardinality(Reserved) - 1 /\ Cardinality(Reserved') \in Nat
      BY <3>2, <3>3, FS_Subset, FS_CardinalityType
    <3> QED
      BY <1>1, <1>2, <3>4, ReservedFinite, LogAssumption DEF RoomInv, CallInv
  <2> QED
    BY Zenon, <2>1, <2>2
<1>9. Len(lh') <= NLOG - 1
  BY <1>1, <1>2, LogAssumption
<1> QED
  BY Zenon, <1>0, <1>7, <1>8, <1>9 DEF RoomInv, CallInv

\* Every step keeps the log within the space that was reserved.
LEMMA RoomStep ==
  ASSUME TypeOK, GroupInv, RoomInv, [Next]_vars
  PROVE  RoomInv'
<1>0. pc \in [Procs -> Labels]
  BY Zenon DEF TypeOK
<1>a. Active = {} => \A q \in Procs : pc[q] # "op"
  BY Zenon DEF Active
<1>1. ASSUME NEW p \in Procs, Start(p) PROVE RoomInv'
  <2>1. UNCHANGED <<lh, header>> /\ pc[p] = "idle" /\ Goto(p, "begin")
    BY Zenon, <1>1 DEF Start, disk
  <2>2. wrote' = [wrote EXCEPT ![p] = {}] /\ writes' = [writes EXCEPT ![p] = 0]
    BY Zenon, <1>1 DEF Start
  <2>3. \A q \in Procs : q # p => UNCHANGED <<pc[q], wrote[q], writes[q]>>
    BY Zenon, <2>1, <2>2 DEF Goto, TypeOK
  <2>4. pc'[p] = "begin" /\ wrote'[p] = {} /\ writes'[p] = 0
    BY Zenon, <2>1, <2>2 DEF Goto, TypeOK
  <2>5. Reserved' = Reserved
    BY Zenon, <2>1, <2>3, <2>4 DEF Reserved
  <2>6. CallInv(p)'
    BY <2>4, FS_EmptySet, LogAssumption DEF CallInv
  <2>7. \A q \in Procs : q # p => CallInv(q)'
    BY Zenon, <2>1, <2>3 DEF CallInv, RoomInv
  <2> QED
    BY Zenon, <2>1, <2>5, <2>6, <2>7 DEF RoomInv, CallInv
<1>2. ASSUME NEW p \in Procs, begin_op(p) PROVE RoomInv'
  <2>1. CASE pc'[p] = "op"
    BY Zenon, <1>2, <2>1, BeginReserves
  <2>2. CASE pc'[p] # "op"
    <3>1. Goto(p, "sleeping") /\ pc[p] = "begin" /\ UNCHANGED <<lh, header, wrote, writes>>
      BY Zenon, <1>0, <1>2, <2>2 DEF begin_op, disk, Goto
    <3> QED
      BY Zenon, <1>0, <3>1, NothingReserved DEF Goto
  <2> QED
    BY Zenon, <2>1, <2>2
<1>3. ASSUME NEW p \in Procs, end_op(p) PROVE RoomInv'
  <2>1. UNCHANGED <<lh, header, wrote, writes>>
    BY Zenon, <1>3 DEF end_op, disk
  <2>2. \A q \in Procs : /\ pc'[q] = "op" => pc[q] = "op"
                         /\ pc'[q] \in {"begin", "sleeping"} => pc[q] \in {"begin", "sleeping"}
    BY Zenon, <1>0, <1>3 DEF end_op, WakeAll
  <2> QED
    BY Zenon, <2>1, <2>2, NothingReserved
<1>4. ASSUME NEW p \in Procs, commit(p) \/ write_log(p) \/ write_head(p) \/ erase(p) PROVE RoomInv'
  <2>1. UNCHANGED <<lh, wrote, writes>> /\ header' \in {lh, header}
    BY Zenon, <1>4 DEF commit, write_log, write_head, erase, disk
  <2>2. \A q \in Procs : /\ pc'[q] = "op" => pc[q] = "op"
                         /\ pc'[q] \in {"begin", "sleeping"} => pc[q] \in {"begin", "sleeping"}
    BY Zenon, <1>0, <1>4 DEF commit, write_log, write_head, erase, Goto
  <2> QED
    BY Zenon, <2>1, <2>2, NothingReserved
<1>5. ASSUME NEW p \in Procs, install_trans(p) PROVE RoomInv'
  <2>1. UNCHANGED <<header, wrote, writes>> /\ lh' \in {lh, <<>>}
    BY Zenon, <1>5 DEF install_trans
  <2>2. \A q \in Procs : pc[q] # "op"
    BY Zenon, <1>5, <1>a DEF install_trans, GroupInv, CommitLabels
  <2>3. \A q \in Procs : /\ pc'[q] # "op"
                         /\ pc'[q] \in {"begin", "sleeping"} => pc[q] \in {"begin", "sleeping"}
    BY Zenon, <1>0, <1>5, <2>2 DEF install_trans, Goto
  <2> QED
    BY Zenon, <2>1, <2>3, NothingReserved
<1>6. ASSUME NEW p \in Procs, committed(p) PROVE RoomInv'
  <2>1. UNCHANGED <<lh, header, wrote, writes>>
    BY Zenon, <1>6 DEF committed, disk
  <2>2. \A q \in Procs : /\ pc'[q] = "op" => pc[q] = "op"
                         /\ pc'[q] \in {"begin", "sleeping"} => pc[q] \in {"begin", "sleeping"}
    BY Zenon, <1>0, <1>6 DEF committed, WakeAll
  <2> QED
    BY Zenon, <2>1, <2>2, NothingReserved
<1>7. ASSUME NEW p \in Procs, NEW b \in Blocks, log_write(p, b) PROVE RoomInv'
  BY Zenon, <1>7, WriteUsesReserve
<1>8. ASSUME NEW b \in Blocks, Evict(b) PROVE RoomInv'
  BY SMTT(30), <1>8, NothingReserved DEF Evict, disk
<1>9. CASE Crash
  <2>1. /\ lh' = header /\ header' = header /\ \A q \in Procs : pc'[q] = "down"
        /\ \A q \in Procs : wrote'[q] = {} /\ writes'[q] = 0
    BY Zenon, <1>9 DEF Crash, disk
  <2>2. Reserved' = {}
    BY Zenon, <2>1 DEF Reserved
  <2>3. \A q \in Procs : CallInv(q)'
    BY <2>1, FS_EmptySet, LogAssumption DEF CallInv
  <2>4. Cardinality(Reserved') = 0
    BY Zenon, <2>2, FS_EmptySet
  <2> QED
    BY <2>1, <2>3, <2>4 DEF RoomInv, CallInv, TypeOK
<1>10. CASE recover_from_log
  <2>1. UNCHANGED <<wrote, writes>> /\ lh' \in {lh, <<>>} /\ header' \in {header, <<>>}
    BY Zenon, <1>10 DEF recover_from_log
  <2>2. \A q \in Procs : pc'[q] \in {"down", "idle"}
    BY Zenon, <1>10 DEF recover_from_log, Down
  <2> QED
    BY Zenon, <2>1, <2>2, NothingReserved
<1>11. CASE UNCHANGED vars
  BY Zenon, <1>11, NothingReserved DEF vars, disk
<1> QED
  BY Zenon, <1>1, <1>2, <1>3, <1>4, <1>5, <1>6, <1>7, <1>8, <1>9, <1>10, <1>11, StepCases

-----------------------------------------------------------------------------
Distinct(s) == \A i, j \in 1 .. Len(s) : s[i] = s[j] => i = j

\* A block is dirty until it is installed; the cache has nothing else that the disk has not.
CacheInv ==
  \A b \in Blocks : /\ dirty[b] => cache[b] # Absent /\ Logged(lh, b)
                    /\ ~dirty[b] => cache[b] \in {Absent, home[b]}

\* Up to write_head, and once the header is erased, nothing is committed and all blocks
\* logged are dirty.
Uncommitted == header = <<>> /\ \A i \in 1 .. Len(lh) : dirty[lh[i]]

\* The log has the latest content of the first n blocks.
Copied(n) == \A i \in 1 .. n : logblock[i] = cache[lh[i]]

\* What the log has of the first n blocks of the list s is at home.
Installed(s, n) == \A i \in 1 .. n : home[s[i]] = logblock[i]

\* A committed group is being installed, by commit or by recovery.
Installing == header = lh /\ tail <= Len(lh) /\ Installed(lh, tail)

\* Where the latest content of each block is, by how far the commit has come.
DataInv ==
  /\ Distinct(lh) /\ Distinct(header) /\ CacheInv
  /\ ~Down /\ ~Stage("install") /\ ~Stage("erase") => Uncommitted
  /\ Stage("commit") => tail = 0
  /\ Stage("write_log") => tail <= Len(lh) /\ Copied(tail)
  /\ Stage("write_head") => tail = 0 /\ Copied(Len(lh))
  /\ Stage("install") =>
       /\ Installing
       /\ \A i \in 1 .. Len(lh) : /\ i <= tail => ~dirty[lh[i]]
                                  /\ i > tail => dirty[lh[i]] /\ cache[lh[i]] = logblock[i]
  /\ Stage("erase") => lh = <<>> /\ Installed(header, Len(header))
  /\ Down => Installing /\ \A b \in Blocks : ~dirty[b]

IInv == TypeOK /\ GroupInv /\ RoomInv /\ DataInv

-----------------------------------------------------------------------------
\* While p commits, its label is the only one of commit.
LEMMA StageOf ==
  ASSUME GroupInv, NEW p \in Procs, pc[p] \in CommitLabels
  PROVE  ~Down /\ \A l \in CommitLabels : Stage(l) <=> l = pc[p]
  BY Zenon DEF GroupInv, Stage, Down, CommitLabels

\* As long as nobody commits there is no such label.
LEMMA NoStage ==
  ASSUME GroupInv, ~committing
  PROVE  \A l \in CommitLabels : ~Stage(l)
  BY Zenon DEF GroupInv, Stage

\* The label after a step of p from one label of commit to another.
LEMMA StageAfter ==
  ASSUME TypeOK, GroupInv, NEW p \in Procs, pc[p] \in CommitLabels,
         NEW l \in CommitLabels, pc' = [pc EXCEPT ![p] = l]
  PROVE  ~Down' /\ \A m \in CommitLabels : Stage(m)' <=> m = l
<1>1. pc'[p] = l /\ \A q \in Procs : q # p => pc'[q] = pc[q] /\ pc[q] \notin CommitLabels
  BY Zenon DEF GroupInv, TypeOK
<1>2. l # "down"
  BY Zenon DEF CommitLabels
<1> QED
  BY Zenon, <1>1, <1>2 DEF Stage, Down

\* Steps outside commit that leave the contents alone.
LEMMA DataKept ==
  ASSUME DataInv, UNCHANGED <<home, logblock, header, cache, dirty, lh, tail>>,
         \A l \in CommitLabels : Stage(l)' <=> Stage(l), Down' <=> Down
  PROVE  DataInv'
  BY DEF DataInv, CacheInv, Uncommitted, Copied, Installing, Installed, Distinct, CommitLabels

\* Before any commit: what is left of DataInv.
LEMMA DataQuiet ==
  ASSUME Distinct(lh)', CacheInv', Uncommitted', ~Down', \A l \in CommitLabels : ~Stage(l)'
  PROVE  DataInv'
  BY DEF DataInv, Uncommitted, CommitLabels, Distinct

\* A block that is not logged yet can be appended to the list of logged blocks.
LEMMA AppendDistinct ==
  ASSUME NEW S, NEW s \in Seq(S), NEW b \in S, Distinct(s), ~Logged(s, b)
  PROVE  Distinct(Append(s, b))
<1> DEFINE t == Append(s, b)
<1>1. /\ Len(s) \in Nat /\ Len(t) = Len(s) + 1 /\ t[Len(s) + 1] = b
      /\ \A i \in 1 .. Len(s) : t[i] = s[i]
  OBVIOUS
<1>2. \A i \in 1 .. Len(s) : s[i] # b
  BY Zenon DEF Logged
<1> HIDE DEF t
<1>3. \A i, j \in 1 .. Len(t) : t[i] = t[j] => i = j
  BY <1>1, <1>2 DEF Distinct
<1> QED
  BY Zenon, <1>3 DEF t, Distinct

\* log_write changes a block in the cache, and logs it once.
LEMMA WriteData ==
  ASSUME TypeOK, GroupInv, RoomInv, DataInv, NEW p \in Procs, NEW b \in Blocks, log_write(p, b)
  PROVE  DataInv'
<1>0. /\ ~committing /\ UNCHANGED <<home, header, pc, committing>> /\ id[p] \in Ops
      /\ cache' = [cache EXCEPT ![b] = id[p]] /\ dirty' = [dirty EXCEPT ![b] = TRUE]
  BY Zenon DEF log_write, disk, GroupInv, Active, TypeOK
<1>1. lh' = IF Logged(lh, b) THEN lh ELSE Append(lh, b)
  BY Zenon, RoomToWrite
<1>2. ~Down /\ \A l \in CommitLabels : ~Stage(l)
  BY Zenon, <1>0, NoStage DEF log_write, Down
<1>3. Distinct(lh) /\ CacheInv /\ Uncommitted
  BY Zenon, <1>2 DEF DataInv, CommitLabels
<1>4. \A x : Logged(lh', x) <=> Logged(lh, x) \/ x = b
  BY Zenon, <1>1, AppendLogged DEF TypeOK
<1>5. Distinct(lh')
  BY Zenon, <1>1, <1>3, AppendDistinct DEF TypeOK
<1>6. CacheInv'
  <2>1. id[p] # Absent
    BY <1>0 DEF Ops, Absent
  <2> QED
    BY Zenon, <1>0, <1>3, <1>4, <2>1 DEF CacheInv, TypeOK
<1>7. Uncommitted'
  <2>1. CASE Logged(lh, b)
    BY <1>0, <1>1, <1>3, <2>1 DEF Uncommitted, TypeOK
  <2>2. CASE ~Logged(lh, b)
    <3>1. /\ Len(lh') = Len(lh) + 1 /\ lh'[Len(lh) + 1] = b /\ Len(lh) \in Nat
          /\ \A i \in 1 .. Len(lh) : lh'[i] = lh[i] /\ lh[i] \in Blocks
      BY <1>1, <2>2 DEF TypeOK
    <3>2. \A i \in 1 .. Len(lh) : dirty'[lh[i]]
      BY Zenon, <1>0, <1>3, <3>1 DEF Uncommitted, TypeOK
    <3>3. dirty'[b]
      BY Zenon, <1>0 DEF TypeOK
    <3>4. \A i \in 1 .. Len(lh') : dirty'[lh'[i]]
      BY <3>1, <3>2, <3>3
    <3> QED
      BY Zenon, <1>0, <1>3, <3>4 DEF Uncommitted
  <2> QED
    BY Zenon, <2>1, <2>2
<1>8. Distinct(lh)'
  BY Zenon, <1>5 DEF Distinct
<1> QED
  BY Zenon, <1>0, <1>2, <1>6, <1>7, <1>8, DataQuiet DEF Stage, Down

\* One block of a committed group goes home, in commit or in recovery.
LEMMA InstallData ==
  ASSUME TypeOK, DataInv, Installing, tail < Len(lh), InstallNext, UNCHANGED <<logblock, header, lh>>
  PROVE  /\ lh[tail + 1] \in Blocks /\ Installing' /\ CacheInv'
         /\ \A b \in Blocks : b # lh[tail + 1] =>
              cache'[b] = cache[b] /\ dirty'[b] = dirty[b] /\ home'[b] = home[b]
         /\ \A i \in 1 .. Len(lh) : i # tail + 1 => lh[i] \in Blocks /\ lh[i] # lh[tail + 1]
<1> DEFINE b0 == lh[tail + 1]
<1>1. /\ tail \in Nat /\ Len(lh) \in Nat /\ tail + 1 \in 1 .. Len(lh) /\ b0 \in Blocks
      /\ \A i \in 1 .. Len(lh) : lh[i] \in Blocks
  BY DEF TypeOK
<1>2. \A i \in 1 .. Len(lh) : i # tail + 1 => lh[i] # b0
  BY Zenon, <1>1 DEF DataInv, Distinct
<1>3. /\ home' = [home EXCEPT ![b0] = logblock[tail + 1]]
      /\ cache' = [cache EXCEPT ![b0] = logblock[tail + 1]]
      /\ dirty' = [dirty EXCEPT ![b0] = FALSE] /\ tail' = tail + 1
  BY Zenon DEF InstallNext
<1> HIDE DEF b0
<1>4. /\ \A b \in Blocks : b # b0 => cache'[b] = cache[b] /\ dirty'[b] = dirty[b] /\ home'[b] = home[b]
      /\ home'[b0] = logblock[tail + 1] /\ cache'[b0] = logblock[tail + 1] /\ dirty'[b0] = FALSE
  BY Zenon, <1>1, <1>3 DEF TypeOK
<1>5. CacheInv'
  BY Zenon, <1>4 DEF DataInv, CacheInv
<1>6. \A i \in 1 .. tail + 1 : home'[lh[i]] = logblock[i]
  <2> TAKE i \in 1 .. tail + 1
  <2>1. CASE i = tail + 1
    BY Zenon, <1>4, <2>1 DEF b0
  <2>2. CASE i # tail + 1
    <3>1. i \in 1 .. tail /\ i \in 1 .. Len(lh)
      BY <1>1, <2>2
    <3> QED
      BY Zenon, <1>1, <1>2, <1>4, <2>2, <3>1 DEF Installing, Installed
  <2> QED
    BY Zenon, <2>1, <2>2
<1>7. Installing'
  BY <1>1, <1>3, <1>6 DEF Installing, Installed
<1> QED
  BY Zenon, <1>1, <1>2, <1>4, <1>5, <1>7 DEF b0

\* The steps of commit up to the header write.
LEMMA CopyData ==
  ASSUME TypeOK, GroupInv, RoomInv, DataInv, NEW p \in Procs,
         commit(p) \/ write_log(p) \/ write_head(p)
  PROVE  DataInv'
<1> DEFINE l == pc[p]
<1>1. l \in CommitLabels /\ UNCHANGED <<home, cache, dirty, lh>>
  BY Zenon DEF commit, write_log, write_head, disk, CommitLabels
<1>2. ~Down /\ \A m \in CommitLabels : Stage(m) <=> m = l
  BY Zenon, <1>1, StageOf
<1>3. Distinct(lh) /\ Distinct(header) /\ CacheInv /\ CacheInv'
  BY Zenon, <1>1 DEF DataInv, CacheInv
<1>4. Uncommitted
  BY Zenon, <1>2 DEF DataInv, CommitLabels, commit, write_log, write_head
<1>5. CASE commit(p)
  <2> DEFINE n == IF lh = <<>> THEN "committed" ELSE "write_log"
  <2>1. n \in CommitLabels /\ pc' = [pc EXCEPT ![p] = n] /\ UNCHANGED <<header, tail, logblock>>
    BY Zenon, <1>5 DEF commit, Goto, CommitLabels, disk
  <2>2. ~Down' /\ \A m \in CommitLabels : Stage(m)' <=> m = n
    BY Zenon, <1>1, <2>1, StageAfter
  <2>3. tail = 0 /\ Len(lh) \in Nat
    BY <1>2, <1>5 DEF commit, DataInv, CommitLabels, TypeOK
  <2> QED
    BY <1>1, <1>3, <1>4, <2>1, <2>2, <2>3 DEF DataInv, Uncommitted, Copied, CommitLabels, Distinct
<1>6. CASE write_log(p) /\ tail < Len(lh)
  <2>1. /\ logblock' = [logblock EXCEPT ![tail + 1] = bread(lh[tail + 1])] /\ tail' = tail + 1
        /\ UNCHANGED <<pc, header>>
    BY <1>6 DEF write_log, TypeOK
  <2>2. /\ ~Down' /\ \A m \in CommitLabels : Stage(m)' <=> m = "write_log"
        /\ tail \in Nat /\ Len(lh) \in Nat /\ Copied(tail)
    BY SMTT(30), <1>2, <1>6, <2>1 DEF write_log, Down, Stage, TypeOK, DataInv, CommitLabels
  <2>3. lh[tail + 1] \in Blocks /\ bread(lh[tail + 1]) = cache[lh[tail + 1]]
    BY SMTT(30), <1>3, <1>4, <1>6, <2>2 DEF TypeOK, Uncommitted, CacheInv, bread
  <2>4. tail + 1 \in 1 .. NLOG - 1
    BY <1>6, <2>2, LogAssumption DEF RoomInv, CallInv
  <2>5. \A i \in 1 .. tail + 1 : logblock'[i] = cache[lh[i]]
    BY SMTT(30), <2>1, <2>2, <2>3, <2>4 DEF TypeOK, Copied
  <2> QED
    BY <1>1, <1>3, <1>4, <1>6, <2>1, <2>2, <2>5
    DEF DataInv, Uncommitted, Copied, CommitLabels, Distinct
<1>7. CASE write_log(p) /\ tail = Len(lh)
  <2>1. tail' = 0 /\ pc' = [pc EXCEPT ![p] = "write_head"] /\ UNCHANGED <<logblock, header>>
    BY <1>7 DEF write_log, TypeOK, Goto
  <2>2. ~Down' /\ \A m \in CommitLabels : Stage(m)' <=> m = "write_head"
    BY Zenon, <1>1, <2>1, StageAfter DEF CommitLabels
  <2>3. Copied(Len(lh))
    BY Zenon, <1>2, <1>7 DEF write_log, DataInv, CommitLabels
  <2>4. Distinct(lh)' /\ Distinct(header)' /\ Uncommitted'
    <3>1. lh' = lh /\ header' = header /\ dirty' = dirty
      BY Zenon, <1>1, <2>1
    <3>2. Distinct(lh)'
      BY Zenon, <1>3, <3>1 DEF Distinct
    <3>3. Distinct(header)'
      BY Zenon, <1>3, <3>1 DEF Distinct
    <3>4. Uncommitted'
      BY Zenon, <1>4, <3>1 DEF Uncommitted
    <3> QED
      BY Zenon, <3>1, <3>2, <3>3, <3>4
  <2>5. tail' = 0 /\ Copied(Len(lh))'
    BY Zenon, <1>1, <2>1, <2>3 DEF Copied
  <2> QED
    BY Zenon, <1>3, <2>2, <2>4, <2>5 DEF DataInv, CommitLabels
<1>8. CASE write_head(p)
  <2>1. /\ header' = lh /\ pc' = [pc EXCEPT ![p] = "install"] /\ UNCHANGED <<logblock, tail>>
    BY Zenon, <1>8 DEF write_head, Goto
  <2>2. ~Down' /\ \A m \in CommitLabels : Stage(m)' <=> m = "install"
    BY Zenon, <1>1, <2>1, StageAfter DEF CommitLabels
  <2>3. tail = 0 /\ Copied(Len(lh)) /\ Len(lh) \in Nat
    BY <1>2, <1>8 DEF write_head, DataInv, CommitLabels, TypeOK
  <2>4. Installing'
    BY <1>1, <2>1, <2>3 DEF Installing, Installed
  <2>5. Distinct(lh)' /\ Distinct(header)'
    BY Zenon, <1>1, <1>3, <2>1 DEF Distinct
  <2>6. \A i \in 1 .. Len(lh) : i > 0 /\ dirty[lh[i]] /\ cache[lh[i]] = logblock[i]
    BY <1>4, <2>3 DEF Uncommitted, Copied
  <2>7. \A i \in 1 .. Len(lh') : /\ i <= tail' => ~dirty'[lh'[i]]
                                 /\ i > tail' => dirty'[lh'[i]] /\ cache'[lh'[i]] = logblock'[i]
    BY <1>1, <2>1, <2>3, <2>6
  <2> QED
    BY Zenon, <1>3, <2>2, <2>4, <2>5, <2>7 DEF DataInv, CommitLabels
<1> QED
  BY Zenon, <1>5, <1>6, <1>7, <1>8 DEF write_log

\* The steps of commit from the header write on.
LEMMA InstallSteps ==
  ASSUME TypeOK, GroupInv, DataInv, NEW p \in Procs, install_trans(p) \/ erase(p)
  PROVE  DataInv'
<1> DEFINE l == pc[p]
<1>1. l \in CommitLabels /\ UNCHANGED logblock
  BY Zenon DEF install_trans, erase, CommitLabels
<1>2. ~Down /\ \A m \in CommitLabels : Stage(m) <=> m = l
  BY SMTT(30), <1>1, StageOf
<1>3. Distinct(lh) /\ Distinct(header) /\ CacheInv
  BY Zenon DEF DataInv
<1>4. CASE install_trans(p) /\ tail < Len(lh)
  <2>1. InstallNext /\ UNCHANGED <<lh, pc, header, logblock>>
    BY <1>4 DEF install_trans, TypeOK
  <2>2. /\ ~Down' /\ \A m \in CommitLabels : Stage(m)' <=> m = "install"
        /\ Installing
        /\ \A i \in 1 .. Len(lh) : /\ i <= tail => ~dirty[lh[i]]
                                   /\ i > tail => dirty[lh[i]] /\ cache[lh[i]] = logblock[i]
    BY Zenon, <1>2, <1>4, <2>1 DEF install_trans, Down, Stage, DataInv, CommitLabels
  <2>3. /\ lh[tail + 1] \in Blocks /\ Installing' /\ CacheInv'
        /\ \A b \in Blocks : b # lh[tail + 1] => cache'[b] = cache[b] /\ dirty'[b] = dirty[b]
        /\ \A i \in 1 .. Len(lh) : i # tail + 1 => lh[i] \in Blocks /\ lh[i] # lh[tail + 1]
    BY Zenon, <1>4, <2>1, <2>2, InstallData
  <2>4. tail' = tail + 1 /\ tail \in Nat /\ ~dirty'[lh[tail + 1]]
    BY SMTT(30), <2>1, <2>3 DEF InstallNext, TypeOK
  <2>5. \A i \in 1 .. Len(lh) : /\ i <= tail' => ~dirty'[lh[i]]
                                /\ i > tail' => dirty'[lh[i]] /\ cache'[lh[i]] = logblock[i]
    BY <2>2, <2>3, <2>4
  <2> QED
    BY <1>3, <2>1, <2>2, <2>3, <2>5 DEF DataInv, CommitLabels, Distinct
<1>5. CASE install_trans(p) /\ tail = Len(lh)
  <2>1. /\ tail' = 0 /\ lh' = <<>> /\ pc' = [pc EXCEPT ![p] = "erase"]
        /\ UNCHANGED <<home, cache, dirty, header>>
    BY <1>5 DEF install_trans, TypeOK, Goto
  <2>2. ~Down' /\ \A m \in CommitLabels : Stage(m)' <=> m = "erase"
    BY Zenon, <1>1, <2>1, StageAfter DEF CommitLabels
  <2>3. Installing /\ Installed(header, Len(header)) /\ \A i \in 1 .. Len(lh) : ~dirty[lh[i]]
    BY SMTT(30), <1>2, <1>5 DEF install_trans, DataInv, CommitLabels, Installing, TypeOK
  <2>4. \A b \in Blocks : ~dirty[b]
    BY Zenon, <1>3, <2>3 DEF CacheInv, Logged
  <2>5. CacheInv' /\ Distinct(lh)'
    <3>1. CacheInv'
      BY Zenon, <1>3, <2>1, <2>4 DEF CacheInv
    <3> QED
      BY SMTT(30), <2>1, <3>1 DEF Distinct
  <2> QED
    BY Zenon, <1>1, <1>3, <2>1, <2>2, <2>3, <2>5 DEF DataInv, Installed, CommitLabels, Distinct
<1>6. CASE erase(p)
  <2>1. /\ header' = lh /\ pc' = [pc EXCEPT ![p] = "committed"]
        /\ UNCHANGED <<home, cache, dirty, lh, tail>>
    BY <1>6 DEF erase, Goto
  <2>2. ~Down' /\ \A m \in CommitLabels : Stage(m)' <=> m = "committed"
    BY Zenon, <1>1, <2>1, StageAfter DEF CommitLabels
  <2>3. lh = <<>> /\ CacheInv'
    BY Zenon, <1>2, <1>3, <1>6, <2>1 DEF erase, DataInv, CacheInv, CommitLabels
  <2>4. lh' = <<>> /\ header' = <<>>
    BY Zenon, <2>1, <2>3
  <2>5. \A i : i \notin 1 .. Len(<<>>)
    OBVIOUS
  <2>6. Distinct(lh)' /\ Distinct(header)' /\ Uncommitted'
    BY Zenon, <2>4, <2>5 DEF Distinct, Uncommitted
  <2> QED
    BY Zenon, <2>2, <2>3, <2>6 DEF DataInv, CommitLabels
<1> QED
  BY Zenon, <1>4, <1>5, <1>6 DEF install_trans

\* Recovery, which reads the header that the crash left.
LEMMA RecoverData ==
  ASSUME TypeOK, GroupInv, DataInv, recover_from_log
  PROVE  DataInv'
<1>1. /\ Down /\ Installing /\ CacheInv /\ Distinct(lh) /\ Distinct(header)
      /\ \A b \in Blocks : ~dirty[b]
  BY Zenon DEF recover_from_log, DataInv
<1>2. \A l \in CommitLabels : ~Stage(l)
  BY Zenon, <1>1 DEF Down, Stage, CommitLabels
<1>3. CASE tail < Len(lh)
  <2>1. InstallNext /\ UNCHANGED <<lh, pc, header, logblock>>
    BY SMTT(30), <1>3 DEF recover_from_log, TypeOK
  <2>2. Installing' /\ CacheInv' /\ lh[tail + 1] \in Blocks
    BY Zenon, <1>1, <1>3, <2>1, InstallData
  <2>3. \A b \in Blocks : ~dirty'[b]
    BY Zenon, <1>1, <2>1, <2>2 DEF InstallNext, TypeOK
  <2>4. Down' /\ \A l \in CommitLabels : ~Stage(l)'
    BY Zenon, <1>1, <1>2, <2>1 DEF Down, Stage
  <2> QED
    BY Zenon, <1>1, <2>1, <2>2, <2>3, <2>4 DEF DataInv, CommitLabels, Distinct
<1>4. CASE tail = Len(lh)
  <2>1. /\ header' = <<>> /\ lh' = <<>> /\ pc' = [p \in Procs |-> "idle"]
        /\ UNCHANGED <<home, cache, dirty>>
    BY <1>4 DEF recover_from_log, TypeOK
  <2>2. ~Down' /\ \A l \in CommitLabels : ~Stage(l)'
    BY Zenon, <2>1, LogAssumption DEF Down, Stage, CommitLabels
  <2>3. CacheInv' /\ Distinct(lh)' /\ Uncommitted'
    BY <1>1, <2>1 DEF CacheInv, Distinct, Uncommitted
  <2> QED
    BY Zenon, <2>2, <2>3, DataQuiet
<1> QED
  BY Zenon, <1>3, <1>4 DEF recover_from_log

\* A crash empties the cache and leaves on the disk what recovery needs.
LEMMA CrashData ==
  ASSUME DataInv, TypeOK, Crash
  PROVE  DataInv'
<1>1. /\ pc' = [p \in Procs |-> "down"] /\ cache' = [b \in Blocks |-> Absent]
      /\ dirty' = [b \in Blocks |-> FALSE] /\ tail' = 0 /\ lh' = header /\ UNCHANGED header
  BY Zenon DEF Crash, disk
<1>2. Down' /\ \A l \in CommitLabels : ~Stage(l)'
  BY Zenon, <1>1 DEF Down, Stage, CommitLabels
<1>3. CacheInv' /\ \A b \in Blocks : ~dirty'[b]
  BY Zenon, <1>1 DEF CacheInv
<1>4. Distinct(lh)' /\ Distinct(header)'
  BY Zenon, <1>1 DEF DataInv, Distinct
<1>5. Installing'
  BY <1>1 DEF Installing, Installed, TypeOK
<1> QED
  BY Zenon, <1>2, <1>3, <1>4, <1>5 DEF DataInv, CommitLabels

\* Every step keeps the contents where recovery finds them.
LEMMA DataStep ==
  ASSUME TypeOK, GroupInv, RoomInv, DataInv, GroupInv', [Next]_vars
  PROVE  DataInv'
<1>0. pc \in [Procs -> Labels]
  BY Zenon DEF TypeOK
<1>1. ASSUME NEW p \in Procs, Start(p) \/ begin_op(p) PROVE DataInv'
  <2>1. /\ UNCHANGED <<home, logblock, header, cache, dirty, lh, tail>>
        /\ pc[p] \in {"idle", "begin"}
        /\ \E l \in {"begin", "op", "sleeping"} : pc' = [pc EXCEPT ![p] = l]
    BY Zenon, <1>1 DEF Start, begin_op, Goto, disk
  <2>2. (\A l \in CommitLabels : Stage(l)' <=> Stage(l)) /\ (Down' <=> Down)
    BY SMTT(30), <2>1, <1>0 DEF Stage, Down, CommitLabels
  <2> QED
    BY Zenon, <2>1, <2>2, DataKept
<1>2. ASSUME NEW p \in Procs, end_op(p) PROVE DataInv'
  <2>1. /\ pc[p] = "op" /\ ~committing /\ tail' = 0
        /\ UNCHANGED <<home, logblock, header, cache, dirty, lh>>
    BY Zenon, <1>2 DEF end_op, disk, GroupInv, Active
  <2>2. ~Down /\ \A l \in CommitLabels : ~Stage(l)
    BY Zenon, <2>1, NoStage DEF Down
  <2>3. Distinct(lh) /\ Distinct(header) /\ CacheInv /\ Uncommitted
    BY Zenon, <2>2 DEF DataInv, CommitLabels
  <2>4. Distinct(lh)' /\ Distinct(header)' /\ CacheInv' /\ Uncommitted'
    BY <2>1, <2>3 DEF Distinct, CacheInv, Uncommitted
  <2>5. \/ pc' = [pc EXCEPT ![p] = "commit"]
        \/ pc' = WakeAll([pc EXCEPT ![p] = "idle"])
    BY Zenon, <1>2, <2>1 DEF end_op
  <2>6. ~Down' /\ \A l \in CommitLabels : Stage(l)' => l = "commit"
    BY Zenon, <1>0, <2>2, <2>5 DEF Down, Stage, WakeAll, CommitLabels
  <2> QED
    BY Zenon, <2>1, <2>4, <2>6 DEF DataInv, CommitLabels
<1>3. ASSUME NEW p \in Procs, committed(p) PROVE DataInv'
  <2>1. /\ pc[p] = "committed" /\ committing' = FALSE
        /\ UNCHANGED <<home, logblock, header, cache, dirty, lh>>
        /\ pc' = WakeAll([pc EXCEPT ![p] = "idle"])
    BY Zenon, <1>3 DEF committed, disk
  <2>2. ~Down /\ \A l \in CommitLabels : Stage(l) <=> l = "committed"
    BY Zenon, <2>1, StageOf DEF CommitLabels
  <2>3. ~Down' /\ \A l \in CommitLabels : ~Stage(l)'
    <3>1. pc'[p] = "idle"
      BY Zenon, <1>0, <2>1 DEF WakeAll
    <3>2. \A l \in CommitLabels : ~Stage(l)'
      BY Zenon, <2>1 DEF GroupInv, Stage
    <3> QED
      BY Zenon, <3>1, <3>2 DEF Down
  <2>4. Distinct(lh)' /\ CacheInv' /\ Uncommitted'
    BY SMTT(30), <2>1, <2>2 DEF DataInv, Distinct, CacheInv, Uncommitted, CommitLabels
  <2> QED
    BY Zenon, <2>3, <2>4, DataQuiet
<1>4. ASSUME NEW b \in Blocks, Evict(b) PROVE DataInv'
  <2>1. /\ ~dirty[b] /\ cache' = [cache EXCEPT ![b] = Absent]
        /\ UNCHANGED <<home, logblock, header, dirty, lh, tail, pc>>
    BY SMTT(30), <1>4 DEF Evict, Evictable, disk
  <2>2. /\ \A c \in Blocks : dirty[c] => cache'[c] = cache[c]
        /\ CacheInv'
    BY Zenon, <2>1 DEF DataInv, CacheInv, TypeOK
  <2>3. \A i \in 1 .. Len(lh) : lh[i] \in Blocks
    BY DEF TypeOK
  <2>4. (\A l : Stage(l)' <=> Stage(l)) /\ (Down' <=> Down)
    BY Zenon, <2>1 DEF Stage, Down
  <2>5. ASSUME NEW n \in 0 .. Len(lh), Copied(n), Uncommitted PROVE Copied(n)'
    BY SMTT(30), <2>1, <2>2, <2>3, <2>5 DEF Copied, Uncommitted, TypeOK
  <2>6. ASSUME Stage("write_log") \/ Stage("write_head") PROVE Uncommitted
    <3>1. \E p \in Procs : pc[p] \in {"write_log", "write_head"}
      BY Zenon, <2>6 DEF Stage
    <3> QED
      BY Zenon, <3>1, StageOf DEF DataInv, CommitLabels
  <2>7. /\ Stage("write_log")' => tail' <= Len(lh') /\ Copied(tail)'
        /\ Stage("write_head")' => tail' = 0 /\ Copied(Len(lh))'
    BY SMTT(30), <2>1, <2>4, <2>5, <2>6 DEF DataInv, TypeOK
  <2>8. Stage("install")' =>
          /\ Installing'
          /\ \A i \in 1 .. Len(lh') : /\ i <= tail' => ~dirty'[lh'[i]]
                                      /\ i > tail' => dirty'[lh'[i]] /\ cache'[lh'[i]] = logblock'[i]
    <3> SUFFICES ASSUME Stage("install")'
                 PROVE  /\ Installing'
                        /\ \A i \in 1 .. Len(lh) : /\ i <= tail => ~dirty[lh[i]]
                                                   /\ i > tail => dirty[lh[i]] /\ cache'[lh[i]] = logblock[i]
      BY Zenon, <2>1
    <3>1. /\ Installing
          /\ \A i \in 1 .. Len(lh) : /\ i <= tail => ~dirty[lh[i]]
                                     /\ i > tail => dirty[lh[i]] /\ cache[lh[i]] = logblock[i]
      BY Zenon, <2>4 DEF DataInv
    <3>2. Installing'
      BY Zenon, <2>1, <3>1 DEF Installing, Installed
    <3> QED
      BY Zenon, <2>2, <2>3, <3>1, <3>2
  <2>9. /\ Distinct(lh)' /\ Distinct(header)'
        /\ ~Down' /\ ~Stage("install")' /\ ~Stage("erase")' => Uncommitted'
        /\ Stage("commit")' => tail' = 0
        /\ Stage("erase")' => lh' = <<>> /\ Installed(header, Len(header))'
        /\ Down' => Installing' /\ \A c \in Blocks : ~dirty'[c]
    <3>1. Distinct(lh)' /\ Distinct(header)'
      BY Zenon, <2>1 DEF DataInv, Distinct
    <3>2. (Uncommitted' <=> Uncommitted) /\ (Installing' <=> Installing)
      BY Zenon, <2>1 DEF Uncommitted, Installing, Installed
    <3>3. Installed(header, Len(header))' <=> Installed(header, Len(header))
      BY Zenon, <2>1 DEF Installed
    <3> QED
      BY Zenon, <2>1, <2>4, <3>1, <3>2, <3>3 DEF DataInv
  <2> QED
    BY Zenon, <2>2, <2>7, <2>8, <2>9 DEF DataInv
<1>5. CASE UNCHANGED vars
  BY Zenon, <1>5, DataKept DEF vars, disk, Stage, Down
<1> QED
  BY Zenon, <1>1, <1>2, <1>3, <1>4, <1>5, CopyData, InstallSteps, WriteData, RecoverData, CrashData, StepCases

-----------------------------------------------------------------------------
\* The state after boot satisfies the invariant.
LEMMA InitIInv ==
  ASSUME Init
  PROVE  IInv
<1>1. pc = [p \in Procs |-> "idle"] /\ wrote = [p \in Procs |-> {}] /\ writes = [p \in Procs |-> 0]
  BY Zenon DEF Init, Fresh
<1>2. Active = {} /\ Reserved = {}
  BY Zenon, <1>1 DEF Active, Reserved
<1>3. Cardinality(Active) = 0 /\ Cardinality(Reserved) = 0 /\ IsFiniteSet({}) /\ Cardinality({}) = 0
  BY Zenon, <1>2, FS_EmptySet
<1>4. ~Down /\ \A l \in CommitLabels : ~Stage(l)
  BY Zenon, <1>1, LogAssumption DEF Down, Stage, CommitLabels
<1>5. GroupInv
  BY Zenon, <1>1, <1>2, <1>3 DEF Init, Fresh, GroupInv, CommitLabels, Stage
<1>6. RoomInv
  BY <1>1, <1>3, LogAssumption DEF Init, Fresh, RoomInv, CallInv
<1>7. DataInv
  BY <1>4 DEF Init, Fresh, DataInv, CacheInv, Uncommitted, Distinct, CommitLabels
<1>8. TypeOK
  <2>1. Zero \in Ops /\ 0 \in Ops /\ Cardinality(Procs) \in Nat
    BY LogAssumption, FS_CardinalityType DEF Ops, Zero
  <2>2. "idle" \in Labels
    BY Zenon DEF Labels
  <2> QED
    <3>1. home \in [Blocks -> Ops] /\ logblock \in [1 .. (NLOG - 1) -> Ops]
      BY Zenon, <2>1 DEF Init
    <3>2. header = <<>> /\ lh = <<>> /\ Len(header) <= LOGSIZE /\ tail \in 0 .. LOGSIZE
      BY LogAssumption DEF Init, Fresh
    <3>3. pc \in [Procs -> Labels] /\ id \in [Procs -> Ops] /\ wrote \in [Procs -> SUBSET Blocks]
          /\ writes \in [Procs -> Nat] /\ nops \in Ops
      BY <1>1, <2>1, <2>2 DEF Init, Fresh
    <3>4. cache \in [Blocks -> Ops \cup {Absent}] /\ dirty \in [Blocks -> BOOLEAN]
      BY Zenon DEF Init, Fresh
    <3>5. outstanding \in 0 .. Cardinality(Procs) /\ committing \in BOOLEAN
      <4>1. outstanding = 0 /\ committing = FALSE
        BY Zenon DEF Init, Fresh
      <4>2. committing \in BOOLEAN
        BY Zenon, <4>1
      <4>3. 0 \in 0 .. Cardinality(Procs)
        BY <2>1
      <4> QED
        BY Zenon, <4>1, <4>2, <4>3
    <3>6. header \in Seq(Blocks) /\ lh \in Seq(Blocks) /\ Len(lh) <= LOGSIZE
      BY <3>2
    <3> QED
      BY Zenon, <3>1, <3>2, <3>3, <3>4, <3>5, <3>6 DEF TypeOK
<1> QED
  BY Zenon, <1>5, <1>6, <1>7, <1>8 DEF IInv

\* Every step keeps the types; the log stays within LOGSIZE because of RoomInv.
LEMMA TypeStep ==
  ASSUME TypeOK, GroupInv, RoomInv, GroupInv', DataInv, [Next]_vars
  PROVE  TypeOK'
<1>0. outstanding' \in 0 .. Cardinality(Procs)
  <2>1. Active' \subseteq Procs
    BY Zenon DEF Active
  <2>2. Cardinality(Active') <= Cardinality(Procs) /\ IsFiniteSet(Active')
    BY Zenon, <2>1, LogAssumption, FS_Subset
  <2>3. Cardinality(Active') \in Nat /\ Cardinality(Procs) \in Nat
    BY Zenon, <2>2, LogAssumption, FS_CardinalityType
  <2> QED
    BY <2>2, <2>3 DEF GroupInv
<1>a. ASSUME NEW p \in Procs, NEW l \in Labels PROVE [pc EXCEPT ![p] = l] \in [Procs -> Labels]
  BY Zenon DEF TypeOK
<1>b. \A q \in [Procs -> Labels] : WakeAll(q) \in [Procs -> Labels]
  BY Zenon DEF WakeAll, Labels
<1>c. tail \in Nat /\ Len(lh) \in Nat /\ (tail < Len(lh) => tail + 1 \in 0 .. LOGSIZE)
      /\ 0 \in 0 .. LOGSIZE
  BY LogAssumption DEF TypeOK
<1>1. ASSUME NEW p \in Procs, Start(p) PROVE TypeOK'
  <2>1. pc' \in [Procs -> Labels]
    BY Zenon, <1>1, <1>a DEF Start, Goto, Labels
  <2>2. nops + 1 \in Ops
    BY <1>1, LogAssumption DEF Start, TypeOK, Ops
  <2> QED
    BY Zenon, <1>0, <1>1, <2>1, <2>2 DEF Start, TypeOK, disk
<1>2. ASSUME NEW p \in Procs, begin_op(p) PROVE TypeOK'
  <2>1. pc' \in [Procs -> Labels]
    BY <1>2, <1>a DEF begin_op, Goto, Labels
  <2> QED
    BY Zenon, <1>0, <1>2, <2>1 DEF begin_op, TypeOK, disk
<1>3. ASSUME NEW p \in Procs, end_op(p) PROVE TypeOK'
  <2>1. pc' \in [Procs -> Labels] /\ committing' \in BOOLEAN
    <3>1. "commit" \in Labels /\ "idle" \in Labels
      BY Zenon DEF Labels
    <3>2. /\ [pc EXCEPT ![p] = "commit"] \in [Procs -> Labels]
          /\ WakeAll([pc EXCEPT ![p] = "idle"]) \in [Procs -> Labels]
      BY Zenon, <1>a, <1>b, <3>1
    <3> QED
      BY Zenon, <1>3, <3>2 DEF end_op, TypeOK
  <2> QED
    BY Zenon, <1>0, <1>3, <1>c, <2>1 DEF end_op, TypeOK, disk
<1>4. ASSUME NEW p \in Procs, commit(p) PROVE TypeOK'
  <2>1. pc' \in [Procs -> Labels]
    BY Zenon, <1>4, <1>a DEF commit, Goto, Labels
  <2> QED
    BY Zenon, <1>0, <1>4, <2>1 DEF commit, TypeOK, disk
<1>5. ASSUME NEW p \in Procs, write_log(p) PROVE TypeOK'
  <2>1. pc' \in [Procs -> Labels]
    BY Zenon, <1>5, <1>a DEF write_log, Goto, Labels, TypeOK
  <2>2. tail' \in 0 .. LOGSIZE
    BY Zenon, <1>5, <1>c DEF write_log
  <2>3. logblock' \in [1 .. (NLOG - 1) -> Ops]
    <3>1. CASE tail < Len(lh) /\ logblock' = [logblock EXCEPT ![tail + 1] = bread(lh[tail + 1])]
      <4>1. lh[tail + 1] \in Blocks
        BY <1>c, <3>1 DEF TypeOK
      <4>2. bread(lh[tail + 1]) \in Ops
        BY Zenon, <4>1 DEF bread, TypeOK
      <4> QED
        BY Zenon, <3>1, <4>2 DEF TypeOK
    <3>2. CASE logblock' = logblock
      BY Zenon, <3>2 DEF TypeOK
    <3> QED
      BY Zenon, <1>5, <3>1, <3>2 DEF write_log
  <2> QED
    BY Zenon, <1>0, <1>5, <2>1, <2>2, <2>3 DEF write_log, TypeOK
<1>6. ASSUME NEW p \in Procs, write_head(p) \/ erase(p) PROVE TypeOK'
  <2>1. pc' \in [Procs -> Labels]
    BY <1>6, <1>a DEF write_head, erase, Goto, Labels
  <2> QED
    BY Zenon, <1>0, <1>6, <2>1 DEF write_head, erase, TypeOK
<1>7. ASSUME tail < Len(lh), InstallNext, Installing
      PROVE  /\ home' \in [Blocks -> Ops] /\ cache' \in [Blocks -> Ops \cup {Absent}]
             /\ dirty' \in [Blocks -> BOOLEAN] /\ tail' \in 0 .. LOGSIZE
  <2>1. tail + 1 \in 1 .. NLOG - 1
    BY <1>7, <1>c, LogAssumption DEF RoomInv
  <2>2. logblock[tail + 1] \in Ops
    BY Zenon, <2>1 DEF TypeOK
  <2> QED
    BY Zenon, <1>7, <1>c, <2>2 DEF InstallNext, TypeOK
<1>8. ASSUME NEW p \in Procs, install_trans(p) PROVE TypeOK'
  <2>1. pc' \in [Procs -> Labels]
    BY Zenon, <1>8, <1>a DEF install_trans, Goto, Labels, TypeOK
  <2>2. Installing
    <3>1. Stage("install")
      BY SMTT(30), <1>8 DEF install_trans, Stage
    <3> QED
      BY Zenon, <3>1 DEF DataInv
  <2>3. CASE tail < Len(lh) /\ InstallNext /\ UNCHANGED <<lh, pc>>
    BY SMTT(30), <1>0, <1>7, <1>8, <2>1, <2>2, <2>3 DEF install_trans, TypeOK
  <2>4. CASE tail' = 0 /\ lh' = <<>> /\ UNCHANGED <<home, cache, dirty>>
    BY <1>0, <1>8, <1>c, <2>1, <2>4 DEF install_trans, TypeOK
  <2> QED
    BY Zenon, <1>8, <2>3, <2>4 DEF install_trans
<1>9. ASSUME NEW p \in Procs, committed(p) PROVE TypeOK'
  <2>1. pc' \in [Procs -> Labels]
    BY Zenon, <1>9, <1>a, <1>b DEF committed, Labels
  <2> QED
    BY Zenon, <1>0, <1>9, <2>1 DEF committed, TypeOK, disk
<1>10. ASSUME NEW p \in Procs, NEW b \in Blocks, log_write(p, b) PROVE TypeOK'
  <2>1. lh' \in Seq(Blocks) /\ Len(lh') <= LOGSIZE
    <3>1. Len(lh) < LOGSIZE /\ lh' = IF Logged(lh, b) THEN lh ELSE Append(lh, b)
      BY Zenon, <1>10, RoomToWrite
    <3>2. /\ lh \in Seq(Blocks) /\ Append(lh, b) \in Seq(Blocks)
          /\ Len(Append(lh, b)) = Len(lh) + 1 /\ Len(lh) \in Nat
      BY DEF TypeOK
    <3> QED
      BY <3>1, <3>2, LogAssumption
  <2>2. cache' \in [Blocks -> Ops \cup {Absent}] /\ dirty' \in [Blocks -> BOOLEAN]
    BY Zenon, <1>10 DEF log_write, TypeOK
  <2>3. wrote' \in [Procs -> SUBSET Blocks] /\ writes' \in [Procs -> Nat]
    <3>1. wrote[p] \cup {b} \in SUBSET Blocks /\ writes[p] + 1 \in Nat
      BY DEF TypeOK
    <3>2. /\ wrote' = [wrote EXCEPT ![p] = wrote[p] \cup {b}]
          /\ writes' = [writes EXCEPT ![p] = writes[p] + 1]
      BY Zenon, <1>10 DEF log_write
    <3> QED
      BY Zenon, <3>1, <3>2 DEF TypeOK
  <2> QED
    BY Zenon, <1>0, <1>10, <2>1, <2>2, <2>3 DEF log_write, TypeOK, disk
<1>11. ASSUME NEW b \in Blocks, Evict(b) PROVE TypeOK'
  BY Zenon, <1>0, <1>11 DEF Evict, TypeOK, disk
<1>12. CASE Crash
  <2>1. pc' \in [Procs -> Labels] /\ id' \in [Procs -> Ops]
    BY <1>12, LogAssumption DEF Crash, Labels, Ops
  <2> QED
    BY Zenon, <1>0, <1>12, <1>c, <2>1 DEF Crash, TypeOK, disk
<1>13. CASE recover_from_log
  <2>1. pc' \in [Procs -> Labels]
    BY SMTT(30), <1>13 DEF recover_from_log, Labels, TypeOK
  <2>2. Installing
    BY Zenon, <1>13 DEF recover_from_log, DataInv
  <2>3. CASE tail < Len(lh) /\ InstallNext /\ UNCHANGED <<header, lh, pc>>
    BY SMTT(30), <1>0, <1>7, <1>13, <2>1, <2>2, <2>3 DEF recover_from_log, TypeOK
  <2>4. CASE header' = <<>> /\ lh' = <<>> /\ tail' = 0 /\ UNCHANGED <<home, cache, dirty>>
    BY SMTT(30), <1>0, <1>13, <1>c, <2>1, <2>4 DEF recover_from_log, TypeOK
  <2> QED
    BY Zenon, <1>13, <2>3, <2>4 DEF recover_from_log
<1>14. CASE UNCHANGED vars
  BY Zenon, <1>14 DEF vars, disk, TypeOK
<1> QED
  BY SMTT(30), <1>1, <1>2, <1>3, <1>4, <1>5, <1>6, <1>8, <1>9, <1>10, <1>11, <1>12, <1>13, <1>14, StepCases

\* IInv is an inductive invariant of the log.
THEOREM Invariance == Spec => []IInv
<1>1. IInv /\ [Next]_vars => IInv'
  BY Zenon, GroupStep, RoomStep, DataStep, TypeStep DEF IInv
<1> QED
  BY InitIInv, <1>1, PTL DEF Spec

\* For any number of processes, blocks, calls and crashes, and any sizes that satisfy
\* LogAssumption: log_write and end_op never panic, and commit runs alone.
THEOREM CommitsAlone == Spec => []CommitAlone
<1>1. IInv => CommitAlone
  <2> SUFFICES ASSUME IInv PROVE CommitAlone
    BY Zenon
  <2> DEFINE C == {p \in Procs : pc[p] \in CommitLabels}
  <2>1. ASSUME committing PROVE outstanding = 0 /\ Cardinality(C) = 1
    <3>1. outstanding = 0
      BY Zenon, <2>1, FS_EmptySet DEF IInv, GroupInv
    <3>2. PICK p \in Procs : pc[p] \in CommitLabels
      BY Zenon, <2>1 DEF IInv, GroupInv
    <3>3. C = {p}
      BY Zenon, <3>2 DEF IInv, GroupInv
    <3> QED
      BY Zenon, <3>1, <3>3, FS_Singleton
  <2> QED
    BY Zenon, <2>1 DEF CommitAlone, CommitLabels, IInv, GroupInv
<1> QED
  BY Invariance, <1>1, PTL

-----------------------------------------------------------------------------
\* The refinement mapping of Atomic.
Current == [b \in Blocks |-> IF Down THEN Recovered(b) ELSE bread(b)]
Stable  == [b \in Blocks |-> Recovered(b)]

\* A block that is not in the header is left as it is at home.
LEMMA RecoverHome ==
  ASSUME NEW b \in Blocks, ~Logged(header, b)
  PROVE  Recovered(b) = home[b]
  BY Zenon DEF Recovered

\* A block in the header is recovered from its place in the log, which is the only one.
LEMMA RecoverLogged ==
  ASSUME Distinct(header), NEW i \in 1 .. Len(header)
  PROVE  Recovered(header[i]) = logblock[i]
<1> DEFINE k == CHOOSE j \in 1 .. Len(header) : header[j] = header[i]
<1>1. k \in 1 .. Len(header) /\ header[k] = header[i]
  BY Zenon
<1>2. k = i
  BY Zenon, <1>1 DEF Distinct
<1>3. Logged(header, header[i])
  BY Zenon DEF Logged
<1> QED
  BY Zenon, <1>2, <1>3 DEF Recovered

\* Before the header is written, and once all of a group is installed, recovery would
\* leave every block as it is at home.
LEMMA RecoverAtHome ==
  ASSUME TypeOK, Distinct(header), Installed(header, Len(header))
  PROVE  \A b \in Blocks : Recovered(b) = home[b]
<1> TAKE b \in Blocks
<1>1. CASE ~Logged(header, b)
  BY Zenon, <1>1, RecoverHome
<1>2. CASE Logged(header, b)
  <2>1. PICK i \in 1 .. Len(header) : header[i] = b
    BY Zenon, <1>2 DEF Logged
  <2> QED
    BY Zenon, <2>1, RecoverLogged DEF Installed
<1> QED
  BY Zenon, <1>1, <1>2

\* Without a header on the disk recovery leaves the home locations as they are.
LEMMA UncommittedAtHome ==
  ASSUME TypeOK, Uncommitted
  PROVE  \A b \in Blocks : Recovered(b) = home[b]
<1>1. header = <<>>
  BY Zenon DEF Uncommitted
<1>2. Distinct(header) /\ Installed(header, Len(header))
  BY <1>1 DEF Distinct, Installed
<1> QED
  BY Zenon, <1>2, RecoverAtHome

\* A clean buffer has what the disk has.
LEMMA CleanReadsHome ==
  ASSUME CacheInv, NEW b \in Blocks, ~dirty[b]
  PROVE  bread(b) = home[b]
  BY Zenon DEF CacheInv, bread

\* From the header write to the end of the installation, what calls would read is what
\* recovery would leave.
LEMMA CommittedIsStable ==
  ASSUME TypeOK, DataInv, Down \/ Stage("install") \/ Stage("erase")
  PROVE  Current = Stable
<1>1. CASE Down
  BY Zenon, <1>1 DEF Current, Stable
<1>2. CASE ~Down /\ Stage("install")
  <2>0. /\ Installing /\ CacheInv /\ Distinct(header)
        /\ \A i \in 1 .. Len(lh) : /\ i <= tail => ~dirty[lh[i]]
                                   /\ i > tail => dirty[lh[i]] /\ cache[lh[i]] = logblock[i]
    BY Zenon, <1>2 DEF DataInv
  <2>1. ASSUME NEW b \in Blocks PROVE bread(b) = Recovered(b)
    <3>1. CASE ~Logged(header, b)
      <4>1. ~dirty[b]
        BY Zenon, <2>0, <3>1 DEF CacheInv, Installing
      <4> QED
        BY Zenon, <2>0, <3>1, <4>1, RecoverHome, CleanReadsHome
    <3>2. CASE Logged(header, b)
      <4>1. PICK i \in 1 .. Len(lh) : lh[i] = b
        BY Zenon, <2>0, <3>2 DEF Logged, Installing
      <4>2. Recovered(b) = logblock[i]
        BY Zenon, <2>0, <4>1, RecoverLogged DEF Installing
      <4>3. CASE i <= tail
        <5>1. i \in 1 .. tail
          BY <4>3 DEF TypeOK
        <5>2. home[b] = logblock[i] /\ ~dirty[b]
          BY Zenon, <2>0, <4>1, <4>3, <5>1 DEF Installing, Installed
        <5> QED
          BY Zenon, <2>0, <4>2, <5>2, CleanReadsHome
      <4>4. CASE i > tail
        <5>1. cache[b] = logblock[i] /\ cache[b] # Absent
          BY Zenon, <2>0, <4>1, <4>4 DEF CacheInv
        <5> QED
          BY Zenon, <4>2, <5>1 DEF bread
      <4> QED
        BY <4>3, <4>4 DEF TypeOK
    <3> QED
      BY Zenon, <3>1, <3>2
  <2> QED
    BY Zenon, <1>2, <2>1 DEF Current, Stable
<1>3. CASE ~Down /\ Stage("erase")
  <2>0. lh = <<>> /\ Installed(header, Len(header)) /\ CacheInv /\ Distinct(header)
    BY Zenon, <1>3 DEF DataInv
  <2>1. \A b \in Blocks : ~dirty[b]
    BY <2>0 DEF CacheInv, Logged
  <2>2. \A b \in Blocks : bread(b) = home[b] /\ Recovered(b) = home[b]
    BY Zenon, <2>0, <2>1, CleanReadsHome, RecoverAtHome
  <2> QED
    BY Zenon, <1>3, <2>2 DEF Current, Stable
<1> QED
  BY Zenon, <1>1, <1>2, <1>3

\* What recovery would leave, by the state of the commit.
LEMMA StableNow ==
  IInv => /\ Down \/ Stage("install") \/ Stage("erase") => Current = Stable
          /\ Uncommitted => \A b \in Blocks : Recovered(b) = home[b]
  BY Zenon, CommittedIsStable, UncommittedAtHome DEF IInv

\* The same after a step.
LEMMA StableThen ==
  ASSUME IInv'
  PROVE  /\ Down' \/ Stage("install")' \/ Stage("erase")' => Current' = Stable'
         /\ Uncommitted' => \A b \in Blocks : Recovered(b)' = home'[b]
<1>1. (IInv => /\ Down \/ Stage("install") \/ Stage("erase") => Current = Stable
               /\ Uncommitted => \A b \in Blocks : Recovered(b) = home[b])'
  BY StableNow, PTL
<1> QED
  BY Zenon, <1>1

\* What recovery would leave depends on nothing but the disk, and, while the machine
\* is up, what calls read on nothing but the cache and the disk.
LEMMA SameDisk ==
  ASSUME UNCHANGED <<home, logblock, header>>
  PROVE  Stable' = Stable
  BY DEF Stable, Recovered

\* While the machine is up, current is what bread returns.
LEMMA SameReads ==
  ASSUME ~Down, ~Down', \A b \in Blocks : bread(b)' = bread(b)
  PROVE  Current' = Current
  BY Zenon DEF Current

\* bread returns the same when neither cache nor disk change.
LEMMA SameCache ==
  ASSUME UNCHANGED <<home, cache>>
  PROVE  \A b \in Blocks : bread(b)' = bread(b)
  BY Zenon DEF bread

\* One iteration of install_trans changes nothing of what recovery would leave.
LEMMA InstallStable ==
  ASSUME IInv, Installing, tail < Len(lh), InstallNext, UNCHANGED <<logblock, header, lh>>
  PROVE  Stable' = Stable
<1>1. \A b \in Blocks : b # lh[tail + 1] => home'[b] = home[b]
  BY Zenon, InstallData DEF IInv
<1>2. Logged(header, lh[tail + 1])
  BY DEF Installing, Logged, IInv, TypeOK
<1>3. \A b \in Blocks : Recovered(b)' = Recovered(b)
  BY <1>1, <1>2 DEF Recovered
<1> QED
  BY Zenon, <1>3 DEF Stable

-----------------------------------------------------------------------------
Stutter == UNCHANGED <<Current, Stable, Active>>

\* The steps that AtomicDisk does not see.
LEMMA CopyStutters ==
  ASSUME IInv, IInv', NEW p \in Procs, commit(p) \/ write_log(p)
  PROVE  Stutter
<1>1. pc[p] \in {"commit", "write_log"} /\ UNCHANGED <<home, header, cache>>
  BY Zenon DEF commit, write_log, disk
<1>2. ~Down /\ Uncommitted
  BY Zenon, <1>1, StageOf DEF IInv, DataInv, CommitLabels
<1>3. \E l \in {"committed", "write_log", "write_head"} : pc' = [pc EXCEPT ![p] = l]
  BY Zenon, <1>1 DEF commit, write_log, Goto, IInv, TypeOK
<1>4. Active' = Active /\ ~Down'
  BY Zenon, <1>1, <1>3 DEF Active, Down, IInv, TypeOK
<1>5. Uncommitted'
  BY Zenon, <1>1, <1>2 DEF Uncommitted, commit, write_log
<1>6. \A b \in Blocks : Recovered(b) = home[b] /\ Recovered(b)' = home[b]
  BY Zenon, <1>1, <1>2, <1>5, UncommittedAtHome, StableThen DEF IInv
<1>7. Stable' = Stable
  BY Zenon, <1>6 DEF Stable
<1> QED
  BY Zenon, <1>1, <1>2, <1>4, <1>7, SameReads, SameCache DEF Stutter

\* Installing a block changes neither what is read nor what recovery would leave.
LEMMA InstallStutters ==
  ASSUME IInv, IInv', NEW p \in Procs, install_trans(p)
  PROVE  Stutter
<1>1. pc[p] = "install" /\ UNCHANGED <<logblock, header>>
  BY Zenon DEF install_trans
<1>2. Stage("install") /\ Installing
  BY Zenon, <1>1 DEF IInv, DataInv, Stage
<1>3. pc' = pc \/ pc' = [pc EXCEPT ![p] = "erase"]
  BY Zenon DEF install_trans, Goto
<1>4. Active' = Active /\ (Stage("install")' \/ Stage("erase")')
  BY Zenon, <1>1, <1>3 DEF Active, Stage, IInv, TypeOK
<1>5. Stable' = Stable
  <2>1. CASE tail < Len(lh) /\ InstallNext /\ UNCHANGED lh
    BY Zenon, <1>1, <1>2, <2>1, InstallStable
  <2>2. CASE UNCHANGED home
    BY Zenon, <1>1, <2>2, SameDisk
  <2> QED
    BY Zenon, <2>1, <2>2 DEF install_trans
<1>6. Current = Stable /\ Current' = Stable'
  BY Zenon, <1>2, <1>4, CommittedIsStable, StableThen DEF IInv
<1> QED
  BY Zenon, <1>4, <1>5, <1>6 DEF Stutter

\* Erasing the header after every block is installed changes nothing either.
LEMMA EraseStutters ==
  ASSUME IInv, IInv', NEW p \in Procs, erase(p)
  PROVE  Stutter
<1>1. /\ pc[p] = "erase" /\ UNCHANGED <<home, cache, lh>> /\ header' = lh
      /\ pc' = [pc EXCEPT ![p] = "committed"]
  BY Zenon DEF erase, Goto
<1>2. Active' = Active /\ ~Down /\ ~Down'
  BY Zenon, <1>1 DEF Active, Down, IInv, TypeOK
<1>3. lh = <<>> /\ Installed(header, Len(header)) /\ Distinct(header)
  BY Zenon, <1>1 DEF IInv, DataInv, Stage
<1>4. Uncommitted'
  BY <1>1, <1>3 DEF Uncommitted
<1>5. \A b \in Blocks : Recovered(b) = home[b] /\ Recovered(b)' = home[b]
  BY Zenon, <1>1, <1>3, <1>4, RecoverAtHome, StableThen DEF IInv
<1>6. Stable' = Stable
  BY Zenon, <1>5 DEF Stable
<1> QED
  BY Zenon, <1>1, <1>2, <1>6, SameReads, SameCache DEF Stutter

\* A step of recovery leaves what the next recovery would leave.
LEMMA RecoverStutters ==
  ASSUME IInv, IInv', recover_from_log
  PROVE  Stutter
<1>1. Down /\ Installing /\ (\A b \in Blocks : ~dirty[b]) /\ Distinct(header) /\ Current = Stable
  BY Zenon, CommittedIsStable DEF recover_from_log, IInv, DataInv
<1>2. CASE tail < Len(lh)
  <2>1. InstallNext /\ UNCHANGED <<logblock, header, lh, pc>>
    BY <1>2 DEF recover_from_log, IInv, TypeOK
  <2>2. Stable' = Stable
    BY Zenon, <1>1, <1>2, <2>1, InstallStable
  <2>3. Down' /\ Active' = Active
    BY Zenon, <1>1, <2>1 DEF Down, Active
  <2>4. Current' = Stable'
    BY Zenon, <2>3, StableThen
  <2> QED
    BY Zenon, <1>1, <2>2, <2>3, <2>4 DEF Stutter
<1>3. CASE tail = Len(lh)
  <2>1. /\ header' = <<>> /\ lh' = <<>> /\ pc' = [p \in Procs |-> "idle"]
        /\ UNCHANGED <<home, cache, dirty, logblock>>
    BY <1>3 DEF recover_from_log, IInv, TypeOK
  <2>2. ~Down' /\ Active' = Active
    BY Zenon, <1>1, <2>1, LogAssumption DEF Down, Active
  <2>3. \A b \in Blocks : bread(b)' = home[b]
    BY Zenon, <1>1, <2>1, CleanReadsHome, SameCache DEF IInv, DataInv
  <2>4. Installed(header, Len(header)) /\ Uncommitted'
    BY <1>1, <1>3, <2>1 DEF Installing, Uncommitted
  <2>5. \A b \in Blocks : Recovered(b) = home[b] /\ Recovered(b)' = home[b]
    BY Zenon, <1>1, <2>1, <2>4, RecoverAtHome, StableThen DEF IInv
  <2> QED
    BY Zenon, <1>1, <2>2, <2>3, <2>5 DEF Stutter, Current, Stable
<1> QED
  BY Zenon, <1>2, <1>3 DEF recover_from_log

\* A buffer is recycled only when the disk has its content.
LEMMA EvictStutters ==
  ASSUME IInv, NEW b \in Blocks, Evict(b)
  PROVE  Stutter
<1>1. /\ ~dirty[b] /\ cache[b] # Absent /\ cache' = [cache EXCEPT ![b] = Absent]
      /\ UNCHANGED <<home, logblock, header, pc>>
  BY Zenon DEF Evict, Evictable, disk
<1>2. \A c \in Blocks : bread(c)' = bread(c)
  BY Zenon, <1>1 DEF IInv, DataInv, CacheInv, TypeOK, bread
<1>3. Active' = Active /\ (Down' <=> Down) /\ Stable' = Stable
  BY Zenon, <1>1, SameDisk DEF Active, Down
<1>4. Current' = Current
  BY Zenon, <1>2, <1>3 DEF Current, Stable
<1> QED
  BY Zenon, <1>3, <1>4 DEF Stutter

\* Steps that change no contents.
LEMMA QuietSteps ==
  ASSUME IInv, NEW p \in Procs, UNCHANGED <<home, logblock, header, cache>>,
         NEW l \in Labels \ {"down"}, pc[p] # "down",
         pc' = [pc EXCEPT ![p] = l] \/ pc' = WakeAll([pc EXCEPT ![p] = l])
  PROVE  /\ Current' = Current /\ Stable' = Stable
         /\ Active' = IF l = "op" THEN Active \cup {p} ELSE Active \ {p}
<1>1. ~Down /\ ~Down'
  BY Zenon DEF Down, WakeAll, IInv, TypeOK
<1>2. Active' = IF l = "op" THEN Active \cup {p} ELSE Active \ {p}
  BY Zenon DEF Active, WakeAll, IInv, TypeOK
<1> QED
  BY Zenon, <1>1, <1>2, SameDisk, SameReads, SameCache

-----------------------------------------------------------------------------
\* Every step of the log is a step of AtomicDisk or none.
LEMMA AtomicStep ==
  ASSUME IInv, IInv', [Next]_vars
  PROVE  [Atomic!DNext]_(Atomic!dvars)
<1> DEFINE G == [Atomic!DNext]_(Atomic!dvars)
<1>0. pc \in [Procs -> Labels]
  BY Zenon DEF IInv, TypeOK
<1>a. ASSUME Stutter PROVE G
  BY Zenon, <1>a DEF Stutter, Atomic!dvars, Current, Stable, Active
<1>1. ASSUME NEW p \in Procs, Start(p) PROVE G
  <2>1. /\ pc[p] = "idle" /\ pc' = [pc EXCEPT ![p] = "begin"]
        /\ UNCHANGED <<home, logblock, header, cache>>
    BY Zenon, <1>1 DEF Start, Goto, disk
  <2>2. Current' = Current /\ Stable' = Stable /\ Active' = Active \ {p}
    <3>1. "begin" \in Labels \ {"down"} /\ "begin" # "op"
      BY Zenon DEF Labels
    <3> QED
      BY Zenon, <2>1, <3>1, QuietSteps
  <2>3. p \notin Active
    BY Zenon, <2>1 DEF Active
  <2> QED
    BY Zenon, <2>2, <2>3, <1>a DEF Stutter
<1>2. ASSUME NEW p \in Procs, begin_op(p) PROVE G
  <2>1. pc[p] = "begin" /\ UNCHANGED <<home, logblock, header, cache>> /\ p \notin Active
    BY Zenon, <1>2 DEF begin_op, disk, Active
  <2>2. CASE pc' = [pc EXCEPT ![p] = "sleeping"]
    <3>1. Current' = Current /\ Stable' = Stable /\ Active' = Active \ {p}
      <4>1. "sleeping" \in Labels \ {"down"} /\ "sleeping" # "op"
        BY Zenon DEF Labels
      <4> QED
        BY Zenon, <2>1, <2>2, <4>1, QuietSteps
    <3> QED
      BY Zenon, <2>1, <3>1, <1>a DEF Stutter
  <2>3. CASE pc' = [pc EXCEPT ![p] = "op"]
    <3>1. Current' = Current /\ Stable' = Stable /\ Active' = Active \cup {p}
      BY Zenon, <2>1, <2>3, QuietSteps DEF Labels
    <3>2. Atomic!Begin
      BY Zenon, <2>1, <3>1 DEF Atomic!Begin, Current, Stable, Active
    <3> QED
      BY Zenon, <3>2 DEF Atomic!DNext
  <2> QED
    BY Zenon, <1>2, <2>2, <2>3 DEF begin_op, Goto
<1>3. ASSUME NEW p \in Procs, end_op(p) PROVE G
  <2>1. /\ pc[p] = "op" /\ UNCHANGED <<home, logblock, header, cache>> /\ p \in Active
        /\ \/ pc' = [pc EXCEPT ![p] = "commit"]
           \/ pc' = WakeAll([pc EXCEPT ![p] = "idle"])
    BY Zenon, <1>3 DEF end_op, disk, Active, IInv, GroupInv
  <2>2. Current' = Current /\ Stable' = Stable /\ Active' = Active \ {p}
    BY <2>1, QuietSteps DEF Labels
  <2>3. Atomic!End
    BY Zenon, <2>1, <2>2 DEF Atomic!End, Current, Stable, Active
  <2> QED
    BY Zenon, <2>3 DEF Atomic!DNext
<1>4. ASSUME NEW p \in Procs, committed(p) PROVE G
  <2>1. /\ pc[p] = "committed" /\ UNCHANGED <<home, logblock, header, cache>> /\ p \notin Active
        /\ pc' = WakeAll([pc EXCEPT ![p] = "idle"])
    BY Zenon, <1>4 DEF committed, disk, Active
  <2>2. Current' = Current /\ Stable' = Stable /\ Active' = Active \ {p}
    BY <2>1, QuietSteps DEF Labels
  <2> QED
    BY Zenon, <2>1, <2>2, <1>a DEF Stutter
<1>5. ASSUME NEW p \in Procs, write_head(p) PROVE G
  <2>1. /\ pc[p] = "write_head" /\ UNCHANGED <<home, cache>>
        /\ pc' = [pc EXCEPT ![p] = "install"]
    BY Zenon, <1>5 DEF write_head, Goto
  <2>2. ~Down /\ ~Down' /\ Stage("install")' /\ Active' = Active
    BY Zenon, <1>0, <2>1 DEF Down, Stage, Active
  <2>3. Current' = Current /\ Current' = Stable'
    BY Zenon, <2>1, <2>2, SameReads, SameCache, StableThen
  <2>4. Active = {}
    BY Zenon, <2>1 DEF IInv, GroupInv, CommitLabels
  <2>5. Atomic!Commit
    BY Zenon, <2>2, <2>3, <2>4 DEF Atomic!Commit, Current, Stable, Active
  <2> QED
    BY Zenon, <2>5 DEF Atomic!DNext
<1>6. ASSUME NEW p \in Procs, NEW b \in Blocks, log_write(p, b) PROVE G
  <2>1. /\ pc[p] = "op" /\ UNCHANGED <<home, logblock, header, pc>>
        /\ cache' = [cache EXCEPT ![b] = id[p]] /\ id[p] \in Ops
    BY Zenon, <1>6 DEF log_write, disk, IInv, TypeOK
  <2>2. ~Down /\ ~Down' /\ Active' = Active /\ Active # {} /\ Stable' = Stable
    BY Zenon, <2>1, SameDisk DEF Down, Active
  <2>3. Current' = [Current EXCEPT ![b] = id[p]]
    <3>1. id[p] # Absent
      BY SMTT(30), <2>1 DEF Ops, Absent
    <3>2. \A c \in Blocks : bread(c)' = IF c = b THEN id[p] ELSE bread(c)
      BY Zenon, <2>1, <3>1 DEF bread, IInv, TypeOK
    <3> QED
      BY Zenon, <2>2, <3>2 DEF Current
  <2>4. Atomic!Write
    BY Zenon, <2>1, <2>2, <2>3 DEF Atomic!Write, Current, Stable, Active
  <2> QED
    BY Zenon, <2>4 DEF Atomic!DNext
<1>7. CASE Crash
  <2>1. UNCHANGED <<home, logblock, header>> /\ pc' = [p \in Procs |-> "down"]
    BY Zenon, <1>7 DEF Crash, disk
  <2>2. Down' /\ Active' = {} /\ Stable' = Stable
    BY Zenon, <2>1, SameDisk DEF Down, Active
  <2>3. Current' = Stable
    BY Zenon, <2>2, StableThen
  <2>4. Atomic!Crash
    BY SMTT(30), <2>2, <2>3 DEF Atomic!Crash, Current, Stable, Active
  <2> QED
    BY Zenon, <2>4 DEF Atomic!DNext
<1>8. CASE UNCHANGED vars
  <2>1. UNCHANGED <<home, logblock, header, cache, pc>>
    BY Zenon, <1>8 DEF vars, disk
  <2> QED
    BY <2>1, <1>a DEF Stutter, Current, Stable, Recovered, bread, Down, Active
<1> QED
  BY SMTT(30), <1>a, <1>1, <1>2, <1>3, <1>4, <1>5, <1>6, <1>7, <1>8, CopyStutters, InstallStutters,
     EraseStutters, RecoverStutters, EvictStutters, StepCases

\* The log is crash-atomic: it implements AtomicDisk for any number of processes, blocks,
\* calls and crashes, with the header write as the instant at which a group commits.
THEOREM Atomicity == Spec => CrashAtomic
<1>1. ASSUME Init PROVE Atomic!DInit
  <2>1. header = <<>> /\ home = [b \in Blocks |-> Zero] /\ pc = [p \in Procs |-> "idle"]
        /\ cache = [b \in Blocks |-> Absent]
    BY Zenon, <1>1 DEF Init, Fresh
  <2>2. ~Down /\ Active = {}
    BY Zenon, <2>1, LogAssumption DEF Down, Active
  <2>3. \A b \in Blocks : bread(b) = Zero /\ Recovered(b) = Zero
    BY <2>1 DEF bread, Recovered, Logged
  <2>4. Current = [b \in Blocks |-> Zero] /\ Stable = [b \in Blocks |-> Zero]
    BY Zenon, <2>2, <2>3 DEF Current, Stable
  <2> QED
    BY Zenon, <2>2, <2>4 DEF Atomic!DInit, Current, Stable, Active
<1>2. IInv /\ IInv' /\ [Next]_vars => [Atomic!DNext]_(Atomic!dvars)
  BY Zenon, AtomicStep
<1> QED
  BY <1>1, <1>2, Invariance, PTL DEF Spec, CrashAtomic, Atomic!DSpec
=============================================================================
