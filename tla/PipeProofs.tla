----------------------------- MODULE PipeProofs -----------------------------
(***************************************************************************)
(* Proofs about Pipe for any number of processes and any sizes of the      *)
(* buffer, the counters and the transfers; and the circular buffer of a    *)
(* pipe is a queue of bytes, for every PIPESIZE and for every range of the *)
(* counters that PIPESIZE divides.                                         *)
(***************************************************************************)
EXTENDS Pipe, FiniteSetTheorems, SequenceTheorems, TLAPS

-----------------------------------------------------------------------------
\* The arithmetic of the counters and of the places in the buffer.
LEMMA ModRange ==
  ASSUME NEW n \in Nat \ {0}, NEW x \in Int
  PROVE  x % n \in 0 .. (n - 1) /\ x \div n \in Int /\ x = (x \div n) * n + (x % n)
  OBVIOUS

\* A multiple of n between -n and n is zero.
LEMMA SmallMultiple ==
  ASSUME NEW n \in Nat \ {0}, NEW k \in Int, k * n < n, k * n > -n
  PROVE  k = 0
<1>1. ASSUME k >= 1 PROVE FALSE
  <2>1. (k - 1) * n >= 0
    BY <1>1
  <2> QED
    BY <2>1
<1>2. ASSUME k <= -1 PROVE FALSE
  <2>1. (-1 - k) * n >= 0
    BY <1>2
  <2> QED
    BY <2>1
<1> QED
  BY <1>1, <1>2

\* The remainder is the only one.
LEMMA ModUnique ==
  ASSUME NEW n \in Nat \ {0}, NEW k \in Int, NEW r \in 0 .. (n - 1)
  PROVE  (k * n + r) % n = r
<1> DEFINE x == k * n + r
           j == x \div n
<1>1. x \in Int
  OBVIOUS
<1>2. x % n \in 0 .. (n - 1) /\ j \in Int /\ x = j * n + (x % n)
  BY <1>1, ModRange
<1> HIDE DEF j
<1>3. (k - j) * n = (x % n) - r
  BY <1>2
<1>4. (k - j) * n < n /\ (k - j) * n > -n
  BY <1>2, <1>3
<1>5. k - j = 0
  BY <1>2, <1>4, SmallMultiple
<1> QED
  BY <1>2, <1>3, <1>5

\* Unsigned arithmetic on numbers that are out of range by less than UINT.
LEMMA Uint ==
  ASSUME NEW x \in Int
  PROVE  /\ uint(x) \in 0 .. (UINT - 1)
         /\ x \in 0 .. (UINT - 1) => uint(x) = x
         /\ x \in UINT .. (2 * UINT - 1) => uint(x) = x - UINT
         /\ x \in (-UINT) .. (-1) => uint(x) = x + UINT
<1>0. UINT \in Nat \ {0}
  BY PipeAssumption
<1>1. uint(x) \in 0 .. (UINT - 1)
  BY <1>0, ModRange DEF uint
<1>2. ASSUME x \in 0 .. (UINT - 1) PROVE uint(x) = x
  <2>1. (0 * UINT + x) % UINT = x /\ 0 * UINT + x = x
    BY <1>0, <1>2, ModUnique
  <2> QED
    BY <2>1 DEF uint
<1>3. ASSUME x \in UINT .. (2 * UINT - 1) PROVE uint(x) = x - UINT
  <2>1. x - UINT \in 0 .. (UINT - 1) /\ 1 * UINT + (x - UINT) = x
    BY <1>0, <1>3
  <2>2. (1 * UINT + (x - UINT)) % UINT = x - UINT
    BY <1>0, <2>1, ModUnique
  <2> QED
    BY <2>1, <2>2 DEF uint
<1>4. ASSUME x \in (-UINT) .. (-1) PROVE uint(x) = x + UINT
  <2>1. x + UINT \in 0 .. (UINT - 1) /\ (-1) * UINT + (x + UINT) = x
    BY <1>0, <1>4
  <2>2. ((-1) * UINT + (x + UINT)) % UINT = x + UINT
    BY <1>0, <2>1, ModUnique
  <2> QED
    BY <2>1, <2>2 DEF uint
<1> QED
  BY <1>1, <1>2, <1>3, <1>4

-----------------------------------------------------------------------------
\* The bytes in the pipe.
Used == uint(nwrite - nread)

\* The tests of the code say how many bytes there are.
LEMMA CountersTell ==
  ASSUME TypeOK
  PROVE  /\ Used \in 0 .. PIPESIZE /\ nwrite = uint(nread + Used)
         /\ Full <=> Used = PIPESIZE
         /\ Empty <=> Used = 0
<1>0. /\ UINT \in Nat /\ PIPESIZE \in Nat \ {0} /\ UINT > PIPESIZE
      /\ nread \in 0 .. (UINT - 1) /\ nwrite \in 0 .. (UINT - 1) /\ Used <= PIPESIZE
  BY PipeAssumption DEF TypeOK, Used
<1>1. Used = IF nwrite >= nread THEN nwrite - nread ELSE nwrite - nread + UINT
  BY <1>0, Uint DEF Used
<1>2. Used \in 0 .. PIPESIZE
  BY <1>0, <1>1
<1> HIDE DEF Used
<1>3. uint(nread + Used) = IF nread + Used < UINT THEN nread + Used ELSE nread + Used - UINT
  BY <1>0, <1>2, Uint
<1>4. uint(nread + PIPESIZE) =
        IF nread + PIPESIZE < UINT THEN nread + PIPESIZE ELSE nread + PIPESIZE - UINT
  BY <1>0, Uint
<1> QED
  BY <1>0, <1>1, <1>2, <1>3, <1>4 DEF Full, Empty

\* A byte more.
LEMMA PutCounts ==
  ASSUME TypeOK, ~Full, nwrite' = uint(nwrite + 1), nread' = nread
  PROVE  Used' = Used + 1 /\ Used < PIPESIZE
<1>0. /\ UINT \in Nat /\ PIPESIZE \in Nat \ {0} /\ UINT > PIPESIZE
      /\ nread \in 0 .. (UINT - 1) /\ nwrite \in 0 .. (UINT - 1)
      /\ Used \in 0 .. PIPESIZE /\ Used # PIPESIZE
  BY PipeAssumption, CountersTell DEF TypeOK
<1>1. Used = IF nwrite >= nread THEN nwrite - nread ELSE nwrite - nread + UINT
  BY <1>0, Uint DEF Used
<1>2. nwrite' = IF nwrite + 1 < UINT THEN nwrite + 1 ELSE nwrite + 1 - UINT
  BY <1>0, Uint
<1>3. Used' = IF nwrite' >= nread THEN nwrite' - nread ELSE nwrite' - nread + UINT
  <2>1. nwrite' \in 0 .. (UINT - 1)
    BY <1>0, <1>2
  <2>2. Used' = uint(nwrite' - nread)
    BY DEF Used, uint
  <2> QED
    BY <1>0, <2>1, <2>2, Uint
<1> HIDE DEF Used
<1> QED
  BY <1>0, <1>1, <1>2, <1>3

\* A byte less.
LEMMA GetCounts ==
  ASSUME TypeOK, ~Empty, nread' = uint(nread + 1), nwrite' = nwrite
  PROVE  Used' = Used - 1 /\ Used > 0
<1>0. /\ UINT \in Nat /\ PIPESIZE \in Nat \ {0} /\ UINT > PIPESIZE
      /\ nread \in 0 .. (UINT - 1) /\ nwrite \in 0 .. (UINT - 1)
      /\ Used \in 0 .. PIPESIZE /\ Used # 0
  BY PipeAssumption, CountersTell DEF TypeOK
<1>1. Used = IF nwrite >= nread THEN nwrite - nread ELSE nwrite - nread + UINT
  BY <1>0, Uint DEF Used
<1>2. nread' = IF nread + 1 < UINT THEN nread + 1 ELSE nread + 1 - UINT
  BY <1>0, Uint
<1>3. Used' = IF nwrite >= nread' THEN nwrite - nread' ELSE nwrite - nread' + UINT
  <2>1. nread' \in 0 .. (UINT - 1)
    BY <1>0, <1>2
  <2>2. Used' = uint(nwrite - nread')
    BY DEF Used, uint
  <2> QED
    BY <1>0, <2>1, <2>2, Uint
<1> HIDE DEF Used
<1> QED
  BY <1>0, <1>1, <1>2, <1>3

-----------------------------------------------------------------------------
\* The labels of a process in pipewrite and in piperead, and those with p->lock held.
Writing == {"write", "writing", "sleep writing", "asleep writing"}
Reading == {"read", "empty?", "copying", "sleep reading", "asleep reading"}
Locking == {"writing", "sleep writing", "empty?", "copying", "sleep reading"}

\* A call of p has the descriptor it needs, and has the lock where the code holds it.
CallInv(p) ==
  /\ pc[p] = "unused" => open[p] = {}
  /\ pc[p] \in Writing => "w" \in open[p]
  /\ pc[p] \in Reading => "r" \in open[p]
  /\ lock = p <=> pc[p] \in Locking

\* The processes with a descriptor of end e, and those on the way to pipeclose for it.
Holders(e) == {p \in Procs : e \in open[p]}
Closers(e) == {p \in Procs : pc[p] = "pipeclose" /\ end[p] = e}
IsOpen(e)  == IF e = "r" THEN readopen ELSE writeopen

\* The count of a struct file is that of its holders; only the last one goes on to
\* pipeclose, and the end stays open until then.
EndInv(e) ==
  /\ ref[e] = Cardinality(Holders(e))
  /\ IsOpen(e) <=> Holders(e) \cup Closers(e) # {}
  /\ Closers(e) # {} => Holders(e) = {}
  /\ \A p, q \in Closers(e) : p = q

FileInv ==
  /\ \A p \in Procs : CallInv(p)
  /\ \A e \in Ends : EndInv(e)
  /\ freed <=> ~readopen /\ ~writeopen

\* What a process sleeps for has not come, unless the one that holds the lock has still to
\* wake it, or cut says otherwise; a reader begins to copy with bytes or at the end of file.
Waits(p) ==
  /\ pc[p] = "sleep reading" => writeopen /\ Empty
  /\ pc[p] = "sleep writing" => readopen /\ Full
  /\ pc[p] = "asleep reading" => writeopen /\ (Empty \/ cut \/ \E q \in Procs : pc[q] = "writing")
  /\ pc[p] = "asleep writing" => readopen /\ (Full \/ \E q \in Procs : pc[q] = "copying")
  /\ pc[p] = "copying" /\ got[p] = <<>> => ~Empty \/ ~writeopen

WaitInv == \A p \in Procs : Waits(p)

IInv == TypeOK /\ FileInv /\ WaitInv

\* A step of p leaves the others where they are, or wakes them up.
Others(p) ==
  \A q \in Procs \ {p} : \/ pc'[q] = pc[q]
                         \/ pc[q] = "asleep reading" /\ pc'[q] = "read"
                         \/ pc[q] = "asleep writing" /\ pc'[q] = "write"

\* p goes to label l, waking others up or not.
LEMMA Moves ==
  ASSUME TypeOK, NEW p \in Procs, NEW l \in Labels,
         \/ Goto(p, l)
         \/ /\ pc' = WakeReaders([pc EXCEPT ![p] = l]) \/ pc' = WakeWriters([pc EXCEPT ![p] = l])
            /\ l \notin {"asleep reading", "asleep writing"}
  PROVE  pc' \in [Procs -> Labels] /\ pc'[p] = l /\ Others(p)
<1>1. CASE Goto(p, l)
  BY <1>1 DEF Goto, TypeOK, Others
<1>2. CASE /\ pc' = WakeReaders([pc EXCEPT ![p] = l]) \/ pc' = WakeWriters([pc EXCEPT ![p] = l])
           /\ l \notin {"asleep reading", "asleep writing"}
  <2> DEFINE at == [pc EXCEPT ![p] = l]
  <2>1. /\ at \in [Procs -> Labels] /\ at[p] = l /\ \A q \in Procs \ {p} : at[q] = pc[q]
        /\ {"read", "write"} \subseteq Labels
    BY Zenon DEF TypeOK, Labels
  <2> HIDE DEF at
  <2>3. pc' = Wake(at, "asleep reading", "read") \/ pc' = Wake(at, "asleep writing", "write")
    BY Zenon, <1>2 DEF at, WakeReaders, WakeWriters
  <2>4. pc' \in [Procs -> Labels]
    BY Zenon, <2>1, <2>3 DEF Wake
  <2>5. \A q \in Procs : \/ pc'[q] = at[q]
                         \/ at[q] = "asleep reading" /\ pc'[q] = "read"
                         \/ at[q] = "asleep writing" /\ pc'[q] = "write"
    BY Zenon, <2>3 DEF Wake
  <2>6. pc'[p] = l /\ Others(p)
    BY Zenon, <1>2, <2>1, <2>5 DEF Others
  <2> QED
    BY Zenon, <2>4, <2>6
<1> QED
  BY Zenon, <1>1, <1>2

\* The calls of the others go on as before.
LEMMA CallsKept ==
  ASSUME \A q \in Procs : CallInv(q), NEW p \in Procs, Others(p), CallInv(p)',
         \A q \in Procs \ {p} : open'[q] = open[q] /\ (lock' = q <=> lock = q)
  PROVE  \A q \in Procs : CallInv(q)'
<1>1. ASSUME NEW q \in Procs \ {p} PROVE CallInv(q)'
  BY Zenon DEF CallInv, Others, Writing, Reading, Locking
<1> QED
  BY <1>1

\* Steps of p that open and close nothing.
LEMMA EndsKept ==
  ASSUME \A e \in Ends : EndInv(e), NEW p \in Procs, Others(p), pc[p] # "pipeclose", pc'[p] # "pipeclose",
         UNCHANGED <<ref, open, readopen, writeopen, end>>
  PROVE  \A e \in Ends : EndInv(e)'
<1> TAKE e \in Ends
<1>1. Holders(e)' = Holders(e)
  BY DEF Holders
<1>2. Closers(e)' = Closers(e)
  BY Zenon DEF Closers, Others
<1>3. IsOpen(e)' <=> IsOpen(e)
  BY DEF IsOpen
<1> QED
  BY <1>1, <1>2, <1>3 DEF EndInv

\* The holders of an end can be counted.
LEMMA HoldersFinite ==
  ASSUME NEW e \in Ends
  PROVE  IsFiniteSet(Holders(e)) /\ Cardinality(Holders(e)) \in Nat
  BY PipeAssumption, FS_Subset, FS_CardinalityType DEF Holders

\* When nobody has an end the pipe is free.
LEMMA FreedIsUnused ==
  ASSUME TypeOK, FileInv, freed
  PROVE  /\ \A e \in Ends : Holders(e) = {} /\ Closers(e) = {}
         /\ \A p \in Procs : open[p] = {} /\ pc[p] \in {"unused", "user", "exit"}
         /\ lock = None
<1>1. \A e \in Ends : Holders(e) = {} /\ Closers(e) = {}
  BY DEF FileInv, EndInv, IsOpen, Ends
<1>2. \A p \in Procs : open[p] = {}
  BY <1>1 DEF TypeOK, Holders
<1>3. ASSUME NEW p \in Procs PROVE pc[p] \in {"unused", "user", "exit"}
  <2>1. pc[p] # "pipeclose"
    BY <1>1 DEF Closers, TypeOK
  <2>2. pc[p] \notin Writing /\ pc[p] \notin Reading
    BY <1>2 DEF FileInv, CallInv
  <2> QED
    BY Zenon, <2>1, <2>2 DEF TypeOK, Labels, Writing, Reading
<1>4. lock = None
  BY Zenon, <1>3 DEF FileInv, CallInv, Locking, TypeOK
<1> QED
  BY <1>1, <1>2, <1>3, <1>4

-----------------------------------------------------------------------------
\* A pipe is made when the one before is not held any more.
LEMMA MakeFiles ==
  ASSUME TypeOK, FileInv, NEW p \in Procs, sys_pipe(p)
  PROVE  FileInv'
<1>1. /\ pc[p] = "user" /\ freed /\ ref' = [e \in Ends |-> 1] /\ ~freed' /\ readopen' /\ writeopen'
      /\ open' = [open EXCEPT ![p] = Ends] /\ UNCHANGED <<lock, pc, end>>
  BY DEF sys_pipe, pipealloc, filealloc, call
<1>2. \A q \in Procs : open'[q] = IF q = p THEN Ends ELSE {}
  BY Zenon, <1>1, FreedIsUnused DEF TypeOK
<1>3. \A q \in Procs : CallInv(q)'
  BY Zenon, <1>1, <1>2, FreedIsUnused DEF FileInv, CallInv, Writing, Reading, Locking
<1>4. ASSUME NEW e \in Ends PROVE EndInv(e)'
  <2>1. Holders(e)' = {p}
    BY <1>2 DEF Holders
  <2>2. Closers(e)' = {}
    BY <1>1, FreedIsUnused DEF Closers
  <2>3. IsOpen(e)'
    BY <1>1 DEF IsOpen
  <2>4. ref'[e] = 1
    BY <1>1
  <2> QED
    BY <2>1, <2>2, <2>3, <2>4, FS_Singleton DEF EndInv
<1> QED
  BY <1>1, <1>3, <1>4 DEF FileInv

\* A child holds what its parent holds.
LEMMA ForkFiles ==
  ASSUME TypeOK, FileInv, NEW p \in Procs, fork(p)
  PROVE  FileInv'
<1>1. PICK c \in Procs : /\ pc[c] = "unused" /\ open' = [open EXCEPT ![c] = open[p]]
                         /\ ref' = filedup(p) /\ Goto(c, "user")
  BY Zenon DEF fork
<1>2. pc[p] = "user" /\ UNCHANGED <<readopen, writeopen, freed, lock, end>>
  BY DEF fork, pipe, call
<1>3. pc'[c] = "user" /\ \A q \in Procs \ {c} : pc'[q] = pc[q] /\ open'[q] = open[q]
  BY <1>1 DEF TypeOK, Goto
<1>4. open[c] = {} /\ open'[c] = open[p] /\ lock # c
  BY Zenon, <1>1 DEF FileInv, CallInv, TypeOK, Locking
<1>5. \A q \in Procs : CallInv(q)'
  BY Zenon, <1>2, <1>3, <1>4 DEF FileInv, CallInv, Writing, Reading, Locking
<1>6. ASSUME NEW e \in Ends PROVE EndInv(e)'
  <2>1. Closers(e)' = Closers(e)
    BY <1>1, <1>2, <1>3 DEF Closers
  <2>2. IsOpen(e)' <=> IsOpen(e)
    BY <1>2 DEF IsOpen
  <2>3. ref'[e] = ref[e] + (IF e \in open[p] THEN 1 ELSE 0)
    BY <1>1 DEF filedup
  <2>4. CASE e \in open[p]
    <3>1. Holders(e)' = Holders(e) \cup {c} /\ c \notin Holders(e) /\ Holders(e) # {}
      BY <1>3, <1>4, <2>4 DEF Holders
    <3>2. Cardinality(Holders(e)') = Cardinality(Holders(e)) + 1
      BY Zenon, <3>1, HoldersFinite, FS_AddElement
    <3> QED
      BY <2>1, <2>2, <2>3, <2>4, <3>1, <3>2 DEF EndInv, FileInv
  <2>5. CASE e \notin open[p]
    <3>1. Holders(e)' = Holders(e)
      BY <1>3, <1>4, <2>5 DEF Holders
    <3>2. ref'[e] = ref[e]
      BY <2>3, <2>5 DEF TypeOK
    <3> QED
      BY <2>1, <2>2, <3>1, <3>2 DEF EndInv, FileInv
  <2> QED
    BY <2>4, <2>5
<1> QED
  BY <1>2, <1>5, <1>6 DEF FileInv

\* fileclose gives up a reference; the last one is the closer.
LEMMA CloseFiles ==
  ASSUME TypeOK, FileInv, NEW p \in Procs, NEW e \in Ends, NEW l \in {"user", "exit"},
         pc[p] \in {"user", "exit"}, fileclose(p, e, l)
  PROVE  FileInv' /\ ref[e] \in Nat \ {0}
<1>1. /\ e \in open[p] /\ open' = [open EXCEPT ![p] = @ \ {e}] /\ ref' = [ref EXCEPT ![e] = @ - 1]
      /\ UNCHANGED <<readopen, writeopen, freed, lock>>
  BY DEF fileclose, pipe
<1>2. /\ Holders(e)' = Holders(e) \ {p} /\ p \in Holders(e)
      /\ \A d \in Ends \ {e} : Holders(d)' = Holders(d)
  BY <1>1 DEF Holders, TypeOK
<1>3. /\ ref[e] \in Nat \ {0} /\ ref'[e] = ref[e] - 1 /\ \A d \in Ends \ {e} : ref'[d] = ref[d]
      /\ ref'[e] = Cardinality(Holders(e)')
  <2>1. /\ Cardinality(Holders(e) \ {p}) = Cardinality(Holders(e)) - 1
        /\ IsFiniteSet(Holders(e)) /\ IsFiniteSet(Holders(e) \ {p}) /\ ref[e] = Cardinality(Holders(e))
    BY <1>2, HoldersFinite, FS_RemoveElement DEF FileInv, EndInv
  <2>2. Cardinality(Holders(e)) \in Nat /\ Cardinality(Holders(e)) # 0
    BY <1>2, HoldersFinite, FS_EmptySet
  <2> QED
    BY <1>1, <1>2, <2>1, <2>2 DEF TypeOK
<1>4. Closers(e) = {} /\ IsOpen(e) /\ \A d \in Ends : IsOpen(d)' <=> IsOpen(d)
  BY <1>1, <1>2 DEF FileInv, EndInv, IsOpen
<1>5. CASE ref[e] > 1 /\ UNCHANGED <<pc, back, end>>
  <2>1. \A d \in Ends : Closers(d)' = Closers(d)
    BY <1>5 DEF Closers
  <2>2. Holders(e)' # {}
    <3>1. Cardinality(Holders(e)') # 0
      BY <1>3, <1>5
    <3> QED
      BY <3>1, FS_EmptySet
  <2>3. EndInv(e)'
    BY <1>3, <1>4, <2>1, <2>2 DEF EndInv
  <2>4. \A d \in Ends \ {e} : EndInv(d)'
    BY <1>2, <1>3, <1>4, <2>1 DEF EndInv, FileInv
  <2>5. \A q \in Procs : CallInv(q)'
    BY Zenon, <1>1, <1>5 DEF FileInv, CallInv, Writing, Reading, Locking, TypeOK
  <2> QED
    BY <1>1, <1>3, <2>3, <2>4, <2>5 DEF FileInv
<1>6. CASE ref[e] = 1 /\ Goto(p, "pipeclose") /\ end' = [end EXCEPT ![p] = e]
  <2>1. /\ pc'[p] = "pipeclose" /\ end'[p] = e
        /\ \A q \in Procs \ {p} : pc'[q] = pc[q] /\ end'[q] = end[q] /\ open'[q] = open[q]
    BY <1>1, <1>6 DEF Goto, TypeOK
  <2>2. Closers(e)' = Closers(e) \cup {p} /\ \A d \in Ends \ {e} : Closers(d)' = Closers(d)
    BY <2>1 DEF Closers
  <2>3. Holders(e)' = {}
    <3>1. Cardinality(Holders(e)') = 0 /\ IsFiniteSet(Holders(e)')
      BY <1>2, <1>3, <1>6, HoldersFinite, FS_Subset
    <3> QED
      BY <3>1, FS_EmptySet
  <2>4. EndInv(e)'
    BY <1>3, <1>4, <2>2, <2>3 DEF EndInv
  <2>5. \A d \in Ends \ {e} : EndInv(d)'
    BY <1>2, <1>3, <1>4, <2>2 DEF EndInv, FileInv
  <2>6. \A q \in Procs : CallInv(q)'
    BY Zenon, <1>1, <2>1 DEF FileInv, CallInv, Writing, Reading, Locking
  <2> QED
    BY <1>1, <1>3, <2>4, <2>5, <2>6 DEF FileInv
<1> QED
  BY <1>3, <1>5, <1>6 DEF fileclose

\* The closer of an end closes it; the second one frees the pipe.
LEMMA PipecloseFiles ==
  ASSUME TypeOK, FileInv, NEW p \in Procs, pipeclose(p)
  PROVE  FileInv' /\ Others(p) /\ pc' \in [Procs -> Labels]
<1>0. PICK e \in Ends : e = end[p]
  BY DEF TypeOK
<1>1. pc[p] = "pipeclose" /\ UNCHANGED <<ref, open, lock, end>> /\ back[p] \in {"user", "exit"}
  BY DEF pipeclose, files, call, TypeOK
<1>2. /\ \A d \in Ends : IsOpen(d)' <=> d # e /\ IsOpen(d)
      /\ freed' <=> ~readopen' /\ ~writeopen'
  <2>1. CASE e = "w" /\ ~writeopen' /\ UNCHANGED readopen /\ freed' = ~readopen
    BY Zenon, <2>1 DEF IsOpen, Ends
  <2>2. CASE e = "r" /\ ~readopen' /\ UNCHANGED writeopen /\ freed' = ~writeopen
    BY Zenon, <2>2 DEF IsOpen, Ends
  <2> QED
    BY <1>0, <2>1, <2>2 DEF pipeclose
<1>3. pc' \in [Procs -> Labels] /\ pc'[p] = back[p] /\ Others(p)
  <2>1. back[p] \in Labels /\ back[p] \notin {"asleep reading", "asleep writing"}
    BY Zenon, <1>1 DEF Labels
  <2>2. \/ pc' = WakeReaders([pc EXCEPT ![p] = back[p]])
        \/ pc' = WakeWriters([pc EXCEPT ![p] = back[p]])
    BY Zenon DEF pipeclose
  <2> QED
    BY Zenon, <2>1, <2>2, Moves
<1>4. p \in Closers(e) /\ Holders(e) = {}
  BY <1>0, <1>1 DEF Closers, FileInv, EndInv
<1>5. Closers(e)' = {}
  <2>1. \A q \in Procs : q \in Closers(e) => q = p
    BY <1>4 DEF FileInv, EndInv
  <2>2. \A q \in Procs \ {p} : q \in Closers(e)' => q \in Closers(e)
    BY Zenon, <1>1, <1>3 DEF Closers, Others
  <2>3. p \notin Closers(e)'
    BY <1>1, <1>3 DEF Closers
  <2> QED
    BY <2>1, <2>2, <2>3 DEF Closers
<1>6. \A d \in Ends \ {e} : Closers(d)' = Closers(d)
  BY Zenon, <1>0, <1>1, <1>3 DEF Closers, Others
<1>7. \A d \in Ends : Holders(d)' = Holders(d) /\ ref'[d] = ref[d]
  BY <1>1 DEF Holders
<1>8. EndInv(e)'
  BY <1>1, <1>2, <1>4, <1>5, <1>7 DEF EndInv, FileInv
<1>9. \A d \in Ends \ {e} : EndInv(d)'
  BY <1>2, <1>6, <1>7 DEF EndInv, FileInv
<1>10. \A q \in Procs : CallInv(q)'
  <2>1. CallInv(p)'
    BY Zenon, <1>1, <1>3 DEF FileInv, CallInv, Writing, Reading, Locking
  <2> QED
    BY <1>1, <1>3, <2>1, CallsKept DEF FileInv
<1> QED
  BY <1>1, <1>2, <1>3, <1>8, <1>9, <1>10 DEF FileInv

\* What holds after a step of p that opens and closes nothing.
Kept(p) ==
  /\ Others(p) /\ pc' \in [Procs -> Labels] /\ lock' \in Procs \cup {None}
  /\ UNCHANGED <<ref, open, readopen, writeopen, freed, end, back>>
  /\ pc'[p] = "pipeclose" <=> pc[p] = "pipeclose"
  /\ CallInv(p)' /\ \A q \in Procs \ {p} : lock' = q <=> lock = q

\* p goes to label l, waking others up or not, and l is right for its descriptors and for
\* the lock.
Jump(p, l) ==
  \/ Goto(p, l)
  \/ /\ pc' = WakeReaders([pc EXCEPT ![p] = l]) \/ pc' = WakeWriters([pc EXCEPT ![p] = l])
     /\ l \notin {"asleep reading", "asleep writing"}

Fits(p, l) ==
  /\ l \in Labels \ {"unused", "pipeclose"} /\ pc[p] # "pipeclose"
  /\ l \in Writing => "w" \in open[p]
  /\ l \in Reading => "r" \in open[p]
  /\ \/ l \in Locking /\ lock' = p /\ lock = None
     \/ l \notin Locking /\ lock' = None /\ pc[p] \in Locking
     \/ lock' = lock /\ (l \in Locking <=> pc[p] \in Locking)

\* A jump of p to a label that fits its descriptors and its lock keeps the calls right.
LEMMA KeptAt ==
  ASSUME TypeOK, FileInv, NEW p \in Procs, NEW l, Jump(p, l), Fits(p, l),
         UNCHANGED <<ref, open, readopen, writeopen, freed, end, back>>
  PROVE  Kept(p)
<1>1. pc' \in [Procs -> Labels] /\ pc'[p] = l /\ Others(p)
  <2>1. l \in Labels
    BY DEF Fits
  <2> QED
    BY Zenon, <2>1, Moves DEF Jump
<1>2. CallInv(p) /\ lock \in Procs \cup {None} /\ None \notin Procs
  BY PipeAssumption DEF FileInv, TypeOK
<1>3. CallInv(p)' /\ (\A q \in Procs \ {p} : lock' = q <=> lock = q) /\ lock' \in Procs \cup {None}
  BY <1>1, <1>2 DEF CallInv, Fits
<1> QED
  BY <1>1, <1>3 DEF Kept, Fits

Quiet(p) ==
  \/ exit(p) \/ Write(p) \/ Read(p) \/ pipewrite(p) \/ full(p) \/ put(p) \/ written(p) \/ sleep(p)
  \/ piperead(p) \/ empty(p) \/ get(p) \/ done(p) \/ kill(p)

\* Every step that opens and closes nothing is such a jump.
LEMMA QuietKept ==
  ASSUME TypeOK, FileInv, NEW p \in Procs, Quiet(p)
  PROVE  Kept(p)
<1>0. CallInv(p) /\ pc \in [Procs -> Labels] /\ lock \in Procs \cup {None}
  BY DEF FileInv, TypeOK
<1>1. UNCHANGED <<ref, open, readopen, writeopen, freed, end, back>>
  BY Zenon DEF Quiet, exit, Write, Read, pipewrite, full, put, written, sleep, piperead, empty, get, done, kill,
         files, pipe, call
<1>a. ASSUME NEW l, Jump(p, l), Fits(p, l) PROVE Kept(p)
  BY Zenon, <1>1, <1>a, KeptAt
<1>2. CASE exit(p)
  <2>1. Jump(p, "exit") /\ Fits(p, "exit")
    BY <1>2 DEF exit, Jump, Fits, Labels, Writing, Reading, Locking
  <2> QED
    BY <1>a, <2>1
<1>3. CASE Write(p)
  <2>1. Jump(p, "write") /\ Fits(p, "write")
    BY <1>3 DEF Write, Jump, Fits, Labels, Writing, Reading, Locking
  <2> QED
    BY <1>a, <2>1
<1>4. CASE Read(p)
  <2>1. Jump(p, "read") /\ Fits(p, "read")
    BY <1>4 DEF Read, Jump, Fits, Labels, Writing, Reading, Locking
  <2> QED
    BY <1>a, <2>1
<1>5. CASE pipewrite(p)
  <2>1. Jump(p, "writing") /\ Fits(p, "writing")
    BY Zenon, <1>0, <1>5 DEF pipewrite, Jump, Fits, Labels, Writing, Reading, Locking, CallInv
  <2> QED
    BY <1>a, <2>1
<1>6. CASE piperead(p)
  <2>1. Jump(p, "empty?") /\ Fits(p, "empty?")
    BY Zenon, <1>0, <1>6 DEF piperead, Jump, Fits, Labels, Writing, Reading, Locking, CallInv
  <2> QED
    BY <1>a, <2>1
<1>7. CASE full(p)
  <2>1. CASE Goto(p, "user") /\ lock' = None
    <3>1. Jump(p, "user") /\ Fits(p, "user")
      BY Zenon, <1>7, <2>1 DEF full, Jump, Fits, Labels, Writing, Reading, Locking
    <3> QED
      BY <1>a, <3>1
  <2>2. CASE pc' = WakeReaders([pc EXCEPT ![p] = "sleep writing"]) /\ UNCHANGED lock
    <3>1. Jump(p, "sleep writing") /\ Fits(p, "sleep writing")
      BY Zenon, <1>0, <1>7, <2>2 DEF full, Jump, Fits, Labels, Writing, Reading, Locking, CallInv
    <3> QED
      BY Zenon, <1>a, <3>1
  <2> QED
    BY Zenon, <1>7, <2>1, <2>2 DEF full
<1>8. CASE put(p) \/ get(p)
  BY Zenon, <1>0, <1>1, <1>8 DEF put, get, Kept, Others, CallInv
<1>9. CASE written(p)
  <2>1. Jump(p, "user") /\ Fits(p, "user")
    BY <1>9 DEF written, Jump, Fits, Labels, Writing, Reading, Locking
  <2> QED
    BY <1>a, <2>1
<1>10. CASE sleep(p)
  <2>1. \E l \in {"asleep writing", "asleep reading"} : Jump(p, l) /\ Fits(p, l)
    BY Zenon, <1>0, <1>10 DEF sleep, Jump, Fits, Labels, Writing, Reading, Locking, CallInv
  <2> QED
    BY Zenon, <1>a, <2>1
<1>11. CASE empty(p)
  <2>1. \E l \in {"user", "sleep reading", "copying"} : Jump(p, l) /\ Fits(p, l)
    BY Zenon, <1>0, <1>11 DEF empty, Jump, Fits, Labels, Writing, Reading, Locking, CallInv
  <2> QED
    BY Zenon, <1>a, <2>1
<1>12. CASE done(p)
  <2>1. Jump(p, "user") /\ Fits(p, "user")
    BY <1>12 DEF done, Jump, Fits, Labels, Writing, Reading, Locking
  <2> QED
    BY <1>a, <2>1
<1>13. CASE kill(p)
  <2>1. CASE pc[p] \notin {"asleep writing", "asleep reading"}
    <3>1. pc' = pc /\ lock' = lock
      BY Zenon, <1>0, <1>13, <2>1 DEF kill, Goto
    <3> QED
      BY <1>0, <1>1, <3>1 DEF Kept, Others, CallInv
  <2>2. CASE pc[p] \in {"asleep writing", "asleep reading"}
    <3>1. \E l \in {"write", "read"} : Jump(p, l) /\ Fits(p, l)
      BY Zenon, <1>0, <1>13, <2>2 DEF kill, Jump, Fits, Labels, Writing, Reading, Locking, CallInv
    <3> QED
      BY <1>a, <3>1
  <2> QED
    BY Zenon, <2>1, <2>2
<1> QED
  BY SMTT(30), <1>2, <1>3, <1>4, <1>5, <1>6, <1>7, <1>8, <1>9, <1>10, <1>11, <1>12, <1>13 DEF Quiet

-----------------------------------------------------------------------------
\* An exiting process has closed everything.
Gone(p) ==
  /\ pc[p] = "exit" /\ open[p] = {} /\ (Goto(p, "user") \/ Goto(p, "unused"))
  /\ killed' = [killed EXCEPT ![p] = FALSE]
  /\ UNCHANGED <<files, pipe, lock, call, cut>>

\* The steps that open or close an end, and the quiet ones.
LEMMA StepCases ==
  ASSUME [Next]_vars
  PROVE  \/ \E p \in Procs :
              \/ sys_pipe(p) \/ fork(p) \/ pipeclose(p) \/ Gone(p) \/ Quiet(p)
              \/ \E e \in Ends, l \in {"user", "exit"} :
                   pc[p] \in {"user", "exit"} /\ fileclose(p, e, l)
         \/ UNCHANGED vars
<1>1. CASE UNCHANGED vars
  BY <1>1
<1>2. ASSUME NEW p \in Procs, Kernel(p) \/ User(p) \/ kill(p)
      PROVE  \/ sys_pipe(p) \/ fork(p) \/ pipeclose(p) \/ Gone(p) \/ Quiet(p)
             \/ \E e \in Ends, l \in {"user", "exit"} : pc[p] \in {"user", "exit"} /\ fileclose(p, e, l)
  <2>1. CASE closeall(p)
    <3>1. CASE \E e \in Ends : fileclose(p, e, "exit")
      BY <2>1, <3>1 DEF closeall
    <3>2. CASE ~\E e \in Ends : fileclose(p, e, "exit")
      BY <2>1, <3>2 DEF closeall, Gone
    <3> QED
      BY <3>1, <3>2
  <2>2. CASE close(p)
    BY <2>2 DEF close
  <2>3. CASE ~closeall(p) /\ ~close(p)
    BY <1>2, <2>3 DEF Kernel, User, Quiet
  <2> QED
    BY <2>1, <2>2, <2>3
<1> QED
  BY <1>1, <1>2 DEF Next

\* Every step keeps the counts, the descriptors and the lock right.
LEMMA FileStep ==
  ASSUME TypeOK, FileInv, [Next]_vars
  PROVE  FileInv'
<1>1. ASSUME NEW p \in Procs, Quiet(p) PROVE FileInv'
  <2>1. Kept(p)
    BY <1>1, QuietKept
  <2>2. \A q \in Procs : CallInv(q)'
    BY <2>1, CallsKept DEF FileInv, Kept
  <2>3. \A e \in Ends : EndInv(e)'
    <3> TAKE e \in Ends
    <3>1. Holders(e)' = Holders(e) /\ (IsOpen(e)' <=> IsOpen(e)) /\ ref'[e] = ref[e]
      BY Zenon, <2>1 DEF Kept, Holders, IsOpen
    <3>2. Closers(e)' = Closers(e)
      BY Zenon, <2>1 DEF Kept, Closers, Others
    <3> QED
      BY <3>1, <3>2 DEF EndInv, FileInv
  <2> QED
    BY <2>1, <2>2, <2>3 DEF FileInv, Kept
<1>2. ASSUME NEW p \in Procs, Gone(p) PROVE FileInv'
  <2>1. /\ pc[p] = "exit" /\ open[p] = {} /\ UNCHANGED <<ref, open, readopen, writeopen, freed, lock, end>>
    BY <1>2 DEF Gone, files, pipe, call
  <2>2. Others(p) /\ pc'[p] \in {"user", "unused"}
    BY Zenon, <1>2, Moves DEF Gone, Labels
  <2>3. CallInv(p)'
    BY Zenon, <2>1, <2>2 DEF FileInv, CallInv, Writing, Reading, Locking
  <2>4. \A q \in Procs : CallInv(q)'
    BY <2>1, <2>2, <2>3, CallsKept DEF FileInv
  <2>5. \A e \in Ends : EndInv(e)'
    BY <2>1, <2>2, EndsKept DEF FileInv
  <2> QED
    BY <2>1, <2>4, <2>5 DEF FileInv
<1>3. CASE UNCHANGED vars
  <2>1. UNCHANGED <<ref, open, readopen, writeopen, freed, lock, end, pc>>
    BY <1>3 DEF vars, files, pipe, call
  <2>2. \A e \in Ends : EndInv(e)'
    BY SMTT(30), <2>1 DEF FileInv, EndInv, Holders, Closers, IsOpen
  <2> QED
    BY <2>1, <2>2 DEF FileInv, CallInv
<1> QED
  BY <1>1, <1>2, <1>3, MakeFiles, ForkFiles, CloseFiles, PipecloseFiles, StepCases

\* Every step keeps the types and the distance of the counters.
LEMMA TypeStep ==
  ASSUME TypeOK, FileInv, [Next]_vars
  PROVE  TypeOK'
<1>0. pc \in [Procs -> Labels] /\ Maker \in Procs
  BY PipeAssumption DEF TypeOK
<1>1. ASSUME NEW p \in Procs, sys_pipe(p) PROVE TypeOK'
  <2>1. uint(0) = 0 /\ 0 \in 0 .. (UINT - 1)
    BY Uint, PipeAssumption
  <2>2. nread' = 0 /\ nwrite' = 0 /\ uint(nwrite' - nread') <= PIPESIZE
    BY <1>1, <2>1, PipeAssumption DEF sys_pipe, pipealloc
  <2>3. ref' \in [Ends -> Nat] /\ open' \in [Procs -> SUBSET Ends]
    BY <1>1 DEF sys_pipe, pipealloc, filealloc, TypeOK
  <2> QED
    BY Zenon, <1>1, <2>1, <2>2, <2>3 DEF sys_pipe, pipealloc, call, TypeOK, uint
<1>2. ASSUME NEW p \in Procs, fork(p) PROVE TypeOK'
  <2>1. pc' \in [Procs -> Labels] /\ open' \in [Procs -> SUBSET Ends]
    <3>1. PICK c \in Procs : open' = [open EXCEPT ![c] = open[p]] /\ Goto(c, "user")
      BY Zenon, <1>2 DEF fork
    <3>2. open[p] \in SUBSET Ends /\ "user" \in Labels
      BY Zenon DEF TypeOK, Labels
    <3> QED
      BY <1>0, <3>1, <3>2 DEF Goto, TypeOK
  <2>2. ref' \in [Ends -> Nat]
    BY <1>2 DEF fork, filedup, TypeOK
  <2> QED
    BY SMTT(30), <1>2, <2>1, <2>2 DEF fork, pipe, call, TypeOK, uint
<1>3. ASSUME NEW p \in Procs, NEW e \in Ends, NEW l \in {"user", "exit"},
             pc[p] \in {"user", "exit"}, fileclose(p, e, l)
      PROVE  TypeOK'
  <2>1. ref[e] \in Nat \ {0}
    BY <1>3, CloseFiles
  <2>2. ref' \in [Ends -> Nat] /\ open' \in [Procs -> SUBSET Ends]
    BY <1>3, <2>1 DEF fileclose, TypeOK
  <2>3. pc' \in [Procs -> Labels] /\ back' \in [Procs -> {"user", "exit"}] /\ end' \in [Procs -> Ends]
    BY Zenon, <1>0, <1>3 DEF fileclose, Goto, Labels, TypeOK
  <2> QED
    BY SMTT(30), <1>3, <2>2, <2>3 DEF fileclose, pipe, TypeOK, uint
<1>4. ASSUME NEW p \in Procs, Gone(p) PROVE TypeOK'
  <2>1. pc' \in [Procs -> Labels] /\ killed' \in [Procs -> BOOLEAN]
    BY Zenon, <1>0, <1>4 DEF Gone, Goto, Labels, TypeOK
  <2> QED
    BY SMTT(30), <1>4, <2>1 DEF Gone, files, pipe, call, TypeOK, uint
<1>5. ASSUME NEW p \in Procs, pipeclose(p) PROVE TypeOK'
  <2>1. pc' \in [Procs -> Labels]
    BY <1>5, PipecloseFiles
  <2>2. readopen' \in BOOLEAN /\ writeopen' \in BOOLEAN /\ freed' \in BOOLEAN
    BY Zenon, <1>5 DEF pipeclose, TypeOK
  <2> QED
    BY <1>5, <2>1, <2>2 DEF pipeclose, files, call, TypeOK, uint
<1>6. ASSUME NEW p \in Procs, Quiet(p) PROVE TypeOK'
  <2>1. Kept(p)
    BY <1>6, QuietKept
  <2>2. data' \in [0 .. (PIPESIZE - 1) -> Bytes]
    BY Zenon, <1>6 DEF Quiet, exit, Write, Read, pipewrite, full, put, written, sleep, piperead, empty, get,
                done, kill, pipe, TypeOK
  <2>3. /\ nread' \in 0 .. (UINT - 1) /\ nwrite' \in 0 .. (UINT - 1)
        /\ uint(nwrite' - nread') <= PIPESIZE
    <3>1. CASE put(p)
      <4>1. ~Full /\ nwrite' = uint(nwrite + 1) /\ nread' = nread
        BY <3>1 DEF put
      <4>2. Used' = Used + 1 /\ Used < PIPESIZE
        BY <4>1, PutCounts
      <4>3. nwrite' \in 0 .. (UINT - 1) /\ Used \in 0 .. PIPESIZE
        <5>1. nwrite + 1 \in Int
          BY DEF TypeOK
        <5> QED
          BY <4>1, <5>1, Uint, CountersTell
      <4> QED
        BY SMTT(30), <4>1, <4>2, <4>3, PipeAssumption DEF Used, TypeOK, uint
    <3>2. CASE get(p)
      <4>1. ~Empty /\ nread' = uint(nread + 1) /\ nwrite' = nwrite
        BY <3>2 DEF get
      <4>2. Used' = Used - 1
        BY <4>1, GetCounts
      <4>3. nread' \in 0 .. (UINT - 1) /\ Used \in 0 .. PIPESIZE
        <5>1. nread + 1 \in Int
          BY DEF TypeOK
        <5> QED
          BY <4>1, <5>1, Uint, CountersTell
      <4> QED
        BY <4>1, <4>2, <4>3, PipeAssumption DEF Used, TypeOK, uint
    <3>3. CASE ~put(p) /\ ~get(p)
      <4>1. UNCHANGED <<nread, nwrite>>
        BY Zenon, <1>6, <3>3 DEF Quiet, exit, Write, Read, pipewrite, full, written, sleep, piperead, empty,
                          done, kill, pipe
      <4> QED
        BY <4>1 DEF TypeOK, uint
    <3> QED
      BY <3>1, <3>2, <3>3
  <2>4. todo' \in [Procs -> Nat]
    <3>1. CASE put(p) \/ get(p)
      <4>1. todo' = [todo EXCEPT ![p] = todo[p] - 1] /\ todo[p] > 0
        BY <3>1 DEF put, get
      <4> QED
        BY <4>1 DEF TypeOK
    <3>2. CASE Write(p) \/ Read(p)
      <4>1. PICK n \in Counts : todo' = [todo EXCEPT ![p] = n]
        BY Zenon, <3>2 DEF Write, Read
      <4>2. n \in Nat
        BY PipeAssumption
      <4> QED
        BY <4>1, <4>2 DEF TypeOK
    <3>3. CASE ~(put(p) \/ get(p) \/ Write(p) \/ Read(p))
      <4>1. todo' = todo \/ todo' = [todo EXCEPT ![p] = 0]
        BY Zenon, <1>6, <3>3 DEF Quiet, exit, pipewrite, full, written, sleep, piperead, empty, done, kill, call
      <4>2. todo \in [Procs -> Nat]
        BY DEF TypeOK
      <4> QED
        BY <4>1, <4>2
    <3> QED
      BY <3>1, <3>2, <3>3
  <2>5. got' \in [Procs -> Seq(Bytes)]
    <3>1. CASE get(p)
      <4>0. nread \in Int /\ PIPESIZE \in Nat \ {0} /\ data \in [0 .. (PIPESIZE - 1) -> Bytes]
        BY PipeAssumption DEF TypeOK
      <4>1. data[nread % PIPESIZE] \in Bytes
        <5>1. nread % PIPESIZE \in 0 .. (PIPESIZE - 1)
          BY <4>0, ModRange
        <5> QED
          BY <4>0, <5>1
      <4> QED
        BY <3>1, <4>1 DEF get, TypeOK
    <3>2. CASE ~get(p)
      <4>1. got' = got \/ got' = [got EXCEPT ![p] = <<>>]
        BY Zenon, <1>6, <3>2 DEF Quiet, exit, Write, Read, pipewrite, full, put, written, sleep, piperead, empty,
                          done, kill, call
      <4>2. got \in [Procs -> Seq(Bytes)] /\ <<>> \in Seq(Bytes)
        BY DEF TypeOK
      <4> QED
        BY Zenon, <4>1, <4>2
    <3> QED
      BY <3>1, <3>2
  <2>6. killed' \in [Procs -> BOOLEAN] /\ cut' \in BOOLEAN
    BY Zenon, <1>6 DEF Quiet, exit, Write, Read, pipewrite, full, put, written, sleep, piperead, empty, get,
                done, kill, TypeOK
  <2> QED
    BY Zenon, <2>1, <2>2, <2>3, <2>4, <2>5, <2>6 DEF Kept, TypeOK, uint
<1>7. CASE UNCHANGED vars
  BY <1>7 DEF vars, files, pipe, call, TypeOK, uint
<1> QED
  BY <1>1, <1>2, <1>3, <1>4, <1>5, <1>6, <1>7, StepCases

-----------------------------------------------------------------------------
\* The one that holds the lock is alone where the lock is held.
LEMMA LockAlone ==
  ASSUME FileInv, NEW p \in Procs, pc[p] \in Locking
  PROVE  lock = p /\ \A q \in Procs : pc[q] \in Locking => q = p
  BY DEF FileInv, CallInv

\* With the lock free nobody is where it is held.
LEMMA LockFree ==
  ASSUME FileInv, lock = None
  PROVE  \A q \in Procs : pc[q] \notin Locking
  BY Zenon, PipeAssumption DEF FileInv, CallInv

\* Steps of p that change nothing anybody waits for.
LEMMA WaitKept ==
  ASSUME WaitInv, NEW p \in Procs, Others(p), UNCHANGED <<nread, nwrite, readopen, writeopen, cut>>,
         \A q \in Procs \ {p} : got'[q] = got[q],
         pc[p] = "writing" => pc'[p] = "writing", pc[p] = "copying" => pc'[p] = "copying",
         Waits(p)'
  PROVE  WaitInv'
<1>1. /\ \A q \in Procs : /\ pc[q] = "writing" => pc'[q] = "writing"
                          /\ pc[q] = "copying" => pc'[q] = "copying"
      /\ (Empty' <=> Empty) /\ (Full' <=> Full)
  BY Zenon DEF Others, Empty, Full, uint
<1>2. ASSUME NEW q \in Procs \ {p} PROVE Waits(q)'
  <2>1. Waits(q)
    BY DEF WaitInv
  <2> QED
    BY Zenon, <1>1, <2>1 DEF Waits, Others
<1> QED
  BY <1>2 DEF WaitInv

\* The same for a step that leaves p where nobody waits.
LEMMA WaitElsewhere ==
  ASSUME WaitInv, NEW p \in Procs, Others(p), UNCHANGED <<nread, nwrite, readopen, writeopen, cut, got>>,
         pc[p] \notin {"writing", "copying"},
         pc'[p] \notin {"sleep reading", "sleep writing", "asleep reading", "asleep writing", "copying"}
  PROVE  WaitInv'
<1>1. Waits(p)'
  BY Zenon DEF Waits
<1> QED
  BY Zenon, <1>1, WaitKept

\* After a wakeup nobody sleeps on that channel.
LEMMA Woken ==
  ASSUME TypeOK, NEW p \in Procs, NEW l \in Labels \ {"asleep reading", "asleep writing"}
  PROVE  /\ pc' = WakeReaders([pc EXCEPT ![p] = l]) => \A q \in Procs : pc'[q] # "asleep reading"
         /\ pc' = WakeWriters([pc EXCEPT ![p] = l]) => \A q \in Procs : pc'[q] # "asleep writing"
  BY Zenon DEF WakeReaders, WakeWriters, Wake

\* The steps of pipewrite: a byte written is followed by a wakeup before the lock is free,
\* unless the writer was killed.
LEMMA WriteWaits ==
  ASSUME TypeOK, FileInv, WaitInv, NEW p \in Procs, full(p) \/ put(p) \/ written(p)
  PROVE  WaitInv'
<1>1. /\ pc[p] = "writing" /\ lock = p /\ \A q \in Procs : pc[q] \in Locking => q = p
      /\ UNCHANGED <<nread, readopen, writeopen, got>> /\ Kept(p)
  <2>1. pc[p] = "writing" /\ UNCHANGED <<nread, readopen, writeopen, got>> /\ Quiet(p)
    BY Zenon DEF full, put, written, pipe, call, Quiet
  <2> QED
    BY Zenon, <2>1, LockAlone, QuietKept DEF Locking
<1>2. Others(p) /\ \A q \in Procs \ {p} : pc[q] \notin Locking /\ pc'[q] \notin Locking
  BY Zenon, <1>1 DEF Kept, Others, Locking
<1>3. \A q \in Procs : pc[q] = "asleep writing" => readopen /\ Full
  BY Zenon, <1>1 DEF WaitInv, Waits, Locking
<1>4. CASE full(p)
  <2>0. UNCHANGED <<nread, nwrite>> /\ Full /\ (Full' <=> Full) /\ (Empty' <=> Empty)
    BY Zenon, <1>4 DEF full, pipe, Full, Empty, uint
  <2>1. CASE (~readopen \/ killed[p]) /\ Goto(p, "user") /\ cut' = (cut \/ killed[p])
    <3>1. pc'[p] = "user" /\ \A q \in Procs \ {p} : pc'[q] = pc[q]
      BY <2>1 DEF Goto, TypeOK
    <3>2. ASSUME NEW q \in Procs, pc'[q] = "asleep reading" PROVE writeopen' /\ cut'
      <4>1. pc[q] = "asleep reading"
        BY Zenon, <3>1, <3>2
      <4>2. "r" \in open[q]
        BY Zenon, <4>1 DEF FileInv, CallInv, Reading
      <4>3. readopen
        <5>1. Holders("r") # {} /\ "r" \in Ends
          BY <4>2 DEF Holders, Ends
        <5> QED
          BY <5>1 DEF FileInv, EndInv, IsOpen
      <4> QED
        BY Zenon, <1>1, <2>1, <4>1, <4>3 DEF WaitInv, Waits
    <3>3. ASSUME NEW q \in Procs PROVE Waits(q)'
      BY Zenon, <1>1, <1>2, <1>3, <2>0, <3>1, <3>2 DEF Waits, Locking
    <3> QED
      BY <3>3 DEF WaitInv
  <2>2. CASE readopen /\ ~killed[p] /\ pc' = WakeReaders([pc EXCEPT ![p] = "sleep writing"])
    <3>1. \A q \in Procs : pc'[q] # "asleep reading"
      BY Zenon, <2>2, Woken DEF Labels
    <3>2. pc'[p] = "sleep writing"
      BY Zenon, <2>2, Moves DEF Labels
    <3>3. ASSUME NEW q \in Procs PROVE Waits(q)'
      BY Zenon, <1>1, <1>2, <1>3, <2>0, <2>2, <3>1, <3>2 DEF Waits, Locking, Others
    <3> QED
      BY <3>3 DEF WaitInv
  <2> QED
    BY Zenon, <1>4, <2>1, <2>2 DEF full
<1>5. CASE put(p)
  <2>1. ~Full /\ UNCHANGED <<pc, cut>>
    BY <1>5 DEF put
  <2>2. ASSUME NEW q \in Procs PROVE Waits(q)'
    BY Zenon, <1>1, <1>2, <1>3, <2>1 DEF Waits, Locking, WaitInv
  <2> QED
    BY <2>2 DEF WaitInv
<1>6. CASE written(p)
  <2>0. /\ UNCHANGED <<nread, nwrite>> /\ (Full' <=> Full) /\ (Empty' <=> Empty)
        /\ pc' = WakeReaders([pc EXCEPT ![p] = "user"])
    BY <1>6 DEF written, pipe, Full, Empty, uint
  <2>1. (\A q \in Procs : pc'[q] # "asleep reading") /\ pc'[p] = "user"
    BY Zenon, <2>0, Woken, Moves DEF Labels
  <2>2. ASSUME NEW q \in Procs PROVE Waits(q)'
    BY Zenon, <1>1, <1>2, <1>3, <2>0, <2>1 DEF Waits, Locking, Others
  <2> QED
    BY <2>2 DEF WaitInv
<1> QED
  BY <1>4, <1>5, <1>6

\* The steps of piperead: room made is followed by a wakeup before the lock is free.
LEMMA ReadWaits ==
  ASSUME TypeOK, FileInv, WaitInv, NEW p \in Procs, get(p) \/ done(p)
  PROVE  WaitInv'
<1>1. /\ pc[p] = "copying" /\ lock = p /\ \A q \in Procs : pc[q] \in Locking => q = p
      /\ UNCHANGED <<nwrite, readopen, writeopen, cut>> /\ Kept(p)
  <2>1. pc[p] = "copying" /\ UNCHANGED <<nwrite, readopen, writeopen, cut>> /\ Quiet(p)
    BY DEF get, done, pipe, Quiet
  <2> QED
    BY Zenon, <2>1, LockAlone, QuietKept DEF Locking
<1>2. Others(p) /\ \A q \in Procs \ {p} : pc[q] \notin Locking /\ pc'[q] \notin Locking
  BY Zenon, <1>1 DEF Kept, Others, Locking
<1>3. \A q \in Procs : pc[q] = "asleep reading" => writeopen /\ (Empty \/ cut)
  BY Zenon, <1>1 DEF WaitInv, Waits, Locking
<1>4. CASE get(p)
  <2>1. ~Empty /\ UNCHANGED pc /\ got'[p] # <<>> /\ \A q \in Procs \ {p} : got'[q] = got[q]
    BY <1>4 DEF get, TypeOK
  <2>2. ASSUME NEW q \in Procs PROVE Waits(q)'
    BY Zenon, <1>1, <1>2, <1>3, <2>1 DEF Waits, Locking, WaitInv
  <2> QED
    BY <2>2 DEF WaitInv
<1>5. CASE done(p)
  <2>0. /\ UNCHANGED nread /\ (Full' <=> Full) /\ (Empty' <=> Empty)
        /\ pc' = WakeWriters([pc EXCEPT ![p] = "user"])
    BY <1>1, <1>5 DEF done, pipe, Full, Empty, uint
  <2>1. (\A q \in Procs : pc'[q] # "asleep writing") /\ pc'[p] = "user"
    BY Zenon, <2>0, Woken, Moves DEF Labels
  <2>2. ASSUME NEW q \in Procs PROVE Waits(q)'
    BY Zenon, <1>1, <1>2, <1>3, <2>0, <2>1 DEF Waits, Locking, Others
  <2> QED
    BY <2>2 DEF WaitInv
<1> QED
  BY <1>4, <1>5

\* Closing an end wakes those who would wait for it for ever.
LEMMA CloseWaits ==
  ASSUME TypeOK, FileInv, WaitInv, NEW p \in Procs, pipeclose(p)
  PROVE  WaitInv'
<1>1. /\ lock = None /\ back[p] \in Labels \ {"asleep reading", "asleep writing", "copying"}
      /\ pc[p] = "pipeclose" /\ back[p] \in {"user", "exit"}
      /\ UNCHANGED <<nread, nwrite, cut, got>> /\ (Full' <=> Full) /\ (Empty' <=> Empty)
  BY Zenon DEF pipeclose, call, TypeOK, Labels, Full, Empty, uint
<1>2. Others(p) /\ pc'[p] = back[p]
  <2>1. \/ pc' = WakeReaders([pc EXCEPT ![p] = back[p]])
        \/ pc' = WakeWriters([pc EXCEPT ![p] = back[p]])
    BY Zenon DEF pipeclose
  <2> QED
    BY Zenon, <1>1, <2>1, Moves
<1>3. \A q \in Procs : pc[q] \notin Locking /\ pc'[q] \notin Locking
  BY Zenon, <1>1, <1>2, LockFree DEF Others, Locking
<1>4. CASE UNCHANGED readopen /\ pc' = WakeReaders([pc EXCEPT ![p] = back[p]])
  <2>1. \A q \in Procs : pc'[q] # "asleep reading"
    BY Zenon, <1>1, <1>4, Woken
  <2>2. ASSUME NEW q \in Procs PROVE Waits(q)'
    BY Zenon, <1>1, <1>2, <1>3, <1>4, <2>1 DEF Waits, WaitInv, Others, Locking
  <2> QED
    BY <2>2 DEF WaitInv
<1>5. CASE UNCHANGED writeopen /\ pc' = WakeWriters([pc EXCEPT ![p] = back[p]])
  <2>1. \A q \in Procs : pc'[q] # "asleep writing"
    BY Zenon, <1>1, <1>5, Woken
  <2>2. ASSUME NEW q \in Procs PROVE Waits(q)'
    BY Zenon, <1>1, <1>2, <1>3, <1>5, <2>1 DEF Waits, WaitInv, Others, Locking
  <2> QED
    BY <2>2 DEF WaitInv
<1> QED
  BY Zenon, <1>4, <1>5 DEF pipeclose

\* Every step keeps the reasons for sleeping right.
LEMMA WaitStep ==
  ASSUME TypeOK, FileInv, WaitInv, [Next]_vars
  PROVE  WaitInv'
<1>1. ASSUME NEW p \in Procs, sys_pipe(p) PROVE WaitInv'
  <2>1. \A q \in Procs : pc'[q] \in {"unused", "user", "exit"}
    BY <1>1, FreedIsUnused DEF sys_pipe, pipealloc
  <2> QED
    BY Zenon, <2>1 DEF WaitInv, Waits
<1>2. ASSUME NEW p \in Procs, fork(p) PROVE WaitInv'
  <2>1. PICK c \in Procs : pc[c] = "unused" /\ Goto(c, "user")
    BY <1>2 DEF fork
  <2>2. UNCHANGED <<nread, nwrite, readopen, writeopen, cut, got>>
    BY <1>2 DEF fork, pipe, call
  <2>3. Others(c) /\ pc'[c] = "user"
    BY Zenon, <2>1, Moves DEF Labels
  <2> QED
    BY Zenon, <2>1, <2>2, <2>3, WaitElsewhere
<1>3. ASSUME NEW p \in Procs, NEW e \in Ends, NEW l \in {"user", "exit"},
             pc[p] \in {"user", "exit"}, fileclose(p, e, l)
      PROVE  WaitInv'
  <2>1. UNCHANGED <<nread, nwrite, readopen, writeopen, cut, got>>
    BY <1>3 DEF fileclose, pipe
  <2>2. Others(p) /\ pc'[p] \in {"user", "exit", "pipeclose"}
    BY Zenon, <1>3 DEF fileclose, Goto, Others, TypeOK
  <2> QED
    BY Zenon, <1>3, <2>1, <2>2, WaitElsewhere
<1>4. ASSUME NEW p \in Procs, Gone(p) PROVE WaitInv'
  <2>1. UNCHANGED <<nread, nwrite, readopen, writeopen, cut, got>> /\ pc[p] = "exit"
    BY Zenon, <1>4 DEF Gone, pipe, call
  <2>2. Others(p) /\ pc'[p] \in {"user", "unused"}
    BY Zenon, <1>4, Moves DEF Gone, Labels
  <2> QED
    BY Zenon, <2>1, <2>2, WaitElsewhere
<1>5. ASSUME NEW p \in Procs, exit(p) \/ Write(p) \/ Read(p) \/ pipewrite(p) \/ piperead(p)
      PROVE  WaitInv'
  <2>1. UNCHANGED <<nread, nwrite, readopen, writeopen, cut, got>> /\ pc[p] \in {"user", "write", "read"}
    BY <1>5 DEF exit, Write, Read, pipewrite, piperead, pipe, call
  <2>2. Others(p) /\ pc'[p] \in {"exit", "write", "read", "writing", "empty?"}
    BY Zenon, <1>5 DEF exit, Write, Read, pipewrite, piperead, Goto, Others, TypeOK
  <2> QED
    BY Zenon, <2>1, <2>2, WaitElsewhere
<1>6. ASSUME NEW p \in Procs, sleep(p) PROVE WaitInv'
  <2>1. /\ UNCHANGED <<nread, nwrite, readopen, writeopen, cut, got>>
        /\ (Full' <=> Full) /\ (Empty' <=> Empty)
    BY Zenon, <1>6 DEF sleep, pipe, call, Full, Empty, uint
  <2>2. /\ Others(p)
        /\ \/ pc[p] = "sleep writing" /\ pc'[p] = "asleep writing"
           \/ pc[p] = "sleep reading" /\ pc'[p] = "asleep reading"
    BY Zenon, <1>6 DEF sleep, Goto, Others, TypeOK
  <2>3. Waits(p)'
    BY Zenon, <2>1, <2>2 DEF WaitInv, Waits
  <2> QED
    BY Zenon, <2>1, <2>2, <2>3, WaitKept
<1>7. ASSUME NEW p \in Procs, empty(p) PROVE WaitInv'
  <2>1. /\ UNCHANGED <<nread, nwrite, readopen, writeopen, cut, got>> /\ pc[p] = "empty?"
        /\ (Full' <=> Full) /\ (Empty' <=> Empty)
    BY Zenon, <1>7 DEF empty, pipe, Full, Empty, uint
  <2>2. /\ Others(p)
        /\ \/ pc'[p] = "user"
           \/ pc'[p] = "sleep reading" /\ Empty /\ writeopen
           \/ pc'[p] = "copying" /\ (~Empty \/ ~writeopen)
    BY Zenon, <1>7 DEF empty, Goto, Others, TypeOK
  <2>3. Waits(p)'
    BY Zenon, <2>1, <2>2 DEF Waits
  <2> QED
    BY Zenon, <2>1, <2>2, <2>3, WaitKept
<1>8. ASSUME NEW p \in Procs, kill(p) PROVE WaitInv'
  <2>1. UNCHANGED <<nread, nwrite, readopen, writeopen, cut, got>>
    BY Zenon, <1>8 DEF kill, pipe, call
  <2>2. /\ Others(p)
        /\ \/ pc'[p] = pc[p]
           \/ pc[p] \in {"asleep writing", "asleep reading"} /\ pc'[p] \in {"write", "read"}
    BY Zenon, <1>8 DEF kill, Goto, Others, TypeOK
  <2>3. CASE pc'[p] = pc[p]
    <3>1. pc' = pc
      BY Zenon, <1>8, <2>3 DEF kill, Goto, TypeOK
    <3> QED
      BY Zenon, <2>1, <3>1 DEF WaitInv, Waits, Empty, Full, uint
  <2>4. CASE pc[p] \in {"asleep writing", "asleep reading"} /\ pc'[p] \in {"write", "read"}
    BY Zenon, <2>1, <2>2, <2>4, WaitElsewhere
  <2> QED
    BY Zenon, <2>2, <2>3, <2>4
<1>9. CASE UNCHANGED vars
  BY Zenon, <1>9 DEF vars, pipe, call, WaitInv, Waits, Empty, Full, uint
<1> QED
  <2>1. ASSUME NEW p \in Procs, Quiet(p) PROVE WaitInv'
    BY <1>5, <1>6, <1>7, <1>8, <2>1, WriteWaits, ReadWaits DEF Quiet
  <2> QED
    BY <1>1, <1>2, <1>3, <1>4, <1>9, <2>1, CloseWaits, StepCases

-----------------------------------------------------------------------------
\* Before the first pipe is made the invariant holds.
LEMMA InitIInv ==
  ASSUME Init
  PROVE  IInv
<1>1. /\ open = [p \in Procs |-> {}] /\ lock = None /\ ref = [e \in Ends |-> 0]
      /\ pc = [p \in Procs |-> IF p = Maker THEN "user" ELSE "unused"]
  BY DEF Init
<1>2. TypeOK
  <2>1. uint(0) = 0 /\ 0 \in 0 .. (UINT - 1) /\ 0 - 0 = 0
    BY Uint, PipeAssumption
  <2>2. (CHOOSE b \in Bytes : TRUE) \in Bytes
    BY PipeAssumption
  <2>3. data \in [0 .. (PIPESIZE - 1) -> Bytes]
    BY <2>2 DEF Init
  <2>4. pc \in [Procs -> Labels] /\ end \in [Procs -> Ends] /\ back \in [Procs -> {"user", "exit"}]
    BY DEF Init, Labels, Ends
  <2>5. todo \in [Procs -> Nat] /\ got \in [Procs -> Seq(Bytes)] /\ killed \in [Procs -> BOOLEAN]
    BY DEF Init
  <2>6. nread = 0 /\ nwrite = 0 /\ uint(nwrite - nread) <= PIPESIZE
    BY <2>1, PipeAssumption DEF Init
  <2>7. open \in [Procs -> SUBSET Ends] /\ ref \in [Ends -> Nat]
    BY <1>1
  <2> QED
    BY Zenon, <2>1, <2>3, <2>4, <2>5, <2>6, <2>7 DEF Init, TypeOK
<1>3. FileInv
  <2>1. \A e \in Ends : Holders(e) = {} /\ Closers(e) = {}
    BY <1>1 DEF Holders, Closers
  <2>2. \A e \in Ends : EndInv(e)
    BY Zenon, <1>1, <2>1, FS_EmptySet DEF Init, EndInv, IsOpen
  <2>3. \A p \in Procs : CallInv(p)
    BY <1>1, PipeAssumption DEF CallInv, Writing, Reading, Locking
  <2> QED
    BY <2>2, <2>3 DEF Init, FileInv
<1>4. WaitInv
  BY <1>1 DEF WaitInv, Waits
<1> QED
  BY <1>2, <1>3, <1>4 DEF IInv

\* IInv is an inductive invariant of the pipe.
THEOREM Invariance == Spec => []IInv
<1>1. IInv /\ [Next]_vars => IInv'
  BY TypeStep, FileStep, WaitStep DEF IInv
<1> QED
  BY InitIInv, <1>1, PTL DEF Spec

\* HeldIsOpen: through every fork, close, exit and kill, an end for which a process has a
\* descriptor is open in a pipe that is allocated, and a freed pipe has nobody inside.
THEOREM HeldOpen == Spec => []HeldIsOpen
<1>1. IInv => HeldIsOpen
  <2> SUFFICES ASSUME IInv PROVE HeldIsOpen
    OBVIOUS
  <2>1. TypeOK /\ FileInv
    BY DEF IInv
  <2>2. ASSUME NEW p \in Procs, NEW e \in Ends, e \in open[p] PROVE IsOpen(e) /\ ~freed
    <3>1. Holders(e) # {}
      BY <2>2 DEF Holders
    <3> QED
      BY <2>1, <3>1 DEF FileInv, EndInv, IsOpen
  <2>3. "r" \in Ends /\ "w" \in Ends /\ (IsOpen("r") <=> readopen) /\ (IsOpen("w") <=> writeopen)
    BY DEF Ends, IsOpen
  <2> QED
    BY <2>1, <2>2, <2>3, FreedIsUnused DEF HeldIsOpen
<1> QED
  BY Invariance, <1>1, PTL

\* No leak: the page of the pipe is freed as soon as nobody has a descriptor of it and
\* nobody is on the way to pipeclose.
FreedAtLast == (\A p \in Procs : open[p] = {} /\ pc[p] # "pipeclose") => freed

\* pipeclose frees the pipe with its last descriptor.
THEOREM NoLeak == Spec => []FreedAtLast
<1>1. IInv => FreedAtLast
  <2> SUFFICES ASSUME IInv, \A p \in Procs : open[p] = {} /\ pc[p] # "pipeclose" PROVE freed
    BY DEF FreedAtLast
  <2>1. \A e \in Ends : Holders(e) = {} /\ Closers(e) = {}
    BY DEF Holders, Closers
  <2> QED
    BY <2>1 DEF IInv, FileInv, EndInv, IsOpen, Ends
<1> QED
  BY Invariance, <1>1, PTL

\* NoLostWakeup: with the lock free, whoever sleeps has still to wait, but for the readers
\* whom a killed writer left without a wakeup.
THEOREM WakeupsKept == Spec => []NoLostWakeup
<1>1. IInv => NoLostWakeup
  <2> SUFFICES ASSUME IInv, lock = None PROVE NoLostWakeup
    BY Zenon DEF NoLostWakeup
  <2>1. \A q \in Procs : pc[q] # "writing" /\ pc[q] # "copying"
    BY Zenon, LockFree DEF IInv, Locking
  <2> QED
    BY Zenon, <2>1 DEF IInv, WaitInv, Waits, NoLostWakeup
<1> QED
  BY Invariance, <1>1, PTL

-----------------------------------------------------------------------------
\* A read in progress ends with done.
LEMMA OnlyDoneReturns ==
  ASSUME TypeOK, FileInv, [Next]_vars, NEW p \in Procs, pc[p] = "copying", pc'[p] = "user"
  PROVE  done(p)
<1>1. ASSUME NEW q \in Procs, Others(q), q # p PROVE FALSE
  BY Zenon, <1>1 DEF Others
<1>2. ASSUME NEW q \in Procs, sys_pipe(q) PROVE FALSE
  BY <1>2 DEF sys_pipe
<1>3. ASSUME NEW q \in Procs, fork(q) PROVE FALSE
  BY <1>3 DEF fork, Goto, TypeOK
<1>4. ASSUME NEW q \in Procs, NEW e \in Ends, NEW l \in {"user", "exit"},
             pc[q] \in {"user", "exit"}, fileclose(q, e, l)
      PROVE  FALSE
  BY Zenon, <1>4 DEF fileclose, Goto, TypeOK
<1>5. ASSUME NEW q \in Procs, Gone(q) PROVE FALSE
  BY Zenon, <1>5 DEF Gone, Goto, TypeOK
<1>6. ASSUME NEW q \in Procs, pipeclose(q) PROVE FALSE
  <2>1. pc[q] = "pipeclose" /\ Others(q)
    BY Zenon, <1>6, PipecloseFiles DEF pipeclose
  <2> QED
    BY <1>1, <2>1
<1>7. CASE UNCHANGED vars
  BY SMTT(30), <1>7 DEF vars
<1>8. ASSUME NEW q \in Procs, Quiet(q) PROVE done(p)
  <2>1. CASE exit(q) \/ Write(q) \/ Read(q) \/ pipewrite(q) \/ piperead(q) \/ sleep(q) \/ empty(q) \/ kill(q)
    BY Zenon, <2>1 DEF exit, Write, Read, pipewrite, piperead, sleep, empty, kill, Goto, TypeOK
  <2>2. CASE get(q) \/ put(q)
    BY <2>2 DEF get, put
  <2>3. CASE full(q) \/ written(q)
    <3>1. pc[q] = "writing"
      BY Zenon, <2>3 DEF full, written
    <3>2. Others(q)
      BY Zenon, <2>3, Moves DEF full, written, Labels
    <3> QED
      BY Zenon, <1>1, <3>1, <3>2
  <2>4. CASE done(q)
    <3>1. Others(q)
      BY Zenon, <2>4, Moves DEF done, Labels
    <3> QED
      BY SMTT(30), <1>1, <2>4, <3>1
  <2> QED
    BY <1>8, <2>1, <2>2, <2>3, <2>4 DEF Quiet
<1> QED
  BY <1>2, <1>3, <1>4, <1>5, <1>6, <1>7, <1>8, StepCases

\* EndOfFile: a read of some bytes that returns none finds the write end closed.
THEOREM ReadsToTheEnd == Spec => EndOfFile
<1>1. IInv /\ [Next]_vars =>
        [\A p \in Procs : pc[p] = "copying" /\ pc'[p] = "user" /\ got[p] = <<>> /\ todo[p] > 0
                            => ~writeopen]_vars
  <2> SUFFICES ASSUME IInv, [Next]_vars, NEW p \in Procs, pc[p] = "copying", pc'[p] = "user",
                      got[p] = <<>>, todo[p] > 0
               PROVE  ~writeopen
    OBVIOUS
  <2>1. done(p)
    BY OnlyDoneReturns DEF IInv
  <2>2. Empty
    BY <2>1 DEF done, IInv, TypeOK
  <2> QED
    BY Zenon, <2>2 DEF IInv, WaitInv, Waits
<1> QED
  BY Invariance, <1>1, PTL DEF Spec, EndOfFile

-----------------------------------------------------------------------------
\* The place of a byte is the same before and after its number wraps, because UINT is a
\* multiple of PIPESIZE.
LEMMA PlaceWraps ==
  ASSUME NEW x \in Int
  PROVE  uint(x) % PIPESIZE = x % PIPESIZE
<1>0. UINT \in Nat \ {0} /\ PIPESIZE \in Nat \ {0} /\ UINT % PIPESIZE = 0
  BY PipeAssumption
<1> DEFINE k == x \div UINT
           u == uint(x)
           m == UINT \div PIPESIZE
           j == u \div PIPESIZE
           r == u % PIPESIZE
<1>1. k \in Int /\ u \in Int /\ x = k * UINT + u
  BY <1>0, ModRange DEF uint
<1>2. m \in Int /\ UINT = m * PIPESIZE
  BY <1>0, ModRange
<1>3. j \in Int /\ r \in 0 .. (PIPESIZE - 1) /\ u = j * PIPESIZE + r
  BY Zenon, <1>0, <1>1, ModRange
<1> HIDE DEF k, u, m, j, r
<1>4. x = (k * m + j) * PIPESIZE + r /\ k * m + j \in Int
  <2>1. k * UINT = (k * m) * PIPESIZE
    BY <1>0, <1>1, <1>2
  <2>2. (k * m + j) * PIPESIZE = (k * m) * PIPESIZE + j * PIPESIZE
    BY <1>0, <1>1, <1>2, <1>3
  <2> QED
    BY <1>0, <1>1, <1>2, <1>3, <2>1, <2>2
<1>5. x % PIPESIZE = r
  BY Zenon, <1>0, <1>3, <1>4, ModUnique
<1> QED
  BY <1>5 DEF r, u

\* Bytes less than PIPESIZE apart have different places.
LEMMA PlacesDiffer ==
  ASSUME NEW x \in Int, NEW d \in 1 .. (PIPESIZE - 1)
  PROVE  (x + d) % PIPESIZE # x % PIPESIZE
<1>0. PIPESIZE \in Nat \ {0}
  BY PipeAssumption
<1> DEFINE y == x + d
           j == x \div PIPESIZE
           k == y \div PIPESIZE
<1>1. j \in Int /\ x % PIPESIZE \in Int /\ x = j * PIPESIZE + (x % PIPESIZE)
  BY <1>0, ModRange
<1>2. k \in Int /\ y % PIPESIZE \in Int /\ y = k * PIPESIZE + (y % PIPESIZE)
  BY <1>0, ModRange
<1> HIDE DEF j, k
<1>3. ASSUME y % PIPESIZE = x % PIPESIZE PROVE FALSE
  <2>1. (k - j) * PIPESIZE = d
    BY <1>0, <1>1, <1>2, <1>3
  <2>2. k - j = 0
    BY <1>0, <1>1, <1>2, <2>1, SmallMultiple
  <2> QED
    BY <1>0, <2>1, <2>2
<1> QED
  BY <1>3

-----------------------------------------------------------------------------
\* The queue that Stream is given.
Queue == [i \in 1 .. Used |-> data[(nread + i - 1) % PIPESIZE]]

\* A function on 1 .. n is a sequence.
LEMMA FunctionIsSeq ==
  ASSUME NEW S, NEW n \in Nat, NEW f \in [1 .. n -> S]
  PROVE  f \in Seq(S) /\ Len(f) = n
  OBVIOUS

\* The queue holds bytes.
LEMMA QueueType ==
  ASSUME TypeOK
  PROVE  /\ Queue \in Seq(Bytes) /\ Len(Queue) = Used
         /\ \A i \in 1 .. Used : /\ (nread + i - 1) % PIPESIZE \in 0 .. (PIPESIZE - 1)
                                 /\ Queue[i] = data[(nread + i - 1) % PIPESIZE]
<1>1. Used \in Nat /\ nread \in Int /\ PIPESIZE \in Nat \ {0}
  BY CountersTell, PipeAssumption DEF TypeOK
<1> HIDE DEF Used
<1>2. \A i \in 1 .. Used : /\ (nread + i - 1) % PIPESIZE \in 0 .. (PIPESIZE - 1)
                           /\ data[(nread + i - 1) % PIPESIZE] \in Bytes
  <2> TAKE i \in 1 .. Used
  <2>1. nread + i - 1 \in Int
    BY <1>1
  <2>2. (nread + i - 1) % PIPESIZE \in 0 .. (PIPESIZE - 1)
    BY <1>1, <2>1, ModRange
  <2> QED
    BY <2>2 DEF TypeOK
<1>3. Queue \in [1 .. Used -> Bytes]
  BY <1>2 DEF Queue
<1>4. \A i \in 1 .. Used : Queue[i] = data[(nread + i - 1) % PIPESIZE]
  BY DEF Queue
<1> HIDE DEF Queue
<1>5. Queue \in Seq(Bytes) /\ Len(Queue) = Used
  BY <1>1, <1>3, FunctionIsSeq
<1> QED
  BY <1>2, <1>4, <1>5

\* put appends a byte to the queue.
LEMMA PutAppends ==
  ASSUME TypeOK, ~Full, NEW b \in Bytes,
         data' = [data EXCEPT ![nwrite % PIPESIZE] = b], nwrite' = uint(nwrite + 1), nread' = nread
  PROVE  Queue' = Append(Queue, b) /\ Len(Queue) < PIPESIZE
<1>0. /\ PIPESIZE \in Nat \ {0} /\ nread \in Int /\ nwrite \in Int
      /\ Used \in Nat /\ Used < PIPESIZE /\ Used' = Used + 1
  <2>1. Used' = Used + 1 /\ Used < PIPESIZE /\ Used \in 0 .. PIPESIZE
    BY PutCounts, CountersTell
  <2> QED
    BY <2>1, PipeAssumption DEF TypeOK
<1>1. nwrite % PIPESIZE = (nread + Used) % PIPESIZE
  BY <1>0, CountersTell, PlaceWraps
<1>2. nwrite % PIPESIZE \in 0 .. (PIPESIZE - 1)
  BY <1>0, ModRange
<1>q. Queue \in Seq(Bytes) /\ Len(Queue) = Used
  BY QueueType
<1>a. Queue' = [i \in 1 .. (Used + 1) |-> data'[(nread + i - 1) % PIPESIZE]]
  BY <1>0 DEF Queue
<1> HIDE DEF Used
<1>3. data'[(nread + (Used + 1) - 1) % PIPESIZE] = b
  <2>1. nread + (Used + 1) - 1 = nread + Used
    BY <1>0
  <2> QED
    BY <1>1, <1>2, <2>1 DEF TypeOK
<1>4. ASSUME NEW i \in 1 .. Used PROVE data'[(nread + i - 1) % PIPESIZE] = Queue[i]
  <2> DEFINE x == nread + i - 1
             d == Used + 1 - i
  <2>1. x \in Int /\ d \in 1 .. (PIPESIZE - 1) /\ x + d = nread + Used
    BY <1>0
  <2>2. x % PIPESIZE # nwrite % PIPESIZE
    BY <1>1, <2>1, PlacesDiffer
  <2>3. x % PIPESIZE \in 0 .. (PIPESIZE - 1) /\ Queue[i] = data[x % PIPESIZE]
    BY QueueType
  <2> QED
    BY <1>2, <2>2, <2>3 DEF TypeOK
<1>5. \A i \in 1 .. (Used + 1) :
        data'[(nread + i - 1) % PIPESIZE] = IF i = Used + 1 THEN b ELSE Queue[i]
  BY <1>0, <1>3, <1>4
<1>6. /\ Append(Queue, b) \in Seq(Bytes) /\ Len(Append(Queue, b)) = Used + 1
      /\ \A i \in 1 .. (Used + 1) : Append(Queue, b)[i] = IF i = Used + 1 THEN b ELSE Queue[i]
  BY <1>0, <1>q, AppendProperties
<1>7. \A i \in 1 .. (Used + 1) : Append(Queue, b)[i] \in Bytes
  BY <1>0, <1>6, ElementOfSeq
<1>8. Queue' \in [1 .. (Used + 1) -> Bytes] /\ \A i \in 1 .. (Used + 1) : Queue'[i] = Append(Queue, b)[i]
  BY <1>a, <1>5, <1>6, <1>7
<1>9. Queue' \in Seq(Bytes) /\ Len(Queue') = Used + 1
  BY <1>0, <1>8, FunctionIsSeq
<1>10. Queue' = Append(Queue, b)
  BY <1>6, <1>8, <1>9, SeqEqual
<1> QED
  BY <1>0, <1>q, <1>10

\* get takes the first byte of the queue.
LEMMA GetTakes ==
  ASSUME TypeOK, ~Empty, nread' = uint(nread + 1), UNCHANGED <<nwrite, data>>
  PROVE  /\ Queue # <<>> /\ Head(Queue) = data[nread % PIPESIZE] /\ Queue' = Tail(Queue)
         /\ data[nread % PIPESIZE] \in Bytes
<1>0. /\ PIPESIZE \in Nat \ {0} /\ nread \in Int /\ Used \in Nat /\ Used > 0 /\ Used' = Used - 1
  <2>1. Used' = Used - 1 /\ Used > 0
    BY GetCounts
  <2>2. PIPESIZE \in Nat \ {0} /\ UINT \in Nat /\ nread \in 0 .. (UINT - 1)
    BY PipeAssumption DEF TypeOK
  <2>3. Used \in 0 .. PIPESIZE
    BY CountersTell
  <2> QED
    BY <2>1, <2>2, <2>3
<1>q. Queue \in Seq(Bytes) /\ Len(Queue) = Used
  BY QueueType
<1>a. Queue' = [i \in 1 .. (Used - 1) |-> data[(nread' + i - 1) % PIPESIZE]]
  BY <1>0 DEF Queue
<1> HIDE DEF Used
<1>1. Queue # <<>>
  BY <1>0, <1>q
<1>2. Head(Queue) = data[nread % PIPESIZE]
  <2>1. Head(Queue) = Queue[1] /\ 1 \in 1 .. Used /\ nread + 1 - 1 = nread
    BY <1>0, <1>q, <1>1
  <2>2. Queue[1] = data[(nread + 1 - 1) % PIPESIZE]
    BY <2>1, QueueType
  <2> QED
    BY <2>1, <2>2
<1>3. ASSUME NEW i \in 1 .. (Used - 1) PROVE data[(nread' + i - 1) % PIPESIZE] = Queue[i + 1]
  <2>1. nread + 1 \in Int /\ nread + i \in Int /\ i + 1 \in 1 .. Used /\ nread + (i + 1) - 1 = nread + i
    BY <1>0
  <2>2. /\ UINT \in Nat /\ UINT > PIPESIZE /\ Used <= PIPESIZE /\ nread \in 0 .. (UINT - 1)
        /\ nread' = IF nread + 1 < UINT THEN nread + 1 ELSE 0
    <3>1. UINT \in Nat /\ UINT > PIPESIZE /\ Used <= PIPESIZE /\ nread \in 0 .. (UINT - 1)
      BY PipeAssumption, CountersTell DEF TypeOK
    <3>2. nread + 1 \in 0 .. (UINT - 1) \/ nread + 1 \in UINT .. (2 * UINT - 1)
      BY <3>1
    <3>3. uint(nread + 1) = IF nread + 1 < UINT THEN nread + 1 ELSE (nread + 1) - UINT
      BY <2>1, <3>1, <3>2, Uint
    <3> QED
      BY <3>1, <3>3
  <2>3. nread' + i - 1 \in Int /\ nread' + i - 1 = IF nread + 1 < UINT THEN nread + i ELSE i - 1
    BY <2>2
  <2>4. (nread' + i - 1) % PIPESIZE = (nread + i) % PIPESIZE
    <3>1. uint(nread' + i - 1) = uint(nread + i)
      <4>1. CASE nread + 1 < UINT
        BY <2>3, <4>1
      <4>2. CASE nread = UINT - 1
        <5>1. nread' + i - 1 = i - 1 /\ i - 1 \in 0 .. (UINT - 1) /\ nread + i = UINT + (i - 1)
          BY <1>0, <2>2, <2>3, <4>2
        <5>2. uint(i - 1) = i - 1 /\ uint(UINT + (i - 1)) = i - 1
          BY <2>2, <5>1, Uint
        <5> QED
          BY <5>1, <5>2
      <4> QED
        BY <2>2, <4>1, <4>2
    <3> QED
      BY <2>1, <2>3, <3>1, PlaceWraps
  <2>5. Queue[i + 1] = data[(nread + (i + 1) - 1) % PIPESIZE]
    BY <2>1, QueueType
  <2> QED
    BY <2>1, <2>4, <2>5
<1>4. /\ Tail(Queue) \in Seq(Bytes) /\ Len(Tail(Queue)) = Used - 1
      /\ \A i \in 1 .. (Used - 1) : Tail(Queue)[i] = Queue[i + 1]
  BY <1>0, <1>q, <1>1, HeadTailProperties
<1>5. Queue' = Tail(Queue)
  <2>1. \A i \in 1 .. (Used - 1) : Tail(Queue)[i] \in Bytes
    BY <1>4, ElementOfSeq
  <2>2. /\ Queue' \in [1 .. (Used - 1) -> Bytes]
        /\ \A i \in 1 .. (Used - 1) : Queue'[i] = Tail(Queue)[i]
    BY <1>a, <1>3, <1>4, <2>1
  <2>3. Queue' \in Seq(Bytes) /\ Len(Queue') = Used - 1
    BY <1>0, <2>2, FunctionIsSeq
  <2> QED
    BY <1>4, <2>2, <2>3, SeqEqual
<1>6. Head(Queue) \in Bytes
  BY <1>q, <1>1
<1> QED
  BY <1>1, <1>2, <1>5, <1>6

-----------------------------------------------------------------------------
\* Where the buffer and what was read from it stay, so does the stream.
LEMMA StreamStays ==
  ASSUME UNCHANGED <<data, nread, nwrite, got>>
  PROVE  UNCHANGED <<Queue, got>>
  BY DEF Queue, Used, uint

\* A step of the pipe is a step of the stream, or none.
LEMMA StreamStep ==
  ASSUME TypeOK, FileInv, [Next]_vars
  PROVE  \/ UNCHANGED <<Queue, got>>
         \/ Queue' = <<>> /\ UNCHANGED got
         \/ Len(Queue) < PIPESIZE /\ (\E b \in Bytes : Queue' = Append(Queue, b)) /\ UNCHANGED got
         \/ \E p \in Procs : \/ /\ Queue # <<>> /\ Queue' = Tail(Queue)
                                /\ got' = [got EXCEPT ![p] = Append(@, Head(Queue))]
                             \/ got' = [got EXCEPT ![p] = <<>>] /\ UNCHANGED Queue
<1>1. ASSUME NEW p \in Procs, sys_pipe(p) PROVE Queue' = <<>> /\ UNCHANGED got
  <2>1. nread' = 0 /\ nwrite' = 0 /\ UNCHANGED got
    BY <1>1 DEF sys_pipe, pipealloc, call
  <2>2. Used' = 0
    BY <2>1, Uint, PipeAssumption DEF Used
  <2>3. Queue' = <<>>
    BY <2>2 DEF Queue
  <2> QED
    BY <2>1, <2>3
<1>2. ASSUME NEW p \in Procs, fork(p) PROVE UNCHANGED <<Queue, got>>
  BY <1>2, StreamStays DEF fork, pipe, call
<1>3. ASSUME NEW p \in Procs, NEW e \in Ends, NEW l \in {"user", "exit"}, fileclose(p, e, l)
      PROVE  UNCHANGED <<Queue, got>>
  BY <1>3, StreamStays DEF fileclose, pipe
<1>4. ASSUME NEW p \in Procs, Gone(p) \/ pipeclose(p) PROVE UNCHANGED <<Queue, got>>
  BY <1>4, StreamStays DEF Gone, pipeclose, pipe, call
<1>5. ASSUME UNCHANGED vars PROVE UNCHANGED <<Queue, got>>
  BY <1>5, StreamStays DEF vars, pipe, call
<1>6. ASSUME NEW p \in Procs, put(p)
      PROVE  Len(Queue) < PIPESIZE /\ (\E b \in Bytes : Queue' = Append(Queue, b)) /\ UNCHANGED got
  <2>1. PICK b \in Bytes : data' = [data EXCEPT ![nwrite % PIPESIZE] = b]
    BY Zenon, <1>6 DEF put
  <2>2. ~Full /\ nwrite' = uint(nwrite + 1) /\ UNCHANGED <<nread, got>>
    BY <1>6 DEF put
  <2>3. Queue' = Append(Queue, b) /\ Len(Queue) < PIPESIZE
    BY Zenon, <2>1, <2>2, PutAppends
  <2> QED
    BY <2>2, <2>3
<1>7. ASSUME NEW p \in Procs, get(p)
      PROVE  /\ Queue # <<>> /\ Queue' = Tail(Queue)
             /\ got' = [got EXCEPT ![p] = Append(@, Head(Queue))]
  <2>1. ~Empty /\ nread' = uint(nread + 1) /\ UNCHANGED <<nwrite, data>>
    BY <1>7 DEF get
  <2>2. Queue # <<>> /\ Head(Queue) = data[nread % PIPESIZE] /\ Queue' = Tail(Queue)
    BY <2>1, GetTakes
  <2> QED
    BY Zenon, <1>7, <2>2 DEF get
<1>8. ASSUME NEW p \in Procs, done(p)
      PROVE  got' = [got EXCEPT ![p] = <<>>] /\ UNCHANGED Queue
  BY <1>8 DEF done, pipe, Queue, Used, uint
<1>9. ASSUME NEW p \in Procs, exit(p) \/ Write(p) \/ Read(p) \/ pipewrite(p) \/ piperead(p)
                                \/ full(p) \/ written(p) \/ sleep(p) \/ empty(p) \/ kill(p)
      PROVE  UNCHANGED <<Queue, got>>
  BY Zenon, <1>9, StreamStays DEF exit, Write, Read, pipewrite, piperead, full, written, sleep, empty, kill, pipe, call
<1> QED
  <2>1. ASSUME NEW p \in Procs, Quiet(p)
        PROVE  \/ UNCHANGED <<Queue, got>>
               \/ put(p) \/ get(p) \/ done(p)
    BY <1>9, <2>1 DEF Quiet
  <2>2. \/ UNCHANGED <<Queue, got>>
        \/ \E p \in Procs : sys_pipe(p) \/ put(p) \/ get(p) \/ done(p)
    BY <1>2, <1>3, <1>4, <1>5, <2>1, StepCases
  <2> QED
    BY <1>1, <1>6, <1>7, <1>8, <2>2

\* IsByteStream: the circular buffer, its counters that wrap, and its sleeping readers and
\* writers implement the bounded queue of bytes of module ByteStream.
THEOREM Refinement == Spec => IsByteStream
<1> USE DEF Queue, Used
<1>1. Init => Stream!SInit
  <2> SUFFICES ASSUME Init PROVE Stream!SInit
    OBVIOUS
  <2>1. nread = 0 /\ nwrite = 0 /\ got = [p \in Procs |-> <<>>]
    BY DEF Init
  <2>2. Used = 0
    BY <2>1, Uint, PipeAssumption
  <2>3. Queue = <<>>
    BY <2>2
  <2> QED
    BY <2>1, <2>3 DEF Stream!SInit
<1>2. IInv /\ [Next]_vars => [Stream!SNext]_<<Queue, got>>
  <2> SUFFICES ASSUME IInv, [Next]_vars PROVE Stream!SNext \/ UNCHANGED <<Queue, got>>
    OBVIOUS
  <2>1. TypeOK /\ FileInv
    BY DEF IInv
  <2>2. Stream!SReset <=> Queue' = <<>> /\ UNCHANGED got
    BY DEF Stream!SReset
  <2>3. Stream!SWrite <=> Len(Queue) < PIPESIZE /\ (\E b \in Bytes : Queue' = Append(Queue, b)) /\ UNCHANGED got
    BY DEF Stream!SWrite
  <2>4. ASSUME NEW p \in Procs
        PROVE  /\ Stream!SRead(p) <=> /\ Queue # <<>> /\ Queue' = Tail(Queue)
                                      /\ got' = [got EXCEPT ![p] = Append(@, Head(Queue))]
               /\ Stream!SReturn(p) <=> got' = [got EXCEPT ![p] = <<>>] /\ UNCHANGED Queue
    BY Zenon DEF Stream!SRead, Stream!SReturn
  <2> HIDE DEF Queue, Used
  <2> QED
    BY <2>1, <2>2, <2>3, <2>4, StreamStep DEF Stream!SNext
<1> QED
  BY Invariance, <1>1, <1>2, PTL DEF Spec, IsByteStream, Stream!SSpec
=============================================================================
