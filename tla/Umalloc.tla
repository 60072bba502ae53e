------------------------------ MODULE Umalloc ------------------------------
(***************************************************************************)
(* The allocator of the user library: malloc, vmalloc, free and vfree over *)
(* two circular lists of free blocks, one in the heap of base pages and    *)
(* one in the heap of huge pages, with the transparent use of huge pages   *)
(* (THP) by malloc.                                                        *)
(*                                                                         *)
(* An address counts units of sizeof(Header) bytes.  The headers of the    *)
(* blocks are the function hdr; what the program stores in its blocks is   *)
(* left out.  The program runs one thread, so each call is one action, but *)
(* GLOBAL_THP belongs to the kernel and any process may change it.         *)
(***************************************************************************)
EXTENDS Integers, FiniteSetsExt

CONSTANTS
  HDR,          \* sizeof(Header), in bytes
  UINT,         \* 2^32: unsigned arithmetic is modulo UINT
  MINCORE,      \* least number of units morecore asks for (4096 in the code)
  HUGECORE,     \* least number of units morehugecore asks for (a huge page)
  BASESTART,    \* first unit of the base heap, above the data segment
  HUGESTART,    \* first unit of the huge heap (HUGE_PAGE_START)
  BASEMAX,      \* units the kernel can add to the base heap
  HUGEMAX,      \* units the kernel can add to the huge heap
  THRESHOLD,    \* 1000000: malloc uses huge pages above it
  Requests,     \* arguments of malloc and vmalloc, in bytes
  Flags,        \* arguments of vmalloc
  Gaps          \* units the program takes from the base heap by itself

VMALLOC_SIZE_BASE == 0
VMALLOC_SIZE_HUGE == 1

NULL   == 0
Pools  == {"base", "huge"}
\* The static headers base and hugebase lie in the data segment, below both heaps.
anchor == [q \in Pools |-> IF q = "base" THEN 1 ELSE 2]
START  == [q \in Pools |-> IF q = "base" THEN BASESTART ELSE HUGESTART]
MAXBRK == [q \in Pools |-> IF q = "base" THEN BASESTART + BASEMAX ELSE HUGESTART + HUGEMAX]
CORE   == [q \in Pools |-> IF q = "base" THEN MINCORE ELSE HUGECORE]
Addr   == 1 .. (HUGESTART + HUGEMAX)

ASSUME UmallocAssumption ==
  /\ HDR \in Nat \ {0} /\ UINT \in Nat \ {0} /\ UINT % (2 * HDR) = 0 /\ MINCORE \in Nat \ {0} /\ HUGECORE \in Nat \ {0}
  /\ BASESTART > 2 /\ BASESTART + BASEMAX + 1 < HUGESTART
  /\ Requests \subseteq 0 .. (UINT - 1) /\ Gaps \subseteq Nat \ {0}

VARIABLES
  hdr,      \* [ptr, size] of the header at each address
  freep,    \* freep and hugefreep
  brk,      \* first address above each heap
  live,     \* header addresses of the blocks the program has
  gaps,     \* units the program got from sbrk itself
  thp,      \* GLOBAL_THP
  call      \* the allocation just made: what was asked for and what came back

vars == <<hdr, freep, brk, live, gaps, thp, call>>

NoCall == [op |-> "none", n |-> 0, ret |-> NULL]

Init ==
  /\ hdr = [a \in Addr |-> [ptr |-> NULL, size |-> 0]]
  /\ freep = [q \in Pools |-> NULL]
  /\ brk = START
  /\ live = {} /\ gaps = {} /\ thp = 0
  /\ call = NoCall

-----------------------------------------------------------------------------
\* The part of the state the list operations work on.
Heap == [hdr |-> hdr, freep |-> freep, brk |-> brk]

\* The list of pool q from freep on: Node(S, q)[n] is reached after n steps.
Node(S, q) ==
  LET N[n \in 0 .. Cardinality(Addr)] == IF n = 0 THEN S.freep[q] ELSE S.hdr[N[n - 1]].ptr
  IN  N

\* The first test of malloc and vmalloc: an empty list is the anchor alone.
WithAnchor(S, q) ==
  IF S.freep[q] # NULL THEN S
  ELSE [S EXCEPT !.freep[q] = anchor[q], !.hdr[anchor[q]] = [ptr |-> anchor[q], size |-> 0]]

\* The loop of vfree stops at p: bp belongs between p and its successor, or p is the
\* last block and bp lies outside the range of the list.
Between(S, p, bp) ==
  LET s == S.hdr[p].ptr
  IN  (bp > p /\ bp < s) \/ (p >= s /\ (bp > p \/ bp < s))

\* The faults of MergeUp and MergeDown: the neighbour's size is not added; neighbours
\* are not joined.
MergeUpLosesSize(h, bp, s) ==
  IF bp + h[bp].size = s THEN [h EXCEPT ![bp].ptr = h[s].ptr] ELSE [h EXCEPT ![bp].ptr = s]
NeverMergeDown(h, p, bp) == [h EXCEPT ![p].ptr = bp]

\* Join bp to the upper neighbour s, or link it in front of s.
MergeUp(h, bp, s) ==
  IF bp + h[bp].size = s
    THEN [h EXCEPT ![bp] = [ptr |-> h[s].ptr, size |-> h[bp].size + h[s].size]]
    ELSE [h EXCEPT ![bp].ptr = s]

\* Join bp to the lower neighbour p, or link it behind p.
MergeDown(h, p, bp) ==
  IF p + h[p].size = bp
    THEN [h EXCEPT ![p] = [ptr |-> h[bp].ptr, size |-> h[p].size + h[bp].size]]
    ELSE [h EXCEPT ![p].ptr = bp]

\* vfree of the block with header bp in pool q.
Insert(S, q, bp) ==
  LET N == Node(S, q)
      p == N[Min({n \in DOMAIN N : Between(S, N[n], bp)})]
  IN  [S EXCEPT !.hdr = MergeDown(MergeUp(S.hdr, bp, S.hdr[p].ptr), p, bp), !.freep[q] = p]

\* The pool vfree chooses; ap is the address after the header bp.
PoolOf(bp) == IF bp + 1 >= HUGESTART THEN "huge" ELSE "base"

vfreeIn(S, bp) == Insert(S, PoolOf(bp), bp)

\* The places of the list after which a block of nunits follows, up to freep.
Found(S, q, nunits) ==
  LET N == Node(S, q)
      last == Min({n \in DOMAIN N \ {0} : N[n] = N[0]})
  IN  {n \in 0 .. (last - 1) : S.hdr[N[n + 1]].size >= nunits}

\* Take nunits from the first block that is large enough: the whole block, or its
\* tail end.
Take(S, q, nunits) ==
  LET N     == Node(S, q)
      i     == Min(Found(S, q, nunits))
      prevp == N[i]
      b     == N[i + 1]
      rest  == S.hdr[b].size - nunits
  IN  IF rest = 0
        THEN [S |-> [S EXCEPT !.hdr[prevp].ptr = S.hdr[b].ptr, !.freep[q] = prevp], bp |-> b]
        ELSE [S |-> [S EXCEPT !.hdr[b].size = rest, !.hdr[b + rest].size = nunits,
                              !.freep[q] = prevp],
              bp |-> b + rest]

\* The number of units malloc looks for: unsigned arithmetic.
Units(n) == ((n + HDR - 1) % UINT) \div HDR + 1

\* morecore and morehugecore: the units sbrk or shugebrk is asked for ...
CoreUnits(q, nunits) == IF nunits < CORE[q] THEN CORE[q] ELSE nunits

\* ... the argument this makes, nu * sizeof(Header) modulo 2^32 taken as an int (in units) ...
Argument(nu) ==
  LET bytes == (nu * HDR) % UINT
  IN  (IF bytes < UINT \div 2 THEN bytes ELSE bytes - UINT) \div HDR

\* ... the end of the heap after the call: none when the kernel refuses, which it does for want
\* of pages or when the size left is 0.  An argument that is not positive shrinks the heap or, when it
\* is larger than the heap, leaves it: deallocuvm returns the old size.  (What shugebrk then does
\* to hugesz besides is in VM.)
sbrk(S, q, n) ==
  LET old == IF q = "base" THEN S.brk[q] ELSE S.brk[q] - HUGESTART
      new == IF old + n < 0 THEN old ELSE old + n
  IN  {e \in {S.brk[q] - old + new} : IF n > 0 THEN e <= MAXBRK[q] ELSE new > 0 \/ n = 0}

\* ... and the heap with the new block, from the old end on, freed into it.
Grown(S, q, nu, end) ==
  LET hp == S.brk[q]
  IN  vfreeIn([S EXCEPT !.hdr[hp].size = nu, !.brk[q] = end], hp)

\* The fault of Outcomes: the heap grows when the first block does not fit.
OutcomesImpatient(q, n) ==
  LET S  == WithAnchor(Heap, q)
      nu == CoreUnits(q, Units(n))
  IN  IF 0 \in Found(S, q, Units(n)) THEN {Take(S, q, Units(n))}
      ELSE {[S |-> S, bp |-> NULL]} \cup
           {Take(Grown(S, q, nu, end), q, Units(n)) : end \in sbrk(S, q, Argument(nu))}

\* The search of malloc and vmalloc in pool q: take a free block, or grow the heap
\* once and take from the new block, or return 0.
Outcomes(q, n) ==
  LET S  == WithAnchor(Heap, q)
      nu == CoreUnits(q, Units(n))
      failed == [S |-> S, bp |-> NULL]
  IN  IF Found(S, q, Units(n)) # {} THEN {Take(S, q, Units(n))}
      ELSE {failed} \cup
           {Take(Grown(S, q, nu, end), q, Units(n)) : end \in sbrk(S, q, Argument(nu))}

Allocate(q, op, n) ==
  \E o \in Outcomes(q, n) :
    /\ hdr' = o.S.hdr /\ freep' = o.S.freep /\ brk' = o.S.brk
    /\ live' = IF o.bp = NULL THEN live ELSE live \cup {o.bp}
    /\ call' = [op |-> op, n |-> n, ret |-> IF o.bp = NULL THEN NULL ELSE o.bp + 1]
    /\ UNCHANGED <<gaps, thp>>

\* The pool malloc uses.
MallocPool(n) == IF n > THRESHOLD /\ thp # 0 THEN "huge" ELSE "base"

malloc(n) == Allocate(MallocPool(n), "malloc", n)

\* A flag other than VMALLOC_SIZE_BASE means huge pages; the base pages of vmalloc
\* are malloc's.
vmalloc(n, flag) ==
  Allocate(IF flag = VMALLOC_SIZE_BASE THEN MallocPool(n) ELSE "huge", "vmalloc", n)

\* free is vfree.
vfree(bp) ==
  /\ bp \in live
  /\ LET S == vfreeIn(Heap, bp)
     IN  hdr' = S.hdr /\ freep' = S.freep
  /\ live' = live \ {bp}
  /\ call' = NoCall
  /\ UNCHANGED <<brk, gaps, thp>>

\* Some process calls setthp.
setthp(x) ==
  /\ x # thp
  /\ thp' = x
  /\ call' = NoCall
  /\ UNCHANGED <<hdr, freep, brk, live, gaps>>

\* The program calls sbrk itself: the base heap goes on above what it took.
OwnSbrk(u) ==
  /\ sbrk(Heap, "base", u) # {}
  /\ brk' = [brk EXCEPT !["base"] = brk["base"] + u]
  /\ gaps' = gaps \cup (brk["base"] .. (brk["base"] + u - 1))
  /\ call' = NoCall
  /\ UNCHANGED <<hdr, freep, live, thp>>

\* The block just returned came from a sbrk whose argument was not positive: there is no memory
\* behind it, and the first store to it, if not that to its header, ends the process or goes
\* to a page of another block.
Unbacked ==
  /\ call.ret # NULL
  /\ Argument(CoreUnits(PoolOf(call.ret - 1), Units(call.n))) <= 0

\* The model follows the program up to such a block.
Next ==
  /\ ~Unbacked
  /\ \/ \E n \in Requests : malloc(n) \/ \E flag \in Flags : vmalloc(n, flag)
     \/ \E bp \in live : vfree(bp)
     \/ \E x \in {0, 1} : setthp(x)
     \/ \E u \in Gaps : OwnSbrk(u)

Spec == Init /\ [][Next]_vars

-----------------------------------------------------------------------------
\* Every variable has its type.
TypeOK ==
  /\ hdr \in [Addr -> [ptr : Addr \cup {NULL}, size : 0 .. UINT]]
  /\ freep \in [Pools -> Addr \cup {NULL}]
  /\ \A q \in Pools : brk[q] \in 0 .. MAXBRK[q]
  /\ live \subseteq Addr /\ gaps \subseteq Addr /\ thp \in {0, 1}
  /\ call.ret \in Nat

\* The free blocks of pool q, the anchor left out, and the units of a block.
FreeBlocks(q) ==
  IF freep[q] = NULL THEN {} ELSE {Node(Heap, q)[n] : n \in 0 .. Cardinality(Addr)} \ {anchor[q]}
Extent(bp) == bp .. (bp + hdr[bp].size - 1)

\* A pointer malloc or vmalloc returned has room for the bytes that were asked for, unless the
\* sum in the computation of nunits wraps (umalloc.c:139).
Fits == call.ret # NULL /\ call.n + HDR - 1 < UINT => call.n <= (hdr[call.ret - 1].size - 1) * HDR

\* Every unit either heap got from the kernel is in exactly one free block of that
\* pool's list, one block of the program, or one gap: blocks never overlap, none is
\* handed out twice, and splitting, joining and freeing lose nothing.  The pools stay
\* apart: a list holds only blocks of its own heap.  And of a block malloc or vmalloc returns
\* "n bytes are available for use", unless nunits wraps.  All this up to a request so large that
\* nu * sizeof(Header) is not positive as an int (umalloc.c:97, 120): sbrk then succeeds without
\* adding memory, and malloc returns a block with none behind it.
HeapTiled ==
  /\ TypeOK /\ Fits
  /\ ~Unbacked => \A q \in Pools :
       LET F == FreeBlocks(q)
       IN  /\ brk[q] >= START[q]
           /\ \A b \in F : Extent(b) \subseteq START[q] .. (brk[q] - 1)
           /\ \A u \in START[q] .. (brk[q] - 1) :
                Cardinality({b \in F : u \in Extent(b)})
                  + Cardinality({b \in live : u \in Extent(b)}) + (IF u \in gaps THEN 1 ELSE 0) = 1

\* The lists are in address order up to the one step back to the start, and two free
\* blocks that touch have been joined, whatever the order of the calls.
SortedAndJoined ==
  \A q \in Pools : freep[q] # NULL =>
    LET L == FreeBlocks(q) \cup {anchor[q]}
    IN  /\ Cardinality({b \in L : hdr[b].ptr <= b}) = 1
        /\ \A b \in L : b # anchor[q] => b + hdr[b].size \notin L

\* A heap grows only when none of its free blocks is large enough: memory freed
\* earlier, or left over from a huge page, is used first.
GrowsOnlyWhenNeeded ==
  [][\A q \in Pools : brk'[q] > brk[q] /\ call'.op # "none"
        => \A b \in FreeBlocks(q) : hdr[b].size < Units(call'.n)]_vars
=============================================================================
