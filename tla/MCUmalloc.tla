----------------------------- MODULE MCUmalloc -----------------------------
(***************************************************************************)
(* Instances of Umalloc for TLC.                                           *)
(***************************************************************************)
EXTENDS Umalloc
OneUnit   == {1}
\* Two and four units with the header; and three that reach sbrk as a negative int larger than
\* the heap, a negative int smaller than the heap, and 0.
SmallAndHuge == {1, 5, 36, 58, 62}
TwoFlags  == {VMALLOC_SIZE_BASE, VMALLOC_SIZE_HUGE}

\* The view leaves out words no operation reads before it writes them (headers that
\* belong to no block, and the link of an allocated block), and of the last call what no
\* invariant reads.
ReadableState ==
  << [q \in Pools |-> [b \in FreeBlocks(q) |-> hdr[b]]],
     [q \in Pools |-> IF freep[q] = NULL THEN <<>> ELSE <<freep[q], hdr[anchor[q]]>>],
     [b \in live |-> hdr[b].size], brk, gaps, thp,
     IF call.ret = NULL THEN <<>> ELSE <<call.n, call.ret>> >>
=============================================================================
