------------------------------ MODULE MCFiles ------------------------------
(***************************************************************************)
(* Two processes on two files of up to two blocks of two bytes.            *)
(***************************************************************************)
EXTENDS Files, TLC

CONSTANTS p1, p2

MCProcs == {p1, p2}
Symmetry == Permutations(MCProcs)

\* What is to be known of inode i and its blocks: in which places there is one, in memory and
\* on the disk, what is in it unless that is addresses, and whether it is logged.  Which number
\* a block has makes no difference, and what itrunc has freed is no longer the inode's.
Shape(i) ==
  LET memory == Held(inode[i])
      freeing == \E p \in Procs : pc[p] = "itrunc" /\ ip[p] = i
      stored == IF freeing THEN memory ELSE Held(dinode[i])
      logged == IF lock[i] = Nobody THEN {} ELSE wrote[lock[i]]
  IN  <<inode[i].type, inode[i].nlink, inode[i].size,
        dinode[i].type, dinode[i].nlink, dinode[i].size,
        [k \in 0 .. MAXFILE |->
           LET b == memory[k]
           IN  IF Freed(i, k) THEN <<>>
               ELSE IF b = 0 THEN <<stored[k] = 0>>
               ELSE <<stored[k] = b, b \in used, DataBlock(b) \in logged, BBLOCK(b) \in logged,
                      IF k = MAXFILE \/ b \notin used THEN <<>> ELSE block[b]>>]>>

\* The part of the state the code can still read: not the contents of a free block, nor the
\* variables of a call that is over; with the numbers of blocks that are marked and held.
Live ==
  <<[i \in Inums |-> Shape(i)], Cardinality(used), Cardinality(Places(Map(inode))),
    Cardinality({Map(inode)[x[1]][x[2]] : x \in Places(Map(inode))}),
    lock, file, hist, panicked, pc,
    [p \in Procs |-> IF file[p] = None THEN 0 ELSE off[p]],
    [p \in Procs |-> IF pc[p] = "user" THEN <<>>
                     ELSE IF pc[p] = "write" THEN <<n[p]>>
                     ELSE IF pc[p] = "itrunc" THEN <<ip[p], tot[p]>>
                     ELSE <<n[p], n1[p], tot[p], Cardinality(wrote[p])>>]>>
=============================================================================
