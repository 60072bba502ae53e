------------------------------ MODULE MCInode ------------------------------
(***************************************************************************)
(* Two processes on a directory of two names.  There are as many slots of  *)
(* the cache as inodes on the disk, so that iget always finds one.         *)
(***************************************************************************)
EXTENDS Inode, TLC

CONSTANTS p1, p2, n1, n2

MCProcs == {p1, p2}
MCNames == {n1, n2}
Symmetry == Permutations(MCProcs) \cup Permutations(MCNames)

\* The part of the state the code can still read: not the contents of a slot without
\* references, nor the variables of a call that is over.
Live ==
  <<dinode, dir, dirlock, lock, file, pc, raced, panicked,
    [s \in Slots |-> IF icache[s].ref = 0 THEN <<>>
                     ELSE IF icache[s].valid THEN <<icache[s]>>
                     ELSE <<icache[s].inum, icache[s].ref>>],
    [p \in Procs |-> IF pc[p] \in {"ialloc", "ialloced"} \/ KeepsIp(p) THEN ip[p] ELSE None],
    [p \in Procs |-> IF pc[p] \in {"ialloc", "ialloced", "created", "link", "dirlink", "unlink"}
                     THEN name[p] ELSE None],
    [p \in Procs |-> IF pc[p] \in Putting THEN <<put[p], back[p]>> ELSE <<>>]>>
=============================================================================
