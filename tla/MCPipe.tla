------------------------------- MODULE MCPipe -------------------------------
(***************************************************************************)
(* Instances of Pipe for TLC.                                              *)
(***************************************************************************)
EXTENDS Pipe, TLC

CONSTANTS p1, p2, p3

\* The children of the maker are interchangeable.
Children == Permutations({p2, p3})

\* What later steps depend on: the bytes in the queue but not those outside it, whether a
\* read has got any bytes but not which, the arguments of fileclose only on its way to
\* pipeclose, and nothing of a pipe that is freed.
Live ==
  <<files, lock, pc, todo, killed, freed,
    [p \in Procs |-> got[p] = <<>>],
    [p \in Procs |-> IF pc[p] = "pipeclose" THEN <<back[p], end[p]>> ELSE <<>>],
    IF freed THEN <<>>
    ELSE <<nread, readopen, writeopen, cut,
           [i \in 1 .. uint(nwrite - nread) |-> data[(nread + i - 1) % PIPESIZE]]>> >>
=============================================================================
