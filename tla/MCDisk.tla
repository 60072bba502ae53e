------------------------------- MODULE MCDisk -------------------------------
(***************************************************************************)
(* Instances of Disk for TLC.                                              *)
(***************************************************************************)
EXTENDS Disk, TLC

CONSTANTS p1, p2

\* Contents that differ from block to block.
Alternating == [n \in Blocks |-> n % 2]

\* Which buffer a block is in does not matter: buffers go by their place in the list.  Of
\* their data only that of valid ones matters, and the buffer of a process only while it
\* has one.
Place(b) == CHOOSE i \in Bufs : mru[i] = b

Shape ==
  <<disk, cmd, pc, panicked,
    [i \in Bufs |-> LET b == mru[i] IN
       IF buf[b].valid \/ buf[b].dirty THEN buf[b] ELSE [buf[b] EXCEPT !.data = 0]],
    [i \in Bufs |-> lock[mru[i]]],
    [i \in DOMAIN idequeue |-> Place(idequeue[i])],
    [p \in Procs |-> IF pc[p] = "idle" THEN 0 ELSE Place(cur[p])]>>
=============================================================================
