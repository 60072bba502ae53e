-------------------------------- MODULE MCVM --------------------------------
(***************************************************************************)
(* Instances of VM for TLC.                                                *)
(*                                                                         *)
(* TLC identifies states that differ only in the numbers of base pages:    *)
(* with Shape as VIEW it explores one state per shape of the address       *)
(* spaces and number of free base pages.  That is sound as long as         *)
(* Ownership holds (and every run that uses the view checks it): the free  *)
(* pages all hold the same junk, no process stores the number of a base    *)
(* page, and no action and no property compares these numbers other than   *)
(* for equality.  Huge pages, whose numbers processes may store, are seen  *)
(* by number.                                                              *)
(***************************************************************************)
EXTENDS VM

\* Arguments of the system calls, by what they exercise.
NoRequests     == {}
GrowAndShrink  == {3, -2}       \* a page and a half, one page down
HugeGrow       == {13, 15}      \* one huge page, or two at once; together exactly two
Segments       == {3}
HugeWords      == {Odd} \cup HugeFrames

\* The present entries of page table pt, each with the first word of its page.
TableShape(pt) ==
  [j \in Index |-> IF mem[pt][j] \in Frames THEN <<mem[mem[pt][j]][0]>> ELSE <<>>]

\* The entries of directory dir that freevm has not yet freed.
DirShape(dir) ==
  [i \in Index |->
     LET e == mem[dir][i]
     IN  CASE Stale(dir, i)                -> <<>>
           [] e \in HugeFrames             -> <<e, mem[e][0]>>
           [] e \in Frames /\ i < KPDX     -> TableShape(e)
           [] OTHER                        -> e # 0]

Shape ==
  << Len(freelist), freehugelist, ptlock, panicked, misfreed,
     [p \in Procs |->
        LET r == proc[p]
        IN  IF r.state = "UNUSED" THEN <<>>
            ELSE IF r.state = "EMBRYO" THEN <<r.kstack # NULL>>
            ELSE <<r.state, r.parent, r.kstack # NULL, r.sz, r.hugesz, DirShape(r.pgdir)>>],
     [p \in Procs |->
        <<[k[p] EXCEPT !.d = 0, !.page = 0],
          IF k[p].d = NULL THEN <<>> ELSE DirShape(k[p].d),
          IF k[p].page = NULL THEN <<>> ELSE <<mem[k[p].page][0]>> >>] >>
=============================================================================
