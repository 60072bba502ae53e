----------------------------- MODULE MCConsole -----------------------------
(***************************************************************************)
(* Two processes that read and write the console.                          *)
(***************************************************************************)
EXTENDS Console, TLC

CONSTANTS p1, p2, a, b

MCProcs == {p1, p2}
MCData == {a, b}
MCOutputs == {<<a>>, <<a, NL>>}
Symmetry == Permutations(MCProcs)

\* The part of the state the code can still read: the ring between r and e, and of a process
\* that is not reading nothing.
Live ==
  <<r, w, e, Span(r, e), pc, killed, missed, screen,
    [p \in Procs |-> IF pc[p] = "user" THEN <<>> ELSE <<target[p], got[p]>>]>>
=============================================================================
