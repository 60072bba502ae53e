------------------------------- MODULE MCTree -------------------------------
(***************************************************************************)
(* Two processes in a tree with names a and b.                             *)
(***************************************************************************)
EXTENDS Tree, TLC

CONSTANTS p1, p2

MCProcs == {p1, p2}
Symmetry == Permutations(MCProcs)

C(op, path1) == [op |-> op, path |-> path1, new |-> <<>>]
TreeCalls ==
  {C("mkdir", <<ROOT, "a">>), C("mkdir", <<ROOT, "a", "b">>), C("unlink", <<ROOT, "a">>),
   C("unlink", <<ROOT, "a", "b">>), C("chdir", <<ROOT, "a", "b">>), C("chdir", <<ROOT>>),
   C("unlink", <<ROOT, "a", DOTDOT>>), C("create", <<DOTDOT, "b">>), C("create", <<"b">>),
   C("unlink", <<"b">>), C("chdir", <<ROOT, "a">>),
   [op |-> "link", path |-> <<DOTDOT, "b">>, new |-> <<ROOT, "a">>],
   [op |-> "link", path |-> <<ROOT, "b">>, new |-> <<ROOT, "a", DOTDOT>>]}

\* The part of the state the code, or a property, can still read.
Live ==
  <<node, ent, lock, ptr, pc, late, panicked,
    [p \in Procs |->
       <<name[p] = DOTDOT /\ pc[p] # "user",
         CASE At(p) = "namex" -> <<call[p].op, call[p].new, path[p]>>
           [] At(p) \in {"create", "unlink", "erase", "dirlink"} -> <<call[p].op, name[p]>>
           [] At(p) = "link" -> <<call[p].new>>
           [] OTHER -> <<>>>>],
    [p \in Procs |-> IF pc[p] \in {"iput", "drop"} THEN <<todo[p], back[p]>> ELSE <<>>]>>
=============================================================================
