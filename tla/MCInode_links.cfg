CONSTANTS
  p1 = p1
  p2 = p2
  n1 = n1
  n2 = n2
  Procs <- MCProcs
  Names <- MCNames
  NINODES = 3
  NINODE = 3
SPECIFICATION Spec
VIEW Live
SYMMETRY Symmetry
INVARIANTS
  RefsCounted
  LinksCounted
  WriteThrough
  FreedAtLast
