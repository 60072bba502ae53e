CONSTANTS
  p1 = p1
  p2 = p2
  Procs <- MCProcs
  Names = {"a", "b"}
  NINODES = 3
  Calls <- TreeCalls
SPECIFICATION Spec
VIEW Live
SYMMETRY Symmetry
CHECK_DEADLOCK FALSE
INVARIANTS
  LinksCounted
  TreeShape
  LocksOrdered
