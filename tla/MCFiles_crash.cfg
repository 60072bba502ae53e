CONSTANTS
  p1 = p1
  p2 = p2
  Procs <- MCProcs
  NINODES = 2
  NBLOCKS = 6
  BSIZE = 2
  NDIRECT = 1
  NINDIRECT = 1
  BPB = 1
  MAXOPBLOCKS = 6
  Sizes = {1, 3}
  Marks = {1}
SPECIFICATION Spec
VIEW Live
SYMMETRY Symmetry
INVARIANTS
  BlocksAccounted
  ReadsBack
  WithinReservation
