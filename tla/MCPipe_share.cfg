SPECIFICATION Spec
CONSTANTS
  p1 = p1
  p2 = p2
  p3 = p3
  Procs = {p1, p2, p3}
  Maker = p1
  PIPESIZE = 2
  UINT = 4
  Bytes = {0, 1}
  Counts = {3}
  Victims = {p1}
VIEW Live
INVARIANTS HeldIsOpen NoLostWakeup
PROPERTIES IsByteStream EndOfFile
SYMMETRY Children
