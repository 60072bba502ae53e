CONSTANTS
  p1 = p1
  p2 = p2
  a = a
  b = b
  Procs <- MCProcs
  Data <- MCData
  Outputs <- MCOutputs
  INPUT_BUF = 3
  UINT = 6
  MAXREAD = 2
  COLS = 2
  ROWS = 3
SPECIFICATION Spec
VIEW Live
SYMMETRY Symmetry
INVARIANTS
  NoLostWakeup
  CursorOnScreen
PROPERTIES
  IsLineDiscipline
