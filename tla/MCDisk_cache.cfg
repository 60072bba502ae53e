SPECIFICATION FairSpec
CONSTANTS
  p1 = p1
  p2 = p2
  Procs = {p1, p2}
  NBUF = 3
  Blocks = {1, 2, 3, 4}
  Written = {1, 2}
  Values = {0, 1}
  Image <- Alternating
  MAXPINNED = 2
  Errors = {FALSE}
VIEW Shape
INVARIANTS NoLostWakeup
PROPERTIES IsBlockStore Durable RequestsFinish
