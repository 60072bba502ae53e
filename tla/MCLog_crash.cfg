SPECIFICATION FairSpec
CONSTANTS
  p1 = p1
  p2 = p2
  p3 = p3
  b1 = b1
  b2 = b2
  Procs = {p1, p2, p3}
  Blocks = {b1, b2}
  MAXOPBLOCKS = 1
  OPBLOCKS = 1
  LOGSIZE = 2
  NLOG = 3
  MAXWRITES = 1
  MAXOPS = 3
  MAXCRASHES = 2
INVARIANTS CommitAlone
PROPERTIES CrashAtomic SleepersWake
