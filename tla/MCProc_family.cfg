SPECIFICATION Spec
CONSTANTS
  NCPU = 2
  NPROC = 3
  Programs <- Family
  Naps <- OneTick
  KillTargets = {2}
INVARIANTS StackExclusive NoLostWakeup InterruptsRestored
VIEW Live
