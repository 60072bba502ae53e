SPECIFICATION Spec
CONSTANTS
  NCPU = 2
  NLOW = 3
  NFRAMES = 4
INVARIANTS LockUsed PagesAccounted
PROPERTIES ImplementsAllocator
