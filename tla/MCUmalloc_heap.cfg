SPECIFICATION Spec
CONSTANTS
  HDR = 2
  UINT = 64
  MINCORE = 4
  HUGECORE = 6
  BASESTART = 3
  HUGESTART = 13
  BASEMAX = 8
  HUGEMAX = 6
  THRESHOLD = 3
  Requests <- SmallAndHuge
  Flags <- TwoFlags
  Gaps <- OneUnit
INVARIANTS HeapTiled SortedAndJoined
PROPERTIES GrowsOnlyWhenNeeded
VIEW ReadableState
CHECK_DEADLOCK FALSE
