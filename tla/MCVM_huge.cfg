SPECIFICATION Spec
CONSTANTS
  NPROC = 2
  NFRAMES = 10
  NHUGE = 2
  PGSIZE = 2
  NENTRIES = 7
  HPDX = 2
  KPDX = 6
  SbrkRequests <- NoRequests
  HugeRequests <- HugeGrow
  SegmentEnds <- Segments
  StoreWords <- HugeWords
INVARIANTS Ownership HugeSizeMapped PanicsOnlyInKhugefree
PROPERTIES HugeKept Private
VIEW Shape
CHECK_DEADLOCK FALSE
