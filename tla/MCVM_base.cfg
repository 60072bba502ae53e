SPECIFICATION Spec
CONSTANTS
  NPROC = 3
  NFRAMES = 14
  NHUGE = 0
  PGSIZE = 2
  NENTRIES = 6
  HPDX = 3
  KPDX = 5
  SbrkRequests <- GrowAndShrink
  HugeRequests <- NoRequests
  SegmentEnds <- Segments
  StoreWords <- NoRequests
INVARIANTS Ownership SizeMapped
VIEW Shape
