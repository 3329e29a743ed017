CONSTANTS
  PageShift = 4
  Ptr = 2
  Descriptors <- MCDescriptors
  DescAlign = 128
  Frames = 4
  Request <- MCRequest
  MaxLive = 3
SPECIFICATION HeapSpec
INVARIANTS Exclusive KfreeOwn
CHECK_DEADLOCK FALSE
