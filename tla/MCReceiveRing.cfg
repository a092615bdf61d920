CONSTANTS
  Depth = 3
  MaxBatch = 4
SPECIFICATION RingSpec
INVARIANT KernelHasSomewhereToWrite
