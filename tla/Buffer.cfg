SPECIFICATION Spec
CONSTANTS
  Bytes = {0, 1}
  kCheapPrepend = 1
  kInitialSize = 2
  kExtraBufSize = 2
  MaxChunk = 3
  MaxReadable = 4
INVARIANTS TypeOK IndexOrder MemoryBound
PROPERTY ImplementsByteQueue
