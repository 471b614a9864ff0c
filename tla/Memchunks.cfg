SPECIFICATION Spec
CONSTANTS
  ChunkSize = 2
  MaxChunks = 3
  Input <- MCInput
  MaxCount = 3
  MaxBytes = 3
  PeekBytes = 5
INVARIANTS
  IovecsArePrefixes
  ChunksPartitioned
PROPERTIES
  IsByteQueues
