SPECIFICATION Spec
CONSTANTS
  Stores = {s1, s2}
  BlobOwners <- OneEach
  None = None
  MaxOps = 3
  MaxRes = 2
  MaxBlobs = 2
  MaxTombs = 1
  MaxToken = 4
  MaxChunk = 2
  MaxBlob = 2
  MaxSketch = 3
  MaxTransfer = 11
  MaxReads = 2
  MaxWrites = 2
CHECK_DEADLOCK FALSE
INVARIANTS
  NoStrandedTransfer
