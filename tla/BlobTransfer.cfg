SPECIFICATION FairSpec
CONSTANTS
  Stores = {s1, s2}
  BlobOwners <- OneEach
  None = None
  MaxOps = 2
  MaxRes = 2
  MaxBlobs = 2
  MaxTombs = 1
  MaxToken = 4
  MaxChunk = 1
  MaxBlob = 2
  MaxSketch = 2
  MaxTransfer = 7
  MaxReads = 2
  MaxWrites = 2
CHECK_DEADLOCK FALSE
INVARIANTS
  BytesAreAccounted
PROPERTIES
  SealIsEndOfStream
  SuspendedTransferResumes
