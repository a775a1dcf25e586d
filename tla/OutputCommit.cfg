SPECIFICATION FairSpec
CONSTANTS
  Stores = {s1}
  Writer = s1
  Lengths <- OnlyTwo
  Grants = 1
  None = None
  MaxOps = 2
  MaxRes = 3
  MaxBlobs = 2
  MaxTombs = 1
  MaxToken = 4
  MaxChunk = 1
  MaxBlob = 2
  MaxSketch = 3
  MaxTransfer = 10
  MaxReads = 2
  MaxWrites = 2
CHECK_DEADLOCK FALSE
INVARIANTS
  CommitsHaveJobs
  DestinationIsWhole
  
PROPERTIES
  ReplacedExactlyByCompletion
  JoinReturns
