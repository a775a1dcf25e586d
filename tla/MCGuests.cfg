SPECIFICATION Spec
CONSTANTS
  Nil = Nil
  CompilerGrants = {g1}
  Joiners = {j1, j2}
CHECK_DEADLOCK FALSE
INVARIANTS
  
  DigestCoversKeptUpdates
  CompilersAreContained
PROPERTIES
  RefusedCallChangesNothing
