SPECIFICATION Spec
CONSTANTS
  Nil = Nil
  Views = {v1}
  ViewOps = {o1, o2}
CHECK_DEADLOCK FALSE
INVARIANTS
  WindowsFollowTheirOwners
  GuestResourcesAreSettled
  
  ConnectionsKeepTheirPromises
  StoredDataIsFaithful
SYMMETRY Symmetry
