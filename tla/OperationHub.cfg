SPECIFICATION Spec
CONSTANTS
  Stores = {s1, s2}
  None = None
  CloseReasons = {"Closed"}
  MaxOps = 2
  MaxRes = 2
  MaxBlobs = 0
  MaxTombs = 2
  MaxToken = 4
SYMMETRY Symmetry
CHECK_DEADLOCK FALSE
INVARIANTS
  TypeOK
  SlotsNeverShared
  BorrowedResourceIsLive
  ReservationsAreHeld
  ClosedHubStaysDrained
  NoLostWakeup

  
