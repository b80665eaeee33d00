SPECIFICATION Spec
CONSTANTS
  Disks = {d1, d2}
  Images = {}
  None = None
  MaxRequests = 3
SYMMETRY Symmetry
INVARIANTS
  OneOperation
  StopsOwnRun
  CancelledNeverSent
PROPERTIES
  ClosesWhenIdle
