SPECIFICATION Spec
CONSTANTS
  Disks = {d1}
  Images = {}
  None = None
  MaxRequests = 2
SYMMETRY Symmetry
INVARIANTS
  CompletedMeansRan
