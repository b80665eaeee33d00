SPECIFICATION Spec
CONSTANTS
  Disks = {d1, d2}
  Images = {}
  None = None
  MaxRequests = 2
SYMMETRY Symmetry
INVARIANTS
  QualifiedByOwnAnalysis
