SPECIFICATION Spec
CONSTANTS
  MaxU = 40
  Error = Error
  Total = 5
  UnitSize = 2
  Uses <- MCUses
  Requests <- MCRequests
  Identities <- MCIdentities
  Reports <- MCReports
  RangeEvents <- MCRangeEvents
  ResetEvents <- MCResetEvents
  CellEvents <- MCCellEvents
  MaxEvents = 2
INVARIANTS
  TypeOK
  CellsInOrder
  Accounted
  FailureHarmless
  RightBackend
  QualifiedByWriter
PROPERTY
  ExactDisplay
