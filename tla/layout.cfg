SPECIFICATION Spec
CONSTANTS
  MaxU <- Width
  Calls <- MCCalls
INVARIANTS
  TypeOK
  FailureUntouched
  PlanSound
  WholeFile
  NoSpaceIsTrue
