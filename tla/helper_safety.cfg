SPECIFICATION Spec
CONSTANTS
  Runs = {r1, r2}
  Pids = {p1, p2}
  NoRun = NoRun
  NoPid = NoPid
  MaxControls = 1
  PipeCap = 1
  PidReuse = FALSE
  GuiMayDie = TRUE
SYMMETRY Symmetry
INVARIANTS
  TypeOK
  FollowOnAccepted
  IdleOwnsNoChild
  WriterStopSafe
  StopNotLost
  SignalsJustified
PROPERTIES
  ImplementsProtocol
