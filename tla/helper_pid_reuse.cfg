SPECIFICATION Spec
CONSTANTS
  Runs = {r1, r2}
  Pids = {p1, p2}
  NoRun = NoRun
  NoPid = NoPid
  MaxControls = 1
  PipeCap = 1
  PidReuse = TRUE
  GuiMayDie = FALSE
SYMMETRY Symmetry
INVARIANTS
  NoStraySignal
