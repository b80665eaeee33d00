SPECIFICATION FairSpec
CONSTANTS
  Runs = {r1}
  Pids = {p1}
  NoRun = NoRun
  NoPid = NoPid
  MaxControls = 1
  PipeCap = 1
  PidReuse = TRUE
  GuiMayDie = TRUE
PROPERTIES
  InterruptedEnds
  HelperLeaves
  AckedStopEnds
