SPECIFICATION Spec
CONSTANTS
  Disks <- MCDisks
  Parts <- MCParts
  Stacked <- MCStacked
  Parent <- MCParent
  Slaves <- MCSlaves
  Extent <- MCExtent
  Loop = "loop0"
  Inodes = {"img1"}
  Media = {"card1", "card2"}
  IdKind <- MCIdKind
  Label <- MCLabel
  Targets <- MCTargets
  Uses <- MCUses
  Nothing = Nothing
  MaxRelated = 9
  MaxEvents = 2
  GenericNames = {"newfs"}
  PolicyNames = {"newfs", "New-FS", "affs", "swap"}
  Files = {"NEW.so", "ALT.so", "OFS.so"}
  Installations <- MCInstallations
  Arguments <- MCArguments
  Paths = {"/target", "/other"}
  Attached <- MCAttached
  Refresh = 2
  MaxFailures = 1
  MaxRuns = 1
INVARIANTS
  LoopReferencesFound
