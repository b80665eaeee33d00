SPECIFICATION StopSpec
CONSTANTS
  Disks = {}
  Images = {i1}
  None = None
  MaxRequests = 2
PROPERTIES
  StopEnds
  LocalStopEnds
  CloseEnds
