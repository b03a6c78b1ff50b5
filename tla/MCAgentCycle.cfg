SPECIFICATION FairSpec
CONSTANTS
  left = left
  right = right
  None = None
  Agents = {left, right}
  Tools = {}
  Ports = {1}
  ToolUrls = {}
  Configs = {}
  Gateways = {}
  SpecsOf <- CycleSpecs
  WatchesGateways = TRUE
  MaxEdits = 0
  MaxDeletes = 0
  MaxBumps = 0
  MaxFaults = 0
  MaxCrashes = 0
PROPERTIES
  UrlIsPopulated
CHECK_DEADLOCK FALSE
