SPECIFICATION FairSpec
CONSTANTS
  parent = parent
  child = child
  None = None
  Agents = {parent, child}
  Tools = {}
  Ports = {1, 2}
  ToolUrls = {}
  Configs = {}
  Gateways = {}
  SpecsOf <- PairSpecs
  WatchesGateways = TRUE
  MaxEdits = 1
  MaxDeletes = 0
  MaxBumps = 1
  MaxFaults = 0
  MaxCrashes = 0
INVARIANTS
  TypeOK
  NoUnresolvedRollout
PROPERTIES
  Converges
  Degrades
CHECK_DEADLOCK FALSE
