SPECIFICATION FairSpec
CONSTANTS
  agent = agent
  None = None
  Agents = {agent}
  Tools = {}
  Ports = {1, 2}
  ToolUrls = {}
  Configs = {}
  Gateways = {}
  SpecsOf <- LifecycleSpecs
  WatchesGateways = TRUE
  MaxEdits = 2
  MaxDeletes = 1
  MaxBumps = 0
  MaxFaults = 0
  MaxCrashes = 1
INVARIANTS
  QuiescentIsReconciled
  ReadyIsRolledOut
PROPERTIES
  KeepsPromise
  OrphansCollected
CHECK_DEADLOCK FALSE
