SPECIFICATION FairSpec
CONSTANTS
  agent = agent
  tool = tool
  gateway = gateway
  None = None
  Agents = {agent}
  Tools = {tool}
  Ports = {1}
  ToolUrls = {url1, url2}
  Configs = {config1, config2}
  Gateways = {gateway, other}
  SpecsOf <- InputSpecs
  WatchesGateways = TRUE
  MaxEdits = 1
  MaxDeletes = 0
  MaxBumps = 0
  MaxFaults = 1
  MaxCrashes = 0
PROPERTIES
  Converges
  Degrades
CHECK_DEADLOCK FALSE
