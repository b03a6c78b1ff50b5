\* Every sequence of creates, applies and replaces of one ToolServer.
SPECIFICATION Spec
CONSTANTS
  None = None
  Ports = {8080, 9000}
  Paths <- MCPaths
  WellFormedPaths <- MCWellFormed
  ReplicaChoices = {0, 3}
  DefaultPort = 8080
INVARIANTS
  TypeOK
  ReapplyIsStable
  ManifestWins
