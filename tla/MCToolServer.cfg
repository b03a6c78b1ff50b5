SPECIFICATION FairSpec
CONSTANTS
  None = None
  Ports = {1, 2}
  Paths = {"mcp", "sse"}
  Specs <- Served
  MaxEdits = 2
  MaxDeletes = 1
  MaxIncidents = 1
INVARIANTS
  TypeOK
  QuiescentIsReconciled
PROPERTIES
  KeepsPromise
  Settles
CHECK_DEADLOCK FALSE
