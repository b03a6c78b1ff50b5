SPECIFICATION Spec
CONSTANTS
  first = first
  second = second
  third = third
  None = None
  Agents = {first, second, third}
  Tools = {}
  Urls = {}
  Names = {}
  AgentSpecs <- Graphs
  EntrySpecs <- Entries
  MaxEvents = 0
PROPERTIES
  OutputIsConsistent
CHECK_DEADLOCK FALSE
