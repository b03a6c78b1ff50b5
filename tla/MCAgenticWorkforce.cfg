SPECIFICATION FairSpec
CONSTANTS
  first = first
  second = second
  third = third
  tool = tool
  url = url
  name1 = name1
  name2 = name2
  None = None
  Agents = {first, second, third}
  Tools = {tool}
  Urls = {url}
  Names = {name1, name2}
  AgentSpecs <- Graphs
  EntrySpecs <- Entries
  MaxEvents = 2
INVARIANTS
  TypeOK
  QuiescentIsTrue
PROPERTIES
  StatusJudgesCurrentSpec
  StatusBecomesTrue
CHECK_DEADLOCK FALSE
