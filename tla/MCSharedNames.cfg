SPECIFICATION FairSpec
CONSTANTS
  None = None
  MaxBirths <- Births
  MaxEvents = 2
CHECK_DEADLOCK FALSE
INVARIANT TypeOK
INVARIANT DeploymentFirst
INVARIANT QuiescentIsOwner
PROPERTY NothingIsStolen
PROPERTY NameIsSettled
