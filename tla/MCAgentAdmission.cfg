\* Every sequence of admitted edits of one Agent and of the runtime configuration.
SPECIFICATION Spec
CONSTANTS
  None = None
  Images = {"image"}
  Texts = {"", "a2a", "web"}
  ReplicaChoices <- MCReplicaChoices
  ProtocolChoices <- MCProtocolChoices
  SubAgentChoices <- MCSubAgentChoices
  ToolChoices <- MCToolChoices
  VolumeChoices <- MCVolumeChoices
  MountChoices <- MCMountChoices
  DefaultReplicas = 1
  DefaultPort = 8000
INVARIANTS
  TypeOK
  DefaultsAreStable
  DefaultsOnlyFill
  FallbackUnreachable
  ReferencesResolve
  MountsAreDisjoint
