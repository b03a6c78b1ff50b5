SPECIFICATION Spec
CONSTANTS
  x = x
  y = y
  u = u
  w = w
  m = m
  n = n
  g1 = g1
  p1 = p1
  p2 = p2
  a1 = a1
  a2 = a2
  v1 = v1
  v2 = v2
  d1 = d1
  c1 = c1
  c2 = c2
  run = run
  init = init
  bad = bad
  Self <- SelfName
  Letters = {"a", "b"}
  Digits = {"1"}
  Malformed = {bad}
  Choices <- ChoicesOfFields
  FirstSpec <- First
  Adoptable <- AdoptableDeployments
  Gateways = {g1}
  None = None
  Marks <- Labels
  RestartMark <- Mark
  Sidecars = {c1, c2}
  Mount <- MountOfSidecar
  Commands = {run}
  PodParts = {init}
  Scales = {1, 3}
  MaxEdits = 3
  MaxForeign = 1
INVARIANT OursAndTheirs
INVARIANT ContainerSees
INVARIANT RefusalsHaveCauses
PROPERTY NoSpuriousRollout
PROPERTY OthersAreKept
