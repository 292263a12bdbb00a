SPECIFICATION OperationsSpec
CONSTANTS
  Invalid = Invalid
  Value = {0, 1, 2}
  Configuration <- ThreeRules
  Key = {k1, k2}
  MaxTime = 4
  MaxVersions = 2
  s1 = s1
  s2 = s2
  c1 = c1
  Sessions = {s1, s2}
  Channels = {c1}
  MaxStamp = 2
  MaxChanges <- MCMaxChanges
  p1 = p1
  p2 = p2
  Bundles = {p1, p2}
  MaxOperations = 3
  MaxDeaths = 1
INVARIANTS
  EngineInv
  SustainedUntilReplaced
  CooldownKept
  TrailTellsState
  SessionInv
  OneClaim
  AttributionStands
  VersionInv
PROPERTIES
  LifecycleOrder
  OneResult
