SPECIFICATION Spec
CONSTANTS
  tHigh = tHigh
  tMedium = tMedium
  tLow = tLow
  empty = empty
  narrow = narrow
  wide = wide
  a = a
  b = b
  r1 = r1
  r2 = r2
  a1 = a1
  a2 = a2
  b2 = b2
  Targets = {tHigh, tMedium, tLow}
  Units = {1, 2}
  UnitOf <- MCUnitOf
  Rank <- MCRank
  Documents = {empty, narrow, wide}
  Cadence <- MCCadence
  MaxCadence = 2
  Handlers = {a, b}
  FailureThreshold = 2
  CooldownInitial = 2
  CooldownMax = 2
  HighBurst = 1
  LowBurst = 2
  MaxLag = 0
  MaxDisturbances = 2
  Jobs = {a1, a2}
  Owners = {a, b}
  OwnerOf <- MCOwnerOf
  MaxPending = 2
  MaxPerOwner = 1
  MaxFaults = 1
  NoJob = NoJob
  Reports = {r1, r2}
  Generators = {a, b}
  NoReport = NoReport
  MaxAttempts = 2
  MaxMishaps = 1
  Events = {a1, a2, b2}
  CapturedAt <- MCCapturedAt
  MaxCaptured = 2
  Series = {a, b}
  SeriesOf <- MCSeriesOf
  QueueSize = 1
  ResumeLimit = 2
  MaxReconcile = 1
  MaxDrops = 2
INVARIANTS
  SchedulerInv
  CadenceKept
  ExportInv
  DeliveryInv
  ProjectionInv
  
PROPERTIES
  EveryTargetAttempted
  ResultNotInterrupted
  ExportSettles
  OutcomeIsFinal
  DeliverySettles
CHECK_DEADLOCK FALSE
