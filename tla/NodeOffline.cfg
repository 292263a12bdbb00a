SPECIFICATION Spec
CONSTANTS
  MaxSequence = 6
  MaxBeats = 1
  MaxBad = 0
  Backlog = 4
  Window = 3
  QueueSize = 4
INVARIANT
  OfflineOverridesHealth
CHECK_DEADLOCK FALSE
