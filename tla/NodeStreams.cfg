SPECIFICATION FairSpec
CONSTANTS
  MaxSequence = 5
  MaxBeats = 1
  MaxBad = 1
  Backlog = 2
  Window = 1
  QueueSize = 1
INVARIANTS
  StreamInv
  StatusTold
PROPERTY
  LastStatusArrives
CHECK_DEADLOCK FALSE
