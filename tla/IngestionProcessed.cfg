SPECIFICATION Spec
CONSTANTS
  p1 = p1
  p2 = p2
  p2x = p2x
  bad = bad
  e1 = e1
  e2 = e2
  n1 = n1
  NoEvent = NoEvent
  Payload = {p1, p2}
  Event = {e1, e2}
  Node = {n1}
  EventOf <- MCEventOf
  NodeOf <- MCNodeOf
  SequenceOf <- MCSequenceOf
  Retirable = {}
  Administered = {n1}
  Enforced = TRUE
  MaxRecords = 2
  MaxPublish = 2
INVARIANTS
  CommittedTelemetryIsProcessed
CHECK_DEADLOCK FALSE
