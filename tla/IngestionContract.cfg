SPECIFICATION FairSpec
CONSTANTS
  p1 = p1
  p2 = p2
  p2x = p2x
  bad = bad
  e1 = e1
  e2 = e2
  n1 = n1
  NoEvent = NoEvent
  Payload = {p2, p2x, bad}
  Event = {e1, e2}
  Node = {n1}
  EventOf <- MCEventOf
  NodeOf <- MCNodeOf
  SequenceOf <- MCSequenceOf
  Retirable = {p2}
  Administered = {}
  Enforced = FALSE
  MaxRecords = 2
  MaxPublish = 2
PROPERTIES
  ImplementsCustody
  ForgetOnlyWhenDone
  
CHECK_DEADLOCK FALSE
