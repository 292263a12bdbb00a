SPECIFICATION FairSpec
CONSTANTS
  Event = {e1, e2, e3}
  NoEvent = {e1, e2, e3}
  BatchLimit = 2
  GraceCycles = 3
INVARIANTS
  OutboxInv
  FirstCopiesInOrder
PROPERTIES
  ImplementsCustody
  EventuallyDrained
