SPECIFICATION Spec
CONSTANTS
  MaxAttempts = 2
  MaxPerRun = 2
  MaxCommands = 3
INVARIANTS
  BrokerInv
  InOrderReconciles
PROPERTIES
  ClosedForGood
