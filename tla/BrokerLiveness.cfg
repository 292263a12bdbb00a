SPECIFICATION FairSpec
CONSTANTS
  MaxAttempts = 2
  MaxPerRun = 1
  MaxCommands = 2
PROPERTY EventuallyClosed
