SPECIFICATION Spec
CONSTANTS
  Invalid = Invalid
  Value = {0, 1, 2}
  Configuration <- RaisedRule
  Key = {k1}
  MaxTime = 4
  MaxVersions = 2
INVARIANT SustainedTrigger
