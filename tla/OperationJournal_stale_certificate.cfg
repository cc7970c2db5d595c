CONSTANTS
  Versions = {v1, v2}
  NoVersion = noVersion
  Contents = {c1, c2}
  NoContent = noContent
  Targets = {t1}
  MaxHandled = 2
  MaxRequests = 2
  MaxEpoch = 2
  MaxEdits = 0
  MaxFaults = 0
SPECIFICATION Spec
CHECK_DEADLOCK FALSE
PROPERTY SuccessAlwaysRolledOut
