CONSTANTS
  Versions = {v1, v2}
  NoVersion = noVersion
  Contents = {c1}
  NoContent = noContent
  Targets = {t1}
  MaxHandled = 2
  MaxRequests = 2
  MaxEpoch = 2
  MaxEdits = 1
  MaxFaults = 1
SPECIFICATION Spec
CHECK_DEADLOCK FALSE
SYMMETRY Symmetry
INVARIANTS
  ProjectionNotStuck
  NonceStartsOnce
PROPERTIES
  OutcomeFinal
  RefinesLifecycle
  
  
