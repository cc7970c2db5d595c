CONSTANTS
  Charts = {c1}
  Plugin = p
  Versions = {v1}
  None = none
  ReadinessTimeout = 0
  PendingReleaseTimeout = 1
  MaxEdits = 1
  MaxFaults = 1
SPECIFICATION FairSpec
CHECK_DEADLOCK FALSE
PROPERTIES
  
  WaitsEnd
  Installs
