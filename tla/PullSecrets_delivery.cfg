CONSTANTS
  w1 = w1
  w2 = w2
  Workloads = {w1, w2}
  Profiles <- TwoPairs
  Clusters = {c1}
  Namespaces = {n1}
  Existing = {}
  WellKnown = TRUE
  None = none
  MaxRotations = 1
  MaxEdits = 2
  MaxFaults = 1
SPECIFICATION FairSpec
CHECK_DEADLOCK FALSE
INVARIANTS
  LocalUntouched
  RefsAreOnRecord
  GoneLeavesNoBundle
PROPERTIES
  CredentialsFollow
  RefsFollow
