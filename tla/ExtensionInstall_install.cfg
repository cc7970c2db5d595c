CONSTANTS
  Names = {n1, n2}
  Charts = {c1, c2, c3, c4}
  GitRepos = {g1, g2}
  Invalid = {c3, c4, g2}
  Refused = {c4}
  None = none
  Patient = TRUE
  UninstallFails = FALSE
  StatusLags = FALSE
  MaxEdits = 2
  MaxFaults = 2
SPECIFICATION FairSpec
CHECK_DEADLOCK FALSE
INVARIANTS
  NoLeftovers
  DeletionLeavesNothing
PROPERTIES
  Converges
