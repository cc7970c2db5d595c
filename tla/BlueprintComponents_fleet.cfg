CONSTANTS
  Components = {c1}
  Versions = {v1, v2}
  Blueprints <- OneApart
  None = none
  Strategies = {"FleetBundle", "GitOps"}
  LateRepos = TRUE
  MaxEdits = 1
  MaxFaults = 1
SPECIFICATION FairSpec
CHECK_DEADLOCK FALSE
INVARIANTS
  GoneLeavesNothingNamed
PROPERTIES
  DesiredKept
  
  FailedIsOwnAnswer
  RefinesRollout
  Converges
  StatusFollows
