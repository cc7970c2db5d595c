CONSTANTS
  Components = {c1, c2}
  Versions = {v1, v2}
  Blueprints <- OneApart
  None = none
  Strategies = {"FleetBundle"}
  LateRepos = FALSE
  MaxEdits = 1
  MaxFaults = 1
SPECIFICATION Spec
CHECK_DEADLOCK FALSE
INVARIANT DeletionLeavesNothing
