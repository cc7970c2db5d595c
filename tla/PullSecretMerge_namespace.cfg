CONSTANTS
  Accounts = {a1}
  Pods = {a1}
  Names = {n1, n2}
  AdminName = regcred
  None = none
  Sides = {"local", "downstream"}
  MaxBounces = 2
  MaxEdits = 1
  MaxFaults = 1
SPECIFICATION FairSpec
CHECK_DEADLOCK FALSE
INVARIANTS
  BouncesBounded
PROPERTIES
  EntriesKept
  AccountsConverge
  BrokenStays
  PodsRecover
