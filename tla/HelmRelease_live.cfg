CONSTANTS
  Tags = {t1, t2}
  Bodies = {b1, b2}
  ReadsValues = {b2}
  Values = {x}
  NoValues = noValues
  LatchTTL = 2
  CacheTTL = 1
  Grace = 1
  Drain = 3
  MaxRevision = 6
  MaxEdits = 0
  MaxPushes = 1
  MaxManual = 1
  MaxStops = 0
  MaxFaults = 1
SPECIFICATION FairSpec
INVARIANT NilMeansRendered
PROPERTIES
  Converges
