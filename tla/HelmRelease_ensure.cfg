CONSTANTS
  Tags = {t1, t2}
  Bodies = {b1, b2}
  ReadsValues = {b2}
  Values = {x}
  NoValues = noValues
  LatchTTL = 2
  CacheTTL = 1
  Grace = 1
  Drain = 3
  MaxRevision = 3
  MaxEdits = 1
  MaxPushes = 1
  MaxManual = 0
  MaxStops = 1
  MaxFaults = 1
SPECIFICATION Spec
SYMMETRY Symmetry
INVARIANTS
  PendingOnlyByKillOrLate
  LatchWindow
