CONSTANTS
  Catalogs = {c1}
  Registries = {ac}
  Openshell = {os}
  Fixed = {nv}
  Public = {pub}
  Gated = {gat}
  FleetSpaces = {fl}
  InitialSpecs <- Starts
  None = none
  MaxEdits = 2
  MaxFaults = 1
SPECIFICATION FairSpec
CHECK_DEADLOCK FALSE
INVARIANTS
  
  NoDanglingSecret
  RotationReaches
PROPERTIES
  KeptCatalogStays
  Converge
