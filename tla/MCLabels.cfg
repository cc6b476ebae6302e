SPECIFICATION LabelSpec
CONSTANTS
  NDimms = 2
  NLabels = 3
  Uuids = {u1, u2, u3}
  NoUuid = NoUuid
  LargePayload = TRUE
  FaultKinds = {"read", "write"}
  MaxFaults = 1
  MaxCrashes = 2
SYMMETRY GuidSymmetry
INVARIANTS
  LabelTypeOK
  CreatedComplete
  UniqueLabel
  FreeSlotRemains
  HealthyComplete
  UndoneClean
  LabelInvariant
PROPERTIES
  OldIndexKept
  OthersKept
