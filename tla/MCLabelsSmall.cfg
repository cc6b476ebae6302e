SPECIFICATION LabelSpec
CONSTANTS
  NDimms = 2
  NLabels = 4
  Uuids = {u1, u2, u3}
  NoUuid = NoUuid
  LargePayload = FALSE
  FaultKinds = {}
  MaxFaults = 0
  MaxCrashes = 0
SYMMETRY GuidSymmetry
INVARIANTS
  CreatedComplete
  HealthyComplete
  DeletedGone
PROPERTIES
  OldIndexKept
