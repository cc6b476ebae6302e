SPECIFICATION LabelSpec
CONSTANTS
  NDimms = 2
  NLabels = 4
  Uuids = {u1, u2}
  NoUuid = NoUuid
  LargePayload = TRUE
  FaultKinds = {"write"}
  MaxFaults = 1
  MaxCrashes = 0
SYMMETRY GuidSymmetry
INVARIANTS
  DeletedGone
