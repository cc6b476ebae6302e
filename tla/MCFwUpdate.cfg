SPECIFICATION FwSpec
CONSTANTS
  NDimms = 2
  LargePayload <- MCLargePayload
  Packets = 3
  Versions <- MCVersions
  Recoveries <- MCBoth
  MaxChecks = 2
  MaxTries = 3
  MaxPolls = 2
  MaxFaults = 1
  MaxLoads = 2
  MaxCycles = 1
INVARIANTS FwTypeOK StagedWhole DowngradeAgreed ReportedStaged ResultTruthful
PROPERTIES LoadEnds
