SPECIFICATION FwSpec
CONSTANTS
  NDimms = 2
  LargePayload <- MCLargePayload
  Packets = 3
  Versions <- MCVersions
  Recoveries <- MCRecovery
  MaxChecks = 2
  MaxTries = 3
  MaxPolls = 2
  MaxFaults = 1
  MaxLoads = 1
  MaxCycles = 0
INVARIANTS RecoveredTook
