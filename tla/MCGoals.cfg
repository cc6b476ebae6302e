SPECIFICATION GoalSpec
CONSTANTS
  NoGoal = NoGoal
  NDimms = 4
  SocketOf <- MCSocketOf
  Supported <- MCSupported
  LargePayload <- MCLargePayload
  MaxIndex = 2
  MaxFaults = 1
  MaxCrashes = 1
INVARIANTS GoalTypeOK CreateComplete NoneLeft GoalsWhole 
PROPERTIES UntargetedKept
