SPECIFICATION Spec
CONSTANTS
  Modes <- MCModes
  FollowUps = {f}
  MaxPrompts = 2
  MaxLoaded = 2
  MaxTurns = 3
  RetryLimit = 1
  NoToolLimit = 1
  MaxTasks = 1
  MaxFaults = 1
CHECK_DEADLOCK FALSE
INVARIANTS TypeOK NextCallKnowsTheLog SavedAsItStands
PROPERTY EveryStepNearsTheEnd
