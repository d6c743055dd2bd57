SPECIFICATION Spec
CONSTANTS
  a = a
  b = b
  Paths <- MCPaths
  MediaLocks <- MCMediaLocks
  NCommands = 3
  MaxStep = 2
  MaxFaults = 1
INVARIANTS TypeOK MutatorsExclude RunsExactlyOnce QuietAfterReturn NeverStuck
PROPERTY NewStepsWait
CHECK_DEADLOCK FALSE
