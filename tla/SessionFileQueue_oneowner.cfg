SPECIFICATION FairSpec
CONSTANTS
  Producers = {p1, p2}
  Drainers = {d1}
  MaxItems = 3
  MaxFaults = 1
  MaxCrashes = 1
  Limit = 2
INVARIANT AppliedInOrder
PROPERTIES NoStaleReplay DurableAndDrained
