SPECIFICATION Spec
CONSTANTS
  Producers = {p1, p2}
  Drainers = {d1, d2}
  MaxItems = 1
  MaxFaults = 2
  MaxCrashes = 1
  Limit = 1
INVARIANTS TypeOK NeverLost
PROPERTIES DurableSpec
