SPECIFICATION FairSpec
CONSTANTS
  Sessions = {s1, s2}
  Messages = {m1}
  Workers = {w1, w2}
  Writers = {w1, w2}
  Boot = boot
  UpsertStates = {"running", "completed"}
  Deletes = TRUE
  MaxWrites = 2
  MaxCrashes = 1
INVARIANTS TypeOK WrittenIsListed
PROPERTIES NoRunningAfterRecovery RunningIsInterrupted SessionCatalogSpec
