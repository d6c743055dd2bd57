SPECIFICATION FairSpec
CONSTANTS
  Prompts = {p1, p2}
  Readers = {r1}
  Probers = {l1}
  None = None
  MaxFaults = 1
  MaxBeside = 0
INVARIANTS TypeOK PromptsAreKept LiveTurnsAreNotInterrupted
PROPERTIES SettlesFromBusy PromptDeliverySpec
CHECK_DEADLOCK FALSE
