SPECIFICATION Spec
CONSTANTS
  s1 = s1
  s2 = s2
  t1 = t1
  t2 = t2
  t3 = t3
  Sessions = {s1, s2}
  Turns = {t1, t2, t3}
  Cancellers = {c1}
  NoTurn = NoTurn
  SessionOf <- MCSessionOf
  MaxActive = 2
  MaxQueued = 1
INVARIANTS TypeOK PermitsConserved TableMatchesTurns NothingLeftBehind
PROPERTY TurnSlotsSpec
CHECK_DEADLOCK FALSE
