SPECIFICATION FairSpec
CONSTANTS
  s1 = s1
  s2 = s2
  t1 = t1
  t2 = t2
  t3 = t3
  Sessions = {s1, s2}
  Turns = {t1, t2, t3}
  Cancellers = {c1}
  NoTurn = NoTurn
  SessionOf <- MCSessionOf
  MaxActive = 1
  MaxQueued = 1
PROPERTY AcceptedTurnEnds
CHECK_DEADLOCK FALSE
