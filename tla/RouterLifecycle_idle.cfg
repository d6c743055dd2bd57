SPECIFICATION FairSpec
CONSTANTS
  Conns = {c1, c2}
  Requests = {r1, r2}
  Sessions = {s1}
  Fronts = {f1}
  LeaseTtl = 1
  IdleAfter = 2
INVARIANTS TypeOK ActiveSessionsAreUnanswered
PROPERTIES IdleDecisionIsSound CommandRunsSurvive IdleRouterExits
CHECK_DEADLOCK FALSE
