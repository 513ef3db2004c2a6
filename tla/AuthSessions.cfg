SPECIFICATION FairSpec
CONSTANTS
  Sids = {s1, s2}
  None = None
  Reqs = {q1}
  Workers = {w1, w2}
  Conns = {c1}
  MaxGen = 3
  MaxFaults = 2
  Cases = {{"stream"}, {"account", "rotate"}, {"fail", "crash", "lost"}, {"slow", "minute"}}
INVARIANTS
  UsableIsEntitled
  SettledIsFenced
  NoStaleStream
PROPERTIES
  RevocationsEnd
CHECK_DEADLOCK FALSE
