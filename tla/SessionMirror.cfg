CONSTANTS
  o = o
  g = g
  h = h
  c1 = c1
  c2 = c2
  Accounts = {o, g, h}
  Owner = o
  Calls = {c1, c2}
  MaxParticipants = 2
  MaxCalls <- MCMaxCalls
  MaxFaults = 1
  Cases <- MCCases
SPECIFICATION MirrorSpec
INVARIANTS MirrorAgrees SocketsEnd
PROPERTY MirrorHeals
CHECK_DEADLOCK FALSE
