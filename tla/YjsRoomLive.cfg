SPECIFICATION FairSpec
CONSTANTS
  Users = {a, b}
  Replicas = {r1}
  Home = r1
  Deltas = {d1, d2}
  Oversized = {d2}
  None = None
  Interviewers = {a}
  MaxPending = 1
  SendBuffer = 2
  MaxLive = 2
  MaxUnsent = 2
  MaxConns = 2
  MaxStream = 1
  Cases = {{"drop", "xrange"}, {"large", "drop"}}
PROPERTIES
  Delivered
  CallsAnswered
CHECK_DEADLOCK FALSE
