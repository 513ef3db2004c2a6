SPECIFICATION MCSpec
CONSTANTS
  Users = {a, b}
  Replicas = {r1, r2}
  Home = r1
  Deltas = {d1, d2, d3}
  Oversized = {d3}
  None = None
  Interviewers = {a}
  MaxPending = 1
  SendBuffer = 2
  MaxLive = 1
  MaxUnsent = 2
  MaxConns = 2
  MaxStream = 1
  Cases = {{"drop", "limiter", "xrange", "lateEffect"}, {"large", "drop"}, {"replicas", "publish", "compaction"}}
SYMMETRY Symmetry
INVARIANTS
  NoGap
  AcceptedDurable
  EditsKept
CHECK_DEADLOCK FALSE
