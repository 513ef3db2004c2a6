SPECIFICATION SseFairSpec
CONSTANTS
  Nodes = {n1, n2}
  Home = n1
  a = a
  b = b
  Tabs = {a, b}
  None = None
  Sizes <- MCSizes
  IpLimit = 2
  Buffer = 1
  Page = 1
  MaxReplay = 2
  MaxLen = 2
  MaxFaults = 1
  MaxConnects = 3
  Cases = {{"drop", "redis"}, {"revoke"}, {"close", "broadcast"}, {"slow"}, {"crash", "drop", "expire"}, {"nodes", "drop", "ttl"}, {"nodes", "crash", "drop"}, {"nodes", "redis", "drop"}}
INVARIANTS
  SeatsAgree
  NoSilentLoss
PROPERTIES
  InOrder
  StreamsMove
CHECK_DEADLOCK FALSE
