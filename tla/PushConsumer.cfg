SPECIFICATION FairSpec
CONSTANTS
  Ids = {a}
  Handlers = {h1, h2}
  MaxDeliveries = 3
  MaxPublish = 2
  MaxFaults = 2
  Cases = {{"crash", "broker", "lost", "ttl"}, {"drop", "broker"}}
INVARIANTS
  Accounted
  AtMostOnce
PROPERTIES
  Resolved
CHECK_DEADLOCK FALSE
