SPECIFICATION FairSpec
CONSTANTS
  Rows = {r1, r2}
  Passes = {p, q}
  MaxAttempts = 3
  MaxFaults = 2
  Cases = {{"fail", "db", "crash", "unlinked", "overlap"}, {"fail", "unlinked"}}
INVARIANTS
  ClaimsOK
  DeliveredEverywhere
PROPERTIES
  RowsSettle
CHECK_DEADLOCK FALSE
