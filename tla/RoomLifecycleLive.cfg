SPECIFICATION FairSpec
CONSTANTS
  Users = {a, b}
  Cap = 2
  MaxConns = 1
  MaxRooms = 2
  MaxSends = 1
PROPERTIES
  EmptyUnloads
  CallsReturn
CHECK_DEADLOCK FALSE
