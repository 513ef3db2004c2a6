SPECIFICATION FairSpec
CONSTANTS
  u0 = u0
  u1 = u1
  u2 = u2
  c1 = c1
  c2 = c2
  s1 = s1
  s2 = s2
  s3 = s3
  r1 = r1
  r2 = r2
  r3 = r3
  None = None
  Users = {u0, u1, u2}
  Cards = {c1, c2}
  Slots = {s1, s2, s3}
  Requests = {r1, r2}
  Callers = {p1, p2}
  FirstSlots = {s1, s2}
  Owner <- MCOwner
  CardOf <- MCCardOf
  TimeOf <- MCTimeOf
  MaxIncoming = 2
  MaxSlots = 2
  Cases = {{"decide"}, {"expire"}, {"pass"}, {"edit"}, {"cards", "full"}, {"bare", "expire"}}
INVARIANTS
  TablesOK
  SlotsAgree
  MeetingsHold
PROPERTIES
  RequestsEnd
CHECK_DEADLOCK FALSE
