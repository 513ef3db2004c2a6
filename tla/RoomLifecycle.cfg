SPECIFICATION Spec
CONSTANTS
  Users = {a, b}
  Cap = 1
  MaxConns = 2
  MaxRooms = 2
  MaxSends = 0
SYMMETRY Symmetry
INVARIANTS
  MembershipOK
  RegistryOK
PROPERTIES
  OnlyEmptyReaped
CHECK_DEADLOCK FALSE
