SPECIFICATION Spec
CONSTANTS
  Nobody = Nobody
  Clients = {c1, c2}
  Phones = {p1}
  UserIds = {u1, u2}
  Grant = 1
  MaxSessions = 4
SYMMETRY MCSymmetry
INVARIANTS
  RegisteredOnceAndWhole
  TokensMintNothingLater
CHECK_DEADLOCK FALSE
