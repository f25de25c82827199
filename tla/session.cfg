SPECIFICATION SessionSpec
CONSTANTS
  Key = {k1, k2}
  Uid = {u1, u2}
  NoUid = NoUid
  Request = {r1, r2}
  TTL = 0
  MaxClock = 1
INVARIANTS
  ResultWasAvailable
  SameSessionAgrees
  SessionsSpread
SYMMETRY Symmetry
