SPECIFICATION Spec
CONSTANTS
  Account = {a1, a2}
  Request = {r1, r2}
  Asked <- AskedValues
  MaxItems = 1
INVARIANTS
  OneActionPerAccount
  NothingLeftBehind
PROPERTIES
  EachItemOnce
  RunEnds
