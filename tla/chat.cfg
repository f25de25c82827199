SPECIFICATION ChatSpec
CONSTANTS
  Request = {r1, r2}
  MaxRotate = 2
  Passthrough = TRUE
  WafThreshold = 2
  None = None
  Account = {a1, a2}
  Site = {cn}
  AnySite = AnySite
  Model = {m1}
  NoModel = NoModel
  SoftBase = {1}
  SoftRateMax = 1
  StreakBound = 2
  BreakerThreshold = 2
  BreakerCooldown = 1
  BreakerCooldownMax = 1
  RetryBound = 1
  DegradeThreshold = 2
  DegradeCooldown = 1
  DegradeCooldownMax = 1
  SessionDeadThreshold = 2
  Day = 1
  MaxInFlight = 1
  MinPickGap = 1
  ShortList = 1
  MaxTime = 1
  MaxLease = 1
INVARIANTS
  LeasesMatch
  NoSecondChance
  AttemptsBounded
  BlameIsOwn
SYMMETRY Symmetry
CHECK_DEADLOCK FALSE
