SPECIFICATION PoolSpec
CONSTANTS
  Account = {a1}
  Site = {cn, intl}
  AnySite = AnySite
  Model = {m1, m2}
  NoModel = NoModel
  SoftBase = {2}
  SoftRateMax = 3
  StreakBound = 2
  BreakerThreshold = 2
  BreakerCooldown = 1
  BreakerCooldownMax = 2
  RetryBound = 1
  DegradeThreshold = 2
  DegradeCooldown = 2
  DegradeCooldownMax = 2
  SessionDeadThreshold = 2
  Day = 3
  MaxInFlight = 1
  MinPickGap = 1
  ShortList = 1
  MaxTime = 3
  MaxLease = 1
INVARIANTS
  PenaltyInv
  ServableSound
  PickRespectsBars
PROPERTIES
  AccountLevelBenches
  NoSentenceCutShort
