SPECIFICATION LeaseSpec
CONSTANTS
  Thread = {t1, t2, t3}
  Limits = {0, 1, 2}
  MaxEntry = 2
  MaxRequests = 1
CHECK_DEADLOCK FALSE
INVARIANTS
  CountIsExact
PROPERTIES
  EveryLeaseReturns
  ImplementsCounter
