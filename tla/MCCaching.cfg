SPECIFICATION FairSpec
CONSTANTS
  p1 = p1
  p2 = p2
  a1 = a1
  a2 = a2
  Procs = {p1, p2}
  Calls = {a1, a2}
  CacheTime = 2
  RequestTimeout = 1
  Faults = {"fail", "crash"}
  MaxFaults = 1
  MaxRequests = 3
  MaxNow = 4
INVARIANT TypeOK
INVARIANT AgeBounded
INVARIANT StoredOnce
PROPERTY EveryRequestAnswered
CHECK_DEADLOCK FALSE
