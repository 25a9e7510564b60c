SPECIFICATION ResetSpec
CONSTANTS
  i1 = i1
  i2 = i2
  m1 = m1
  m2 = m2
  m3 = m3
  r1 = r1
  r2 = r2
  NoMessage = NoMessage
  Invocations = {i1, i2}
  Messages = {m1, m2}
  Races = {r1, r2}
  Skipped = {}
  StartTime <- MCStart
  FinishTime <- MCFinish
  MaxLag = 2
  MemberSince = 0
  Window = 4
  Buffer = 2
  LockDuration = 4
  LambdaTimeout = 3
  Deadline = 2
  Visibility = 3
  Backoff = 0
  MaxReceives = 1
  Faults = {"call", "stale"}
  InitNow = 4
  MaxTime = 5
  MaxRequests = 2
  MaxFaults = 1
  PageSize = 1
  MaxResets = 2
SYMMETRY Symmetry
INVARIANT CleanPartitionConsistent
INVARIANT CleanMutualExclusion
CHECK_DEADLOCK FALSE
