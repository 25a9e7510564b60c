SPECIFICATION Spec
CONSTANTS
  i1 = i1
  i2 = i2
  m1 = m1
  m2 = m2
  m3 = m3
  m4 = m4
  r1 = r1
  r2 = r2
  r3 = r3
  r4 = r4
  NoMessage = NoMessage
  Invocations = {i1, i2}
  Messages = {m1, m2, m3}
  Races = {r3}
  Skipped = {}
  StartTime <- MCStartOf
  FinishTime <- MCFinishOf
  MaxLag = 2
  MemberSince = 0
  Window = 4
  Buffer = 2
  LockDuration = 4
  LambdaTimeout = 3
  Deadline = 2
  Visibility = 3
  Backoff = 1
  MaxReceives = 2
  Faults = {"call", "unauthorized", "acquire", "release", "slow", "crash", "stale", "duplicate"}
  InitNow = 4
  MaxTime = 9
  MaxRequests = 1
  MaxFaults = 2
SYMMETRY Symmetry
INVARIANT MutualExclusion
INVARIANT RequestsRefusedDuringRound
PROPERTY WatermarkMonotone
PROPERTY RecursionAdvances
CHECK_DEADLOCK FALSE
