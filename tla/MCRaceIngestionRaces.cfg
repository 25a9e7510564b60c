SPECIFICATION Spec
CONSTANTS
  i1 = i1
  i2 = i2
  m1 = m1
  m2 = m2
  m3 = m3
  m4 = m4
  r1 = r1
  r2 = r2
  r3 = r3
  r4 = r4
  NoMessage = NoMessage
  Invocations = {i1, i2}
  Messages = {m1, m2, m3}
  Races = {r1, r2, r3, r4}
  Skipped = {r1}
  StartTime <- MCStartOf
  FinishTime <- MCFinishOf
  MaxLag = 2
  MemberSince = 0
  Window = 4
  Buffer = 2
  LockDuration = 4
  LambdaTimeout = 3
  Deadline = 2
  Visibility = 3
  Backoff = 1
  MaxReceives = 2
  Faults = {"call", "crash", "stale"}
  InitNow = 4
  MaxTime = 7
  MaxRequests = 2
  MaxFaults = 1
SYMMETRY Symmetry
INVARIANT NoLostRace
INVARIANT SessionCountExact
PROPERTY ImplementsSerialIngestion
CHECK_DEADLOCK FALSE
