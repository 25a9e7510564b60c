SPECIFICATION FairSpec
CONSTANTS
  i1 = i1
  i2 = i2
  m1 = m1
  m2 = m2
  m3 = m3
  m4 = m4
  r1 = r1
  r2 = r2
  r3 = r3
  r4 = r4
  NoMessage = NoMessage
  Invocations = {i1, i2}
  Messages = {m1, m2}
  Races = {r3}
  Skipped = {}
  StartTime <- MCStartOf
  FinishTime <- MCFinishOf
  MaxLag = 2
  MemberSince = 0
  Window = 4
  Buffer = 2
  LockDuration = 4
  LambdaTimeout = 3
  Deadline = 2
  Visibility = 3
  Backoff = 0
  MaxReceives = 2
  Faults = {"slow"}
  InitNow = 4
  MaxTime = 6
  MaxRequests = 1
  MaxFaults = 1
PROPERTY AcceptedRequestServed
CHECK_DEADLOCK FALSE
