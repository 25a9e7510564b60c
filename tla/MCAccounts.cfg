SPECIFICATION Spec
CONSTANTS
  d1 = d1
  d2 = d2
  c1 = c1
  c2 = c2
  a1 = a1
  a2 = a2
  i1 = i1
  i2 = i2
  Nobody = Nobody
  Drivers = {d1, d2}
  Calls = {a1, a2}
  Conns = {c1, c2}
  Invs = {i1, i2}
  Faults = {"fail", "lost", "stale", "edit", "pushFails", "noDisconnect"}
  MaxFaults = 1
  MaxRequests = 4
  JwtLife = 1
  ConnLife = 1
  RowLife = 2
  LastRequest = 1
  MaxNow = 3
SYMMETRY Symmetry
INVARIANT DriversCounted
INVARIANT EveryLoginCounted
INVARIANT EditsSurvive
INVARIANT TokenHasDriver
INVARIANT AuthenticatedHasRow
INVARIANT RowsAgree
INVARIANT CleanDisconnect
PROPERTY BroadcastReaches
CHECK_DEADLOCK FALSE
