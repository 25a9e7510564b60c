SPECIFICATION Spec
CONSTANTS
  r1 = r1
  s1 = s1
  s2 = s2
  c1 = c1
  c2 = c2
  c3 = c3
  NoConn = NoConn
  GoneConn = GoneConn
  Resources = {r1}
  Syncs = {s1, s2}
  Conns = {c1, c2, c3}
  Events = {"sync", "accessExpires"}
  MaxEvents = 2
PROPERTY SyncNamesConnection
CHECK_DEADLOCK FALSE
