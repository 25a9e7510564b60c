SPECIFICATION FairSpec
CONSTANTS
  r1 = r1
  s1 = s1
  s2 = s2
  c1 = c1
  c2 = c2
  c3 = c3
  NoConn = NoConn
  GoneConn = GoneConn
  Resources = {r1}
  Syncs = {s1, s2}
  Conns = {c1, c2}
  Events = {"sync", "logout", "accessExpires", "jwtExpires", "refreshFails", "saveFails",
            "pushFails", "network", "api", "earlyPing"}
  MaxEvents = 2
INVARIANT TypeOK
INVARIANT NeverStranded
PROPERTY LogoutLasts
PROPERTY GetsConnected
PROPERTY SyncEnds
CHECK_DEADLOCK FALSE
