CONSTANTS
  Requests = {r1, r2}
  Workers = {w1, w2}
  MaxRequests = 1
  Conns = {k1}
  NULL = NULL
  MaxConn = 1
SPECIFICATION FairSpec
INVARIANTS
  TypeOK
  QueueSemExact
  OneOwner
  OwnConnection
  NoStaleImprov
  CrashOnlyAtExit
PROPERTIES
  RequestTaken
  MainReleased
