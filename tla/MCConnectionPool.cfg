CONSTANTS
  Conns = {k1, k2, k3}
  NULL = NULL
  Threads = {t1, t2, t3, t4}
  MaxConn = 3
SPECIFICATION FairSpec
INVARIANTS
  TypeOK
  ReserveAccounting
  NoEmptyPop
  ConnectionsConserved
  NoUseAfterClose
PROPERTY WaiterServed
