CONSTANTS
  Items = {x1, x2}
  Poppers = {c1, c2}
  TimedPoppers = {t1}
  Blank = Blank
  MaxSize = 3

SPECIFICATION FairSpec

INVARIANTS
  TypeOK
  RingInv
  NoSleeperWhileNonEmpty

PROPERTIES
  ImplementsFifo
  FullQueueDrains
