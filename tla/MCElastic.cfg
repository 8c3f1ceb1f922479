CONSTANTS
  MinNum = 1
  MaxNum = 3
  MaxTasks = 3
  MaxSpurious = 1
SPECIFICATION FairSpec
INVARIANTS
  LiveCountExact
  TasksInOrder
  MissedByOne
PROPERTY IdlePoolShrinks
