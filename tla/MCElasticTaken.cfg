CONSTANTS
  MinNum = 1
  MaxNum = 2
  MaxTasks = 2
  MaxSpurious = 0
SPECIFICATION FairSpec
PROPERTY TasksTaken
