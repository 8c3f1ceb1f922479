CONSTANTS
  Writers = {w1, w2}
  SplitLines = 2
  QueueSize = 1
  MonthDays = 2
  MaxLines = 2
  MaxDay = 2
SPECIFICATION FairSpec
INVARIANTS
  TypeOK
  OpenFileNamed
  LoggedOnce
  SyncDurable
PROPERTY QueuedWritten
