CONSTANTS
  Clients = {c1, c2}
  Listener = Listener
  Pipe = Pipe
  TIMESLOT = 1
SPECIFICATION FairSpec
INVARIANTS
  TimerPerConnection
  ClockNeverStops
PROPERTY IdleClosed
