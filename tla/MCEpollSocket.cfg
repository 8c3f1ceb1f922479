CONSTANTS
  Clients = {c1, c2}
  Listener = Listener
  MaxSent = 1
SPECIFICATION Spec
INVARIANT OwnSocket
