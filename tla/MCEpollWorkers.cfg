CONSTANTS
  Clients = {c1, c2}
  Listener = Listener
  MaxSent = 3
SPECIFICATION FairSpec
INVARIANT OneParty
PROPERTY DataRead
