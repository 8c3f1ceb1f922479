CONSTANTS
  c1 = c1  c2 = c2  c3 = c3
  Clients <- MCClients
  UserLimit = 2
  MaxSent <- MCMaxSent
SPECIFICATION FairSpec
INVARIANTS
  TableExact
  RelayedInOrder
PROPERTY NobodyForgotten
