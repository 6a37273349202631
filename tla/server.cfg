CONSTANTS
  c1 = c1
  c2 = c2
  c3 = c3
  Clients = {c1, c2, c3}
  NoClient = NoClient
  Workers = 3
  IndexModulus = 8
  MaxSockets = 2
  MaxPicks = 6
SPECIFICATION FairSpec
INVARIANTS
  ClientNumIsSessions
  Balanced
PROPERTY
  ConnectedIsServed
CHECK_DEADLOCK FALSE
