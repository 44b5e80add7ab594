SPECIFICATION EndToEnd
CONSTANTS
  Clients = {c1, c2}
  NoClient = NoClient
  MaxMessages = 2
  SendBuffer = 1
  Robots = {r1, r2}
  Nobody = Nobody
  MaxSessions = 2
SYMMETRY ServiceSymmetry
INVARIANT OpenIsServed
PROPERTY ImplementsPage
CHECK_DEADLOCK FALSE
