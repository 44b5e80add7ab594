SPECIFICATION ServiceSpec
CONSTANTS
  Clients = {c1, c2}
  NoClient = NoClient
  MaxMessages = 2
  SendBuffer = 1
PROPERTY WriteIsBounded
CHECK_DEADLOCK FALSE
