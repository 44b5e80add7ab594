SPECIFICATION DrainedSpec
CONSTANTS
  Clients = {c1, c2}
  NoClient = NoClient
  MaxMessages = 2
  SendBuffer = 1
INVARIANTS HubFollowsReaders FeedIsComplete
PROPERTIES ImplementsFeed StatesArrive BrokenIsClosed
CHECK_DEADLOCK FALSE
