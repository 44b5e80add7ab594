SPECIFICATION FairSpec
CONSTANTS
  Robots = {1, 2}
  Nobody = Nobody
  MaxStates = 2
  MaxSessions = 2
  MaxCommands = 2
  EngineQueue = 1
INVARIANTS FreshUnlessMissed CommandsInOrder RequestsAreServed
PROPERTIES ShownMovesForward PageComesBack CommandsAreAnswered
CHECK_DEADLOCK FALSE
