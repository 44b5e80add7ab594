SPECIFICATION FairTree
CONSTANTS
  MaxShells = 2
  OwnGroup = {"gui2"}
INVARIANT ReturnsLast
PROPERTIES MainEnds ShellReturns
CHECK_DEADLOCK FALSE
