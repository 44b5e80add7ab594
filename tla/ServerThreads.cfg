SPECIFICATION FairServer
CONSTANTS
  AlarmThreads = {"main", "timer", "disk", "engine", "watchdog", "monitor", "camera"}
  MaxAlarms = 3
  Descriptors = 4
  MaxDirs = 2
  MaxProcs = 2
  MaxFiles = 2
INVARIANTS TicksConserved DescriptorsAccounted
PROPERTIES AlarmsAreCounted DumpReturns
CHECK_DEADLOCK FALSE
