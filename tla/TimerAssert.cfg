SPECIFICATION Spec
CONSTANTS
  AlarmThreads <- MCAnyThread
  MaxAlarms = 4
INVARIANT ReceiveNeverFails
CHECK_DEADLOCK FALSE
