SPECIFICATION FairSpec
CONSTANTS
  QueueSize = 2
  HasCameraModule = TRUE
  MayRunRealTime = TRUE
INVARIANTS PrintedIsAnnounced
PROPERTIES CommandsReturn SensorKeepsSampling OrphanedSensorStops
CHECK_DEADLOCK FALSE
