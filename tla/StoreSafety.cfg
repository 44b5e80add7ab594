SPECIFICATION Spec
CONSTANTS
  Ids = {1, 2}
  Devices = {0, 2}
  Requests = {r1}
  Motors = {off, on}
  Factory = off
  WhichLists <- MCWhichLists
  ClientTemps = {0}
  Absent = Absent
  MaxInfo = 2
  QueueSize = 1
INVARIANTS OwnTelemetryIsSafe StartupTable AnnouncedIsStored
PROPERTY UpdateKeepsMotor
CHECK_DEADLOCK FALSE
