SPECIFICATION Spec
CONSTANTS MaxLoads = 2 MaxOpens = 2
INVARIANTS  UsersHaveTheirObjects MeasurementToCome
PROPERTIES WholeIsSafe MeasuredAgain
CHECK_DEADLOCK FALSE
