SPECIFICATION Spec
CONSTANTS
    MaxConnections = 1
    MaxSignals = 1
    null = null
INVARIANT ServerClosedOnExit
CHECK_DEADLOCK FALSE
