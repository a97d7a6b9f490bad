SPECIFICATION FairSpec
CONSTANTS
    MaxConnections = 4
    MaxSignals = 3
    null = null
INVARIANTS TypeOK ReadinessIsRight CleanExitDisconnects ExitCodeTellsFailure
PROPERTIES NoConnectionAfterSignal SignalEndsProcess
\* The process ends.
CHECK_DEADLOCK FALSE
