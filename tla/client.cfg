SPECIFICATION FairSpec
CONSTANTS
    MaxWatches = 2
    MaxSessions = 2
    MaxLines = 1
CHECK_DEADLOCK FALSE
INVARIANTS TypeOK NeverPanics DoneWhenLeft
PROPERTIES BodiesClosed StopEnds
