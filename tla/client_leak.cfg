SPECIFICATION FairSpec
CONSTANTS
    MaxWatches = 1
    MaxSessions = 2
    MaxLines = 1
CHECK_DEADLOCK FALSE
PROPERTY ReadersEnd
