CONSTANTS
    NULL = NULL
    MaxLines = 3
    MaxNotices = 1
    Paced = TRUE
SPECIFICATION FairSpec
CHECK_DEADLOCK FALSE
INVARIANT LoginOnce
PROPERTY EveryLineWritten
