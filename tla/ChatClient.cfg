CONSTANTS
    NULL = NULL
    MaxLines = 4
    MaxNotices = 1
    Paced = FALSE
SPECIFICATION Spec
CHECK_DEADLOCK FALSE
INVARIANTS OneWrite StuckOnlyByOverlap ChatNeedsLogin
PROPERTIES StuckForGood RefinesChannel
