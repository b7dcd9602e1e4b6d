CONSTANTS
    HeaderSize = 2
    MaxChatLen = 1
    MAX_SESSION_COUNT = 2
    Sessions = {0, 1}
    LimitedIds = {"REQUEST_CHAT"}
    NULL = NULL
    Kinds <- AllKinds
    OtherKinds <- OnlyChat
    MaxConnections = 2
    MaxSends = 3
    AcceptMayFail = FALSE
    Quiet = TRUE
    MaxLines = 3
    MaxNotices = 3
    ContentSize = 1
    MaxGone = 1
    LastGone = 0
SPECIFICATION FairSystemSpec
CHECK_DEADLOCK FALSE
INVARIANTS SystemTypeOK OwnName
PROPERTIES ClientSpec ShowsInOrder EveryLineShown
