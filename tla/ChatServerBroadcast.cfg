CONSTANTS
    HeaderSize = 2
    MaxChatLen = 1
    MAX_SESSION_COUNT = 2
    Sessions = {0, 1}
    LimitedIds = {"REQUEST_CHAT"}
    NULL = NULL
    Kinds <- AllowedKinds
    MaxConnections = 2
    MaxSends = 2
    AcceptMayFail = FALSE
    Quiet = FALSE
SPECIFICATION FairSpec
CHECK_DEADLOCK FALSE
PROPERTY EverythingArrives
