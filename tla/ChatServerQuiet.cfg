CONSTANTS
    HeaderSize = 2
    MaxChatLen = 1
    MAX_SESSION_COUNT = 2
    Sessions = {0, 1}
    LimitedIds = {"REQUEST_CHAT"}
    NULL = NULL
    Kinds <- AllowedKinds
    MaxConnections = 3
    MaxSends = 3
    AcceptMayFail = FALSE
    Quiet = TRUE
SPECIFICATION FairSpec
CHECK_DEADLOCK FALSE
INVARIANT Survives
PROPERTIES NoticeNamesSender EverythingArrives WaitingAccepted SocketReleased
