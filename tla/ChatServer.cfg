CONSTANTS
    HeaderSize = 2
    MaxChatLen = 1
    MAX_SESSION_COUNT = 2
    Sessions = {0, 1}
    LimitedIds = {"REQUEST_CHAT"}
    NULL = NULL
    Kinds <- MixedKinds
    MaxConnections = 3
    MaxSends = 2
    AcceptMayFail = TRUE
    Quiet = FALSE
SPECIFICATION Spec
CHECK_DEADLOCK FALSE
INVARIANTS InBounds OneReader OneWrite EndsOnlyAfterFailure PoolInv
PROPERTY RefinesPool
