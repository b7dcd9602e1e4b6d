CONSTANTS
    HeaderSize = 12
    MaxChatLen = 20
    Receiver = r
    Sessions = {r}
    LimitedIds = {"REQUEST_CHAT"}
    ReceiveMax = 12
    Kinds <- AllowedKinds
    MaxPackets = 3
    MaxConnections = 2
    Paced = TRUE
SPECIFICATION FairSpec
CHECK_DEADLOCK FALSE
INVARIANT NothingLost
PROPERTY EventuallyProcessed
