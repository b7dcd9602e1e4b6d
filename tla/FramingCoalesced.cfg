CONSTANTS
    HeaderSize = 12
    MaxChatLen = 20
    Receiver = r
    Sessions = {r}
    LimitedIds = {"REQUEST_CHAT"}
    ReceiveMax = 12
    Kinds <- AllowedKinds
    MaxPackets = 2
    MaxConnections = 1
    Paced = FALSE
SPECIFICATION Spec
CHECK_DEADLOCK FALSE
INVARIANT NothingLost
