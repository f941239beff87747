SPECIFICATION LiveSpec
CONSTANTS
    Workers = {w1}
    Users = {u1}
    Acceptor = acc
    Packets = {p1}
    NoPacket = NoPacket
    MaxSid = 1
    SendQMax = 0
    WsabufMax = 1
PROPERTIES
    DisconnectReleases
    BrokenConnectionReleases
    QueuedPacketsLeave
CHECK_DEADLOCK FALSE
