SPECIFICATION Spec
CONSTANTS
    Workers = {w1, w2}
    Users = {u1}
    Acceptor = acc
    Packets = {p1, p2, p3}
    NoPacket = NoPacket
    MaxSid = 1
    SendQMax = 0
    WsabufMax = 1
SYMMETRY Symmetry
INVARIANTS
    SendRightUnique
    PacketsConserved
    NoLostWakeup
CHECK_DEADLOCK FALSE
