SPECIFICATION Spec
CONSTANTS
    Workers = {w1, w2}
    Users = {u1}
    Acceptor = acc
    Packets = {p1}
    NoPacket = NoPacket
    MaxSid = 2
    SendQMax = 0
    WsabufMax = 1
SYMMETRY Symmetry
INVARIANTS
    RefcountIsOwners
    NobodyOnReleased
    RecvChainUnique
    PacketsToOwnSession
    PopNeverFails
    IdStableUnderRef
PROPERTY ContractSpec
CHECK_DEADLOCK FALSE
