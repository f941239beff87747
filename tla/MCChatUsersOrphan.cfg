SPECIFICATION Spec
CONSTANTS
    Workers = {w1}
    Acceptor = acc
    TimeoutThread = timeout
    Users = {u1}
    Accounts = {a1}
    MaxUser = 1
    MaxSid = 2
    FieldWidth = 1
    FieldHeight = 1
INVARIANT NoOrphan
CHECK_DEADLOCK FALSE
