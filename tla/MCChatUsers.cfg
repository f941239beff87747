SPECIFICATION Spec
CONSTANTS
    Workers = {w1, w2}
    Acceptor = acc
    TimeoutThread = timeout
    Users = {u1, u2}
    Accounts = {a1, a2}
    MaxUser = 2
    MaxSid = 3
    FieldWidth = 2
    FieldHeight = 1
SYMMETRY Symmetry
INVARIANTS
    
    
    SlotsConserved
    
    

    
    
CHECK_DEADLOCK FALSE
