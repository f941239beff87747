SPECIFICATION Spec
CONSTANTS
    Workers = {w1, w2}
    Pinned = {p1}
    Timer = timer
    Users = {u1, u2}
    Slots = {s1}
    MaxLife = 2
    MaxJobs = 2
    Word = 16
    CarefulReuse = TRUE
SYMMETRY Symmetry
INVARIANTS
    TypeOK
    RefcountIsOwners
    NobodyOnReleased
    TickAlone
    OneTickAtATime
    JobsOfOwnZone
CHECK_DEADLOCK FALSE
