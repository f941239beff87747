SPECIFICATION Spec
CONSTANTS
    Workers = {w1, w2}
    Pinned = {}
    Timer = timer
    Users = {u1}
    Slots = {s1}
    MaxLife = 3
    MaxJobs = 0
    Word = 16
    CarefulReuse = FALSE
INVARIANT CountNeverNegative
CHECK_DEADLOCK FALSE
