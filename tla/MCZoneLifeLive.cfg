SPECIFICATION LiveSpec
CONSTANTS
    Workers = {w1}
    Pinned = {p1}
    Timer = timer
    Users = {u1}
    Slots = {s1}
    MaxLife = 2
    MaxJobs = 1
    Word = 16
    CarefulReuse = TRUE
PROPERTIES
    DestroyReleases
    KeepsTicking
CHECK_DEADLOCK FALSE
