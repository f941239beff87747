SPECIFICATION Spec
CONSTANTS
    Threads = {t1, t2}
    Nodes = {n1, n2, n3, n4, n5}
    MyNull = MyNull
    MaxSize = 1
    MaxEnqueue = 2
    MaxDequeue = 2
SYMMETRY Symmetry
INVARIANT
    IsEmptyIfEmpty
CHECK_DEADLOCK FALSE
