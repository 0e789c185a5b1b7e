INIT CxInit
NEXT CxNext
CONSTANTS
    Users = {"u1", "u2"}
    Threads = {"t1"}
    Quantum = 2
    Sleeping = FALSE
INVARIANT
    RunsInOwnSpace
CHECK_DEADLOCK FALSE
