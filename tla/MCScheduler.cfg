SPECIFICATION Spec
CONSTANTS
    Pids = {init, p1, p2}
    Idle = idle
    NoPid = none
    Boot = init
    QuantumTicks = 1
    Sleepers = {init, p1}
    SleepTicks = {2}
    Signals = {}
    UiKill = FALSE
    Senders = {}
    Leavers = {p1}
    MaxReady = 3
INVARIANT
    SchedulerSound
PROPERTY
    SchedulerMoves
