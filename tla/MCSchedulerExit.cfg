SPECIFICATION Spec
CONSTANTS
    Pids = {init, p1}
    Idle = idle
    NoPid = none
    Boot = init
    QuantumTicks = 2
    Sleepers = {}
    SleepTicks = {}
    Signals = {}
    UiKill = FALSE
    Senders = {}
    Leavers = {p1}
    MaxReady = 4
PROPERTY
    ExitCompletes
