SPECIFICATION Spec
CONSTANTS
    Pids = {init, p1}
    Idle = idle
    NoPid = none
    Boot = init
    QuantumTicks = 2
    Sleepers = {}
    SleepTicks = {}
    Signals = {"TERM", "CONT", "STOP", "KILL"}
    UiKill = TRUE
    Senders = {init}
    Leavers = {p1}
    MaxReady = 2
PROPERTY
    NoStarvation
