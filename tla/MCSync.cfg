SPECIFICATION SyncSpec
CONSTANTS
    Threads = {t1, t2, t3}
    NoThread = none
    MaxCalls = 4
    Initial = 1
    MaxSemCalls = 3
    Capacity = 1
    MaxChanCalls = 4
    Pids = {p1, p2, p3, p4}
    NoPid = nopid
    Queues = {sleep, channel}
    NoQueue = noqueue
    SleepQueue = sleep
    Killable = FALSE
    Purgeable = {p4}
INVARIANTS
    MutualExclusion
    TokensConserved
    ChannelSound
    NoWaiterLost
PROPERTIES
    BlockingReturns
    ImplementsFifo
CHECK_DEADLOCK FALSE
