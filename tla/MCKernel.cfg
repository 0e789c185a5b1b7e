SPECIFICATION Spec
CONSTANTS
    Procs = {p1, p2}
    Writer = p1
    Reader = p2
    Caps = {c1}
    None = none
    MaxEndpoints = 2
    Capacity = 1
    EventQueue = 1
    MaxSends = 2
    MaxEvents = 2
    FileUsers = {f1, f2}
    Maker = f1
    EndpointFd = 3
    Nobody = nobody
    Torn = torn
    Ending = {f2}
    Modes = {"rw"}
    UserPaths <- Paths
    Chunk <- OneByte
    MaxFds = 5
    MaxImage = 8
    MaxOffset = 2
    MaxCalls = 2
    MaxCrashes = 1
    Inodes = {n1, n2}
    TotalBlocks = 6
    DirectBlocks = 1
    PtrsPerBlock = 2
    WalRecords = 2
    MaxSteps = 6
    Users = {u1, u2}
    Objects = {o1, o2}
    MemHandles = {h1, h2}
    Extents <- Fragments
    CodePages = 1
    SurfacePages = 2
    ObjectPages = 2
    DmaPages = 2
    SurfaceSlots = 2
    Quota = 4
    MaxMemOps = 4
    Aps = {1, 2}
    SmpPages = {1, 2}
    SmpTasks = {1, 2, 3, 4}
    MaxUnmaps = 2
INVARIANTS
    IpcSound
    FilesSound
    EngineSound
    MemorySound
    SmpSound
PROPERTIES
    NothingIsLost
    KernelReturns
CHECK_DEADLOCK FALSE
