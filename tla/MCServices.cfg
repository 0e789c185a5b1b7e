SPECIFICATION Spec
CHECK_DEADLOCK FALSE
CONSTANTS
    Callers = {c1, c2}
    NSockets = 2
    FirstPort = 1
    LastPort = 2
    RxMax = 2
    CacheMax = 2
    Hosts = {h1, h2, h3}
    Macs = {m1, m2}
    Tries = 2
    Polls = 2
    RingMax = 2
    MaxFrames = 3
    MaxFd = 2
    RingBytes = 24
    BufferBytes = 32
    Lengths = {4, 5, 8, 9}
    NTx = 4
    MaxPackets = 6
    Cells = {0, 1}
    MaxCells = 7
    Apps = {a1, a2}
    SvcPorts = {1}
    FirstFree = 1
    LastFree = 2
    MaxIds = 2
    MaxBytes = 2
    Names = {"fs", "net"}
    Policy <- Policies
    MaxRetries = 1
    MaxPid = 3
    Clients = {k1}
    NBoot = 3
    Catalog = {"calculator", "viewer"}
    Seeded = {"terminal"}
    Others = {"sample"}
    Users = {u1, u2}
    MaxSessions = 2
    MaxWrong = 3
    Uids = {0, 1, 2}
    Gids = {0, 1}
    FileRights = {"read", "write"}
    PageBytes = 2
    UserBase = 2
    UserLimit = 6
    Top = 7
INVARIANTS
    NetworkSound
    ServicesSound
    AccessSound
PROPERTY
    ServiceMoves

