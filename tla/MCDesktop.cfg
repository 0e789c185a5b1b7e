SPECIFICATION Spec
CONSTANTS
    Apps = {a1, a2}
    MaxWindows = 3
    ScreenW = 4
    MinW = 2
    Overhang = 1
    Grab = 1
    Margin = 1
    NewGeoms <- OneGeom
    DragTo <- DragPlaces
    MoveTo <- MovePlaces
    Stretch <- Pulls
    ScreenCols = 4
    ScreenRows = 3
    Marks <- Rectangles
    MaxRects = 2
    Clients = {c1, c2}
    QueueCap = 3
    BusCap = 2
    MaxKeys = 4
    MaxCasts = 4
    MaxSteps = 5
    MaxFindSteps = 7
    MaxUndo = 2
    VisibleRows = 1
    BelowRows = 1
    MaxLines = 2
    MaxLength = 2
    MaxField = 1
    Lists <- Listings
    Home <- HomeDir
    Places <- SideBar
    DoubleTicks = 1
    MaxHistory = 4
    MaxEntries = 3
    MaxTicks = 2
    Urls = {u1, u2}
    HomeUrl = u1
    UrlLength <- Lengths
    MaxVisits = 4
    MaxBar = 3
    MaxTokens = 4
    MaxHeld = 1
    Letters = {"a", "b"}
    MaxHist = 2
    MaxBuffer = 4
    Page = 2
    Kept = 1
    MaxInput = 2
    Pids = {"p2", "p3"}
    Protected = {"p1"}
    KernelThreads = {"t1"}
INVARIANTS
    
    DamageSound
    HandlingSound
    EditorSound
    BrowserSound
    AppletsSound
    LaunchSound
PROPERTIES
    DesktopMoves
CHECK_DEADLOCK FALSE
