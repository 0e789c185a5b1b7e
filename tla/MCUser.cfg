SPECIFICATION Spec
CHECK_DEADLOCK FALSE
CONSTANTS
    Together <- MCTogether
    TxLen = 2
    MaxEvents = 2
    MaxKernel = 1
    Users = {"u1", "u2"}
    Threads = {"t1"}
    Quantum = 2
    Sleeping = FALSE
    TotalLens = {36, 44, 45, 60, 82}
    EntryLens = {0, 1, 2, 3, 4, 6, 7, 9, 16, 24}
    MaxEntry = 16
    MadtHead = 44
    DmarHead = 48
    DrhdHead = 16
    Ports = {0, 1, 2}
    LastValid = 3
    MaxAddress = 5
    BufLen = 20
    DescLens = {0, 1, 2, 7, 9}
    PageBytes = 2
    FileBytes = 3
    UserMin = 1
    UserMax = 4
    StackPage = 6
    MaxImage = 3
    MaxHeaders = 2
    Segments <- MCSegments
    Entries3 = {2, 3}
    Trees <- MCTrees
    Width = 4
    SliderMin = 0
    SliderMax = 3
    Items = 3
    MaxScroll = 15
    ScrollStep = 10
    BoxChars = 1
    MaxEventsW = 5
    FileNames <- MCNames
    RingSize = 3
    LineSize = 3
    HistorySize = 2
    Cols = 3
    PromptEnds = {2}
    OutputEnds = {0}
    ScanSize = 2
    Budgets <- MCBudgets
INVARIANTS
    Ring3Sound
    ContextSound
    DevicesSound
    LoaderSound
    WidgetsSound
    ConsoleSound
