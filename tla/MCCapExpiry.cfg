SPECIFICATION Spec
CONSTANTS
    MaxCapSlots = 2
    MaxCapNodes = 3
    MaxCapObjects = 1
    AllRights = {}
    Kinds = {Generic}
    MaxEpoch = 1
    GenModulus = 8
    Accessors = {a}
    MaxTick = 2
INVARIANTS
    LoansSound
PROPERTY
    LoansEnd
