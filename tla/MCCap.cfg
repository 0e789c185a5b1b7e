SPECIFICATION CapSpec
CONSTANTS
    MaxCapSlots = 3
    MaxCapNodes = 3
    MaxCapObjects = 2
    AllRights = {r}
    Kinds = {Generic}
    MaxEpoch = 1
    GenModulus = 8
    Accessors = {a1, a2}
INVARIANTS
    CapInv
    TablesAgree
PROPERTIES
    RevocationIsFinal
    ImplementsAuthority
SYMMETRY AccessorSymmetry
CHECK_DEADLOCK FALSE
