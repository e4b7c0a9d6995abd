SPECIFICATION Spec
CONSTANTS
    s1 = s1
    s2 = s2
    k1 = k1
    Slots <- MCOneSlot
    Keys <- MCKeys
    KeyOf <- MCOneKey
    Warm = 2
    MaxBar = 1
    MaxQueue = 1
    MaxUpdates = 0
    MaxFaults = 0
INVARIANTS
    WarmedUp
CHECK_DEADLOCK FALSE
