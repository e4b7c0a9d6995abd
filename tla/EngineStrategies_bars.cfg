SPECIFICATION FairSpec
CONSTANTS
    s1 = s1
    s2 = s2
    k1 = k1
    Slots <- MCSlots
    Keys <- MCKeys
    KeyOf <- MCSameKey
    Warm = 2
    MaxBar = 2
    MaxQueue = 2
    MaxUpdates = 1
    MaxFaults = 1
INVARIANTS
    TypeOK
    BarsInOrder
    EntryOncePerBar
CHECK_DEADLOCK FALSE
PROPERTIES
    NoticeTakesEffect
