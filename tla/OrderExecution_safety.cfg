SPECIFICATION Spec
CONSTANTS
    e1 = e1
    d1 = d1
    d2 = d2
    r1 = r1
    r2 = r2
    NoDeal = NoDeal
    Epics <- MCEpics
    Deals <- MCDeals
    RefOf <- MCRefOf
    EpicOf <- MCSameEpic
    MaxFaults = 2
    Outages = TRUE
INVARIANTS
    TypeOK
    RowsFollowDecisions
    OpenPositionsRecorded
    MapNamesRecorded
PROPERTIES
    LifecycleRefined
CHECK_DEADLOCK FALSE
SYMMETRY MCSymmetry
VIEW MCView
