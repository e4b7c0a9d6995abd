SPECIFICATION FairSpec
CONSTANTS
    e1 = e1
    d1 = d1
    d2 = d2
    r1 = r1
    r2 = r2
    NoDeal = NoDeal
    Epics <- MCEpics
    Deals <- MCOneDeal
    RefOf <- MCOneRef
    EpicOf <- MCOneEpic
    MaxFaults = 2
    Outages = FALSE
PROPERTIES
    ExitsAreRecorded
    OpenDealEntersList
    ClosedDealLeavesList
CHECK_DEADLOCK FALSE
