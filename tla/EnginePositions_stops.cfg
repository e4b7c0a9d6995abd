SPECIFICATION Spec
CONSTANTS
    d1 = d1
    d2 = d2
    Deals <- MCSoldDeal
    Long <- MCSold
    Entry <- MCSoldEntry
    FirstStop <- MCSoldFirstStop
    Prices <- MCLowPrices
    Pct = 10
    Threshold = 1
    MaxSignals = 1
    MaxFaults = 1
    ApiWrites = TRUE
INVARIANTS
    TypeOK
PROPERTIES
    StopsSignalledImprove
CHECK_DEADLOCK FALSE
