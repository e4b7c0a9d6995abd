SPECIFICATION Spec
CONSTANTS
    Accounts <- MCAccounts
    LimitSettings <- MCLimitSettings
    DefaultLimits <- MCDefaultLimits
    MaxDay = 3
    DaysPerMonth = 2
    MaxSignals = 2
    MaxOps = 2
    MaxAborts = 1
CONSTRAINT MCBounds
INVARIANTS
    TypeOK
    AtMostOneOpenPerHalt
    MonthFollowsDay
    MonthNeverAhead
PROPERTIES
    ManualHaltPersists
    HaltPersistsWithinDay
    BaselineFixedWithinDay
CHECK_DEADLOCK FALSE
