SPECIFICATION FairSpec
CONSTANTS
    Accounts <- MCTwoAccounts
    LimitSettings <- MCLimitSettings
    DefaultLimits <- MCDefaultLimits
    MaxDay = 2
    DaysPerMonth = 1
    MaxSignals = 0
    MaxOps = 1
    MaxAborts = 1
PROPERTIES
    BreachHalts
    StatusFollowsHalt
    DayIsReset
CHECK_DEADLOCK FALSE
