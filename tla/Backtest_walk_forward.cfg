SPECIFICATION Spec
CONSTANTS
    N = 4
    OpenPrice <- MCOpen
    ClosePrice <- MCClose
    Batches <- MCBatches
    Requests <- MCRequests
    Cash = 12
    PositionSize = 2
    BarHours = 2
    MatchHours = 4
    LiveTrades <- MCLive
    Days <- MCDays
    Costs <- MCCosts
    MinWindow = 3
    MinTest = 1
    Params <- MCParams
    Default = "p"
    Ranges <- MCRanges
    Gains <- MCGains
    Strategies <- MCStrategies
    Groups <- MCGroups
    NoName = "none"
    NoParams = "none"
CONSTRAINT MCBounds
INVARIANTS
    OutOfSample
CHECK_DEADLOCK FALSE
