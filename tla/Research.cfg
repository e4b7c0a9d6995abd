SPECIFICATION MCResearchSpec
CONSTANTS
    N = 4
    OpenPrice <- MCOpen
    ClosePrice <- MCClose
    Batches <- MCBatches
    Requests <- MCRequests
    Cash = 12
    PositionSize = 2
    BarHours = 2
    MatchHours = 4
    LiveTrades <- MCLive
    Days <- MCDays
    Costs <- MCCosts
    MinWindow = 3
    MinTest = 1
    Params <- MCParams
    Default = "p"
    Ranges <- MCRanges
    Gains <- MCGains
    Strategies <- MCStrategies
    Groups <- MCGroups
    NoName = "none"
    NoParams = "none"
    t1 = t1
    t2 = t2
    Trainers <- MCTrainers
    Promoter = promoter
    NoPath = NoPath
    MaxDay = 2
    MaxRuns = 3
    MaxDeaths = 2
CONSTRAINT MCResearchBounds
INVARIANTS
    TypeOK
    NoLookAhead
    ProfitIsValue
    ShufflesAgree
    MatchesAreNearest
    TestFollowsTrain
    NoBarLost
    OwnParams
    MlTypeOK
    OnlyStaleSavesLose
    OneProduction
    RegisteredFilesExist
SYMMETRY MCSymmetry
CHECK_DEADLOCK FALSE
