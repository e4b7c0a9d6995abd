SPECIFICATION MlSpec
CONSTANTS
    t1 = t1
    t2 = t2
    Trainers <- MCTrainers
    Promoter = promoter
    NoPath = NoPath
    MaxDay = 2
    MaxRuns = 3
    MaxDeaths = 1
INVARIANT
    OnlyPromotedServes
CHECK_DEADLOCK FALSE
