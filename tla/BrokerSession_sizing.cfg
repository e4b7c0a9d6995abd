SPECIFICATION Spec
CONSTANTS
    Sessions <- MCSessions
    NoSession = 0
    Signals <- MCSignals
    TokenExpiry = 6
    RefreshInterval = 2
    RetryDelay = 1
    LoginTime = 1
    Tolerated = 1
    MaxFaults = 0
INVARIANTS
    RiskIsNotLots
