SPECIFICATION FairSpec
CONSTANTS
    Tasks = {s, a, b}
    Refusable = {a, b}
    Ticker = s
    PoolMax = 2
PROPERTY EngineNeverSleeps
CHECK_DEADLOCK FALSE
