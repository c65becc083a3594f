SPECIFICATION FairSpec
CONSTANTS
    Tasks = {s, a, b, c, d}
    Refusable = {a, b, c}
    Ticker = s
    PoolMax = 4
INVARIANTS
    ConnectionsConserved
    NeverStuck
PROPERTIES
    EveryoneIsServed
    EngineNeverSleeps
