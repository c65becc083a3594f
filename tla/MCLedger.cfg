SPECIFICATION Spec
CONSTANTS
    Null = Null
    Writers = {w1, w2}
    Readers = {q}
    Jobs <- MCJobs
    Plans <- MCPlans
    Blueprints <- MCBlueprints
    History <- MCHistory
    Failing = {w1}
    Standing <- MCStanding
    MaxStarted = 2
    MaxMonths = 1
INVARIANTS
    TypeOK
    EveryMatchRuns
    FlagsHonest
    ImportsArePrefixes
    SyncedMeansRecorded
    FindingsAgree
CHECK_DEADLOCK FALSE
