SPECIFICATION Spec
CONSTANTS
    Null = Null
    Requests = {r1, r2}
    Failing = {r1}
    MaxEntities = 3
    SampleRows = 1
    ReadLimit = 2
    MaxDeploys = 1
    MaxLosses = 1
    Identifiers <- MCIdentifiers
    Numbered <- MCNumbered
    HashOrder <- MCHashOrder
    Words <- MCWords
    Singular <- MCSingular
    Refers <- MCRefers
    Jobs <- MCJobs
    Hosts <- MCHosts
    Remembered <- MCRemembered
    Drivers <- MCDrivers
    Server <- MCServer
INVARIANTS
    TestPredictsCycle
    FindingsBacked
CHECK_DEADLOCK FALSE
