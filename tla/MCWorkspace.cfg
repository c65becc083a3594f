SPECIFICATION Spec
CONSTANTS
    Null = Null
    r1 = r1
    r2 = r2
    r3 = r3
    Requests = {r1, r2, r3}
    Failing = {r1}
    MaxRestarts = 1
    Canonical = {"amount", "customer"}
    Alerts = {"n1", "n2"}
    Members = {"ann", "ben"}
    Country = "KE"
    KernelVersion = 1
    Folders <- MCFolders
    Integrations <- MCIntegrations
    Apps <- MCApps
    FinancialCategories <- MCFinancialCategories
    SystemTypes <- MCSystemTypes
    AppCategories <- MCAppCategories
    ActiveBlueprint <- MCBlueprint
    Jobs <- MCJobs
    Assignments <- MCAssignments
    Begun <- MCBegun
INVARIANTS
    TypeOK
    RevealedOnce
    HealthBehindOneTest
    VersionsKept
    OverviewConsistent
CHECK_DEADLOCK FALSE
