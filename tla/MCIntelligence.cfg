SPECIFICATION FairSpec
CONSTANTS
    Requests = {r1}
    Schedulers = {s}
    Readers = {d1}
    Alerts = {advice}
    FromSummary = {advice}
    Found <- MCFound
    Window <- MCWindow
    Long = 2
    Ttl = 1
    Failing = {r1}
    MaxTransactions = 1
INVARIANTS
    TypeOK
    AlertsBounded
    DashboardBounded
    ReportNotOlder
PROPERTIES
    TransactionsAnalysed
    KnowledgeSettles
