SPECIFICATION Spec
CONSTANTS
    web = web
    db = db
    operator = operator
    Services = {web, db}
    Targets = {db}
    TCPServices = {db}
    InitialChains <- MCInitialChains
    Gateway = Gateway
    Others = {operator}
    Absent = Absent
    Unread = Unread
    NoTarget = NoTarget
    MaxRetries = 1
    MaxWatchers = 2
    MaxEdits = 2
CHECK_DEADLOCK FALSE
INVARIANTS
    TypeOK
    ReportsAreReferenced
PROPERTIES
    RemovedOnlyUnreferenced
    OthersKeepTheirSources
    ReconcileReturns
    TargetsAreAllowed
