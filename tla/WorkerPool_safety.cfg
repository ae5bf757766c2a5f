CONSTANTS
    Jobs = {j1}
    Workers = {w1, w2}
    Handlers = {h1, h2}
    Slots = 1
    Languages = {python}
    WorkerLanguages <- MCWorkerLanguages
    Capacity <- MCCapacity
    ReportedHealth = {"healthy"}
    Verdicts = {"Accepted", "WrongAnswer"}
    RequestedRetries = {0, 1}
    DefaultMaxRetries = 2
    LeaseDuration = 0
    HeartbeatTimeout = 0
    NoWorker = NoWorker
    NoJob = NoJob
    NoLease = NoLease
    NoVerdict = NoVerdict
    Faults = {"crash", "restart", "loss"}
    NoHandler = NoHandler
    NoBeat = NoBeat
SPECIFICATION PoolSpec
SYMMETRY MCSymmetry
INVARIANTS
    TypeOK
    AttemptsBounded
    ResultIffCompleted
    NoDoubleClaim
    OverlapOnlyAfterLostLease
    SingleSlotRespected
PROPERTIES
    TerminalStable
    LeaseRespected
    StaleWorkerRejected
