CONSTANTS
    Jobs = {j1, j2}
    Workers = {w1}
    Handlers = {h1}
    Slots = 1
    Languages = {python}
    WorkerLanguages <- MCWorkerLanguages
    Capacity <- MCCapacity
    ReportedHealth = {"healthy"}
    Verdicts = {"Accepted"}
    RequestedRetries = {0}
    DefaultMaxRetries = 2
    LeaseDuration = 0
    HeartbeatTimeout = 0
    NoWorker = NoWorker
    NoJob = NoJob
    NoLease = NoLease
    NoVerdict = NoVerdict
    Faults = {"crash", "shutdown", "restart", "loss"}
    NoHandler = NoHandler
    NoBeat = NoBeat
SPECIFICATION PoolLiveSpec
PROPERTIES
    ExpiredLeaseSwept
    EveryJobEnds
    ImplementsQueue
    ImplementsLifecycle
