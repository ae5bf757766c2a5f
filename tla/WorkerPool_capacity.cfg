CONSTANTS
    Jobs = {j1, j2}
    Workers = {w1}
    Handlers = {h1}
    Slots = 2
    Languages = {python}
    WorkerLanguages <- MCWorkerLanguages
    Capacity <- MCCapacity
    ReportedHealth = {"healthy"}
    Verdicts = {"Accepted"}
    RequestedRetries = {0}
    DefaultMaxRetries = 2
    LeaseDuration = 0
    HeartbeatTimeout = 0
    NoWorker = NoWorker
    NoJob = NoJob
    NoLease = NoLease
    NoVerdict = NoVerdict
    Faults = {}
    NoHandler = NoHandler
    NoBeat = NoBeat
SPECIFICATION PoolSpec
INVARIANTS
    CapacityRespected
