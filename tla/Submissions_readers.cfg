CONSTANTS
    Jobs <- MCJobs
    Workers = {w1}
    Verdicts = {"Accepted", "SandboxViolation"}
    Budgets = {1}
    NoWorker = NoWorker
    NoVerdict = NoVerdict
    Ids = {s1}
    user = user
    Users = {user}
    UserOf <- MCUserOf
    Readers = {r1}
    Pollers = {s1}
    Threshold = 1
    MaxEvents = 1
    MaxJobs = 1
    Replies <- MCReplies
    Faults = {"db", "lost", "net", "api", "ai", "cp", "broker", "unconfirmed"}
    NoId = NoId
SPECIFICATION SubLiveSpec
INVARIANTS
    StatusMatchesResult
PROPERTIES
    PollEnds
    ConsumedWhileRunning
