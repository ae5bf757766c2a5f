CONSTANTS
    Jobs <- MCJobs
    Workers = {w1}
    Verdicts = {"Accepted", "SandboxViolation"}
    Budgets = {1}
    NoWorker = NoWorker
    NoVerdict = NoVerdict
    Ids = {s1, s2}
    user = user
    Users = {user}
    UserOf <- MCUserOf
    Readers = {r1}
    Pollers = {}
    Threshold = 1
    MaxEvents = 0
    MaxJobs = 2
    Replies <- MCFewReplies
    Faults = {"db", "lost", "api", "cp"}
    NoId = NoId
SPECIFICATION SubSpec
SYMMETRY MCSymmetry
INVARIANTS
    PublishedNotLost
    BlockedNeverRuns
    ResultFromItsJob
PROPERTIES
    ResultKept
