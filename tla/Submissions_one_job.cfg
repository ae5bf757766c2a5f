CONSTANTS
    Jobs <- MCJobs
    Workers = {w1}
    Verdicts = {"Accepted"}
    Budgets = {1}
    NoWorker = NoWorker
    NoVerdict = NoVerdict
    Ids = {s1}
    user = user
    Users = {user}
    UserOf <- MCUserOf
    Readers = {r1}
    Pollers = {}
    Threshold = 1
    MaxEvents = 1
    MaxJobs = 2
    Replies <- MCFewReplies
    Faults = {"cp"}
    NoId = NoId
SPECIFICATION SubSpec
SYMMETRY MCSymmetry
INVARIANTS
    OneJobPerSubmission
CHECK_DEADLOCK FALSE
