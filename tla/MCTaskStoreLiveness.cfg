SPECIFICATION FairSpec
CONSTANTS
    Workers = {w1, w2}
    Calls = {c1, c2}
    Requests <- MCFewRequests
    MAX_QUEUED_JOBS = 2
    MaxTasks = 1
    MaxOutages = 2
    NoCall = NoCall
    NoTask = NoTask
    NoRequest = NoRequest
PROPERTIES
    EveryCallAnswered
    Recovers
