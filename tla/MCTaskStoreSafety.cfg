SPECIFICATION Spec
CONSTANTS
    Workers = {w1, w2}
    Calls = {c1, c2}
    Requests <- MCRequests
    MAX_QUEUED_JOBS = 1
    MaxTasks = 2
    MaxOutages = 2
    NoCall = NoCall
    NoTask = NoTask
    NoRequest = NoRequest
SYMMETRY Symmetry
INVARIANTS
    TasksIndexed
PROPERTIES
    RemovedForGood
    ImplementsTaskService
