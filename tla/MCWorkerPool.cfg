SPECIFICATION FairSpec
CONSTANTS
    r1 = r1
    r2 = r2
    j1 = j1
    j2 = j2
    j3 = j3
    Workers = {w1, w2, w3}
    Reactors = {r1, r2}
    Jobs = {j1, j2, j3}
    ReactorOf <- MCReactorOf
    MAX_QUEUED_JOBS = 2
    NoJob = NoJob
INVARIANTS
    TypeOK
    JobConservation
    NoStrandedCompletion
    WorkConserving
    StopDrains
PROPERTIES
    AcceptedJobsEnd
    ShutdownTerminates
    ImplementsAsyncCalls
