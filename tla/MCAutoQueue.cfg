SPECIFICATION FairSpec
CONSTANTS
    Supervisors = {s1, s2}
    MaxJobs = 2
    ExpectedQueries = 6
    MaxBatch = 2
    AfterIndex = 2
    AfterSessions = 1
    ManualJobs = 1
    NoOne = NoOne
    NoState = NoState
INVARIANTS
    TypeOK
    SubmissionsAccounted
    PredecessorsCompleted
    StopHolds
PROPERTIES
    InterleavingStops
    NoQueryAfterFailure
    Concludes
CHECK_DEADLOCK FALSE
