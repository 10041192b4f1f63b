SPECIFICATION FairSpec
CONSTANTS
    Jobs = {j1, j2}
    Requests = {r1}
    Unsupported = {j2}
    MaxConcurrent = 2
    ApiCanTerminate = TRUE
    StaleWhileAttended = FALSE
    Faulty = {}
INVARIANTS
    NoOrphan
    WorksOnLiveWorker
    CountedOnce
    PermitsConserved
PROPERTIES
    JobsEnd
    OwnedInstancesEnd
