SPECIFICATION FairSpec
CONSTANTS
    Jobs = {j1}
    Requests = {}
    Unsupported = {}
    MaxConcurrent = 1
    ApiCanTerminate = TRUE
    StaleWhileAttended = FALSE
    Faulty = {"process", "terminate", "db"}
PROPERTIES
    ReadyInstancesEnd
    TerminatingEnds
