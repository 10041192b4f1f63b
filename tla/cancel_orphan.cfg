SPECIFICATION FairSpec
CONSTANTS
    Jobs = {j1}
    Requests = {r1}
    Unsupported = {}
    MaxConcurrent = 1
    ApiCanTerminate = TRUE
    StaleWhileAttended = FALSE
    Faulty = {}
PROPERTY InstancesEnd
