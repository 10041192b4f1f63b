SPECIFICATION Spec
CONSTANTS
    Jobs = {j1}
    Requests = {r1}
    Unsupported = {}
    MaxConcurrent = 1
    ApiCanTerminate = TRUE
    StaleWhileAttended = FALSE
    Faulty = {"terminate"}
INVARIANT CountedOnce
