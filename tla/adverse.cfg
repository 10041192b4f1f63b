SPECIFICATION Spec
CONSTANTS
    Jobs = {j1}
    Requests = {r1, r2}
    Unsupported = {}
    MaxConcurrent = 1
    ApiCanTerminate = TRUE
    StaleWhileAttended = TRUE
    Faulty <- AllFaults
SYMMETRY RequestSymmetry
INVARIANTS
    TypeOK
    ClaimedOnce
    ReadyReapable
    RunningIsOwned
    NoStandstill
    TerminatedMeansGone
PROPERTY RefinesLifecycle
