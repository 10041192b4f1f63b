SPECIFICATION FairSpec
CONSTANTS
    Jobs = {j1}
    jobId = j1
    Requests = {c1}
    Files = {f1, f2}
    shared = shared
    Name <- MCName
    Polls = {p1, p2}
    Loads = {l1}
    MaxFaults = 1
INVARIANTS TypeOK TerminalShownIsTrue ArtifactsAgree FoundIsNotLost NoStandstill
PROPERTIES RefinesLifecycle PageSettles
CHECK_DEADLOCK FALSE
