SPECIFICATION FairSpec
CONSTANTS
    r1 = r1
    r2 = r2
    r3 = r3
    shared = shared
    other = other
    Email <- MCEmail
    Calls = {r1, r2, r3, l1}
    Logins = {l1}
    Keyed = {a1, a2}
    Scenarios = {{r1, r2, l1}, {r1, l1, a1}, {r1, a1, a2}, {r1, r3, a1}}
    DatabaseFails = TRUE
    MaxAttempts = 1
    Window = 2
    MaxTime = 3
INVARIANTS TypeOK LimitPerReset OneAccount WholeAccounts RevokedIsDead OwnersRevoke NoStandstill CommittedCanLogIn
PROPERTIES RefinesBook RefusedOnlyWhenFull RequestsEnd
CHECK_DEADLOCK FALSE
