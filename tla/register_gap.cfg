SPECIFICATION FairSpec
CONSTANTS
    r1 = r1
    r2 = r2
    r3 = r3
    shared = shared
    other = other
    Email <- MCEmail
    Calls = {r1, r2, r3, l1}
    Logins = {l1}
    Keyed = {}
    Scenarios = {{r1, l1}}
    DatabaseFails = FALSE
    MaxAttempts = 2
    Window = 2
    MaxTime = 3
INVARIANT RegisteredCanLogIn
CHECK_DEADLOCK FALSE
