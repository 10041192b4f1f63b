SPECIFICATION LimiterSpec
CONSTANTS
    Calls = {c1, c2, c3}
    MaxAttempts = 1
    Window = 2
    MaxTime = 5
INVARIANT TwicePerWindow
CHECK_DEADLOCK FALSE
