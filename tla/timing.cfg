SPECIFICATION Spec
CONSTANTS
    SsmReadyTimeout = 14
    SsmPollInterval = 2
    ExecutionTimeout = 2
    PollInterval = 3
    Slack = 14
    SsmMinimum = 3
    StaleAfter = 24
    CallMax = 2
INVARIANTS
    TypeOK
    NeverStale
    SafetyNetUnused
    EndsInTime
PROPERTY SsmHadItsChance
