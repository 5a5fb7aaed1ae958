SPECIFICATION FairSpec
CONSTANTS
    none = none
    Settings <- MCSettings
    NoSchedule = none
    MaxRules = 2
    MaxAttempts = 3
INVARIANTS
    GraphInv
    OracleVerdict
PROPERTIES
    PromiseSpec
    SettledIsFinal
    EventuallySettled
CHECK_DEADLOCK FALSE
