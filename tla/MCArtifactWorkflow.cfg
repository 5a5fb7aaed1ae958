SPECIFICATION FairSpec
CONSTANTS
    w1 = w1
    w2 = w2
    none = none
    Workers = {w1, w2}
    Settings <- MCSettings
    NoSchedule = none
    MaxRules = 2
    MaxAttempts = 3
INVARIANTS
    WorkflowInv
    OracleVerdict
PROPERTIES
    PromiseSpec
    EventuallyComplete
CHECK_DEADLOCK FALSE
