SPECIFICATION FairSpec
CONSTANTS
    none = none
    Settings <- KilledOnce
    NoSchedule = none
    MaxRules = 2
    MaxAttempts = 3
PROPERTIES
    RejectionRetained
CHECK_DEADLOCK FALSE
