SPECIFICATION FairSpec
CONSTANTS
    w1 = w1
    w2 = w2
    none = none
    nobody = nobody
    Workers <- MCWorkers
    Schedules <- MCSchedules
    NoSchedule = none
    Nobody = nobody
    MaxRules = 2
    MaxCalls = 2
    MaxCrashes = 2
INVARIANTS
    JournalExact
    OneSchedule
    DeliveryAccounted
PROPERTIES
    JournalSpec
    CallsReturn
CHECK_DEADLOCK FALSE
