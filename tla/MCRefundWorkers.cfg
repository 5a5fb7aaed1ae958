SPECIFICATION FairSpec
CONSTANTS
    w1 = w1
    w2 = w2
    none = none
    noKey = noKey
    noOperation = noOperation
    Workers = {w1, w2}
    Modes = {"guarded"}
    RerunAfter = {"returned", "interrupted", "killed"}
    Schedules <- SharedSchedules
    NoSchedule = none
    MaxRules = 2
    ScenarioFaults <- MCScenarioFaults
    Tasks <- MCOrders
    Orders <- MCOrders
    Actors <- MCActors
    Owner <- MCOwner
    Total <- MCTotal
    NoKey = noKey
    NoOperation = noOperation
    Actor = "tenant-a"
    Amount = 1
    MaxAttempts = 3
    MaxRuns = 3
    MaxCrashes = 2
INVARIANTS
    ReceiptsGrounded
PROPERTIES
    CheckpointFinal
    OnceSpec
    EventuallyRefunded
CHECK_DEADLOCK FALSE
