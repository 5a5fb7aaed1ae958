SPECIFICATION ExperimentFair
CONSTANTS
    w1 = w1
    w2 = w2
    none = none
    noKey = noKey
    noOperation = noOperation
    Workers = {w1}
    Modes = {"guarded", "baseline"}
    RerunAfter = {"interrupted"}
    Schedules <- MCSchedules
    NoSchedule = none
    MaxRules = 2
    ScenarioFaults <- MCScenarioFaults
    Tasks <- MCOrders
    Orders <- MCOrders
    Actors <- MCActors
    Owner <- MCOwner
    Total <- MCTotal
    NoKey = noKey
    NoOperation = noOperation
    Actor = "tenant-a"
    Amount = 1
    MaxAttempts = 3
    MaxRuns = 2
    MaxCrashes = 0
    Agents = {"scripted", "adk"}
    MaxTurns = 8
    MaxToolCalls = 2
INVARIANTS
    ScriptedVerdict
    AgentVerdict
PROPERTIES
    OnceSpec
    CasesEnd
CHECK_DEADLOCK FALSE
