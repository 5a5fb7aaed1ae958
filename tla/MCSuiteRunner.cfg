SPECIFICATION FairSpec
CONSTANTS
    Suites <- MCSuites
    Checks <- MCChecks
    MaxCalls = 2
INVARIANTS
    PassIsEarned
    EvidenceHonest
PROPERTIES
    RunCompletes
CHECK_DEADLOCK FALSE
