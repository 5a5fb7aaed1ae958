SPECIFICATION FairSpec
CONSTANTS
    none = none
    nobody = nobody
    Cases <- Suite
    Limits <- MCLimits
    NoSchedule = none
    Nobody = nobody
    PoolSize = 4
    MaxAttempts = 3
INVARIANTS
    ServiceInv
    OracleVerdict
    DiagnosisSound
    LostLogOnlyAbstains
    ProposalSound
PROPERTIES
    ChargeSpec
    RunEnds
CHECK_DEADLOCK FALSE
