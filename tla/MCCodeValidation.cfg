SPECIFICATION FairSpec
CONSTANTS
    Gates <- MCGates
    Candidates <- MCCandidates
    Allowed <- MCAllowed
    Unsafe <- MCUnsafe
    MaxMishaps = 2
INVARIANTS
    AcceptedIsEarned
    DefectsCaught
    ValidationInv
PROPERTIES
    ValidationEnds
CHECK_DEADLOCK FALSE
