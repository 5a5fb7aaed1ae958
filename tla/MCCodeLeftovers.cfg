SPECIFICATION Spec
CONSTANTS
    Gates <- MCGates
    Candidates <- MCCandidates
    Allowed <- MCAllowed
    Unsafe <- MCUnsafe
    MaxMishaps = 2
INVARIANT ImageRemovedAfterExecution
CHECK_DEADLOCK FALSE
