SPECIFICATION Spec
CONSTANTS
    w1 = w1
    w2 = w2
    w3 = w3
    guarded = guarded
    baseline = baseline
    none = none
    Workers = {w1, w2, w3}
    Configs = {guarded, baseline}
    NoConfig = none
    MaxStarts = 5
INVARIANTS
    OneConfiguration
CHECK_DEADLOCK FALSE
