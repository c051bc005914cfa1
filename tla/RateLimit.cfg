SPECIFICATION Spec
CONSTANTS
    r1 = r1
    r2 = r2
    Requests = {q1, q2, q3}
    Replicas = {r1, r2}
    Budget = 1
    PollBudget = 2
    Window = 4
    Second = 2
    Skew <- MCSkew
    MaxSkew = 1
    MaxDelay = 1
    MaxTime = 8
    MaxFaults = 1
SYMMETRY Symmetry
INVARIANTS TypeOK SharedWindowBounded LocalWindowBounded RefusalsJustified
PROPERTIES RetryHonest
