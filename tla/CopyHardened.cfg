SPECIFICATION Spec
CONSTANTS
    Calls = {k1, k2, k3}
    Requests = {q1, q2, q3}
    Accounts = {x}
    None = None
    Windows <- WindowsDef
    Limit <- LimitDef
    KeyLife = 1
    MaxTime = 2
    MaxFaults = 1
    MaxCrashes = 1
SYMMETRY Symmetry
INVARIANT SuccessIsQueued
INVARIANT OrdersWithinRate
INVARIANT QueuedOncePerLife
