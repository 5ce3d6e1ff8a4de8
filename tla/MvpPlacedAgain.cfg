SPECIFICATION OrderSpec
CONSTANTS
    Jobs = {o1}
    Workers = {w1, w2}
    None = None
    Attempts = 2
    MaxStalled = 1
    Refusals <- MCDeployed
    MaxFaults = 0
    MaxCrashes = 0
    MaxSlow = 0
SYMMETRY WorkerSymmetry
INVARIANT PlacedAtMostOnce
