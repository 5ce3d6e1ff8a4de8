SPECIFICATION OrderSpec
CONSTANTS
    Jobs = {o1, o2}
    Workers = {w1, w2}
    None = None
    Attempts = 2
    MaxStalled = 1
    Refusals <- MCRefusals
    MaxFaults = 1
    MaxCrashes = 1
    MaxSlow = 1
SYMMETRY WorkerSymmetry
INVARIANT PlacementsBounded
INVARIANT OrderBooksBalance
