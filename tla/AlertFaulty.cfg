SPECIFICATION FairSpec
CONSTANTS
    Jobs = {a1}
    Workers = {w1, w2}
    None = None
    Accounts = {x}
    Attempts = 2
    MaxStalled = 1
    MaxFlips = 1
    MaxFaults = 3
    MaxCrashes = 1
    MaxSlow = 1
    MaxTogether = 3
INVARIANT RequestsBounded
INVARIANT BooksBalance
INVARIANT RefusedHasNoOrder
INVARIANT FailedIsDeadLettered
PROPERTY AlertsEnd
