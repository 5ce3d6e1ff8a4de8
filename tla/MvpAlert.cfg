SPECIFICATION FairSpec
CONSTANTS
    Jobs = {d1, d2}
    Workers = {w1, w2}
    None = None
    TheAlert = TheAlert
    AlertOf <- MCAlertOf
    Accounts = {x}
    Attempts = 2
    MaxStalled = 1
    MaxFaults = 1
    MaxCrashes = 1
    MaxSlow = 1
INVARIANT RequestsBounded
INVARIANT BooksBalance
PROPERTY ImplementsLedger
PROPERTY AlertsEnd
