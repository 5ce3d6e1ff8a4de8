SPECIFICATION FairSpec
CONSTANTS
    Orders = {o1}
    Accounts = {a1}
    AccountOf <- MCSameAccount
    Workers = {w1, w2}
    None = None
    Attempts = 2
    MaxStalled = 1
    Refused = {}
    MaxFlips = 1
    MaxFaults = 1
    MaxCrashes = 1
    MaxSlow = 1
INVARIANT AccountExclusive
INVARIANT DuplicatesNeedAFault
INVARIANT BooksBalance
PROPERTY SettledIsFinal
PROPERTY KillSwitchDrains
PROPERTY ImplementsDesk
PROPERTY JobsEnd
