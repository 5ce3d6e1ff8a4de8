SPECIFICATION FairLockSpec
CONSTANTS
    c1 = c1
    c2 = c2
    c3 = c3
    Callers = {c1, c2, c3}
    Sessions = {s1, s2}
    Locks <- MCLocks
    Wanted <- MCOverlap
    None = None
    Timed = {c3}
    MaxErrors = 1
    MaxDeaths = 1
    MaxTimed = 2
INVARIANT Exclusive
INVARIANT LeakNeedsAFailure
PROPERTY CallsEnd
