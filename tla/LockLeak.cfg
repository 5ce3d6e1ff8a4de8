SPECIFICATION LockHistorySpec
CONSTANTS
    c1 = c1
    c2 = c2
    c3 = c3
    Callers = {c1, c2}
    Sessions = {s1, s2}
    Locks <- MCOneLock
    Wanted <- MCSame
    None = None
    Timed = {c1, c2}
    MaxErrors = 0
    MaxDeaths = 0
    MaxTimed = 1
INVARIANT NoLeak
