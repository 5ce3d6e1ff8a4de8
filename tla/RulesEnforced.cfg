SPECIFICATION HistorySpec
CONSTANTS
    Alerts = {a1, a2, a3}
    Workers = {w1}
    Accounts = {c1}
    None = None
    Symbols = {ES, NQ}
    ES = ES
    NQ = NQ
    Signals <- MCSignals
    RuleSets <- MCRuleSets
    Mappings <- MCMappings
    Whitelist = {ES}
    MaxContracts = 2
    MaxPositions = 1
    MaxLoss = 1
    SessionStart = 0
    SessionEnd = 0
    AccountLimit = 2
    Day = 1
    MaxMoves = 1
    MaxFaults = 1
    MaxTogether = 1
INVARIANT OrdersWithinLimits
INVARIANT PositionsWithinLimit
INVARIANT OneSided
INVARIANT SpendBounded
INVARIANT RequestsSpaced
SYMMETRY Symmetry
