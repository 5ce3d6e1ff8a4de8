SPECIFICATION FairSpec
CONSTANTS
    Symbols = {ES, NQ}
    ES = ES
    NQ = NQ
    Trades <- MCTrades
    Refusals <- MCRefusals
    MaxOrders = 3
    MaxFlattens = 1
    MaxFaults = 1
INVARIANT OnePositionPerSymbol
INVARIANT PositionsMatchFills
 
PROPERTY StartupEnds
