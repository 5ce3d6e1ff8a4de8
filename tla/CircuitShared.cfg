SPECIFICATION MCSpec
CONSTANTS
    Workers = {w1, w2}
    FailureThreshold = 2
    SuccessThreshold = 3
    MaxFailures = 3
    MaxManual = 2
    MaxFaults = 1
INVARIANT OpensOnlyAfterThreshold
PROPERTY LegalTransitions
PROPERTY HealsWhileEnabled
