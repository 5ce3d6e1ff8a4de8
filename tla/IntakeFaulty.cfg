SPECIFICATION FairSpec
CONSTANTS
    Requests = {r1, r2, r3}
    Alerts = {a1, a2}
    Signals = {s1}
    SignalOf <- MCSameSignal
    NoAlert = NoAlert
    BootSwitch = FALSE
    MaxToggles = 2
    MaxFaults = 1
    MaxCrashes = 1
INVARIANT EnqueuedOnce
PROPERTY SwitchStopsIntake
PROPERTY ImplementsLedger
PROPERTY AlertsSettle
