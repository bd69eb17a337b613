SPECIFICATION LSpec
CONSTANTS
    Starters <- StarterThreads
    Resetters <- ResetterThreads
    Stoppers <- StopperThreads
    Waiters <- WaiterThreads
    NoThread <- Nobody
    Routines = {"fast", "lag"}
    MaxStarts = 2
    MaxDeaths = 0
    MaxAttempts = 1
    MaxElapses = 0
INVARIANTS LTypeOK ResyncingIsOwned
PROPERTIES NPSpec
CHECK_DEADLOCK FALSE
