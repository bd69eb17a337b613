SPECIFICATION LFairSpec
CONSTANTS
    Starters <- StarterThreads
    Resetters <- ResetterThreads
    Stoppers <- StopperThreads
    Waiters <- WaiterThreads
    NoThread <- Nobody
    Routines = {"fast", "ui"}
    MaxStarts = 1
    MaxDeaths = 0
    MaxAttempts = 1
    MaxElapses = 1
PROPERTIES StallIsEscalated
CHECK_DEADLOCK FALSE
