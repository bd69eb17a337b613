SPECIFICATION LFairSpec
CONSTANTS
    Starters <- StarterThreads
    Resetters <- ResetterThreads
    Stoppers <- StopperThreads
    Waiters <- WaiterThreads
    NoThread <- Nobody
    Routines = {"shutdown", "slow"}
    MaxStarts = 2
    MaxDeaths = 1
    MaxAttempts = 2
    MaxElapses = 0
PROPERTIES CrashIsAnswered ResyncEnds ShutdownEnds
CHECK_DEADLOCK FALSE
