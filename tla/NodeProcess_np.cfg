SPECIFICATION NPSpec
CONSTANTS
    Starters <- StarterThreads
    Resetters <- ResetterThreads
    Stoppers <- AllStoppers
    Waiters <- DoctorOnly
    NoThread <- Nobody
    MaxStarts = 3
    MaxDeaths = 2
INVARIANTS NPTypeOK TrackedHasPidFile
PROPERTIES StopIsExclusive 
CHECK_DEADLOCK FALSE
