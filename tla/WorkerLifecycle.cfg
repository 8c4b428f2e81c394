\* Two attempts compete for one slot; one leader crash, one retry each.
SPECIFICATION FairSpec
CONSTANTS
    a1 = a1
    a2 = a2
    r1 = r1
    NoWorker = NoWorker
    Attempt <- TwoAttempts
    Repo <- OneRepo
    RepoOf <- RepoOfTwo
    MaxGlobal = 1
    MaxPerRepo = 1
    RetryLimit = 1
    MaxCrashes = 1
    ManualRetryable = {}
    CrashWindows <- ClosingWindows
INVARIANTS
    TypeOK
    OneProcessPerAttempt
    RunningIsWatched
    WithinCapacity
    SettledRunIsClosed
PROPERTIES
    EveryAttemptSettles
