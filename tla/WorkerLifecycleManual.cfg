\* Two attempts of one repository; one of them may be retried by hand, and the
\* server dies once, at any step of that retry.
SPECIFICATION Spec
CONSTANTS
    a1 = a1
    a2 = a2
    r1 = r1
    NoWorker = NoWorker
    Attempt <- TwoAttempts
    Repo <- OneRepo
    RepoOf <- RepoOfTwo
    MaxGlobal = 2
    MaxPerRepo = 1
    RetryLimit = 1
    MaxCrashes = 1
    ManualRetryable = {a1}
    CrashWindows <- RecoverableWindows
INVARIANTS
    RunningIsWatched
