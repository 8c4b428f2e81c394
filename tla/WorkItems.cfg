\* One card with two runs, moved, adjusted, claimed and crashed over.
SPECIFICATION FairSpec
CONSTANTS
    s1 = s1
    q1 = q1
    t1 = t1
    Nothing = Nothing
    SourceItem <- OneSource
    LinkedPRs <- NoLinks
    RepoOf <- RepoOfIt
    Repo <- OneRepo
    Request <- OneRequest
    MaxGlobal = 1
    MaxPerRepo = 1
    RetryLimit = 1
    Overlap = FALSE
    CrashWindows <- OutsideClaim
    MaxCrashes = 1
    MaxCards = 1
    MaxRuns = 2
    MaxAttempts = 2
INVARIANTS
    OneAttemptPerRun
    InProgressHasWork
PROPERTIES
    NoRunStarves
