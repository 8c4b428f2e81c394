\* Two attempts of one issue or of two; any action may stop and be run again.
SPECIFICATION Spec
CONSTANTS
    i1 = i1
    i2 = i2
    Human = Human
    Nothing = Nothing
    Attempt <- TwoAttempts
    Issue <- BothIssues
    MaxPRs = 2
    MaxCommits = 2
    MaxOverlaps = 1
    Windows <- Recoverable
INVARIANTS
    OneWorkerPerWorktree
    OnePRPerIssue
PROPERTIES
    WorkIsKept
    RemovedAfterMerge
SYMMETRY IssuesAreAlike
CHECK_DEADLOCK FALSE
