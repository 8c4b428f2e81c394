\* All kinds of card and both tasks; no member of a group is retried by hand.
SPECIFICATION RoundsSpec
CONSTANTS
    Kind <- AllKinds
    Retriable <- Alone
    MaxChanges = 2
    MaxFaults = 1
    MaxRetries = 1
INVARIANTS
    AlwaysAMove
    FollowUpIsFresh
PROPERTIES
    MergedIsDone
    FeedbackIsHeard
CHECK_DEADLOCK FALSE
