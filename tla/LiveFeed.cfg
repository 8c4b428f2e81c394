\* Pages of two events, two writers of five rows.
SPECIFICATION FeedSpec
CONSTANTS
    Limit = 2
    MaxRows <- FewRows
    MaxTime = 1
    MaxBreaks = 1
INVARIANTS
    NothingSkipped
    TranscriptInOrder
PROPERTIES
    EveryEventIsShown
CHECK_DEADLOCK FALSE
