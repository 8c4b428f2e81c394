\* One attempt, three contents of the file.
SPECIFICATION Spec
CONSTANTS
    a1 = a1
    Nothing = Nothing
    Attempt <- OneAttempt
    Content <- Contents
    Definition <- Definitions
    MaxEdits = 2
    MaxCrashes = 1
    MaxRestarts = 1
    RetryLimit = 1
INVARIANTS
    StampsAreTrue
PROPERTIES
    
    AttemptsSettle
CHECK_DEADLOCK FALSE
