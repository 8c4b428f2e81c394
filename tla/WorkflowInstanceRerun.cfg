\* The server may die anywhere, also between the success of a gate's action
\* and the move it is for.
SPECIFICATION Spec
CONSTANTS
    q1 = q1
    NoGroup = NoGroup
    State <- FlowStates
    Transition <- FlowTransitions
    Def <- PullRequestFlow
    Initial = "new"
    Terminal <- FlowTerminal
    Failed = "failed"
    Fact <- FlowFacts
    Request <- OneRequest
    Retriable <- OutsideGroups
    RetryLimit = 1
    Overlap = FALSE
    CrashWindows <- Anywhere
    MaxWorkerDeaths = 0
    MaxServerDeaths = 1
    MaxRetries = 0
PROPERTIES
    SuccessIsKept
CHECK_DEADLOCK FALSE
