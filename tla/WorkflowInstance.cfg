\* The whole flow, with two deaths of the worker and one of the server.
SPECIFICATION FairSpec
CONSTANTS
    q1 = q1
    NoGroup = NoGroup
    State <- FlowStates
    Transition <- FlowTransitions
    Def <- PullRequestFlow
    Initial = "new"
    Terminal <- FlowTerminal
    Failed = "failed"
    Fact <- FlowFacts
    Request <- OneRequest
    Retriable <- OutsideGroups
    RetryLimit = 1
    Overlap = FALSE
    CrashWindows <- Recoverable
    MaxWorkerDeaths = 2
    MaxServerDeaths = 1
    MaxRetries = 1
INVARIANTS
    RetriesBounded
    SomeoneCanAct
PROPERTIES
    BatchIsWhole
    SuccessIsKept
    ImplementsDurable
    WorkerSettles
CHECK_DEADLOCK FALSE
