\* An issue, a local ticket and two pull requests; one sync at a time.
SPECIFICATION Spec
CONSTANTS
    t1 = t1
    r1 = r1
    Nothing = Nothing
    Issue <- OneIssue
    PullRequest <- TwoPRs
    Ticket <- OneTicket
    Request <- OneRequest
    Overlap = FALSE
    PageSize = 2
    MaxChanges = 4
    MaxCardMoves = 3
INVARIANTS
    LinksAreOpen
PROPERTIES
    CompletedByGitHub
    ItemsMirrorGitHub
    CardsFollowGitHub
CHECK_DEADLOCK FALSE
