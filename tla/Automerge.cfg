SPECIFICATION Spec
CONSTANTS
    Go = Go
    MaxHead = 2
    MaxRuns = 2
    MaxChanges = 2
    Reviewers = {"bot"}
    Collections = {Go}
    Files <- AllGo
    Faulty = FALSE
INVARIANTS
    MergedHeadWasApproved
    OptOutStopsMerge
    RevokedApprovalStopsMerge
CHECK_DEADLOCK FALSE
