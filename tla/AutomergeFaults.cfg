SPECIFICATION FairSpec
CONSTANTS
    Go = Go
    MaxHead = 2
    MaxRuns = 1
    MaxChanges = 1
    Reviewers = {"bot"}
    Collections = {Go}
    Files <- OneOther
    Faulty = TRUE
INVARIANTS TypeOK MergedHeadIsClassified SuccessIsMergedOrArmed
PROPERTIES ArmedIsMerged
CHECK_DEADLOCK FALSE
