SPECIFICATION Spec
CONSTANTS
    MaxCases = 3
    MaxUpsets = 1
INVARIANTS TypeOK OwnFailureAnswered ReportedCommentIsFresh UndisturbedCasePasses
CHECK_DEADLOCK FALSE
