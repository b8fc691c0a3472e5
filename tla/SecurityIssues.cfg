\* Three reports on two rules, two acts and a re-run
CONSTANTS
    Rules = {r1, r2}
    PageSize = 2
    MaxIssues = 3
    MaxReruns = 1
    MaxActs = 2
SPECIFICATION Spec
SYMMETRY RulesAlike
CHECK_DEADLOCK FALSE
INVARIANTS
    TypeOK
    NewestReportSurvives
    OlderReportsClosed
PROPERTY WantedIssuesStayOpen
