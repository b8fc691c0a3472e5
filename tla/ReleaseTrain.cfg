SPECIFICATION Spec
CONSTANTS
    Runs = {r1, r2}
    Dispatched = {"major", "patch", "rollback"}
    MaxCommits = 4
    MaxMajor = 2
SYMMETRY RunSymmetry
INVARIANTS
    TypeOK
    AuditTrail
    PinResolvable
    CurrentTagAccounted
PROPERTIES
    ImplementsReleaseLine
    LaterReleaseWaits
