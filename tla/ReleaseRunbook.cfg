SPECIFICATION RunbookSpec
CONSTANTS
    Runs = {r1, r2}
    Dispatched = {"patch"}
    MaxCommits = 4
    MaxMajor = 0
PROPERTIES
    InFlightResolved
