SPECIFICATION FairSpec
CONSTANTS
    Repos = {a}
    Orgs <- MCOrgs
    Paths <- MCPaths
    Pins <- MCPins
    Trigger = "run"
    Configs <- Shrinking
    MaxPushes = 2
    MaxReruns = 0
PROPERTIES
    RetiredPathsRemoved
