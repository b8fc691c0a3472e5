SPECIFICATION FairSpec
CONSTANTS
    Repos = {a}
    Orgs <- MCOrgs
    Paths <- MCPaths
    Pins <- MCPins
    Trigger = "run"
    Configs <- AllConfigs
    MaxPushes = 2
    MaxReruns = 1
INVARIANTS
    TypeOK
PROPERTIES
    NeverOlder
    InstallsHeal
