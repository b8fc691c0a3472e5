SPECIFICATION Spec
CONSTANTS
    Orgs <- MCOrgs
    Rank <- MCRank
    Prefix <- MCPrefix
    Autodoc = "autodoc"
    Scopes <- MCScopes
    Trees <- MCTrees
    First <- Base
    Consumers <- MCConsumers
    MaxChanges = 4
INVARIANTS
    TypeOK
    AssetsMatchGate
    PolicyReachesAgent
    OneBlockPerAgent
PROPERTIES
    LaterAgentsAgree
    StartsWhenAligned
CHECK_DEADLOCK FALSE
