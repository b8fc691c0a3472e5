SPECIFICATION FairSpec
CONSTANTS
    Parent = Parent
    Sub = Sub
    Ids = {Parent, Sub}
    Registries <- TwoRegistries
    Within <- PrefixIds
    Orgs = {"obs"}
    PageSize = 2
    MaxSyncs = 2
    MaxEdits = 2
    MaxReplies = 1
INVARIANTS TypeOK TrailBalances
PROPERTIES ImplementsRegister EveryEditAudited RowsFollowRegistry
CHECK_DEADLOCK FALSE
