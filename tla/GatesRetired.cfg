SPECIFICATION Spec
CONSTANTS
    automerge = automerge
    collection = collection
    review = review
    Services = {automerge, collection, review}
    Parent <- ParentService
    Defaults = {collection}
    Orgs = {"obs", "docs"}
    Owner = "obs"
    Lowest = "docs"
    Keyless = TRUE
    Untidy = FALSE
    MaxChanges = 2
INVARIANTS RetiredIdsAreInert
CHECK_DEADLOCK FALSE
