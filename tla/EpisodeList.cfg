SPECIFICATION FairListSpec
CONSTANTS
    e1 = e1
    e2 = e2
    Order <- MCOrder
    Titled = {e1}
    StatusTabs = {"all", "failed"}
    BulkOps = {"delete"}
    PageSize = 1
INVARIANTS TickedUnderFilters
PROPERTIES ReloadKeepsSlice ListSettles
