SPECIFICATION ViewsSpec
CONSTANTS
    Rows = {p, q}
    Fields = {"name", "priority"}
    Values = {0, 1}
    Nobody = Nobody
    MaxSaves = 1
    Urls = {u, v}
    Jobs = {j1, j2}
    NoForm = NoForm
    NoJob = NoJob
    MaxRequests = 2
    Spans = {7, 30, 90}
    FirstSpan = 30
    NoSpan = 0
    MaxLoads = 3
    Browsers = {x, y, z}
    Silent = {}
    Operators = {z}
    Limit = 1
    LastDay = 1
    MaxEvents = 2
    NoWrite = NoWrite
SYMMETRY Ids
INVARIANTS DraftOfSelected FiguresOfTab SearchersCounted
PROPERTIES RefusedOnlyIfStale OnlyItsField PlanIsCurrent
