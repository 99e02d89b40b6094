SPECIFICATION SiteSpec
CONSTANTS
    Podcasts = {p1, p2}
    Enabled = {p1, p2}
    Texts = {t1}
    Blank = Blank
    Dates = {d1}
    NoDates = NoDates
    Unset = Unset
    Searches = {s1, s2}
    Nothing = Nothing
    MaxPages = 3
    MaxFlights = 2
    Step = 2
    RadiusLimit = 4
    MaxNeighbours = 5
    MaxFetches = 2
    NoData = NoData
    Tabs = {a, b}
    Videos = {v1, v2}
    Unread = Unread
    Views = {a, b}
    Clips = {c1, c2, c3}
    Cap = 2
    NoList = NoList
SYMMETRY Ids
INVARIANTS ReloadKeepsChoices PagesInOrder MoreOfferedUntilEdge ReloadKeepsWatched CountsFollowTicks
PROPERTIES ClipsKept
