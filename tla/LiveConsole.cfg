SPECIFICATION FairLiveSpec
CONSTANTS
    Streams = {me, other}
    me = me
    other = other
    Me = me
    MaxConcurrentStreams = 1
    Tables <- MCTables
    Panels <- MCPanels
    QueueSize = 1
    MaxChanges = 2
INVARIANTS CountCoversOpen OvershootBounded StaleOnItsWay
PROPERTIES ShowsFreshViews EventuallyFresh
