SPECIFICATION StoresSpec
CONSTANTS
    u1 = u1 u2 = u2 v1 = v1 v2 = v2
    Closer = Closer Nobody = Nobody NoHash = NoHash
    Updater <- TwoUpdaters
    Viewer <- TwoViewers
    Path = {p1}
    Sets = {s1}
    Key = {k1, k2, k3}
    PrefixKeys = {}
    Hash = {h1, h2}
    MaxRev = 2
    ItemKeys = {k1, k2}
    ItemVals = {h1, h2}
    NoItem = NoItem
    MaxHash = 5
    MinInterval = 2
    MaxInterval = 4
    BurstRuns = 1
    MaxFn = 2
    Delays = {0, 1, 3}
    Never = Never
SYMMETRY Goroutines
INVARIANTS NoLostWakeup ExactAtSync DiffsExact RunIsAnswered RetryIsKept
PROPERTIES RevSpec FeedSpec PurgeSparesSent 
CHECK_DEADLOCK FALSE
