SPECIFICATION WorldSpec
CONSTANTS
    s1 = s1 s2 = s2 n1 = n1 a1 = a1 h1 = h1 h2 = h2 NoHash = NoHash
    Hash <- TwoHashes
    Svc <- TwoServices
    Named <- NamedOnly
    Anonymous <- OneAnonymous
    Key <- FullKey
    SvcOf <- FullSvcOf
    HashOf <- FullHashOf
    NSources = 1
    MaxRev = 2
    MaxBreaks = 1
    MaxRestarts = 1
INVARIANTS SyncedToRevision NoOrphans
PROPERTIES OnlyTowardsGoal Converges
CHECK_DEADLOCK FALSE
