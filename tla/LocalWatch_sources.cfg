SPECIFICATION WorldSpec
CONSTANTS
    s1 = s1 s2 = s2 n1 = n1 a1 = a1 h1 = h1 h2 = h2 NoHash = NoHash
    Hash <- TwoHashes
    Svc <- TwoServices
    Named <- NamedOnly
    Anonymous <- NoAnonymous
    Key <- SmallKey
    SvcOf <- SmallSvcOf
    HashOf <- SmallHashOf
    NSources = 2
    MaxRev = 1
    MaxBreaks = 0
    MaxRestarts = 0
INVARIANT AllEndpointsServed
CHECK_DEADLOCK FALSE
