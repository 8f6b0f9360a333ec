SPECIFICATION WorldSpec
CONSTANTS
    s1 = s1 s2 = s2 n1 = n1 a1 = a1 h1 = h1 h2 = h2 NoHash = NoHash
    Hash <- OneHash
    Svc <- TwoServices
    Named <- NamedOnly
    Anonymous <- NoAnonymous
    Key <- SmallKey
    SvcOf <- SmallSvcOf
    HashOf <- SmallHashOf
    NSources = 1
    MaxRev = 2
    MaxBreaks = 1
    MaxRestarts = 0
PROPERTY ResetIsCompleted
CHECK_DEADLOCK FALSE
