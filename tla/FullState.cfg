SPECIFICATION Spec
CONSTANTS
    c1 = c1
    c2 = c2
    x1 = x1
    l1 = l1
    n1 = n1
    ip1 = ip1
    ip2 = ip2
    six = six
    r1 = r1
    None = None
    NoEntry = NoEntry
    Sep = 5
    MaxSent = 2
    Services <- MCServices
    Endpoints <- MCEndpoints
    ServiceOf <- MCServiceOf
    SvcVals <- MCSvcVals
    EpVals <- MCEpVals
    Family <- MCFamily
    clusterCIDRs = TRUE
    NodeAddresses = {n1}
    V4 = {c1, c2, x1, l1, n1, ip1, ip2}
    EbpfV4 = {1, 2, 3, 10, 11}
    Worlds <- PassWorlds
INVARIANTS NftDelivers ServersConfined  
PROPERTIES GroupsExact
CHECK_DEADLOCK FALSE
