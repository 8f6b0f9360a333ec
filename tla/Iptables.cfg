SPECIFICATION Spec
CONSTANTS
    s1 = s1
    s2 = s2
    e1 = e1
    e2 = e2
    f1 = f1
    c1 = c1
    c2 = c2
    x1 = x1
    l1 = l1
    l2 = l2
    ip1 = ip1
    ip2 = ip2
    ip3 = ip3
    r1 = r1
    None = None
    NodeIP = n1
    SrcNode = SrcNode
    Loopback = Loopback
    Services = {s1, s2}
    Endpoints = {e1, e2, f1}
    ServiceOf <- MCServiceOf
    SvcVals <- MCSvcVals
    EpVals <- MCEpVals
    LocalIPs = {n1, x1}
    Sources <- MCSources
INVARIANTS DeliveredAsTold NoStaleChains NeverRefused 
CHECK_DEADLOCK FALSE
