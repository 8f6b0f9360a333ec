SPECIFICATION Spec
CHECK_DEADLOCK FALSE
CONSTANTS
    s1 = s1
    s2 = s2
    e1 = e1
    e2 = e2
    f1 = f1
    c1 = c1
    c2 = c2
    x1 = x1
    l1 = l1
    l2 = l2
    n1 = n1
    n2 = n2
    ip1 = ip1
    ip2 = ip2
    ip3 = ip3
    None = None
    Services = {s1, s2}
    Endpoints = {e1, e2, f1}
    ServiceOf <- MCServiceOf
    SvcVals <- MCSvcVals
    EpVals <- MCEpVals
    NodeIPs <- MCNodeIPs
    masqueradeAll = FALSE
    PortPrefix <- MCPortPrefix
INVARIANTS  NothingLeftOver 
