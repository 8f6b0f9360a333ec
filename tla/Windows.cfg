SPECIFICATION Spec
CONSTANTS
    s1 = s1  s2 = s2  e1 = e1  e2 = e2  f1 = f1  cl1 = cl1
    c1 = c1  c2 = c2  x1 = x1  ip1 = ip1  ip2 = ip2  ip3 = ip3
    None = None  Gone = Gone  AllInterfaces = AllInterfaces
    Services = {s1, s2}
    Endpoints = {e1, e2, f1}
    Clients = {cl1}
    Overlay = TRUE
    ServiceOf <- MCServiceOf
    SvcVals <- MCSvcVals
    EpVals <- MCEpVals
    RemoteSubnets <- MCRemoteSubnets
INVARIANTS
    ChangesKept
    
    
    
CHECK_DEADLOCK FALSE
