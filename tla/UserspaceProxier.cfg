SPECIFICATION Spec
CONSTANTS
    s1 = s1 s2 = s2 e1 = e1 e2 = e2 x = x c1 = c1 q1 = q1 q2 = q2 q3 = q3 q4 = q4
    None = None NodeIP = NodeIP
    Services <- MCServices
    Endpoints <- MCEndpoints
    ServiceOf <- MCServiceOf
    SvcVals <- MCSvcVals
    EpVals <- MCEpVals
    Clients = {c1}
    ProxyPorts = {q1, q2, q3, q4}
    LocalIPs = {x}
    DialTimeouts = 2
    MaxAddresses = 2
CONSTRAINTS ConnectionsAlone EndpointsAlone
SYMMETRY PortSymmetry
INVARIANTS ProxiedAsTold RulesReachOwner
PROPERTY RetryLeavesDeleted
CHECK_DEADLOCK FALSE
