SPECIFICATION WorkersSpec
CONSTANTS
    Size = 3
    BufSize = 1
    Callers = {c1, c2, c3}
    NoPort = NoPort
    UdpClients = {u1, u2}
    MaxConns = 3
    Nobody = Nobody
    NStages = 3
    NItems = 4
    Capacity = 2
    u1 = u1 v1 = v1 v2 = v2 p1 = p1 h1 = h1 s1 = s1 k1 = k1 k2 = k2
    Closer = Closer NoHash = NoHash
    MaxRev = 2
    Key = {k1, k2}
    Hash = {h1, h2}
    PrefixKeys <- KeyPrefixes
INVARIANTS OnePlace DoneMeansServed DropsReported
PROPERTIES PortsOffered StopDrains CallbackReturns CallsReturn
CHECK_DEADLOCK FALSE
