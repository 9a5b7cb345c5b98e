SPECIFICATION Spec
CONSTANTS
    h1 = h1
    h2 = h2
    ip1 = ip1
    ip2 = ip2
    t1 = t1
    t2 = t2
    NoIp = NoIp
    Tunnels = {t1, t2}
    Hosts = {h1}
    BadHosts = {}
    Ips = {ip1, ip2}
    Ports = {80, 443}
    MaxChunks = 0
    Answers <- MCAnswers
SYMMETRY TunnelSymmetry
INVARIANTS
    TunnelSetExact
    RightDestination
ACTION_CONSTRAINT CloseInOrder
CONSTRAINT SharingOnly
