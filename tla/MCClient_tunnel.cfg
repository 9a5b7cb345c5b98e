SPECIFICATION FairSpec
CONSTANTS
    ip1 = ip1
    ip2 = ip2
    NoIp = NoIp
    t1 = t1
    t2 = t2
    Tunnels = {t1}
    Ips = {ip1, ip2}
    RemotePort = 8388
    MaxMore = 1
    MaxListeners = 2
    MaxChunks = 2
    Configs <- MCConfigs
INVARIANTS
    AssertsHold
    TunnelsAccounted
PROPERTIES
    ClientEnds
    ImplementsRelay
