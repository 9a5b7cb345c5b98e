\* Trees, lists, caches, sets of addresses, parsers, the cycle collector, and
\* the start and the management of the programs.
SPECIFICATION Spec
CONSTANTS
    Keys = {1, 2, 3, 4, 5, 6, 7, 8}
    Peers = {"a1", "a2", "a3"}
    MaxEntries = 3
    MAX_TRIES = 2
    ErrLevels = {0, 1, 3}
    Age = 2
    MaxTime = 5
    Loads <- MCLoads
    MaxIvs = 4
    Methods = {"core", "sodium"}
    IvLen = 2
    BlockSize = 3
    CacheSize = 3
    MaxChunk = 4
    V4Bits = 1
    V6Bits = 2
    IpValues = {0, 1, 2}
    MaxUpdates = 2
    KeyNames = {"a", "b", "c"}
    InitialBins = 2
    MaxDensity = 0
    KeyHash <- CorkHash
    MaxKeys = 3
    UtKeys = {"a", "b", "c", "d"}
    UtHash <- CacheHash
    UtInitial = 1
    UtThresh = 2
    UtMax = 4
    Texts <- MCTexts
    DNS_MAXLABEL = 2
    DNS_MAXDN = 7
    DNS_MAXNAME = 40
    DNS_HSIZE = 3
    MaxLabels = 2
    MaxPkt = 4
    MaxJumps = 2
    MaxRecords = 3
    GcObjects = {1, 2, 3}
    GcFields <- MCFields
    RootsSize = 3
    MaxHeld = 1
    Ports = {"p1", "p2"}
    Passwords = {"k1"}
    Options = {"iface"}
    Mergeable = {}
    Pids = {1, 2}
    MaxTraffic = 1
    PingRoom = 2
    Failing = {"config", "system"}
    Programs = {"server", "local", "redir", "tunnel"}
    CmdSettings <- MCCmd
    CmdHosts = {0, 2}
    Members <- MCMembers
    MaxMembers = 2
    MaxRemote = 1
    MaxDns = 1
VIEW ByKey
INVARIANTS
    TreeExact
    RulesMatch
    PlainIntact
    IvsRight
    AddressesExact
    HashTablesExact
    
    DnsExact
    
    
    
CHECK_DEADLOCK FALSE
