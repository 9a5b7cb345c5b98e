\* The UDP relay, the event-driven programs and their resolver.
SPECIFICATION RelaysSpec
CONSTANTS
    r1 = r1
    r2 = r2
    Remotes = {r1, r2}
    Packets <- MCPackets
    PacketSize = 30
    HasIv = TRUE
    HasPlugin = TRUE
    IvLen = 1
    HeaderLen = 3
    MinHeader = 2
    BUF_SIZE = 4
    MaxPayload = 3
    MaxReply = 2
    MAX_TRIES = 1
    Dests = {"ip", "name", "badname", "blocked", "badtype"}
    FastOpenSends = {"all", "none"}
    MaxUp = 3
    MaxDown = 2
    RdBufSize = 2
    PartialSends = {}
    Queries = {"q1", "q2"}
    NServ = 1
    NTries = 2
    BaseTimeout = 1
    NSrch = 1
    Fitting = {1}
    Ids = {1}
INVARIANTS
    ConnectionsExact
    HeaderInPacket
    
    ResolverRight
PROPERTIES
    RelayEnds
    QueriesEnd
CHECK_DEADLOCK FALSE
