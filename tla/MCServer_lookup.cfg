SPECIFICATION Spec
CONSTANTS
    h1 = h1
    h2 = h2
    ip1 = ip1
    ip2 = ip2
    NoIp = NoIp
    t1 = t1
    t2 = t2
    Tunnels = {t1}
    Hosts = {h1, h2}
    BadHosts = {h2}
    Ips = {ip1, ip2}
    Ports = {80}
    MaxChunks = 2
    Answers <- MCAnswers
INVARIANT LookupEndsBeforeFree
