CONSTANTS
    a = a
    b = b
    c = c
    d = d
    r = r
    n = n
    gateway = gateway
    lost = lost
    eth0 = eth0
    ppp0 = ppp0
    Hosts = {a, b, c, d, r, n}
    Ports <- PortTexts
    Packets <- SamePorts
    Info <- Routes
    arp = {a, b, gateway}
    table <- NatTable
    PointToPoint = {ppp0}
    Direct = Direct
    NoSearch = NoSearch
    MaxMappings = 3
SPECIFICATION Spec
INVARIANTS EndpointsHavePorts
