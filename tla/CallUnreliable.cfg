CONSTANTS
    ann = ann
    bob = bob
    cat = cat
    dash = dash
    c1 = c1
    c2 = c2
    c3 = c3
    h1 = h1
    h2 = h2
    h3 = h3
    Nobody = Nobody
    NoSocket = NoSocket
    FirstPort = 5000
    Users = {ann, bob, cat}
    Alnum = {ann, bob, cat}
    Clients = {c1, c2, c3}
    Hosts = {h1, h2, h3}
    NameOf <- NameOfThree
    HostOf <- HostOfThree
    TheirName <- BothCallAnn
    MaxCalls = 2
    MaxRegs = 1
    MaxRestarts = 1
    MaxMedia = 2
    Lossy = {}
    Duplicating = TRUE
    BusyPorts = {}
    Answers = {"ACK_CALL", "CALL_FAILED"}
SPECIFICATION Spec
INVARIANTS CrashOnlyAfterRestart NoticesReachTheirName NoMediaWithoutAccept PortServesOnePair AnnouncedPortIsServed
PROPERTIES ImplementsSwitchboard
CONSTRAINT Bounded
CHECK_DEADLOCK FALSE
