CONSTANTS
    h1 = h1
    h2 = h2
    s1 = s1
    s2 = s2
    s3 = s3
    NoSvc = NoSvc
    Hosts = {h1, h2}
    Svcs = {s1, s2, s3}
    HostUser = h1
    HostPeer = h1
    Sources <- OneMachine
    Payloads <- TextAndBinary
    Lossy = TRUE
    Strays <- Third
SPECIFICATION LiveSpec
INVARIANTS SessionLasts RelayedBetweenEnds
PROPERTIES MediaFlows ImplementsRelay
