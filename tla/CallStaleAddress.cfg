CONSTANTS
    ann = ann
    bob = bob
    cat = cat
    dash = dash
    c1 = c1
    c2 = c2
    c3 = c3
    h1 = h1
    h2 = h2
    h3 = h3
    Nobody = Nobody
    NoSocket = NoSocket
    FirstPort = 5000
    Users = {ann, bob}
    Alnum = {ann, bob}
    Clients = {c1, c2, c3}
    Hosts = {h1, h2}
    NameOf <- NameOfRerun
    HostOf <- HostOfRerun
    TheirName <- BobRerunCallsAnn
    MaxCalls = 2
    MaxRegs = 2
    MaxRestarts = 0
    MaxMedia = 2
    Lossy = {}
    Duplicating = FALSE
    BusyPorts = {}
    Answers = {"ACK_CALL"}
SPECIFICATION Spec
PROPERTIES AddressIsUpdated
CHECK_DEADLOCK FALSE
