CONSTANTS
    ann = ann
    bob = bob
    cat = cat
    dash = dash
    c1 = c1
    c2 = c2
    c3 = c3
    h1 = h1
    h2 = h2
    h3 = h3
    Nobody = Nobody
    NoSocket = NoSocket
    FirstPort = 5000
    Users = {ann, bob, dash}
    Alnum = {ann, bob}
    Clients = {c1, c2, c3}
    Hosts = {h1, h2, h3}
    NameOf <- NameOfDash
    HostOf <- HostOfThree
    TheirName <- OnlyBobCallsAnn
    MaxCalls = 1
    MaxRegs = 1
    MaxRestarts = 1
    MaxMedia = 1
    Lossy = {"REGISTER"}
    Duplicating = FALSE
    BusyPorts = {}
    Answers = {"ACK_CALL", "CALL_FAILED"}
SPECIFICATION LiveSpec
PROPERTIES CallCompletes ClientGetsRegistered
CHECK_DEADLOCK FALSE
