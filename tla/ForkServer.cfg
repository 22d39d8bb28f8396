CONSTANTS
    Lines <- SomeLines
    NoPort = NoPort
    NoCommand = NoCommand
    Garbage = 0
    Clients = {c1, c2}
    Server = Server
    Nobody = Nobody
    Backlog = 2
    SetupMayFail = TRUE
    ResetLeavesQueue = TRUE
SPECIFICATION LiveSpec
INVARIANTS RightCommand NoDescriptorLeaks HungUpOnlyWhenOver BlocksOnlyAfterReset
PROPERTIES ImplementsInetd WaitingIsAccepted ConnectionEnds
CHECK_DEADLOCK FALSE
