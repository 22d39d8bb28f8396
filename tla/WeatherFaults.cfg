CONSTANTS
    Zips = {z1, z2}
    Requests = {r1, r2, r3}
    Chunks = 2
    Lifetime = 1
    MaxTime = 2
    ClockMayBeSet = TRUE
    UpstreamFails = TRUE
    Absent = Absent
    Undefined = Undefined
SPECIFICATION LiveSpec
INVARIANTS AnswersAreUnmixed OneFetchPerZip
PROPERTIES PendingIsFilled
CHECK_DEADLOCK FALSE
