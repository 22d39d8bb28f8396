CONSTANTS
    Zips = {z1}
    Requests = {r1, r2}
    Chunks = 1
    Lifetime = 1
    MaxTime = 3
    ClockMayBeSet = FALSE
    UpstreamFails = FALSE
    Absent = Absent
    Undefined = Undefined
SPECIFICATION Spec
INVARIANTS CachedAnswersAreFresh
CHECK_DEADLOCK FALSE
