CONSTANTS
    Width = 3
    Tables <- SmallTables
    NoRoute = NoRoute
    NoFind = NoFind
SPECIFICATION Spec
INVARIANTS LongestMatch
CHECK_DEADLOCK FALSE
