CONSTANTS
    Names = {a, b}
    NoName = noname
    Slots = 3
    Priorities = {0, 1}
    Intervals = {1}
    PayloadCalls = TRUE
    Requests = TRUE
    Jumps = TRUE
    Misses = TRUE
    MaxDepth = 2
    MaxStray = 1
SPECIFICATION FairSpec
INVARIANTS TypeOK ActiveCount  KilledByMisuse
PROPERTIES FiresOnTime 
