CONSTANTS
    Threads = {t1}
    NoThread = none
    Stuck = stuck
    MaxLoads = 2
    Blocks = 3
    MaxBlocks = 3
    MaxCount = 4
    Quantum = 2
    Word = 16
    Objects = 1
    Sizes = {3}
    Calls = {"add", "compact"}
CHECK_DEADLOCK FALSE
SPECIFICATION Spec
INVARIANT ReadsBack
