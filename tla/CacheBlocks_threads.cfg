CONSTANTS
    Threads = {t1, t2}
    NoThread = none
    Stuck = stuck
    MaxLoads = 2
    Blocks = 2
    MaxBlocks = 2
    MaxCount = 2
    Quantum = 1
    Word = 16
    Objects = 2
    Sizes = {1, 2}
    Calls = {"add", "addAny", "read", "delete", "setUsed", "clear", "resize", "compact", "crash"}
SPECIFICATION Spec
SYMMETRY Symmetry
INVARIANTS TypeOK MapIsPermutation
PROPERTY ReadersUndisturbed
