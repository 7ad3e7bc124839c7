CONSTANTS
    Files = {f, g}
    NoFile = nofile
    Missing = missing
    Blank = blank
    None = none
    Foreign = foreign
    Threads = {root, t}
    Root = root
    NoThread = nothread
    Slots = 2
    Descriptors = {3, 4}
    Timers = 2
    MaxLevel = 3
    MaxLosses = 1
    MaxMakes = 1
    MaxOpens = 2
    Calls = {"live", "dead", "protect", "fdAlive", "fdDead", "unprotect"}
SPECIFICATION Spec
SYMMETRY Symmetry
INVARIANTS DescriptorsKnown LiveServed
PROPERTY RestoresOwn
