CONSTANTS
    Files = {f}
    NoFile = nofile
    Missing = missing
    Blank = blank
    None = none
    Foreign = foreign
    Threads = {root, t}
    Root = root
    NoThread = nothread
    Slots = 2
    Descriptors = {3, 4}
    Timers = 2
    MaxLevel = 2
    MaxLosses = 1
    MaxMakes = 1
    MaxOpens = 2
    Calls = {"live", "dead", "fdAlive", "fdDead", "unprotect"}
SPECIFICATION FairSpec
PROPERTY LostRestored
