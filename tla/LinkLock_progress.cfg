CONSTANTS
    Procs = {p1, p2, p3}
    NoProc = none
    MaxNest = 1
    Limits <- Forever
    CrashPoints <- Nowhere
SPECIFICATION FairSpec
PROPERTIES Progress
