CONSTANTS
    Procs = {p1, p2, p3}
    NoProc = none
    MaxNest = 2
    Limits = {1}
    CrashPoints <- AllPoints
SPECIFICATION Spec
SYMMETRY Symmetry
INVARIANTS TypeOK ExclusiveUnlessBroken LidMatchesCount SettledOwnerKept
PROPERTY ImplementsLock
