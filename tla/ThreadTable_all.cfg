CONSTANTS
    Threads = {t1, t2, t3}
    Root = root
    NULL = null
    Slots = 2
    MaxPauses = 2
SPECIFICATION FairSpec
INVARIANTS TypeOK SlotsOfTheLiving PauseHolds CountKnown
PROPERTY CancelledEnds
CHECK_DEADLOCK FALSE
