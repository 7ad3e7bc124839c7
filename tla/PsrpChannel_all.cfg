CONSTANTS
    Clients = {a, b, c}
    NoPid = nopid
    Slots = 2
    Verbose = TRUE
    MayDie = {a}
    MinCount <- Lowest
SPECIFICATION FairSpec
INVARIANTS TypeOK CleanChannel ConnectedHaveSlot CountRight
PROPERTIES RequestAttributed ChannelReleased DeadAreCleared
CHECK_DEADLOCK FALSE
