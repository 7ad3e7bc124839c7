\* Three pids for up to four children, three slots to start with.
CONSTANTS
    Pids = {p1, p2, p3}
    NoPid = NoPid
    Junk = Junk
    MAX_CHILDREN = 3
    MaxFiles = 2
    Sizes = {3}
    MaxForks = 4
SPECIFICATION FairSpec
INVARIANTS TypeOK SlotsAccounted ChildrenKnown
PROPERTY ZombiesReaped
