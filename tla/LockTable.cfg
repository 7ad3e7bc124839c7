CONSTANTS
    Files = {f1, f2, f3, f4}
    NotSet = notset
    Slots = 4
    MaxCalls = 6
SPECIFICATION Spec
SYMMETRY Symmetry
INVARIANTS TypeOK TableSound TableExact
