CONSTANTS
    Arms = 2
    Shared = {1}
    Capacity = 2
    MaxValues = 3
SPECIFICATION Spec
INVARIANTS ValueOnce UnsharedNeverBlocks
PROPERTIES SelectEnds
CHECK_DEADLOCK FALSE
