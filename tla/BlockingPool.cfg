CONSTANTS
    Jobs = {j1, j2, j3}
    Submitters = {s1, s2}
    Workers = {w1, w2, w3}
SPECIFICATION Spec
INVARIANTS NoStrandedJob
PROPERTIES ImplementsJobPool
CHECK_DEADLOCK FALSE
