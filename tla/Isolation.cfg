CONSTANTS
    Workers = {w1, w2}
    Tasks = {t1, t2}
    Nobody = Nobody
    Generators = {1, 2}
SPECIFICATION Spec
INVARIANTS LocalsMatch 
PROPERTIES PanicEndsTask
CHECK_DEADLOCK FALSE
