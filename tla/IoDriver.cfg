CONSTANTS
    Tasks = {t1}
    Threads = {h1}
    Fds = {f1}
    MaxTime = 1
    MaxKeys = 2
    MaxSleeps = 2
    MaxSpurious = 1
SPECIFICATION Spec
INVARIANTS NoLostWakeup
PROPERTIES NoEarlyReturn SleepEnds
CHECK_DEADLOCK FALSE
