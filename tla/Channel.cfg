CONSTANTS
    Tasks = {t1, t2}
    Threads = {h1}
    Capacity = 0
    MaxValues = 2
    Handles = {d1, d2}
    Nobody = Nobody
    MaxSpurious = 1
SPECIFICATION Spec
INVARIANTS NoLostWakeup EnqueuedOnce SendersCounted EndIsFinal
PROPERTIES ImplementsFifo
CHECK_DEADLOCK FALSE
