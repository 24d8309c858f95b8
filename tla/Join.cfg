CONSTANTS
    Tasks = {t1, t2}
    Threads = {h1}
    MaxSpurious = 2
SPECIFICATION Spec
INVARIANTS NoLostJoinWakeup DeliveredOnce
PROPERTIES ImplementsOneShot
CHECK_DEADLOCK FALSE
