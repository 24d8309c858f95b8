CONSTANTS
    Workers = {w1, w2}
    Tasks = {t1, t2}
    Main = Main
    Ext = Ext
    Nobody = Nobody
SPECIFICATION Spec
INVARIANTS QueuedAtMostOnce NoLostTask NoLostIdleNotify
PROPERTIES ImplementsTaskPool ShutdownEnds
CHECK_DEADLOCK FALSE
