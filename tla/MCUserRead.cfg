SPECIFICATION Spec
CONSTANTS
    Files = {f1, f2}
    Threads = {t1, t2}
    Capacity = 2
INVARIANTS
    TypeOK
    OneReader
    NoLostWakeup
    NoSleepOffline
PROPERTY
    BlockedThreadReturns
