SPECIFICATION Spec
CONSTANTS
    Prios = {0, 1}
    Reliable = {0}
    Capacity = 1
    Kinds = {"PING", "BAD", "LONG_STOP"}
    StopControl = TRUE
    MaxSent = 3
INVARIANTS
    TypeOK
    PendingHasWakeup
    OneCriticalProducer
    ReadyComesFirst
PROPERTY
    RungIsKept
CHECK_DEADLOCK FALSE
