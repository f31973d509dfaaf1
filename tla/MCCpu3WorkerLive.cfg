SPECIFICATION Spec
CONSTANTS
    Prios = {0}
    Reliable = {0}
    Capacity = 2
    Kinds = {"PING", "BAD"}
    StopControl = FALSE
    MaxSent = 3
PROPERTY
    RungFramesDrained
CHECK_DEADLOCK FALSE
