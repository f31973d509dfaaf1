SPECIFICATION Spec
CONSTANTS
    Prios = {0}
    Reliable = {0}
    Capacity = 2
    Kinds = {"PING"}
    StopControl = TRUE
    MaxSent = 2
INVARIANT
    QuietAfterOff
CHECK_DEADLOCK FALSE
