SPECIFICATION Spec
CONSTANTS
    Prios = {0}
    Capacity = 1
    ImageSize = 1
    GenWrap = 2
    MaxSeq = 3
    StopReplies = {"STOP_READY", "STOP_REFUSED"}
    MaxOpen = 1
PROPERTY
    StopStartsDrained
