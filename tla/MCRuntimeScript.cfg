SPECIFICATION ScriptSpec
CONSTANTS
    Prios = {0}
    Capacity = 1
    ImageSize = 2
    GenWrap = 2
    MaxSeq = 2
    StopReplies = {"STOP_READY", "STOP_REFUSED"}
    MaxOpen = 1
    Runs = {r1, r2}
    MaxKills = 1
INVARIANTS
    OwnImageStarted
    UploadsWhileOff
    NoLeftoverImage
CHECK_DEADLOCK FALSE
