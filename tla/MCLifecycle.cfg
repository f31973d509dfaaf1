SPECIFICATION Spec
CONSTANTS
    Prios = {0, 1}
    Capacity = 2
    ImageSize = 1
    GenWrap = 3
    MaxSeq = 3
    StopReplies = {"STOP_READY", "STOP_REFUSED"}
    MaxOpen = 1
PROPERTIES
    OperationEnds
    OffIsNoticed
    TimeoutIsFinal
    NoEarlyTimeout
    RefusalKeepsCpu3
INVARIANTS
    TypeOK
    OpenFilesKeepSession
    OperationHasTimeout
    MonitoredIsSampled
    SessionAgreement
    StopReadyIsTrue
