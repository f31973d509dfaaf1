SPECIFICATION Spec
CONSTANTS
    Capacity = 5
    Reliables = {TRUE, FALSE}
    SeqMod = 4
    ValueMod = 8
    Windows = {2, 3, 5, 6}
    Base = 1
    MaxWrites = 8
INVARIANTS
    TypeOK
    NoReplyDropped
    PongsMatchSlots
    AnsweredRunSucceeds
PROPERTY
    BenchEnds
CHECK_DEADLOCK FALSE
