SPECIFICATION Spec
CONSTANTS
    Slots = 3
    SeqNums = {0, 1}
    Bodies = {b1, b2}
    ZeroBody = b1
INVARIANTS
    TypeOK
    NoSlotRace
    LiveSlotsCommitted
PROPERTY
    ImplementsQueue
