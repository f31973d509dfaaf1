SPECIFICATION Spec
CONSTANTS
    Capacity = 2
    Reliables = {TRUE}
    SeqMod = 3
    ValueMod = 3
    Agents = {a1, a2}
    Inputs = {1, 2}
    ClientInputs = {2}
    MaxRuns = 3
INVARIANTS
    TypeOK
    QuietRunIsSound
PROPERTY
    RunEnds
CHECK_DEADLOCK FALSE
