SPECIFICATION Spec
CONSTANTS
    Capacity = 2
    Reliables = {TRUE}
    SeqMod = 3
    ValueMod = 3
    Agents = {a1}
    Inputs = {1, 2}
    ClientInputs = {2}
    MaxRuns = 2
INVARIANT
    SuccessIsOwn
CHECK_DEADLOCK FALSE
