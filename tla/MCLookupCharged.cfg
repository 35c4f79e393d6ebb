SPECIFICATION Spec
CONSTANTS
    NChunks = 2
    MaxSlot = 4
    MaxSubs = 8
    MaxFaults = 3
INVARIANTS
    ChargedOnce
CHECK_DEADLOCK FALSE
